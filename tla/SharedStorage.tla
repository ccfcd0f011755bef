----------------------------- MODULE SharedStorage -----------------------------
(***************************************************************************)
(* SharedStorageConnector: engines that keep the KV entries of prompts in  *)
(* a directory they share.  The scheduler side looks whether the folder of *)
(* a prompt exists and counts its tokens as computed; the worker side      *)
(* later reads or writes one file per layer.  The folder appears with the  *)
(* first file, the directory outlives the engines, and nothing locks it.   *)
(*                                                                         *)
(* A KV entry is the sequence of tokens it was computed from.  The hash in *)
(* a folder's name is taken to be injective, so a folder is named by its   *)
(* tokens.  The scheduler runs one request per batch, as a whole (no       *)
(* chunks, no local prefix cache); the two looks at the directory within   *)
(* one schedule() are one.  An exception ends its engine, and the clients  *)
(* of an engine that ended submit their requests again.                    *)
(***************************************************************************)
EXTENDS Integers, Sequences, FiniteSets, SequencesExt

CONSTANTS
  Engines, Reqs,
  EngineOf,      \* EngineOf[r]: the engine r is sent to
  Prompt,        \* Prompt[r]: its tokens
  After,         \* After[r]: requests the client waits for before it sends r
  MaxOutput,     \* tokens generated for a request
  NewToken,      \* the token that is generated
  NumLayers, BlockSize, NumBlocks,
  MaxMishaps     \* bound: preemptions and crashes

Layers == 1..NumLayers
Slots == 0..(NumBlocks * BlockSize - 1)
\* Entries that are no token's: never written, and computed from wrong ones.
NoKv == <<0>>
Bad == <<-1>>

ASSUME StorageAssumption ==
  /\ BlockSize \in Nat \ {0} /\ NumLayers \in Nat \ {0} /\ NumBlocks \in Nat
  /\ EngineOf \in [Reqs -> Engines] /\ After \in [Reqs -> SUBSET Reqs]
  \* tokens are numbered from 1, as 0 and -1 mark entries
  /\ Prompt \in [Reqs -> Seq(Nat \ {0})] /\ NewToken \in Nat \ {0}
  /\ MaxOutput \in Nat \ {0} /\ MaxMishaps \in Nat
  \* for a prompt of one token align_to_block_size(0) is negative
  /\ \A r \in Reqs : Len(Prompt[r]) > 1

VARIABLES
  status,     \* status[r]: "unsent", "waiting", "running", "preempted" or "done"
  output,     \* output[r]: tokens generated
  computed,   \* computed[r]: num_computed_tokens
  blocks,     \* blocks[r]: its block ids
  alive,      \* engines that run
  todo,       \* todo[e]: what the worker has left to do in this step, in order
  row,        \* row[e]: the row of this step
  kv,         \* kv[e][layer][slot]
  folders,    \* folders that exist
  files,      \* files: function from [key, layer] to the entries in the file
  mishaps     \* preemptions and crashes so far

sched == <<status, output, computed, blocks>>
worker == <<alive, todo, row, kv>>
storage == <<folders, files>>
vars == <<sched, worker, storage, mishaps>>

(***************************************************************************)
(* Names of folders.                                                       *)
(***************************************************************************)
\* align_to_block_size
Align(n) == ((n - 1) \div BlockSize) * BlockSize

NumTokensToCheck(prompt) == Align(Len(prompt) - 1)

\* _found_match_for_prompt
Found(prompt) == SubSeq(prompt, 1, NumTokensToCheck(prompt)) \in folders

\* The slot of the i-th token: the worker's block table.
SlotOf(bs, i) == bs[(i - 1) \div BlockSize + 1] * BlockSize + ((i - 1) % BlockSize)

\* Mutant: blocks taken from the first id on.
SlotMappingContiguous(bs, n) == [i \in 1..n |-> bs[1] * BlockSize + i - 1]

\* slot_mapping of the first n tokens
SlotMapping(bs, n) == [i \in 1..n |-> SlotOf(bs, i)]

\* ReqMeta.make_meta
MakeMeta(tokens, bs) ==
  [key |-> SubSeq(tokens, 1, Align(Len(tokens))), slots |-> SlotMapping(bs, Align(Len(tokens)))]

(***************************************************************************)
(* The scheduler.                                                          *)
(***************************************************************************)
AllTokens(r) == Prompt[r] \o [i \in 1..output[r] |-> NewToken]
Idle(e) == e \in alive /\ row[e] = <<>>
FreeBlocks(e) ==
  (0..(NumBlocks - 1)) \ UNION {ToSet(blocks[r]) : r \in {q \in Reqs : EngineOf[q] = e}}
NumBlocksFor(n) == (n + BlockSize - 1) \div BlockSize
Allocations(e, n) ==
  {bs \in [1..n -> FreeBlocks(e)] : \A i, j \in 1..n : bs[i] = bs[j] => i = j}

Submit(r) ==
  /\ status[r] = "unsent" /\ \A q \in After[r] : status[q] = "done"
  /\ status' = [status EXCEPT ![r] = "waiting"]
  /\ UNCHANGED <<output, computed, blocks, worker, storage, mishaps>>

\* get_num_new_matched_tokens, with nothing computed locally
NumExternal(r) == IF Found(Prompt[r]) THEN NumTokensToCheck(Prompt[r]) ELSE 0

\* Mutant: only new requests are looked for in _requests_need_load.
LoadsNewOnly(r, bs) ==
  IF NumExternal(r) > 0 /\ status[r] = "waiting" THEN <<MakeMeta(Prompt[r], bs)>> ELSE <<>>

\* build_connector_meta: what is loaded, and what is stored.
Loads(r, bs) ==
  IF NumExternal(r) <= 0 THEN <<>>
  ELSE <<MakeMeta(IF status[r] = "waiting" THEN Prompt[r] ELSE AllTokens(r), bs)>>
Stores(r, bs) ==
  IF status[r] = "waiting" /\ NumExternal(r) <= 0 /\ ~Found(Prompt[r])
  THEN <<MakeMeta(Prompt[r], bs)>> ELSE <<>>

Load(m, layer) == [op |-> "load", meta |-> m, layer |-> layer]
Attend(layer, stores) == [op |-> "attend", layer |-> layer, stores |-> stores]

\* A waiting or preempted request is scheduled up to its last token.
Admit(r, bs) ==
  LET e == EngineOf[r]
      n == Len(AllTokens(r))
  IN /\ Idle(e) /\ status[r] \in {"waiting", "preempted"}
     /\ bs \in Allocations(e, NumBlocksFor(n))
     /\ row' = [row EXCEPT ![e] = <<[req |-> r, from |-> NumExternal(r) + 1, to |-> n]>>]
     /\ todo' = [todo EXCEPT ![e] =
                   FlattenSeq([i \in 1..Len(Loads(r, bs)) |->
                     [l \in Layers |-> Load(Loads(r, bs)[i], l)]])
                   \o [l \in Layers |-> Attend(l, Stores(r, bs))]]
     /\ blocks' = [blocks EXCEPT ![r] = bs]
     /\ computed' = [computed EXCEPT ![r] = n]
     /\ status' = [status EXCEPT ![r] = "running"]
     /\ UNCHANGED <<output, alive, kv, storage, mishaps>>

\* A running request is scheduled for its next token.
Decode(r, bs) ==
  LET e == EngineOf[r]
      n == Len(AllTokens(r))
  IN /\ Idle(e) /\ status[r] = "running"
     /\ bs \in Allocations(e, NumBlocksFor(n) - Len(blocks[r]))
     /\ row' = [row EXCEPT ![e] = <<[req |-> r, from |-> computed[r] + 1, to |-> n]>>]
     /\ todo' = [todo EXCEPT ![e] = [l \in Layers |-> Attend(l, <<>>)]]
     /\ blocks' = [blocks EXCEPT ![r] = @ \o bs]
     /\ computed' = [computed EXCEPT ![r] = n]
     /\ UNCHANGED <<status, output, alive, kv, storage, mishaps>>

Preempt(r) ==
  /\ Idle(EngineOf[r]) /\ status[r] = "running" /\ mishaps < MaxMishaps
  /\ status' = [status EXCEPT ![r] = "preempted"]
  /\ computed' = [computed EXCEPT ![r] = 0]
  /\ blocks' = [blocks EXCEPT ![r] = <<>>]
  /\ mishaps' = mishaps + 1
  /\ UNCHANGED <<output, worker, storage>>

\* update_from_output
Output(e) ==
  /\ e \in alive /\ row[e] # <<>> /\ todo[e] = <<>>
  /\ LET r == row[e][1].req
         last == output[r] + 1 = MaxOutput
     IN /\ output' = [output EXCEPT ![r] = @ + 1]
        /\ status' = [status EXCEPT ![r] = IF last THEN "done" ELSE @]
        /\ blocks' = [blocks EXCEPT ![r] = IF last THEN <<>> ELSE @]
  /\ row' = [row EXCEPT ![e] = <<>>]
  /\ UNCHANGED <<computed, alive, todo, kv, storage, mishaps>>

(***************************************************************************)
(* The worker.                                                             *)
(***************************************************************************)
NoKvs == [l \in Layers |-> [s \in Slots |-> NoKv]]
File(key, layer) == [key |-> key, layer |-> layer]

\* inject_kv_into_layer
Injected(cache, slots, entries) ==
  [s \in Slots |-> IF \E i \in DOMAIN slots : slots[i] = s
                   THEN entries[CHOOSE i \in DOMAIN slots : slots[i] = s] ELSE cache[s]]

\* start_load_kv, one file.  Its name is made with create_folder=True.
LoadFile(e) ==
  /\ e \in alive /\ todo[e] # <<>> /\ Head(todo[e]).op = "load"
  /\ LET op == Head(todo[e])
         f == File(op.meta.key, op.layer)
     IN /\ f \in DOMAIN files
        /\ kv' = [kv EXCEPT ![e][op.layer] = Injected(@, op.meta.slots, files[f])]
        /\ folders' = folders \cup {op.meta.key}
  /\ todo' = [todo EXCEPT ![e] = Tail(@)]
  /\ UNCHANGED <<sched, alive, row, files, mishaps>>

\* The engine ends: its requests are sent again.
Ended(e) ==
  /\ alive' = alive \ {e}
  /\ row' = [row EXCEPT ![e] = <<>>] /\ todo' = [todo EXCEPT ![e] = <<>>]
  /\ kv' = [kv EXCEPT ![e] = NoKvs]
  /\ LET lost == {r \in Reqs : EngineOf[r] = e /\ status[r] \notin {"unsent", "done"}}
     IN /\ status' = [r \in Reqs |-> IF r \in lost THEN "unsent" ELSE status[r]]
        /\ output' = [r \in Reqs |-> IF r \in lost THEN 0 ELSE output[r]]
        /\ computed' = [r \in Reqs |-> IF r \in lost THEN 0 ELSE computed[r]]
        /\ blocks' = [r \in Reqs |-> IF r \in lost THEN <<>> ELSE blocks[r]]

\* load_file raises, after the folder was created.
LoadFails(e) ==
  /\ e \in alive /\ todo[e] # <<>> /\ Head(todo[e]).op = "load"
  /\ File(Head(todo[e]).meta.key, Head(todo[e]).layer) \notin DOMAIN files
  /\ folders' = folders \cup {Head(todo[e]).meta.key}
  /\ Ended(e)
  /\ UNCHANGED <<files, mishaps>>

\* The entries attention computes for a row: right if what it attends to is.
Computed(r, x, cache) ==
  LET slot == [i \in 1..x.to |-> SlotOf(blocks[r], i)]
      right == \A p \in 1..(x.from - 1) : cache[slot[p]] = SubSeq(AllTokens(r), 1, p)
  IN Injected(cache, SubSeq(slot, x.from, x.to),
              [i \in 1..(x.to - x.from + 1) |->
                 IF right THEN SubSeq(AllTokens(r), 1, x.from + i - 1) ELSE Bad])

\* One attention layer, then save_kv_layer for it.
AttendLayer(e) ==
  /\ e \in alive /\ todo[e] # <<>> /\ Head(todo[e]).op = "attend"
  /\ LET op == Head(todo[e])
         cache == Computed(row[e][1].req, row[e][1], kv[e][op.layer])
         saved == {op.stores[i] : i \in DOMAIN op.stores}
         new == {File(m.key, op.layer) : m \in saved}
     IN /\ kv' = [kv EXCEPT ![e][op.layer] = cache]
        /\ folders' = folders \cup {m.key : m \in saved}
        /\ files' = [f \in DOMAIN files \cup new |->
                       IF f \in new
                       THEN LET m == CHOOSE m \in saved : m.key = f.key
                            IN [i \in DOMAIN m.slots |-> cache[m.slots[i]]]
                       ELSE files[f]]
  /\ todo' = [todo EXCEPT ![e] = Tail(@)]
  /\ UNCHANGED <<sched, alive, row, mishaps>>

Crash(e) ==
  /\ e \in alive /\ mishaps < MaxMishaps
  /\ mishaps' = mishaps + 1
  /\ Ended(e)
  /\ UNCHANGED storage

Restart(e) ==
  /\ e \notin alive
  /\ alive' = alive \cup {e}
  /\ UNCHANGED <<sched, todo, row, kv, storage, mishaps>>

Init ==
  /\ status = [r \in Reqs |-> "unsent"] /\ output = [r \in Reqs |-> 0]
  /\ computed = [r \in Reqs |-> 0] /\ blocks = [r \in Reqs |-> <<>>]
  /\ alive = Engines /\ todo = [e \in Engines |-> <<>>] /\ row = [e \in Engines |-> <<>>]
  /\ kv = [e \in Engines |-> NoKvs]
  /\ folders = {} /\ files = [f \in {} |-> <<>>] /\ mishaps = 0

AdmitAny(r) == \E bs \in Allocations(EngineOf[r], NumBlocksFor(Len(AllTokens(r)))) : Admit(r, bs)
DecodeAny(r) ==
  status[r] = "running" /\
  \E bs \in Allocations(EngineOf[r], NumBlocksFor(Len(AllTokens(r))) - Len(blocks[r])) :
    Decode(r, bs)

Next ==
  \/ \E r \in Reqs : Submit(r) \/ AdmitAny(r) \/ DecodeAny(r) \/ Preempt(r)
  \/ \E e \in Engines : \/ Output(e) \/ LoadFile(e) \/ LoadFails(e) \/ AttendLayer(e)
                        \/ Crash(e) \/ Restart(e)

Spec == Init /\ [][Next]_vars

--------------------------------------------------------------------------------
\* Types of the variables; every scheduled row has a token to compute.
TypeOK ==
  /\ status \in [Reqs -> {"unsent", "waiting", "running", "preempted", "done"}]
  /\ output \in [Reqs -> 0..MaxOutput] /\ computed \in [Reqs -> Nat] /\ mishaps \in 0..MaxMishaps
  /\ alive \subseteq Engines /\ DOMAIN todo = Engines /\ DOMAIN kv = Engines
  /\ \A e \in Engines : \A i \in DOMAIN row[e] : row[e][i].from \in 1..row[e][i].to

\* A file holds, for its layer, the entry of every token its folder is named after:
\* a store is never taken from a slot that holds anything else, whichever engine
\* writes, reads, crashes or starts again meanwhile.
StoredIsRight ==
  \A f \in DOMAIN files :
    files[f] = [p \in 1..Len(f.key) |-> SubSeq(f.key, 1, p)]

\* After the forward pass of a step an engine has, in every layer, the right entry for every token
\* it counts as computed: those counted because a folder exists were loaded or the
\* engine ended, also when the request was preempted and came back in other blocks.
ComputedIsRight ==
  \A r \in Reqs : LET e == EngineOf[r] IN
    (status[r] = "running" /\ todo[e] = <<>>) =>
      \A l \in Layers : \A p \in 1..computed[r] :
        kv[e][l][SlotOf(blocks[r], p)] = SubSeq(AllTokens(r), 1, p)

\* A load finds its file: the folder that is looked for when the tokens are counted
\* is the one the files are read from.
LoadsFindFiles ==
  \A e \in Engines :
    todo[e] # <<>> /\ Head(todo[e]).op = "load" =>
      File(Head(todo[e]).meta.key, Head(todo[e]).layer) \in DOMAIN files
================================================================================
