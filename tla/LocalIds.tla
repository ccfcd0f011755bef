-------------------------------- MODULE LocalIds --------------------------------
(***************************************************************************)
(* DeviceAwareLocalIdMapper: where the recurrent state of a linear         *)
(* attention layer lives.  The scheduler knows a request by its first      *)
(* block; the device keeps only BatchSize states, and the metadata builder *)
(* maps blocks to states, evicting the least recently used block when all  *)
(* are taken.  Nobody tells it which requests are alive.  A forward pass   *)
(* starts the states of new rows and continues those of the others, so a   *)
(* request evicted between two of its rows goes on from a foreign state.   *)
(*                                                                         *)
(* The scheduler is reduced to its batches, and runs up to Depth batches   *)
(* ahead of the worker.  A request that is preempted gives up its block    *)
(* and starts again from nothing, so here it comes back as a new one.      *)
(***************************************************************************)
EXTENDS Naturals, Sequences, FiniteSets, RequestQueue

CONSTANTS
  Reqs,            \* requests, each alive once
  Blocks,          \* first blocks a request may get
  MaxNumSeqs,      \* max_num_seqs
  BatchSize,       \* mamba_support_max_batch_size
  PadsBatches,     \* use_full_cuda_graph: decode batches are padded
  Unchunked,       \* the unchunked scheduler: new requests run in a batch of their own
  PassesOver,      \* the chunked one passes over running requests that go on later:
                   \* pipeline stages, encoder inputs, or drafts scheduled ahead
  Depth,           \* batch_queue_size
  Pad, NoReq, NoId \* PAD_SLOT_ID, no request, the -1 of a miss

Gids == Blocks \cup {Pad}
Locals == 0 .. (BatchSize - 1)

ASSUME LocalIdsAssumption ==
  /\ IsFiniteSet(Reqs) /\ BatchSize \in Nat \ {0} /\ MaxNumSeqs \in Nat /\ Depth \in Nat
  /\ Pad \notin Blocks /\ NoReq \notin Reqs /\ NoId \notin Locals /\ NoId \notin Gids

VARIABLES
  block,       \* block[r]: first block of r while it is alive, or NoId
  waiting,     \* requests not yet admitted
  spent,       \* running requests scheduled up to max_model_len, which await their end
  queue,       \* batches the worker has not started
  pc,          \* "idle", "hits", "misses" or "forward"
  rows,        \* rows of the current batch
  ids,         \* local_ids_cpu, as far as it is filled
  misses,      \* unique_miss_set, what is left of it
  newMap,      \* new_mappings, NoId for other keys
  lru,         \* keys of global_to_local, least recently used first
  local,       \* its values, NoId for other keys
  owner,       \* local_to_global, NoId for free states
  available,   \* available_local_ids
  state        \* state[l]: the request whose recurrent state lies in l, or NoReq

sched == <<block, waiting, spent, queue>>
mapper == <<lru, local, owner, available>>
lookup == <<pc, rows, ids, misses, newMap>>
vars == <<sched, mapper, lookup, state>>

Row == [gid : Gids, req : Reqs \cup {NoReq}, fresh : BOOLEAN]
PadRow == [gid |-> Pad, req |-> NoReq, fresh |-> FALSE]

Running == {r \in Reqs : block[r] # NoId}

Init ==
  /\ block = [r \in Reqs |-> NoId] /\ waiting = Reqs /\ spent = {} /\ queue = <<>>
  /\ pc = "idle" /\ rows = <<>> /\ ids = <<>> /\ misses = {}
  /\ newMap = [g \in Gids |-> NoId]
  /\ lru = <<>> /\ local = [g \in Gids |-> NoId] /\ owner = [l \in Locals |-> NoId]
  /\ available = [i \in 1 .. BatchSize |-> i - 1]
  /\ state = [l \in Locals |-> NoReq]

(***************************************************************************)
(* The scheduler.                                                          *)
(***************************************************************************)
\* Mutant: new requests run alone here too.
BatchOfApart(new, old) == (new # {}) => (old = {})

\* Which running requests share a batch with new ones.  The chunked scheduler admits
\* only while its budget reaches every running request, and then leaves out those
\* without new tokens: that is for good when they are scheduled up to the model's
\* length, and for a while where PassesOver.
BatchOf(new, old) ==
  /\ Unchunked /\ new # {} => old = {}
  /\ ~Unchunked /\ ~PassesOver =>
       old \cap spent = {} /\ (new # {} => old = Running \ spent)

\* ends: the requests that this batch schedules up to max_model_len.
Schedule(new, old, ends, b, order) ==
  /\ Len(queue) < Depth
  /\ BatchOf(new, old) /\ Cardinality(Running \cup new) <= MaxNumSeqs
  /\ \A r \in new : b[r] \notin {block[q] : q \in Running}
  /\ \A r, q \in new : b[r] = b[q] => r = q
  /\ block' = [r \in Reqs |-> IF r \in new THEN b[r] ELSE block[r]]
  /\ waiting' = waiting \ new /\ spent' = spent \cup ends
  /\ LET batch == [i \in DOMAIN order |->
                     [gid |-> block'[order[i]], req |-> order[i], fresh |-> order[i] \in new]]
     IN \/ queue' = Append(queue, batch)
        \/ PadsBatches /\ new = {} /\ queue' = Append(queue, Append(batch, PadRow))
  /\ UNCHANGED <<mapper, lookup, state>>

\* All orders of a set of requests.
Orders(S) == {s \in [1 .. Cardinality(S) -> S] : \A i, j \in DOMAIN s : s[i] = s[j] => i = j}

ScheduleAny ==
  \E new \in SUBSET waiting, old \in SUBSET Running :
    /\ new \cup old # {}
    /\ \E ends \in SUBSET (new \cup old), b \in [new -> Blocks], order \in Orders(new \cup old) :
         Schedule(new, old, ends, b, order)

\* r stops, is aborted or is preempted: its blocks are free again.
Leave(r) ==
  /\ r \in Running
  /\ block' = [block EXCEPT ![r] = NoId] /\ spent' = spent \ {r}
  /\ UNCHANGED <<waiting, queue, mapper, lookup, state>>

(***************************************************************************)
(* batch_get_local_ids.                                                    *)
(***************************************************************************)
Begin ==
  /\ pc = "idle" /\ queue # <<>>
  /\ rows' = Head(queue) /\ queue' = Tail(queue)
  /\ ids' = <<>> /\ pc' = "hits"
  /\ UNCHANGED <<block, waiting, spent, misses, newMap, mapper, state>>

\* Mutant: a hit does not count as a use.
TouchedNot(gid) == lru

\* move_to_end
Touched(gid) == Append(Without(lru, gid), gid)

\* Pass 1: the next row.
Lookup ==
  /\ pc = "hits" /\ Len(ids) < Len(rows)
  /\ LET gid == rows[Len(ids) + 1].gid
     IN /\ ids' = Append(ids, local[gid])
        /\ lru' = IF local[gid] # NoId THEN Touched(gid) ELSE lru
        /\ misses' = IF local[gid] # NoId THEN misses ELSE misses \cup {gid}
  /\ UNCHANGED <<sched, pc, rows, newMap, local, owner, available, state>>

EndLookup ==
  /\ pc = "hits" /\ Len(ids) = Len(rows)
  /\ pc' = "misses"
  /\ UNCHANGED <<sched, rows, ids, misses, newMap, mapper, state>>

\* Mutant: the evicted block keeps its entry.
ForgottenNot(old) == local

\* global_to_local without the evicted block.
Forgotten(old) == [local EXCEPT ![old] = NoId]

\* Pass 2: a state for gid, while there are free ones.
Assign(gid) ==
  /\ pc = "misses" /\ gid \in misses /\ Len(lru) < BatchSize
  /\ local' = [local EXCEPT ![gid] = Head(available)]
  /\ owner' = [owner EXCEPT ![Head(available)] = gid]
  /\ available' = Tail(available)
  /\ lru' = Append(lru, gid)
  /\ newMap' = [newMap EXCEPT ![gid] = Head(available)]
  /\ misses' = misses \ {gid}
  /\ UNCHANGED <<sched, pc, rows, ids, state>>

\* Pass 2: popitem(last=False), then the freed state, which is the only one.
EvictAndAssign(gid) ==
  /\ pc = "misses" /\ gid \in misses /\ Len(lru) >= BatchSize
  /\ LET old == Head(lru)
         freed == Append(available, local[old])
         new == Head(freed)
     IN /\ local' = [Forgotten(old) EXCEPT ![gid] = new]
        /\ owner' = [[owner EXCEPT ![local[old]] = NoId] EXCEPT ![new] = gid]
        /\ available' = Tail(freed)
        /\ newMap' = [newMap EXCEPT ![gid] = new]
  /\ lru' = Append(Tail(lru), gid)
  /\ misses' = misses \ {gid}
  /\ UNCHANGED <<sched, pc, rows, ids, state>>

\* What pass 3 makes of row i: a row that hit keeps what pass 1 found.
Filled(i) == IF ids[i] # NoId THEN ids[i] ELSE newMap[rows[i].gid]

\* Pass 3: the rows that missed.
Fill ==
  /\ pc = "misses" /\ misses = {}
  /\ ids' = [i \in DOMAIN rows |-> Filled(i)]
  /\ pc' = "forward" /\ newMap' = [g \in Gids |-> NoId]
  /\ UNCHANGED <<sched, rows, misses, mapper, state>>

\* The layers write the state of every row (has_initial_state is FALSE for new ones).
Forward ==
  /\ pc = "forward"
  /\ state' = [l \in Locals |-> IF \E i \in DOMAIN rows : ids[i] = l
                                THEN rows[CHOOSE i \in DOMAIN rows : ids[i] = l].req
                                ELSE state[l]]
  /\ pc' = "idle" /\ rows' = <<>> /\ ids' = <<>>
  /\ UNCHANGED <<sched, misses, newMap, mapper>>

Next ==
  \/ ScheduleAny
  \/ \E r \in Reqs : Leave(r)
  \/ Begin \/ Lookup \/ EndLookup \/ Fill \/ Forward
  \/ \E gid \in Gids : Assign(gid) \/ EvictAndAssign(gid)

Spec == Init /\ [][Next]_vars

--------------------------------------------------------------------------------
\* Types of the variables; after the lookup every row has a state.
TypeOK ==
  /\ block \in [Reqs -> Blocks \cup {NoId}] /\ waiting \subseteq Reqs
  /\ spent \subseteq Reqs
  /\ queue \in Seq(Seq(Row)) /\ rows \in Seq(Row) /\ ids \in Seq(Locals \cup {NoId})
  /\ pc \in {"idle", "hits", "misses", "forward"} /\ misses \subseteq Gids
  /\ newMap \in [Gids -> Locals \cup {NoId}]
  /\ lru \in Seq(Gids) /\ available \in Seq(Locals)
  /\ local \in [Gids -> Locals \cup {NoId}] /\ owner \in [Locals -> Gids \cup {NoId}]
  /\ state \in [Locals -> Reqs \cup {NoReq}]
  /\ pc = "forward" => ids \in Seq(Locals) /\ Len(ids) = Len(rows)

\* The four tables of the mapper agree after every single change: the two maps are
\* inverse to each other, the order lists the mapped blocks once each, and the free
\* states are the others, so that popleft() always finds one.
TablesAgree ==
  /\ NoRepeats(lru) /\ Elems(lru) = {g \in Gids : local[g] # NoId}
  /\ \A g \in Gids : local[g] # NoId => owner[local[g]] = g
  /\ \A l \in Locals : owner[l] # NoId => local[owner[l]] = l
  /\ NoRepeats(available) /\ Elems(available) = {l \in Locals : owner[l] = NoId}
  /\ Len(lru) + Len(available) = BatchSize

\* Rows of different blocks never share a state: the eviction of pass 2 hits none of
\* the blocks of the batch, neither those found in pass 1 nor those just added.
RowsApart ==
  pc = "forward" =>
    \A i, j \in DOMAIN rows : ids[i] = ids[j] => rows[i].gid = rows[j].gid

\* A row that continues a request finds the state that the request's last row left,
\* whatever was admitted, finished, padded and evicted in between.
OwnState ==
  pc = "forward" =>
    \A i \in DOMAIN rows :
      rows[i].req # NoReq /\ ~rows[i].fresh => state[ids[i]] = rows[i].req
================================================================================
