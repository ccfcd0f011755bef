---------------------------- MODULE CnMemAllocator ----------------------------
(***************************************************************************)
(* Sleep mode.  CnMemAllocator keeps a table of the device memory that was *)
(* allocated inside its pools, tagged "weights" or "kv_cache".  sleep      *)
(* unmaps all of it, after copying what it is told to keep to the host;    *)
(* wake_up maps it again, tag by tag if asked, and copies back.  The       *)
(* worker adds the model's buffers, which a level 2 sleep keeps apart, and *)
(* the executor remembers which tags are asleep.                           *)
(*                                                                         *)
(* Memory is either as the program last left it ("good") or lost ("bad").  *)
(***************************************************************************)
EXTENDS Naturals, FiniteSets

CONSTANTS
  Ptrs,        \* device addresses the driver may reserve
  NoEntry,     \* "not a key of pointer_to_data"
  MaxHandles   \* bound: physical allocations ever made for one address

VARIABLES
  table,      \* pointer_to_data
  reserved,   \* addresses reserved with the driver
  mapped,     \* addresses that have memory behind them
  handles,    \* physical allocations of an address, not released
  content,    \* what the memory holds
  stage,      \* how far the worker has come
  saved,      \* _sleep_saved_buffers
  sleeping,   \* sleeping_tags of the executor
  discarded,  \* history: weights were given up, and not loaded again
  fault       \* unmapped memory was written: the worker is dead

driverVars == <<reserved, mapped, handles, content>>
vars == <<table, driverVars, stage, saved, sleeping, discarded, fault>>

Tags == {"weights", "kv_cache"}
Contents == {"good", "bad"}
Copies == Contents \cup {"none"}
Kinds == {"param", "buffer", "kv"}
Entries == [tag : Tags, kind : Kinds, used : BOOLEAN, backup : Copies]

ASSUME AllocatorAssumption ==
  /\ MaxHandles \in Nat \ {0}
  /\ NoEntry \notin Entries

Keys == {p \in Ptrs : table[p] # NoEntry}
Tagged(tags) == {p \in Keys : table[p].tag \in tags}
Buffers == {p \in Keys : table[p].kind = "buffer"}
Unused == {p \in Keys : ~table[p].used}

Init ==
  /\ table = [p \in Ptrs |-> NoEntry]
  /\ reserved = {} /\ mapped = {} /\ handles = [p \in Ptrs |-> 0]
  /\ content = [p \in Ptrs |-> "bad"]
  /\ stage = "start" /\ saved = [p \in Ptrs |-> "none"]
  /\ sleeping = {} /\ discarded = FALSE /\ fault = FALSE

-----------------------------------------------------------------------------
(* The driver calls of cnmem_allocator.cpp.  A failing call is reported and *)
(* ends the function, nothing else.                                         *)

\* create_and_map: mapping an address a second time fails, but only after
\* its handle was overwritten by that of a new physical allocation.
CreateAndMap(ps) ==
  /\ mapped' = mapped \cup ps
  /\ handles' = [p \in Ptrs |-> IF p \in ps THEN handles[p] + 1 ELSE handles[p]]

HandlesReleased(ps) ==
  [p \in Ptrs |-> IF p \in ps \cap mapped THEN handles[p] - 1 ELSE handles[p]]

\* unmap_and_release: what was never mapped is not released either.
UnmapAndRelease(ps) ==
  /\ mapped' = mapped \ ps
  /\ handles' = HandlesReleased(ps)

-----------------------------------------------------------------------------
(* Pools: the weights first, then the KV cache.                             *)

InPool == stage \in {"weights", "kv_cache"}

\* use_memory_pool(tag); the weights come first and must find no memory in
\* use ("Sleep mode can only be used for one instance per process").
BeginPool ==
  /\ \/ stage = "start" /\ Keys = {} /\ stage' = "weights"
     \/ stage = "loaded" /\ stage' = "kv_cache"
  /\ UNCHANGED <<table, driverVars, saved, sleeping, discarded, fault>>

\* my_malloc and its callback; stage is also current_tag.
Malloc(p) ==
  /\ InPool /\ p \notin reserved
  /\ \E kind \in IF stage = "weights" THEN {"param", "buffer"} ELSE {"kv"} :
       table' = [table EXCEPT ![p] =
                   [tag |-> stage, kind |-> kind, used |-> TRUE,
                    backup |-> "none"]]
  /\ reserved' = reserved \cup {p}
  /\ CreateAndMap({p})
  /\ content' = [content EXCEPT ![p] = "good"]
  /\ UNCHANGED <<stage, saved, sleeping, discarded, fault>>

\* A tensor is dropped while loading; torch keeps its memory in the pool.
DropTensor(p) ==
  /\ InPool /\ p \in Keys \ Unused
  /\ table' = [table EXCEPT ![p].used = FALSE]
  /\ UNCHANGED <<driverVars, stage, saved, sleeping, discarded, fault>>

\* The pool is left: memory without a tensor in it is given back, its
\* address stays reserved.
EndPool ==
  /\ InPool
  /\ table' = [p \in Ptrs |-> IF p \in Unused THEN NoEntry ELSE table[p]]
  /\ UnmapAndRelease(Unused)
  /\ content' = [p \in Ptrs |-> IF p \in Unused THEN "bad" ELSE content[p]]
  /\ stage' = IF stage = "weights" THEN "loaded" ELSE "ready"
  /\ UNCHANGED <<reserved, saved, sleeping, discarded, fault>>

\* my_free and its callback, whenever torch returns memory of a pool, asleep
\* or not.
Free(p) ==
  /\ stage = "ready" /\ ~fault /\ p \in Keys
  /\ table' = [table EXCEPT ![p] = NoEntry]
  /\ UnmapAndRelease({p})
  /\ content' = [content EXCEPT ![p] = "bad"]
  /\ saved' = [saved EXCEPT ![p] = "none"]
  /\ reserved' = reserved \ {p}
  /\ UNCHANGED <<stage, sleeping, discarded, fault>>

-----------------------------------------------------------------------------
(* Sleeping and waking up.                                                  *)

\* Mutant: level 1 is taken for the default, which offloads nothing that is here.
OffloadedNever(level) == {}

Offloaded(level) == IF level = 1 THEN Tagged({"weights"}) ELSE {}

\* Mutant: buffers are saved at the level that offloads them anyway.
BuffersSavedAtOne(level) ==
  [p \in Ptrs |-> IF level = 1 /\ p \in Buffers THEN content[p] ELSE saved[p]]

BuffersSaved(level) ==
  [p \in Ptrs |-> IF level = 2 /\ p \in Buffers THEN content[p] ELSE saved[p]]

\* Worker.sleep; the executor ignores the call while anything is asleep.
Sleep(level) ==
  /\ stage = "ready" /\ ~fault /\ sleeping = {}
  /\ saved' = BuffersSaved(level)
  /\ table' = [p \in Ptrs |-> IF p \in Offloaded(level)
                              THEN [table[p] EXCEPT !.backup = content[p]]
                              ELSE table[p]]
  /\ UnmapAndRelease(Keys)
  /\ content' = [p \in Ptrs |-> IF p \in Keys THEN "bad" ELSE content[p]]
  /\ sleeping' = Tags
  /\ discarded' = (discarded \/ level = 2)
  /\ UNCHANGED <<reserved, stage, fault>>

\* Mutant: only what has a copy to restore is mapped.
WokenIfBackedUp(tags) == {p \in Tagged(tags) : table[p].backup # "none"}

Woken(tags) == Tagged(tags)

TableWithoutBackups(ps) ==
  [p \in Ptrs |-> IF p \in ps THEN [table[p] EXCEPT !.backup = "none"]
                              ELSE table[p]]

\* Mapped memory starts out lost, unless a copy is written to it or it was
\* mapped all along.
Restored(p, ps) ==
  IF saved[p] # "none" THEN saved[p]
  ELSE IF p \notin ps THEN content[p]
  ELSE IF table[p].backup # "none" THEN table[p].backup
  ELSE content[p]

\* Worker.wake_up; tags = Tags stands for None, too, which the executor lets
\* pass when some of them are awake already.  The buffers are restored at
\* once, be they mapped or not.
WakeUp(tags) ==
  /\ ~fault /\ sleeping # {}
  /\ tags \subseteq sleeping \/ tags = Tags
  /\ \A p \in Woken(tags) : handles[p] < MaxHandles
  /\ CreateAndMap(Woken(tags))
  /\ content' = [p \in Ptrs |-> Restored(p, Woken(tags))]
  /\ table' = TableWithoutBackups(Woken(tags))
  /\ fault' = \E p \in Buffers : saved[p] # "none" /\ p \notin mapped'
  /\ saved' = [p \in Ptrs |-> "none"]
  /\ sleeping' = sleeping \ tags
  /\ UNCHANGED <<reserved, stage, discarded>>

\* The client loads new weights into the memory that is awake.
ReloadWeights ==
  /\ stage = "ready" /\ ~fault /\ "weights" \notin sleeping
  /\ content' = [p \in Ptrs |-> IF p \in Keys /\ table[p].kind = "param"
                                THEN "good" ELSE content[p]]
  /\ discarded' = FALSE
  /\ UNCHANGED <<table, reserved, mapped, handles, stage, saved, sleeping,
                 fault>>

WorkerDead == fault /\ UNCHANGED vars

Next ==
  \/ BeginPool \/ EndPool \/ ReloadWeights \/ WorkerDead
  \/ \E p \in Ptrs : Malloc(p) \/ DropTensor(p) \/ Free(p)
  \/ \E level \in {1, 2} : Sleep(level)
  \/ \E tags \in SUBSET Tags \ {{}} : WakeUp(tags)

Spec == Init /\ [][Next]_vars

-----------------------------------------------------------------------------
(* Properties.                                                              *)

\* The variables range over what the code stores in them, and no handle is
\* released twice.
TypeOK ==
  /\ table \in [Ptrs -> Entries \cup {NoEntry}]
  /\ reserved \subseteq Ptrs /\ mapped \subseteq Ptrs
  /\ handles \in [Ptrs -> Nat] /\ content \in [Ptrs -> Contents]
  /\ stage \in {"start", "weights", "loaded", "kv_cache", "ready"}
  /\ saved \in [Ptrs -> Copies]
  /\ sleeping \subseteq Tags /\ discarded \in BOOLEAN /\ fault \in BOOLEAN

\* What the executor takes for awake is mapped, and nothing else is, through
\* partial wake-ups, early and late frees (sleep, wake_up).
MappedWhenAwake ==
  ~fault => mapped = {p \in Keys : table[p].tag \notin sleeping}

\* The weights survive any sequence of level 1 sleeps; after a level 2 sleep
\* they survive from the time they are loaded again.
WeightsSurvive ==
  ~fault /\ "weights" \notin sleeping /\ ~discarded =>
    \A p \in Keys : table[p].kind = "param" => content[p] = "good"

\* The model's buffers survive both levels (_sleep_saved_buffers).
BuffersSurvive ==
  ~fault /\ "weights" \notin sleeping =>
    \A p \in Buffers : content[p] = "good"

\* A copy is kept exactly as long as it may be needed: none is left to be
\* written over newer contents at a later wake_up.
CopiesOnlyAsleep ==
  "weights" \notin sleeping =>
    /\ \A p \in Keys : table[p].backup = "none"
    /\ \A p \in Ptrs : saved[p] = "none"
=============================================================================
