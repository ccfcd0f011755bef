------------------------- MODULE CnMemAllocator_proof -------------------------
(***************************************************************************)
(* For any number of addresses: memory is mapped exactly while its tag is  *)
(* awake, and weights and buffers survive every sequence of sleeps and     *)
(* partial wake-ups, as long as no unmapped memory is written.             *)
(***************************************************************************)
EXTENDS CnMemAllocator, TLAPS

\* A mapping has a physical allocation behind it; nothing sleeps while the
\* pools are filled; what kind of data an entry holds fits its tag, and only
\* weights are ever copied.
Shape ==
  /\ \A p \in mapped : handles[p] > 0
  /\ stage # "ready" => sleeping = {} /\ discarded = FALSE
  /\ \A p \in Keys : table[p].tag = "weights" <=> table[p].kind # "kv"
  /\ \A p \in Keys : table[p].tag # "weights" => table[p].backup = "none"

\* What WeightsSurvive and BuffersSurvive become while the weights sleep:
\* the host holds a good copy, in the place wake_up will take it from.
CopiesGood ==
  /\ \A p \in Ptrs : saved[p] # "none" => p \in Buffers
  /\ ~fault /\ "weights" \in sleeping =>
       \A p \in Tagged({"weights"}) :
         \/ saved[p] = "good"
         \/ saved[p] = "none" /\ table[p].backup = "good"
         \/ saved[p] = "none" /\ discarded /\ table[p].kind = "param"

Inv == /\ TypeOK /\ Shape /\ MappedWhenAwake /\ CopiesGood
       /\ WeightsSurvive /\ BuffersSurvive /\ CopiesOnlyAsleep

USE DEF Tags, Contents, Copies, Kinds, Entries

\* Before the first pool is used there is nothing to map or to lose.
LEMMA InitInv == Init => Inv
<1> SUFFICES ASSUME Init PROVE Inv
  OBVIOUS
<1>1. TypeOK
  BY DEF Init, TypeOK
<1>2. Keys = {}
  BY DEF Init, Keys
<1> QED
  BY <1>1, <1>2 DEF Init, Inv, Shape, MappedWhenAwake, CopiesGood, Buffers,
     Tagged, WeightsSurvive, BuffersSurvive, CopiesOnlyAsleep

-----------------------------------------------------------------------------
(* Pools.                                                                   *)

\* use_memory_pool only records which tag new memory gets.
LEMMA BeginPoolInv == ASSUME Inv, BeginPool PROVE Inv'
<1>1. /\ stage # "ready" /\ stage' \in {"weights", "kv_cache"}
      /\ UNCHANGED <<table, reserved, mapped, handles, content, saved,
                     sleeping, discarded, fault>>
  BY DEF BeginPool, driverVars
<1>2. TypeOK' /\ Shape'
  BY <1>1 DEF Inv, TypeOK, Shape, Keys
<1>3. MappedWhenAwake' /\ CopiesGood'
  BY <1>1 DEF Inv, MappedWhenAwake, CopiesGood, Keys, Buffers, Tagged
<1>4. WeightsSurvive' /\ BuffersSurvive' /\ CopiesOnlyAsleep'
  BY <1>1 DEF Inv, WeightsSurvive, BuffersSurvive, CopiesOnlyAsleep, Keys, Buffers
<1> QED
  BY <1>2, <1>3, <1>4 DEF Inv

\* Nothing is asleep while a pool is filled, so only the new entry matters.
LEMMA MallocInv == ASSUME Inv, NEW p \in Ptrs, Malloc(p) PROVE Inv'
<1>1. /\ stage \in Tags /\ stage # "ready" /\ sleeping = {}
      /\ UNCHANGED <<stage, saved, sleeping, discarded, fault>>
  BY DEF Malloc, InPool, Inv, Shape
<1>2. PICK kind \in Kinds :
        /\ stage = "weights" <=> kind # "kv"
        /\ table' = [table EXCEPT ![p] = [tag |-> stage, kind |-> kind,
                                          used |-> TRUE, backup |-> "none"]]
  BY <1>1 DEF Malloc
<1>3. /\ mapped' = mapped \cup {p}
      /\ handles' = [q \in Ptrs |-> IF q \in {p} THEN handles[q] + 1
                                    ELSE handles[q]]
      /\ content' = [content EXCEPT ![p] = "good"]
      /\ reserved' = reserved \cup {p}
  BY DEF Malloc, CreateAndMap
<1>4. /\ table'[p] = [tag |-> stage, kind |-> kind, used |-> TRUE, backup |-> "none"]
      /\ \A q \in Ptrs \ {p} : table'[q] = table[q]
  BY <1>2 DEF Inv, TypeOK
<1>5. [tag |-> stage, kind |-> kind, used |-> TRUE, backup |-> "none"] \in Entries
  BY <1>1, <1>2
<1>6. Keys' = Keys \cup {p}
  BY <1>4, <1>5, AllocatorAssumption DEF Keys
<1>7. TypeOK'
  <2>1. table' \in [Ptrs -> Entries \cup {NoEntry}]
    BY <1>2, <1>5 DEF Inv, TypeOK
  <2>2. handles' \in [Ptrs -> Nat]
    BY <1>3 DEF Inv, TypeOK
  <2>3. content' \in [Ptrs -> Contents]
    BY <1>3 DEF Inv, TypeOK
  <2> QED
    BY <1>1, <1>3, <2>1, <2>2, <2>3 DEF Inv, TypeOK
<1>8. Shape'
  <2>1. \A q \in mapped' : handles'[q] > 0
    BY <1>3 DEF Inv, TypeOK, Shape
  <2> QED
    BY <1>1, <1>2, <1>4, <1>6, <2>1 DEF Inv, Shape, Keys
<1>9. MappedWhenAwake'
  BY <1>1, <1>3, <1>4, <1>6 DEF Inv, MappedWhenAwake, Keys
<1>10. WeightsSurvive' /\ BuffersSurvive'
  <2>1. \A q \in Ptrs : content'[q] = IF q = p THEN "good" ELSE content[q]
    BY <1>3 DEF Inv, TypeOK
  <2> QED
    BY <1>1, <1>4, <1>6, <2>1 DEF Inv, WeightsSurvive, BuffersSurvive, Keys, Buffers
<1>11. CopiesOnlyAsleep' /\ CopiesGood'
  <2>1. \A q \in Ptrs : saved'[q] = "none"
    BY <1>1 DEF Inv, CopiesOnlyAsleep
  <2> QED
    BY <1>1, <1>4, <1>6, <2>1 DEF Inv, CopiesOnlyAsleep, CopiesGood, Keys
<1> QED
  BY <1>7, <1>8, <1>9, <1>10, <1>11 DEF Inv

\* A dropped tensor keeps its memory: torch holds it in the pool.
LEMMA DropTensorInv == ASSUME Inv, NEW p \in Ptrs, DropTensor(p) PROVE Inv'
<1>1. /\ p \in Keys /\ table' = [table EXCEPT ![p].used = FALSE]
      /\ UNCHANGED <<reserved, mapped, handles, content, stage, saved,
                     sleeping, discarded, fault>>
  BY DEF DropTensor, driverVars
<1>2. table[p] \in Entries
  BY <1>1 DEF Inv, TypeOK, Keys
<1>3. /\ table'[p] \in Entries
      /\ \A q \in Ptrs \ {p} : table'[q] = table[q]
      /\ table'[p].tag = table[p].tag /\ table'[p].kind = table[p].kind
      /\ table'[p].backup = table[p].backup
  BY <1>1, <1>2 DEF Inv, TypeOK
<1>4. /\ table' \in [Ptrs -> Entries \cup {NoEntry}]
      /\ Keys' = Keys
  <2>1. p \in Ptrs /\ table'[p] # NoEntry
    BY <1>3, AllocatorAssumption
  <2>2. Keys' = Keys
    BY <1>1, <1>3, <2>1 DEF Keys
  <2>3. \A q \in Ptrs : table'[q] \in Entries \cup {NoEntry}
    BY <1>3 DEF Inv, TypeOK
  <2>4. table' = [q \in Ptrs |-> table'[q]]
    BY <1>1 DEF Inv, TypeOK
  <2> QED
    BY <2>2, <2>3, <2>4
<1>5. \A q \in Keys : /\ table'[q].tag = table[q].tag
                      /\ table'[q].kind = table[q].kind
                      /\ table'[q].backup = table[q].backup
  BY <1>3 DEF Keys
<1>6. Buffers' = Buffers /\ \A tags : Tagged(tags)' = Tagged(tags)
  BY <1>4, <1>5 DEF Buffers, Tagged
<1>7. TypeOK' /\ Shape'
  BY <1>1, <1>4, <1>5 DEF Inv, TypeOK, Shape
<1>8. MappedWhenAwake' /\ CopiesGood'
  BY <1>1, <1>4, <1>5, <1>6 DEF Inv, MappedWhenAwake, CopiesGood, Tagged
<1>9. WeightsSurvive' /\ BuffersSurvive' /\ CopiesOnlyAsleep'
  BY <1>1, <1>4, <1>5, <1>6 DEF Inv, WeightsSurvive, BuffersSurvive, CopiesOnlyAsleep
<1> QED
  BY <1>7, <1>8, <1>9 DEF Inv

\* Giving back ps and forgetting their entries, in EndPool and in Free.
LEMMA ReleaseInv ==
  ASSUME Inv, NEW ps \in SUBSET Keys, UnmapAndRelease(ps),
         table' = [p \in Ptrs |-> IF p \in ps THEN NoEntry ELSE table[p]],
         content' = [p \in Ptrs |-> IF p \in ps THEN "bad" ELSE content[p]],
         saved' = [p \in Ptrs |-> IF p \in ps THEN "none" ELSE saved[p]],
         reserved' \subseteq Ptrs,
         stage' \in {"loaded", "ready"}, stage' # "ready" => stage # "ready",
         UNCHANGED <<sleeping, discarded, fault>>
  PROVE  Inv'
<1>1. Keys' = Keys \ ps /\ \A q \in Keys' : q \in Ptrs /\ table'[q] = table[q]
  BY DEF Keys
<1>2. Buffers' = Buffers \ ps /\ \A tags : Tagged(tags)' = Tagged(tags) \ ps
  BY <1>1 DEF Buffers, Tagged
<1>3. /\ mapped' = mapped \ ps
      /\ handles' = [p \in Ptrs |-> IF p \in ps \cap mapped
                                    THEN handles[p] - 1 ELSE handles[p]]
  BY DEF UnmapAndRelease, HandlesReleased
<1>4. TypeOK'
  <2>1. handles' \in [Ptrs -> Nat]
    BY <1>3 DEF Inv, TypeOK, Shape
  <2>2. table' \in [Ptrs -> Entries \cup {NoEntry}]
    BY DEF Inv, TypeOK
  <2>3. content' \in [Ptrs -> Contents] /\ saved' \in [Ptrs -> Copies]
    BY DEF Inv, TypeOK
  <2> QED
    BY <1>3, <2>1, <2>2, <2>3 DEF Inv, TypeOK
<1>5. Shape'
  <2>1. \A q \in mapped' : handles'[q] > 0
    BY <1>3 DEF Inv, TypeOK, Shape
  <2> QED
    BY <1>1, <2>1 DEF Inv, Shape
<1>6. MappedWhenAwake'
  BY <1>1, <1>3 DEF Inv, MappedWhenAwake
<1>7. CopiesGood'
  <2>1. \A q \in Ptrs : saved'[q] # "none" => q \notin ps /\ saved[q] # "none"
    OBVIOUS
  <2>2. \A q \in Keys' : saved'[q] = saved[q]
    BY <1>1
  <2> QED
    BY <1>1, <1>2, <2>1, <2>2 DEF Inv, CopiesGood, Tagged
<1>8. WeightsSurvive' /\ BuffersSurvive'
  <2>1. \A q \in Keys' : content'[q] = content[q]
    BY <1>1
  <2> QED
    BY <1>1, <1>2, <2>1 DEF Inv, WeightsSurvive, BuffersSurvive, Buffers
<1>9. CopiesOnlyAsleep'
  BY <1>1 DEF Inv, CopiesOnlyAsleep
<1> QED
  BY <1>4, <1>5, <1>6, <1>7, <1>8, <1>9 DEF Inv

\* Leaving a pool frees what was dropped in it, and only that.
LEMMA EndPoolInv == ASSUME Inv, EndPool PROVE Inv'
<1>1. /\ stage # "ready" /\ sleeping = {}
      /\ UnmapAndRelease(Unused) /\ Unused \in SUBSET Keys
      /\ stage' \in {"loaded", "ready"}
      /\ UNCHANGED <<reserved, saved, sleeping, discarded, fault>>
  BY DEF EndPool, InPool, Inv, Shape, Unused
<1>2. saved' = [p \in Ptrs |-> IF p \in Unused THEN "none" ELSE saved[p]]
  BY <1>1 DEF Inv, TypeOK, CopiesOnlyAsleep
<1>3. reserved' \subseteq Ptrs
  BY <1>1 DEF Inv, TypeOK
<1> QED
  BY <1>1, <1>2, <1>3, ReleaseInv DEF EndPool

\* my_free drops the entry with its copies; nothing else is touched.
LEMMA FreeInv == ASSUME Inv, NEW p \in Ptrs, Free(p) PROVE Inv'
<1>1. /\ {p} \in SUBSET Keys /\ UnmapAndRelease({p})
      /\ stage' = "ready" /\ reserved' \subseteq Ptrs
      /\ UNCHANGED <<sleeping, discarded, fault>>
  BY DEF Free, Inv, TypeOK
<1>2. table' = [q \in Ptrs |-> IF q \in {p} THEN NoEntry ELSE table[q]]
  BY DEF Free, Inv, TypeOK
<1>3. content' = [q \in Ptrs |-> IF q \in {p} THEN "bad" ELSE content[q]]
  BY DEF Free, Inv, TypeOK
<1>4. saved' = [q \in Ptrs |-> IF q \in {p} THEN "none" ELSE saved[q]]
  BY DEF Free, Inv, TypeOK
<1> QED
  BY <1>1, <1>2, <1>3, <1>4, ReleaseInv

-----------------------------------------------------------------------------
(* Sleeping and waking up.                                                  *)

\* The weights are awake before, so what is copied is what they hold.
LEMMA SleepInv == ASSUME Inv, NEW level \in {1, 2}, Sleep(level) PROVE Inv'
<1>1. /\ stage = "ready" /\ ~fault /\ sleeping = {} /\ sleeping' = Tags
      /\ discarded' = (discarded \/ level = 2)
      /\ UNCHANGED <<reserved, stage, fault>>
  BY DEF Sleep
<1>2. /\ saved' = [p \in Ptrs |-> IF level = 2 /\ p \in Buffers
                                  THEN content[p] ELSE saved[p]]
      /\ content' = [p \in Ptrs |-> IF p \in Keys THEN "bad" ELSE content[p]]
      /\ table' = [p \in Ptrs |-> IF p \in Offloaded(level)
                                  THEN [table[p] EXCEPT !.backup = content[p]]
                                  ELSE table[p]]
  BY DEF Sleep, BuffersSaved
<1>3. /\ mapped' = mapped \ Keys
      /\ handles' = [p \in Ptrs |-> IF p \in Keys \cap mapped
                                    THEN handles[p] - 1 ELSE handles[p]]
  BY DEF Sleep, UnmapAndRelease, HandlesReleased
<1>4. Offloaded(level) \subseteq Keys /\ \A p \in Keys : table[p] \in Entries
  BY DEF Offloaded, Tagged, Keys, Inv, TypeOK
<1>5. \A p \in Keys :
        /\ table'[p] \in Entries
        /\ table'[p].tag = table[p].tag /\ table'[p].kind = table[p].kind
        /\ table'[p].backup = IF p \in Offloaded(level) THEN content[p]
                                                        ELSE table[p].backup
  <2> TAKE p \in Keys
  <2>1. p \in Ptrs /\ content[p] \in Copies /\ table[p] \in Entries
    BY <1>4 DEF Inv, TypeOK, Keys
  <2> QED
    BY <1>2, <2>1
<1>6. Keys' = Keys
  <2>1. \A p \in Ptrs \ Keys : table'[p] = NoEntry
    BY <1>2, <1>4 DEF Keys
  <2>2. \A p \in Keys : table'[p] # NoEntry
    BY <1>5, AllocatorAssumption
  <2> QED
    BY <2>1, <2>2 DEF Keys
<1>7. Buffers' = Buffers /\ \A tags : Tagged(tags)' = Tagged(tags)
  BY <1>5, <1>6 DEF Buffers, Tagged
<1>8. TypeOK'
  <2>1. table' \in [Ptrs -> Entries \cup {NoEntry}]
    <3>1. \A p \in Ptrs : table'[p] \in Entries \cup {NoEntry}
      BY <1>2, <1>4, <1>5 DEF Inv, TypeOK
    <3> QED
      BY <1>2, <3>1
  <2>2. handles' \in [Ptrs -> Nat]
    BY <1>3 DEF Inv, TypeOK, Shape
  <2>3. content' \in [Ptrs -> Contents]
    BY <1>2 DEF Inv, TypeOK
  <2>4. saved' \in [Ptrs -> Copies]
    BY <1>2 DEF Inv, TypeOK
  <2>5. discarded' \in BOOLEAN
    BY <1>1
  <2> QED
    BY <1>1, <1>3, <2>1, <2>2, <2>3, <2>4, <2>5 DEF Inv, TypeOK
<1>9. mapped' = {}
  BY <1>1, <1>3 DEF Inv, MappedWhenAwake
<1>10. Shape'
  BY <1>1, <1>5, <1>6, <1>9 DEF Inv, Shape, Offloaded, Tagged
<1>11. MappedWhenAwake'
  <2>1. \A p \in Keys : table'[p].tag \in sleeping'
    BY <1>1, <1>5
  <2> QED
    BY <1>6, <1>9, <2>1 DEF MappedWhenAwake
<1>12. CopiesGood'
  <2>1. \A p \in Ptrs : saved[p] = "none"
    BY <1>1 DEF Inv, CopiesOnlyAsleep
  <2>2. \A p \in Ptrs : saved'[p] # "none" => p \in Buffers
    BY <1>2, <2>1
  <2>3. ASSUME NEW p \in Tagged({"weights"})
        PROVE  \/ saved'[p] = "good"
               \/ saved'[p] = "none" /\ table'[p].backup = "good"
               \/ saved'[p] = "none" /\ discarded' /\ table'[p].kind = "param"
    <3>1. p \in Keys /\ p \in Ptrs /\ table[p] \in Entries
          /\ table[p].tag = "weights" /\ table[p].kind # "kv"
      BY <1>4 DEF Tagged, Keys, Inv, Shape
    <3>2. CASE table[p].kind = "buffer"
      <4>1. content[p] = "good" /\ p \in Buffers
        BY <1>1, <3>1, <3>2 DEF Inv, BuffersSurvive, Buffers
      <4>2. CASE level = 1
        BY <1>2, <1>5, <2>1, <3>1, <4>1, <4>2 DEF Offloaded
      <4>3. CASE level = 2
        BY <1>2, <3>1, <4>1, <4>3
      <4> QED
        BY <4>2, <4>3
    <3>3. CASE table[p].kind = "param"
      <4>1. saved'[p] = "none" /\ table'[p].kind = "param"
        BY <1>2, <1>5, <2>1, <3>1, <3>3 DEF Buffers
      <4>2. ~discarded => content[p] = "good"
        BY <1>1, <3>1, <3>3 DEF Inv, WeightsSurvive
      <4>3. level = 1 => table'[p].backup = content[p]
        BY <1>5, <3>1 DEF Offloaded
      <4>4. discarded' <=> discarded \/ level = 2
        BY <1>1
      <4> QED
        BY <4>1, <4>2, <4>3, <4>4
    <3> QED
      BY <3>1, <3>2, <3>3
  <2> QED
    BY <1>7, <2>2, <2>3 DEF CopiesGood
<1>13. WeightsSurvive' /\ BuffersSurvive' /\ CopiesOnlyAsleep'
  BY <1>1 DEF WeightsSurvive, BuffersSurvive, CopiesOnlyAsleep
<1> QED
  BY <1>8, <1>10, <1>11, <1>12, <1>13 DEF Inv

\* Waking the KV cache leaves the copies of the weights alone, or ends in a
\* fault; waking the weights takes each from its one good copy.
LEMMA WakeUpInv == ASSUME Inv, NEW tags \in SUBSET Tags, WakeUp(tags) PROVE Inv'
<1>1. /\ ~fault /\ sleeping' = sleeping \ tags
      /\ tags \subseteq sleeping \/ tags = Tags
      /\ saved' = [p \in Ptrs |-> "none"]
      /\ fault' = \E p \in Buffers : saved[p] # "none" /\ p \notin mapped'
      /\ UNCHANGED <<reserved, stage, discarded>>
  BY DEF WakeUp
<1>2. /\ mapped' = mapped \cup Tagged(tags)
      /\ handles' = [p \in Ptrs |-> IF p \in Tagged(tags) THEN handles[p] + 1
                                                          ELSE handles[p]]
      /\ content' = [p \in Ptrs |-> Restored(p, Tagged(tags))]
      /\ table' = [p \in Ptrs |-> IF p \in Tagged(tags)
                                  THEN [table[p] EXCEPT !.backup = "none"]
                                  ELSE table[p]]
  BY DEF WakeUp, CreateAndMap, Woken, TableWithoutBackups
<1>3. Tagged(tags) \subseteq Keys /\ \A p \in Keys : p \in Ptrs /\ table[p] \in Entries
  BY DEF Tagged, Keys, Inv, TypeOK
<1>4. \A p \in Keys :
        /\ table'[p] \in Entries
        /\ table'[p].tag = table[p].tag /\ table'[p].kind = table[p].kind
        /\ table'[p].backup = IF p \in Tagged(tags) THEN "none"
                                                    ELSE table[p].backup
  <2> TAKE p \in Keys
  <2>1. p \in Ptrs /\ table[p] \in Entries
    BY <1>3
  <2> QED
    BY <1>2, <2>1
<1>5. Keys' = Keys
  <2>1. \A p \in Ptrs \ Keys : table'[p] = NoEntry
    BY <1>2, <1>3 DEF Keys
  <2>2. \A p \in Keys : table'[p] # NoEntry
    BY <1>4, AllocatorAssumption
  <2> QED
    BY <2>1, <2>2 DEF Keys
<1>6. Buffers' = Buffers /\ \A some : Tagged(some)' = Tagged(some)
  BY <1>4, <1>5 DEF Buffers, Tagged
<1>7. TypeOK'
  <2>1. table' \in [Ptrs -> Entries \cup {NoEntry}]
    <3>1. \A p \in Ptrs : table'[p] \in Entries \cup {NoEntry}
      BY <1>2, <1>3, <1>4 DEF Inv, TypeOK
    <3> QED
      BY <1>2, <3>1
  <2>2. handles' \in [Ptrs -> Nat]
    BY <1>2 DEF Inv, TypeOK
  <2>3. content' \in [Ptrs -> Contents]
    <3>1. ASSUME NEW p \in Ptrs PROVE Restored(p, Tagged(tags)) \in Contents
      <4>1. content[p] \in Contents /\ saved[p] \in Copies
        BY DEF Inv, TypeOK
      <4>2. p \in Tagged(tags) => table[p].backup \in Copies
        BY <1>3
      <4> QED
        BY <4>1, <4>2 DEF Restored
    <3> QED
      BY <1>2, <3>1
  <2>4. saved' \in [Ptrs -> Copies]
    BY <1>1
  <2>5. fault' \in BOOLEAN /\ mapped' \subseteq Ptrs
    BY <1>1, <1>2, <1>3 DEF Inv, TypeOK
  <2> QED
    BY <1>1, <2>1, <2>2, <2>3, <2>4, <2>5 DEF Inv, TypeOK
<1>8. Shape'
  <2>1. \A p \in mapped' : handles'[p] > 0
    BY <1>2, <1>3 DEF Inv, TypeOK, Shape
  <2> QED
    BY <1>1, <1>4, <1>5, <2>1 DEF Inv, Shape
<1>9. MappedWhenAwake'
  <2>1. mapped = {p \in Keys : table[p].tag \notin sleeping}
    BY <1>1 DEF Inv, MappedWhenAwake
  <2>2. mapped' = {p \in Keys : table[p].tag \notin sleeping \ tags}
    BY <1>2, <2>1 DEF Tagged
  <2> QED
    BY <1>1, <1>4, <1>5, <2>2 DEF MappedWhenAwake
\* The copies of weights that stay asleep.
<1>10. CopiesGood'
  <2>1. ASSUME ~fault', "weights" \in sleeping', NEW p \in Tagged({"weights"})
        PROVE  table[p].backup = "good" \/ (discarded /\ table[p].kind = "param")
    <3>1. "weights" \in sleeping /\ "weights" \notin tags
      BY <1>1, <2>1
    <3>2. p \in Keys /\ table[p].tag = "weights" /\ p \notin mapped'
      BY <1>1, <1>2, <3>1 DEF Tagged, Inv, MappedWhenAwake
    <3>3. saved[p] = "none"
      BY <1>1, <1>3, <2>1, <3>2 DEF Inv, CopiesGood
    <3> QED
      BY <1>1, <2>1, <3>1, <3>3 DEF Inv, CopiesGood
  <2>2. ASSUME ~fault', "weights" \in sleeping', NEW p \in Tagged({"weights"})
        PROVE  p \in Keys /\ p \notin Tagged(tags)
    BY <1>1, <2>2 DEF Tagged
  <2> QED
    BY <1>1, <1>3, <1>4, <1>6, <2>1, <2>2 DEF CopiesGood
\* The copies of weights that wake up.
<1>11. ASSUME ~fault', "weights" \notin sleeping', NEW p \in Tagged({"weights"})
       PROVE  content'[p] = "good" \/ (discarded /\ table[p].kind = "param")
  <2>1. /\ p \in Ptrs /\ p \in Keys /\ table[p] \in Entries
        /\ table[p].tag = "weights" /\ table[p].kind \in {"param", "buffer"}
        /\ content'[p] = Restored(p, Tagged(tags))
    BY <1>2, <1>3 DEF Tagged, Inv, Shape
  <2>2. CASE "weights" \in sleeping
    <3>1. p \in Tagged(tags)
      BY <1>1, <1>11, <2>1, <2>2 DEF Tagged
    <3>2. \/ saved[p] = "good"
          \/ saved[p] = "none" /\ table[p].backup = "good"
          \/ saved[p] = "none" /\ discarded /\ table[p].kind = "param"
      BY <1>1, <2>2 DEF Inv, CopiesGood
    <3> QED
      BY <2>1, <3>1, <3>2 DEF Restored
  <2>3. CASE "weights" \notin sleeping
    <3>1. saved[p] = "none" /\ table[p].backup = "none"
      BY <2>1, <2>3 DEF Inv, CopiesOnlyAsleep
    <3>2. content'[p] = content[p]
      BY <2>1, <3>1 DEF Restored
    <3> QED
      BY <1>1, <2>1, <2>3, <3>2 DEF Inv, WeightsSurvive, BuffersSurvive, Buffers
  <2> QED
    BY <2>2, <2>3
<1>12. WeightsSurvive' /\ BuffersSurvive'
  <2>1. \A p \in Keys : table[p].kind # "kv" => p \in Tagged({"weights"})
    BY DEF Tagged, Inv, Shape
  <2> QED
    BY <1>1, <1>4, <1>5, <1>6, <1>11, <2>1
       DEF WeightsSurvive, BuffersSurvive, Buffers
<1>13. CopiesOnlyAsleep'
  <2>1. ASSUME "weights" \notin sleeping', NEW p \in Keys
        PROVE  table'[p].backup = "none"
    <3>1. CASE p \in Tagged(tags)
      BY <1>4, <3>1
    <3>2. CASE p \notin Tagged(tags) /\ "weights" \notin sleeping
      BY <1>4, <3>2 DEF Inv, CopiesOnlyAsleep
    <3>3. CASE p \notin Tagged(tags) /\ table[p].tag = "kv_cache"
      BY <1>4, <3>3 DEF Inv, Shape
    <3> QED
      BY <1>1, <1>3, <2>1, <3>1, <3>2, <3>3 DEF Tagged
  <2> QED
    BY <1>1, <1>5, <2>1 DEF CopiesOnlyAsleep
<1> QED
  BY <1>7, <1>8, <1>9, <1>10, <1>12, <1>13 DEF Inv

\* Reloading the weights replaces what a level 2 sleep has discarded.
LEMMA ReloadInv == ASSUME Inv, ReloadWeights PROVE Inv'
<1>1. /\ "weights" \notin sleeping /\ discarded' = FALSE
      /\ content' = [p \in Ptrs |-> IF p \in Keys /\ table[p].kind = "param"
                                    THEN "good" ELSE content[p]]
      /\ UNCHANGED <<table, reserved, mapped, handles, stage, saved, sleeping,
                     fault>>
  BY DEF ReloadWeights
<1>2. Keys' = Keys /\ Buffers' = Buffers /\ \A p \in Keys : p \in Ptrs
  BY <1>1 DEF Keys, Buffers
<1>3. TypeOK'
  <2>1. content' \in [Ptrs -> Contents]
    BY <1>1 DEF Inv, TypeOK
  <2> QED
    BY <1>1, <2>1 DEF Inv, TypeOK
<1>4. Shape' /\ MappedWhenAwake' /\ CopiesOnlyAsleep' /\ CopiesGood'
  BY <1>1, <1>2 DEF Inv, Shape, MappedWhenAwake, CopiesOnlyAsleep, CopiesGood
<1>5. WeightsSurvive'
  BY <1>1, <1>2 DEF WeightsSurvive
<1>6. BuffersSurvive'
  BY <1>1, <1>2 DEF Inv, BuffersSurvive, Buffers
<1> QED
  BY <1>3, <1>4, <1>5, <1>6 DEF Inv

\* A stuttering step changes nothing.
LEMMA StutterInv == ASSUME Inv, UNCHANGED vars PROVE Inv'
<1>1. UNCHANGED <<table, reserved, mapped, handles, content, stage, saved,
                  sleeping, discarded, fault>>
  BY DEF vars, driverVars
<1>2. Keys' = Keys /\ Buffers' = Buffers /\ \A tags : Tagged(tags)' = Tagged(tags)
  BY <1>1 DEF Keys, Buffers, Tagged
<1>3. TypeOK' /\ Shape' /\ MappedWhenAwake'
  BY <1>1, <1>2 DEF Inv, TypeOK, Shape, MappedWhenAwake
<1>4. CopiesGood' /\ WeightsSurvive' /\ BuffersSurvive' /\ CopiesOnlyAsleep'
  BY <1>1, <1>2 DEF Inv, CopiesGood, WeightsSurvive, BuffersSurvive, CopiesOnlyAsleep
<1> QED
  BY <1>3, <1>4 DEF Inv

\* The invariant holds in every reachable state.
LEMMA InvHolds == Spec => []Inv
<1>1. Inv /\ [Next]_vars => Inv'
  <2> SUFFICES ASSUME Inv, [Next]_vars PROVE Inv'
    OBVIOUS
  <2>1. CASE BeginPool
    BY <2>1, BeginPoolInv
  <2>2. CASE EndPool
    BY <2>2, EndPoolInv
  <2>3. CASE ReloadWeights
    BY <2>3, ReloadInv
  <2>4. CASE WorkerDead
    BY <2>4, StutterInv DEF WorkerDead
  <2>5. CASE \E p \in Ptrs : Malloc(p) \/ DropTensor(p) \/ Free(p)
    BY <2>5, MallocInv, DropTensorInv, FreeInv
  <2>6. CASE \E level \in {1, 2} : Sleep(level)
    BY <2>6, SleepInv
  <2>7. CASE \E tags \in SUBSET Tags \ {{}} : WakeUp(tags)
    BY <2>7, WakeUpInv
  <2>8. CASE UNCHANGED vars
    BY <2>8, StutterInv
  <2> QED
    BY <2>1, <2>2, <2>3, <2>4, <2>5, <2>6, <2>7, <2>8 DEF Next
<1> QED
  BY InitInv, <1>1, PTL DEF Spec

-----------------------------------------------------------------------------
(* What a client of sleep mode may rely on.                                 *)

\* The table, the handle counts and the copies keep their types: no handle
\* is released twice, also when memory is freed while it sleeps.
THEOREM TypeCorrect == Spec => []TypeOK
<1>1. Inv => TypeOK
  BY DEF Inv
<1> QED
  BY <1>1, InvHolds, PTL

\* Mapped is what the executor takes for awake, and nothing else.
THEOREM MappedWhenAwakeHolds == Spec => []MappedWhenAwake
<1>1. Inv => MappedWhenAwake
  BY DEF Inv
<1> QED
  BY <1>1, InvHolds, PTL

\* Weights come back from level 1, in any order of sleeps, partial wake-ups
\* and reloads that does not end in a fault: the copy made by the sleep is
\* the one the wake-up restores, and it is dropped only after that.
THEOREM WeightsSurviveHolds == Spec => []WeightsSurvive
<1>1. Inv => WeightsSurvive
  BY DEF Inv
<1> QED
  BY <1>1, InvHolds, PTL

\* The buffers of the model come back from both levels: at level 2, where
\* everything is discarded, from _sleep_saved_buffers.
THEOREM BuffersSurviveHolds == Spec => []BuffersSurvive
<1>1. Inv => BuffersSurvive
  BY DEF Inv
<1> QED
  BY <1>1, InvHolds, PTL
=============================================================================
