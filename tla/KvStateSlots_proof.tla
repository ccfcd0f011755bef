-------------------------- MODULE KvStateSlots_proof --------------------------
(***************************************************************************)
(* For any set of requests, any number of slots and any depth of the batch *)
(* queue: KvStateSlots keeps its type, no state slot is ever owned twice,  *)
(* lost or missing where the forward pass looks it up, and under FCFS the  *)
(* pool never runs out.                                                    *)
(***************************************************************************)
EXTENDS KvStateSlots, RequestQueue_proof, FiniteSetTheorems, TLAPS

-----------------------------------------------------------------------------
(* Type correctness.                                                        *)

\* Every reachable state has the types the code gives its containers.
THEOREM TypeCorrect == Spec => []TypeOK
<1>1. Init => TypeOK
  BY SlotAssumption DEF Init, TypeOK, Slots, Outputs
<1>2. TypeOK /\ [Next]_vars => TypeOK'
  <2> SUFFICES ASSUME TypeOK, [Next]_vars PROVE TypeOK'
    OBVIOUS
  <2> USE DEF TypeOK, workerVars, schedVars
  <2>1. ASSUME NEW r \in Reqs, AddRequest(r) PROVE TypeOK'
    BY <2>1 DEF AddRequest
  <2>2. ASSUME NEW r \in Reqs, Free(r) PROVE TypeOK'
    BY <2>2, WithoutElems DEF Free
  <2>3. ASSUME NEW r \in Reqs, Admit(r) PROVE TypeOK'
    BY <2>3, WithoutElems DEF Admit
  <2>4. ASSUME NEW r \in Reqs, Preempt(r) PROVE TypeOK'
    BY <2>4, WithoutElems, PrependElems DEF Preempt
  <2>5. CASE BeginSchedule
    BY <2>5 DEF BeginSchedule
  <2>6. CASE EndWaiting
    BY <2>6 DEF EndWaiting
  <2>7. CASE Emit
    <3>1. PICK some \in SUBSET Reqs :
            channel' = Append(channel, Output(some))
      BY <2>7, ElemsType DEF Emit
    <3>2. Output(some) \in Outputs
      BY DEF Outputs, Output
    <3> QED
      BY <2>7, <3>1, <3>2 DEF Emit
  <2>8. CASE EndOutput
    BY <2>8 DEF EndOutput
  <2>9. CASE ExecuteFails
    BY <2>9 DEF ExecuteFails, Exception
  <2>10. CASE Execute
    <3> DEFINE b == Head(channel)
    <3>1. b \in Outputs /\ Tail(channel) \in Seq(Outputs)
      BY <2>10 DEF Execute
    <3>2. b.fin \subseteq Reqs /\ b.new \subseteq Reqs /\ b.reqs \subseteq Reqs
      BY <3>1 DEF Outputs
    <3>3. PICK pick \in [b.new -> FreeAfterRemove(b)] :
            /\ slotOf' = [r \in Reqs |-> IF r \in b.new THEN pick[r]
                                         ELSE SlotsAfterRemove(b)[r]]
            /\ freeSlots' = FreeAfterRemove(b) \ {pick[r] : r \in b.new}
      BY <2>10 DEF Execute
    <3>4. FreeAfterRemove(b) \subseteq Slots
      BY <2>10, <3>2 DEF Execute, FreeAfterRemove, Known
    <3>5. slotOf' \in [Reqs -> Slots \cup {NoSlot}] /\ freeSlots' \subseteq Slots
      BY <3>2, <3>3, <3>4 DEF SlotsAfterRemove
    <3>6. results' \in Seq(SUBSET Reqs) /\ channel' \in Seq(Outputs)
      BY <2>10, <3>1, <3>2 DEF Execute
    <3> QED
      BY <2>10, <3>5, <3>6 DEF Execute
  <2>11. CASE UNCHANGED vars
    BY <2>11 DEF vars
  <2> QED
    BY <2>1, <2>2, <2>3, <2>4, <2>5, <2>6, <2>7, <2>8, <2>9, <2>10,
       <2>11 DEF Next, Abort, Stop, EngineDead
<1> QED
  BY <1>1, <1>2, PTL DEF Spec

-----------------------------------------------------------------------------
(* Exclusive ownership of the state slots.                                  *)

\* After the finished requests of an output are removed, the slots that are
\* left belong to one request each and all others are free.
LEMMA RemoveKeepsExclusive ==
  ASSUME TypeOK, SlotsExclusive, NEW b, b.fin \subseteq Reqs, Known(b.fin)
  PROVE  /\ \A r, o \in Reqs : /\ SlotsAfterRemove(b)[r] # NoSlot
                               /\ SlotsAfterRemove(b)[r] = SlotsAfterRemove(b)[o]
                               => r = o
         /\ FreeAfterRemove(b) =
              {s \in Slots : \A r \in Reqs : SlotsAfterRemove(b)[r] # s}
<1> DEFINE mid == SlotsAfterRemove(b)
<1> DEFINE avail == FreeAfterRemove(b)
<1>1. \A r \in Reqs : mid[r] = IF r \in b.fin THEN NoSlot ELSE slotOf[r]
  BY DEF SlotsAfterRemove
<1>2. \A r \in b.fin : slotOf[r] \in Slots /\ slotOf[r] # NoSlot
  BY DEF TypeOK, Known
<1>3. \A r, o \in Reqs : mid[r] # NoSlot /\ mid[r] = mid[o] => r = o
  BY <1>1 DEF SlotsExclusive
<1>4. NoSlot \notin Slots
  BY SlotAssumption DEF Slots
<1>5. ASSUME NEW s \in avail PROVE s \in Slots /\ \A r \in Reqs : mid[r] # s
  BY <1>1, <1>2, <1>4, <1>5 DEF FreeAfterRemove, SlotsExclusive
<1>6. ASSUME NEW s \in Slots, \A r \in Reqs : mid[r] # s PROVE s \in avail
  BY <1>1, <1>6 DEF FreeAfterRemove, SlotsExclusive
<1> QED
  BY <1>3, <1>5, <1>6

\* Executing an output keeps every slot with one owner: what is handed out
\* was free, and what is freed has lost its only owner.
LEMMA ExecuteKeepsExclusive ==
  ASSUME TypeOK, SlotsExclusive, Execute
  PROVE  SlotsExclusive'
<1> DEFINE b == Head(channel)
<1> DEFINE mid == SlotsAfterRemove(b)
<1> DEFINE avail == FreeAfterRemove(b)
<1>1. b.fin \subseteq Reqs /\ b.new \subseteq Reqs
  <2>1. b \in Outputs
    BY DEF Execute, TypeOK
  <2> QED
    BY <2>1 DEF Outputs
<1>2. PICK pick \in [b.new -> avail] :
        /\ \A r, o \in b.new : pick[r] = pick[o] => r = o
        /\ slotOf' = [r \in Reqs |-> IF r \in b.new THEN pick[r] ELSE mid[r]]
        /\ freeSlots' = avail \ {pick[r] : r \in b.new}
  BY DEF Execute
<1>3. /\ \A r, o \in Reqs : mid[r] # NoSlot /\ mid[r] = mid[o] => r = o
      /\ avail = {s \in Slots : \A r \in Reqs : mid[r] # s}
  BY <1>1, RemoveKeepsExclusive DEF Execute
<1>4. NoSlot \notin Slots
  BY SlotAssumption DEF Slots
<1>5. \A r \in b.new : mid[r] = NoSlot
  BY DEF Execute, AlreadyStored
<1>6. \A r \in Reqs : slotOf'[r] = IF r \in b.new THEN pick[r] ELSE mid[r]
  BY <1>2
<1>7. \A r, o \in Reqs : slotOf'[r] # NoSlot /\ slotOf'[r] = slotOf'[o] => r = o
  BY <1>1, <1>2, <1>3, <1>6
<1>8. freeSlots' = {s \in Slots : \A r \in Reqs : slotOf'[r] # s}
  <2>1. ASSUME NEW s \in freeSlots'
        PROVE  s \in Slots /\ \A r \in Reqs : slotOf'[r] # s
    BY <1>2, <1>3, <1>6, <2>1
  <2>2. ASSUME NEW s \in Slots, \A r \in Reqs : slotOf'[r] # s
        PROVE  s \in freeSlots'
    <3>1. \A r \in Reqs : mid[r] # s
      BY <1>4, <1>5, <1>6, <2>2
    <3> QED
      BY <1>1, <1>2, <1>3, <1>6, <2>2, <3>1
  <2> QED
    BY <2>1, <2>2
<1> QED
  BY <1>7, <1>8 DEF SlotsExclusive, Slots

\* No two requests share a compressor state, and an owned slot is never on
\* the free list, for every workload and every pool size.
THEOREM SlotsExclusiveHolds == Spec => []SlotsExclusive
<1>1. Init => SlotsExclusive
  BY SlotAssumption DEF Init, SlotsExclusive, Slots
<1>2. TypeOK /\ SlotsExclusive /\ [Next]_vars => SlotsExclusive'
  <2> SUFFICES ASSUME TypeOK, SlotsExclusive, [Next]_vars
               PROVE  SlotsExclusive'
    OBVIOUS
  <2>1. CASE Execute
    BY <2>1, ExecuteKeepsExclusive
  <2>2. CASE UNCHANGED <<slotOf, freeSlots>>
    BY <2>2 DEF SlotsExclusive, Slots
  <2>3. CASE ~Execute
    BY <2>2, <2>3 DEF Next, vars, workerVars, schedVars, AddRequest, Abort,
       Free, Stop, Admit, Preempt, BeginSchedule, EndWaiting, Emit,
       EndOutput, ExecuteFails, EngineDead
  <2> QED
    BY <2>1, <2>3
<1> QED
  BY <1>1, <1>2, TypeCorrect, PTL DEF Spec

-----------------------------------------------------------------------------
(* The scheduler's own records.                                             *)

\* A queue holds no request twice and the two share none; what was started
\* is live, and what runs was started; a request is new to the worker only
\* while the output that starts it is built.
QueuesSound ==
  /\ NoRepeats(waiting) /\ NoRepeats(running)
  /\ Elems(waiting) \cap Elems(running) = {}
  /\ started \subseteq Live /\ Elems(running) \subseteq started
  /\ fresh \subseteq started /\ admitted \subseteq started
  /\ phase = "idle" => fresh = {} /\ admitted = {}

\* Every step keeps the queues apart and started in step with them.
LEMMA QueuesSoundKept ==
  ASSUME TypeOK, QueuesSound, [Next]_vars
  PROVE  QueuesSound'
<1> USE DEF TypeOK, QueuesSound, Live
<1>1. ASSUME NEW r \in Reqs, AddRequest(r) PROVE QueuesSound'
  BY <1>1, AppendElems DEF AddRequest
<1>2. ASSUME NEW r \in Reqs, Free(r), phase = "idle" PROVE QueuesSound'
  BY <1>2, WithoutElems DEF Free
<1>3. ASSUME NEW r \in Reqs, Admit(r) PROVE QueuesSound'
  <2>1. r \in Elems(waiting) /\ r \notin Elems(running)
    BY <1>3 DEF Admit, GoesNext
  <2>2. /\ NoRepeats(waiting') /\ Elems(waiting') = Elems(waiting) \ {r}
        /\ NoRepeats(running') /\ Elems(running') = Elems(running) \cup {r}
    BY <1>3, <2>1, WithoutElems, AppendElems DEF Admit
  <2> QED
    BY <1>3, <2>1, <2>2 DEF Admit
<1>4. ASSUME NEW r \in Reqs, Preempt(r) PROVE QueuesSound'
  <2>1. r \in Elems(running) /\ r \notin Elems(waiting)
    BY <1>4 DEF Preempt, IsVictim
  <2>2. NoRepeats(running') /\ Elems(running') = Elems(running) \ {r}
    BY <1>4, WithoutElems DEF Preempt
  <2>3. NoRepeats(waiting') /\ Elems(waiting') = Elems(waiting) \cup {r}
    <3>1. waiting' = Prepend(waiting, r)
      BY <1>4 DEF Preempt
    <3> QED
      BY <2>1, <3>1, PrependElems
  <2> QED
    BY <1>4, <2>1, <2>2, <2>3 DEF Preempt
<1>5. CASE BeginSchedule
  BY <1>5 DEF BeginSchedule
<1>6. CASE EndWaiting
  BY <1>6 DEF EndWaiting
<1>7. CASE Emit
  BY <1>7 DEF Emit
<1>8. CASE UNCHANGED schedVars
  BY <1>8 DEF schedVars
<1> QED
  BY <1>1, <1>2, <1>3, <1>4, <1>5, <1>6, <1>7, <1>8 DEF Next, Abort, Stop,
     BetweenSteps, EndOutput, ExecuteFails, Execute, EngineDead, vars

-----------------------------------------------------------------------------
(* FCFS: never more started requests than slots.                            *)

\* The requests that were started come first in waiting: preemption puts
\* them in front of everybody else.
StartedFirst ==
  \A i, j \in DOMAIN waiting :
    i < j /\ waiting[j] \in started => waiting[i] \in started

\* At most as many requests as there are slots.
Few(S) == IsFiniteSet(S) /\ Cardinality(S) <= MaxNumSeqs

\* Removing a request from waiting keeps the order of the others.
LEMMA WithoutKeepsFirst ==
  ASSUME NEW r \in Reqs, waiting \in Seq(Reqs), NoRepeats(waiting), StartedFirst,
         waiting' = Without(waiting, r),
         started' \ {r} = started \ {r}
  PROVE  StartedFirst'
<1>1. CASE r \notin Elems(waiting)
  <2>1. waiting' = waiting /\ \A i \in DOMAIN waiting : waiting[i] # r
    BY <1>1 DEF Without, Elems
  <2> QED
    BY <2>1 DEF StartedFirst
<1>2. CASE r \in Elems(waiting)
  <2>1. PICK p \in 1 .. Len(waiting) : waiting[p] = r
    BY <1>2 DEF Elems
  <2>2. /\ Len(waiting') = Len(waiting) - 1
        /\ \A j \in 1 .. Len(waiting) - 1 :
             waiting'[j] = IF j < p THEN waiting[j] ELSE waiting[j + 1]
    BY <2>1, WithoutAt
  <2>3. \A i \in 1 .. Len(waiting) : waiting[i] = r => i = p
    BY <2>1 DEF NoRepeats
  <2>4. waiting' \in Seq(Reqs)
    BY WithoutElems
  <2>5. ASSUME NEW i \in DOMAIN waiting', NEW j \in DOMAIN waiting', i < j,
               waiting'[j] \in started'
        PROVE  waiting'[i] \in started'
    <3> DEFINE a == IF i < p THEN i ELSE i + 1
    <3> DEFINE c == IF j < p THEN j ELSE j + 1
    <3>1. /\ a \in 1 .. Len(waiting) /\ c \in 1 .. Len(waiting) /\ a < c
          /\ a # p /\ c # p
          /\ waiting'[i] = waiting[a] /\ waiting'[j] = waiting[c]
      <4>1. PICK n \in Nat : n = Len(waiting)
        OBVIOUS
      <4>2. DOMAIN waiting' = 1 .. n - 1
        BY <2>2, <2>4, <4>1
      <4>3. i \in 1 .. n - 1 /\ j \in 1 .. n - 1
        BY <4>2
      <4>4. waiting'[i] = waiting[a] /\ waiting'[j] = waiting[c]
        BY <2>2, <4>1, <4>3
      <4> QED
        BY <2>5, <4>1, <4>3, <4>4
    <3>2. waiting[a] # r /\ waiting[c] # r
      BY <2>3, <3>1
    <3>3. waiting[c] \in started
      BY <2>5, <3>1, <3>2
    <3> QED
      BY <3>1, <3>2, <3>3 DEF StartedFirst
  <2> QED
    BY <2>5 DEF StartedFirst
<1> QED
  BY <1>1, <1>2

\* A queue holds at most as many requests as it is long.
LEMMA ElemsCount ==
  ASSUME NEW S, NEW s \in Seq(S)
  PROVE  IsFiniteSet(Elems(s)) /\ Cardinality(Elems(s)) <= Len(s)
<1> DEFINE n == Len(s)
<1>1. n \in Nat /\ 1 \in Int /\ n \in Int
  OBVIOUS
<1>2. IsFiniteSet(1 .. n) /\ Cardinality(1 .. n) = n
  BY <1>1, FS_Interval
<1>3. s \in Surjection(1 .. n, Elems(s))
  BY DEF Surjection, Elems
<1> QED
  BY <1>2, <1>3, FS_Surjection
\* Under FCFS a request that was not started is admitted only when nothing
\* that was started waits, so started outgrows the slots no more than
\* running does.
StartedFew == StartedFirst /\ Few(started)

\* Every step keeps the started requests in front, and as few as the slots.
LEMMA StartedFewKept ==
  ASSUME TypeOK, QueuesSound, ~PriorityPolicy, StartedFew, [Next]_vars
  PROVE  StartedFew'
<1> USE DEF TypeOK, QueuesSound
<1>1. ASSUME NEW r \in Reqs, AddRequest(r) PROVE StartedFew'
  <2>1. waiting' = Append(waiting, r) /\ started' = started /\ r \notin started
    BY <1>1 DEF AddRequest, Live
  <2>2. /\ Len(waiting') = Len(waiting) + 1 /\ DOMAIN waiting' = 1 .. Len(waiting')
        /\ waiting'[Len(waiting) + 1] = r
        /\ \A i \in 1 .. Len(waiting) : waiting'[i] = waiting[i]
    BY <2>1
  <2>3. StartedFirst'
    BY <2>1, <2>2 DEF StartedFew, StartedFirst
  <2> QED
    BY <2>1, <2>3 DEF StartedFew, Few
<1>2. ASSUME NEW r \in Reqs, Free(r) PROVE StartedFew'
  <2>1. StartedFirst'
    BY <1>2, WithoutKeepsFirst DEF Free, StartedFew
  <2>2. Few(started')
    <3>1. started' \in SUBSET started /\ IsFiniteSet(started)
      BY <1>2 DEF Free, StartedFew, Few
    <3>2. IsFiniteSet(started') /\ Cardinality(started') <= Cardinality(started)
      BY <3>1, FS_Subset
    <3>3. Cardinality(started) \in Nat /\ Cardinality(started') \in Nat
      BY <3>1, <3>2, FS_CardinalityType
    <3> QED
      BY <3>2, <3>3, SlotAssumption DEF StartedFew, Few
  <2> QED
    BY <2>1, <2>2 DEF StartedFew, Few
<1>3. ASSUME NEW r \in Reqs, Admit(r) PROVE StartedFew'
  <2>1. /\ waiting' = Without(waiting, r) /\ started' = started \cup {r}
        /\ r \in Elems(waiting) /\ r = Head(waiting) /\ Len(running) < MaxNumSeqs
    BY <1>3 DEF Admit, GoesNext
  <2>2. StartedFirst'
    BY <2>1, WithoutKeepsFirst DEF StartedFew
  <2>3. Few(started')
    <3>1. CASE r \in started
      <4>1. started' = started
        BY <2>1, <3>1
      <4> QED
        BY <4>1 DEF StartedFew
    <3>2. CASE r \notin started
      <4>1. \A j \in DOMAIN waiting : waiting[j] \notin started
        <5> SUFFICES ASSUME NEW j \in DOMAIN waiting, waiting[j] \in started
                     PROVE  FALSE
          OBVIOUS
        <5>1. 1 \in DOMAIN waiting /\ waiting[1] = r
          BY <2>1 DEF Elems
        <5>2. j > 1
          BY <3>2, <5>1
        <5> QED
          BY <3>2, <5>1, <5>2 DEF StartedFew, StartedFirst
      <4>2. started = Elems(running)
        BY <4>1 DEF Live, Elems
      <4>3. IsFiniteSet(started) /\ Cardinality(started) <= Len(running)
        BY <4>2, ElemsCount
      <4>4. IsFiniteSet(started') /\ Cardinality(started') = Cardinality(started) + 1
        BY <2>1, <3>2, <4>3, FS_AddElement
      <4>5. Cardinality(started) \in Nat
        BY <4>3, FS_CardinalityType
      <4> QED
        BY <2>1, <4>3, <4>4, <4>5, SlotAssumption DEF Few
    <3> QED
      BY <3>1, <3>2
  <2> QED
    BY <2>2, <2>3 DEF StartedFew, Few
<1>4. ASSUME NEW r \in Reqs, Preempt(r) PROVE StartedFew'
  <2>1. waiting' = <<r>> \o waiting /\ started' = started /\ r \in started
    BY <1>4 DEF Preempt, IsVictim, Prepend
  <2>2. /\ Len(waiting') = Len(waiting) + 1 /\ DOMAIN waiting' = 1 .. Len(waiting')
        /\ waiting'[1] = r
        /\ \A i \in 2 .. Len(waiting) + 1 : waiting'[i] = waiting[i - 1]
    BY <2>1
  <2>3. StartedFirst'
    <3> SUFFICES ASSUME NEW i \in 1 .. Len(waiting) + 1,
                        NEW j \in 1 .. Len(waiting) + 1, i < j,
                        waiting'[j] \in started
                 PROVE  waiting'[i] \in started
      BY <2>1, <2>2 DEF StartedFirst
    <3>1. CASE i = 1
      BY <2>1, <2>2, <3>1
    <3>2. CASE i > 1
      <4>1. /\ i - 1 \in DOMAIN waiting /\ j - 1 \in DOMAIN waiting /\ i - 1 < j - 1
            /\ waiting'[i] = waiting[i - 1] /\ waiting'[j] = waiting[j - 1]
        BY <2>2, <3>2
      <4> QED
        BY <4>1 DEF StartedFew, StartedFirst
    <3> QED
      BY <3>1, <3>2
  <2> QED
    BY <2>1, <2>3 DEF StartedFew, Few
<1>5. CASE UNCHANGED <<waiting, started>>
  BY <1>5 DEF StartedFew, StartedFirst, Few
<1> QED
  BY <1>1, <1>2, <1>3, <1>4, <1>5 DEF Next, Abort, Stop, BeginSchedule,
     EndWaiting, Emit, EndOutput, ExecuteFails, Execute, EngineDead, vars,
     schedVars
-----------------------------------------------------------------------------
(* The ledger: who will own a slot after each output in flight.             *)

Owners == {r \in Reqs : slotOf[r] # NoSlot}

\* H[i] are the requests that own a slot once the worker has executed the
\* first i outputs of the channel.  Every request of an output owns one by
\* then; who loses its slot on the way is reported finished on the way; and
\* in the end the owners are the requests the scheduler has told the worker
\* about, but for those whose finish it has yet to tell.
Ledger(H) ==
  /\ H \in [0 .. Len(channel) -> SUBSET Reqs]
  /\ H[0] = Owners
  /\ \A i \in 1 .. Len(channel) :
       /\ H[i] = (H[i - 1] \ channel[i].fin) \cup channel[i].new
       /\ channel[i].reqs \subseteq H[i]
  /\ \A i \in 0 .. Len(channel) : \A r \in H[i] :
       \/ r \in H[Len(channel)]
       \/ \E j \in i + 1 .. Len(channel) : r \in channel[j].fin
  /\ started \ fresh \subseteq H[Len(channel)] \ finished
  /\ H[Len(channel)] \subseteq finished \cup (started \ fresh)
  /\ ~PriorityPolicy => \A i \in 0 .. Len(channel) : Few(H[i])

Balanced == \E H : Ledger(H)

SlotInv == /\ TypeOK /\ SlotsExclusive /\ QueuesSound /\ Balanced
           /\ ~PriorityPolicy => StartedFew
           /\ ~PriorityPolicy => SlotsSuffice

\* Nothing is owned, sent or started in the beginning.
LEMMA InitBalanced == Init => Balanced
<1> SUFFICES ASSUME Init PROVE Balanced
  OBVIOUS
<1> DEFINE H == [i \in 0 .. 0 |-> {}]
<1>1. Len(channel) = 0 /\ Owners = {} /\ started = {} /\ finished = {}
  BY DEF Init, Owners
<1>2. Few({})
  BY FS_EmptySet, SlotAssumption DEF Few
<1>3. H \in [0 .. 0 -> SUBSET Reqs] /\ \A i \in 0 .. 0 : H[i] = {}
  OBVIOUS
<1>4. 1 .. 0 = {} /\ 0 .. 0 = {0}
  OBVIOUS
<1>5. Ledger(H)
  BY <1>1, <1>2, <1>3, <1>4 DEF Ledger
<1> QED
  BY <1>5 DEF Balanced

\* Emitting an output ends the ledger with the requests that are started.
LEMMA EmitBalanced ==
  ASSUME TypeOK, QueuesSound, Balanced, ~PriorityPolicy => StartedFew, Emit
  PROVE  Balanced'
<1>1. PICK H : Ledger(H)
  BY DEF Balanced
<1>2. PICK n \in Nat : n = Len(channel)
  BY DEF TypeOK
<1>3. PICK some \in SUBSET started :
        channel' = Append(channel, [fin |-> finished, new |-> fresh, reqs |-> some])
  BY DEF Emit, QueuesSound, Output
<1>4. /\ Len(channel') = n + 1
      /\ \A i \in 1 .. n : channel'[i] = channel[i]
      /\ channel'[n + 1] = [fin |-> finished, new |-> fresh, reqs |-> some]
  BY <1>2, <1>3 DEF TypeOK
<1>5. /\ finished' = {} /\ fresh' = {} /\ UNCHANGED <<started, slotOf>>
  BY DEF Emit, workerVars
<1>6. PICK G \in [0 .. n + 1 -> SUBSET Reqs] :
        /\ \A i \in 0 .. n : G[i] = H[i]
        /\ G[n + 1] = started
  <2> DEFINE g == [i \in 0 .. n + 1 |-> IF i <= n THEN H[i] ELSE started]
  <2>1. /\ g \in [0 .. n + 1 -> SUBSET Reqs]
        /\ \A i \in 0 .. n : g[i] = H[i]
        /\ g[n + 1] = started
    BY <1>1, <1>2 DEF Ledger, TypeOK
  <2> QED
    BY <2>1
<1>7. started = (H[n] \ finished) \cup fresh
  BY <1>1, <1>2 DEF Ledger, QueuesSound
<1>8. G[0] = Owners'
  <2>1. Owners' = Owners
    BY <1>5 DEF Owners
  <2> QED
    BY <1>1, <1>2, <1>6, <2>1 DEF Ledger
<1>9. \A i \in 1 .. n + 1 :
        /\ G[i] = (G[i - 1] \ channel'[i].fin) \cup channel'[i].new
        /\ channel'[i].reqs \subseteq G[i]
  <2> SUFFICES ASSUME NEW i \in 1 .. n + 1
               PROVE  /\ G[i] = (G[i - 1] \ channel'[i].fin) \cup channel'[i].new
                      /\ channel'[i].reqs \subseteq G[i]
    OBVIOUS
  <2>1. CASE i <= n
    <3>1. i \in 1 .. n /\ i - 1 \in 0 .. n /\ i \in 0 .. n
      BY <2>1
    <3> QED
      BY <1>1, <1>2, <1>4, <1>6, <3>1 DEF Ledger
  <2>2. CASE i = n + 1
    <3>1. i - 1 = n /\ n \in 0 .. n
      BY <2>2
    <3>2. G[i - 1] = H[n] /\ G[i] = started
      BY <1>6, <2>2, <3>1
    <3>3. /\ channel'[i].fin = finished /\ channel'[i].new = fresh
          /\ channel'[i].reqs = some
      BY <1>4, <2>2
    <3> QED
      BY <1>7, <3>2, <3>3
  <2> QED
    BY <2>1, <2>2
<1>10. \A i \in 0 .. n + 1 : \A r \in G[i] :
         \/ r \in G[n + 1]
         \/ \E j \in i + 1 .. n + 1 : r \in channel'[j].fin
  <2> SUFFICES ASSUME NEW i \in 0 .. n + 1, NEW r \in G[i], r \notin G[n + 1]
               PROVE  \E j \in i + 1 .. n + 1 : r \in channel'[j].fin
    OBVIOUS
  <2>1. i \in 0 .. n /\ r \in H[i]
    BY <1>6
  <2>2. CASE r \in H[n]
    <3>1. r \in channel'[n + 1].fin
      BY <1>4, <1>6, <1>7, <2>2
    <3>2. n + 1 \in i + 1 .. n + 1
      BY <2>1
    <3> QED
      BY <3>1, <3>2
  <2>3. CASE r \notin H[n]
    <3>1. PICK j \in i + 1 .. n : r \in channel[j].fin
      BY <1>1, <1>2, <2>1, <2>3 DEF Ledger
    <3>2. j \in i + 1 .. n + 1 /\ j \in 1 .. n
      BY <2>1
    <3> QED
      BY <1>4, <3>1, <3>2
  <2> QED
    BY <2>2, <2>3
<1>11. ~PriorityPolicy => \A i \in 0 .. n + 1 : Few(G[i])
  <2> SUFFICES ASSUME ~PriorityPolicy, NEW i \in 0 .. n + 1 PROVE Few(G[i])
    OBVIOUS
  <2>1. CASE i <= n
    BY <1>1, <1>2, <1>6, <2>1 DEF Ledger
  <2>2. CASE i = n + 1
    BY <1>6, <2>2 DEF StartedFew
  <2> QED
    BY <2>1, <2>2
<1>12. Ledger(G)'
  <2>1. /\ started' \ fresh' \subseteq G[n + 1] \ finished'
        /\ G[n + 1] \subseteq finished' \cup (started' \ fresh')
    BY <1>5, <1>6
  <2> QED
    BY <1>4, <1>6, <1>8, <1>9, <1>10, <1>11, <2>1 DEF Ledger, Few
<1> QED
  BY <1>12 DEF Balanced

\* The worker executing an output moves the ledger on by one entry.
LEMMA ExecuteBalanced ==
  ASSUME TypeOK, Balanced, Execute
  PROVE  Balanced'
<1>1. PICK H : Ledger(H)
  BY DEF Balanced
<1>2. PICK n \in Nat : n + 1 = Len(channel)
  <2>1. Len(channel) \in Nat /\ Len(channel) # 0
    BY DEF TypeOK, Execute
  <2>2. Len(channel) - 1 \in Nat /\ (Len(channel) - 1) + 1 = Len(channel)
    BY <2>1
  <2> QED
    BY <2>2
<1>3. /\ Len(channel') = n
      /\ \A i \in 1 .. n : channel'[i] = channel[i + 1]
      /\ Head(channel) = channel[1] /\ channel[1] \in Outputs
  BY <1>2 DEF TypeOK, Execute
<1>4. UNCHANGED <<started, fresh, finished>>
  BY DEF Execute, schedVars
<1>5. PICK G \in [0 .. n -> SUBSET Reqs] : \A i \in 0 .. n : G[i] = H[i + 1]
  <2> DEFINE g == [i \in 0 .. n |-> H[i + 1]]
  <2>1. g \in [0 .. n -> SUBSET Reqs] /\ \A i \in 0 .. n : g[i] = H[i + 1]
    BY <1>1, <1>2 DEF Ledger
  <2> QED
    BY <2>1
<1>6. G[0] = Owners'
  <2> DEFINE b == channel[1]
  <2>1. PICK pick \in [b.new -> FreeAfterRemove(b)] :
          slotOf' = [r \in Reqs |-> IF r \in b.new THEN pick[r]
                                    ELSE SlotsAfterRemove(b)[r]]
    BY <1>3 DEF Execute
  <2>2. b.fin \subseteq Reqs /\ b.new \subseteq Reqs /\ Known(b.fin)
    BY <1>3 DEF Outputs, Execute
  <2>3. NoSlot \notin FreeAfterRemove(b)
    BY <2>2, SlotAssumption DEF FreeAfterRemove, TypeOK, Known, Slots
  <2>4. \A r \in Reqs : slotOf'[r] # NoSlot
                          <=> r \in b.new \/ (r \notin b.fin /\ slotOf[r] # NoSlot)
    BY <2>1, <2>3 DEF SlotsAfterRemove
  <2>5. Owners' = (Owners \ b.fin) \cup b.new
    BY <2>2, <2>4 DEF Owners
  <2>6. H[0] = Owners /\ H[1] = (H[0] \ b.fin) \cup b.new
    BY <1>1, <1>2 DEF Ledger
  <2> QED
    BY <1>5, <2>5, <2>6
<1>7. \A i \in 1 .. n :
        /\ G[i] = (G[i - 1] \ channel'[i].fin) \cup channel'[i].new
        /\ channel'[i].reqs \subseteq G[i]
  <2> SUFFICES ASSUME NEW i \in 1 .. n
               PROVE  /\ G[i] = (G[i - 1] \ channel'[i].fin) \cup channel'[i].new
                      /\ channel'[i].reqs \subseteq G[i]
    OBVIOUS
  <2>1. /\ i + 1 \in 1 .. n + 1 /\ i - 1 \in 0 .. n /\ i \in 0 .. n
        /\ (i - 1) + 1 = i /\ (i + 1) - 1 = i
    OBVIOUS
  <2>2. /\ H[i + 1] = (H[i] \ channel[i + 1].fin) \cup channel[i + 1].new
        /\ channel[i + 1].reqs \subseteq H[i + 1]
    BY <1>1, <1>2, <2>1 DEF Ledger
  <2>3. G[i] = H[i + 1] /\ G[i - 1] = H[i] /\ channel'[i] = channel[i + 1]
    BY <1>3, <1>5, <2>1
  <2> QED
    BY <2>2, <2>3
<1>8. \A i \in 0 .. n : \A r \in G[i] :
        r \in G[n] \/ \E j \in i + 1 .. n : r \in channel'[j].fin
  <2> SUFFICES ASSUME NEW i \in 0 .. n, NEW r \in G[i], r \notin G[n]
               PROVE  \E j \in i + 1 .. n : r \in channel'[j].fin
    OBVIOUS
  <2>1. i + 1 \in 0 .. n + 1 /\ r \in H[i + 1] /\ r \notin H[n + 1]
    BY <1>5
  <2>2. PICK k \in (i + 1) + 1 .. n + 1 : r \in channel[k].fin
    BY <1>1, <1>2, <2>1 DEF Ledger
  <2>3. k - 1 \in i + 1 .. n /\ k - 1 \in 1 .. n /\ (k - 1) + 1 = k
    OBVIOUS
  <2>4. channel'[k - 1] = channel[k]
    BY <1>3, <2>3
  <2> QED
    BY <2>2, <2>3, <2>4
<1>9. /\ started' \ fresh' \subseteq G[n] \ finished'
      /\ G[n] \subseteq finished' \cup (started' \ fresh')
      /\ ~PriorityPolicy => \A i \in 0 .. n : Few(G[i])
  <2>1. n \in 0 .. n /\ \A i \in 0 .. n : i + 1 \in 0 .. n + 1
    OBVIOUS
  <2>2. G[n] = H[n + 1]
    BY <1>5, <2>1
  <2> QED
    BY <1>1, <1>2, <1>4, <1>5, <2>1, <2>2 DEF Ledger
<1>10. Ledger(G)'
  BY <1>3, <1>5, <1>6, <1>7, <1>8, <1>9 DEF Ledger, Few
<1> QED
  BY <1>10 DEF Balanced

\* The scheduler's own steps leave the ledger as it is: a request that is
\* freed goes from started to finished, one that is admitted was started
\* before or is fresh.
LEMMA SchedulerBalanced ==
  ASSUME QueuesSound, Balanced,
         UNCHANGED <<channel, slotOf>>,
         \/ UNCHANGED <<started, fresh, finished>>
         \/ \E r \in Reqs : Free(r) /\ phase = "idle"
         \/ \E r \in Reqs : Admit(r)
         \/ BeginSchedule
  PROVE  Balanced'
<1>1. PICK H : Ledger(H)
  BY DEF Balanced
<1> DEFINE L == H[Len(channel)]
<1>2. /\ started \ fresh \subseteq L \ finished
      /\ L \subseteq finished \cup (started \ fresh)
  BY <1>1 DEF Ledger
<1>3. /\ started' \ fresh' \subseteq L \ finished'
      /\ L \subseteq finished' \cup (started' \ fresh')
  <2>1. CASE UNCHANGED <<started, fresh, finished>>
    BY <1>2, <2>1
  <2>2. CASE \E r \in Reqs : Free(r) /\ phase = "idle"
    <3>1. PICK r \in Reqs : Free(r) /\ phase = "idle"
      BY <2>2
    <3>2. /\ started' = started \ {r} /\ finished' = finished \cup {r}
          /\ fresh' = fresh /\ fresh = {}
      BY <3>1 DEF Free, QueuesSound
    <3> QED
      BY <1>2, <3>2
  <2>3. CASE \E r \in Reqs : Admit(r)
    <3>1. PICK r \in Reqs : Admit(r)
      BY <2>3
    <3>2. /\ started' = started \cup {r} /\ finished' = finished
          /\ fresh' = IF r \notin started THEN fresh \cup {r} ELSE fresh
      BY <3>1 DEF Admit, IsNew
    <3> QED
      BY <1>2, <3>2 DEF QueuesSound
  <2>4. CASE BeginSchedule
    BY <1>2, <2>4 DEF BeginSchedule, QueuesSound
  <2> QED
    BY <2>1, <2>2, <2>3, <2>4
<1>4. Owners' = Owners
  BY DEF Owners
<1>5. Ledger(H)'
  BY <1>1, <1>3, <1>4 DEF Ledger, Few
<1> QED
  BY <1>5 DEF Balanced

-----------------------------------------------------------------------------
(* The pool under FCFS.                                                     *)

\* Under FCFS there is a free slot for every new request of an output: the
\* owners after it, old and new, are no more than the slots.
LEMMA EnoughSlots ==
  ASSUME TypeOK, SlotsExclusive, Balanced, ~PriorityPolicy,
         channel # <<>>, Known(Head(channel).fin), ~AlreadyStored(Head(channel))
  PROVE  ~TooFewSlots(Head(channel))
<1>1. PICK b : b = Head(channel) /\ b = channel[1] /\ 1 \in 1 .. Len(channel)
  BY DEF TypeOK
<1>2. b.fin \subseteq Reqs /\ b.new \subseteq Reqs
  <2>1. b \in Outputs
    BY <1>1 DEF TypeOK
  <2> QED
    BY <2>1 DEF Outputs
<1> DEFINE mid == SlotsAfterRemove(b)
<1> DEFINE kept == Owners \ b.fin
<1> DEFINE avail == FreeAfterRemove(b)
<1> DEFINE taken == Slots \ avail
<1>3. Few(kept \cup b.new)
  <2>1. PICK H : Ledger(H)
    BY DEF Balanced
  <2>2. H[0] = Owners /\ H[1] = (H[0] \ b.fin) \cup b.new /\ Few(H[1])
    BY <1>1, <2>1 DEF Ledger, TypeOK
  <2> QED
    BY <2>2
<1>4. kept \cap b.new = {}
  BY <1>1, <1>2 DEF AlreadyStored, SlotsAfterRemove, Owners
<1>5. /\ IsFiniteSet(kept) /\ IsFiniteSet(b.new)
      /\ Cardinality(kept) \in Nat /\ Cardinality(b.new) \in Nat
      /\ Cardinality(kept) + Cardinality(b.new) <= MaxNumSeqs
  <2>1. IsFiniteSet(kept) /\ IsFiniteSet(b.new)
    BY <1>3, FS_Subset DEF Few
  <2>2. Cardinality(kept) \in Nat /\ Cardinality(b.new) \in Nat
    BY <2>1, FS_CardinalityType
  <2>3. Cardinality(kept \cup b.new)
          = Cardinality(kept) + Cardinality(b.new) - Cardinality(kept \cap b.new)
    BY <2>1, FS_Union
  <2>4. Cardinality(kept \cap b.new) = 0
    BY <1>4, FS_EmptySet
  <2> QED
    BY <1>3, <2>1, <2>2, <2>3, <2>4, SlotAssumption DEF Few
<1>6. avail = {s \in Slots : \A r \in Reqs : mid[r] # s}
  BY <1>1, <1>2, RemoveKeepsExclusive
<1>7. IsFiniteSet(Slots) /\ Cardinality(Slots) = MaxNumSeqs
  <2>1. 0 \in Int /\ MaxNumSeqs - 1 \in Int /\ MaxNumSeqs \in Nat /\ MaxNumSeqs > 0
    BY SlotAssumption
  <2> QED
    BY <2>1, FS_Interval DEF Slots
<1>8. IsFiniteSet(taken) /\ Cardinality(taken) <= Cardinality(kept)
  <2> DEFINE f == [r \in kept |-> mid[r]]
  <2>1. \A r \in Reqs : mid[r] = IF r \in b.fin THEN NoSlot ELSE slotOf[r]
    BY DEF SlotsAfterRemove
  <2>2. NoSlot \notin Slots
    BY SlotAssumption DEF Slots
  <2>3. \A r \in kept : mid[r] \in taken
    BY <1>6, <2>1 DEF Owners, TypeOK
  <2>4. \A s \in taken : \E r \in kept : mid[r] = s
    BY <1>6, <2>1, <2>2 DEF Owners
  <2>5. f \in Surjection(kept, taken)
    BY <2>3, <2>4 DEF Surjection
  <2> QED
    BY <1>5, <2>5, FS_Surjection
<1>9. /\ IsFiniteSet(avail) /\ Cardinality(avail) \in Nat
      /\ Cardinality(avail) = MaxNumSeqs - Cardinality(taken)
  <2>1. avail = Slots \ taken /\ Slots \cap taken = taken
    BY <1>6
  <2>2. IsFiniteSet(avail) /\ Cardinality(avail) = Cardinality(Slots) - Cardinality(taken)
    BY <1>7, <2>1, FS_Difference
  <2> QED
    BY <1>7, <2>2, FS_CardinalityType
<1>10. Cardinality(taken) \in Nat
  BY <1>8, FS_CardinalityType
<1>11. Cardinality(b.new) <= Cardinality(avail)
  <2> HIDE DEF kept, avail, taken
  <2> QED
    BY <1>5, <1>8, <1>9, <1>10, SlotAssumption
<1> QED
  BY <1>1, <1>5, <1>9, <1>11 DEF TooFewSlots

\* Under FCFS no step ends in the failed assertion of _insert_req_id.
LEMMA SufficeKept ==
  ASSUME TypeOK, SlotsExclusive, Balanced, ~PriorityPolicy, SlotsSuffice,
         [Next]_vars
  PROVE  SlotsSuffice'
<1>1. CASE ExecuteFails
  BY <1>1, EnoughSlots DEF ExecuteFails, Exception, SlotsSuffice
<1>2. CASE UNCHANGED failure
  BY <1>2 DEF SlotsSuffice
<1> QED
  BY <1>1, <1>2 DEF Next, AddRequest, Abort, Free, Stop, Admit, Preempt,
     BeginSchedule, EndWaiting, Emit, EndOutput, Execute, EngineDead, vars,
     workerVars

\* Every step keeps the ledger balanced.
LEMMA BalancedKept ==
  ASSUME TypeOK, QueuesSound, Balanced, ~PriorityPolicy => StartedFew, [Next]_vars
  PROVE  Balanced'
<1>1. CASE Emit
  BY <1>1, EmitBalanced
<1>2. CASE Execute
  BY <1>2, ExecuteBalanced
<1>3. CASE ~Emit /\ ~Execute
  <2>1. UNCHANGED <<channel, slotOf>>
    BY <1>3 DEF Next, AddRequest, Abort, Free, Stop, Admit, Preempt,
       BeginSchedule, EndWaiting, EndOutput, ExecuteFails, EngineDead, vars,
       workerVars
  <2>2. \/ UNCHANGED <<started, fresh, finished>>
        \/ \E r \in Reqs : Free(r) /\ phase = "idle"
        \/ \E r \in Reqs : Admit(r)
        \/ BeginSchedule
    BY <1>3 DEF Next, AddRequest, Abort, BetweenSteps, Stop, Preempt,
       EndWaiting, EndOutput, ExecuteFails, EngineDead, vars, schedVars
  <2> QED
    BY <2>1, <2>2, SchedulerBalanced
<1> QED
  BY <1>1, <1>2, <1>3

\* The invariant behind the theorems below holds in every reachable state.
LEMMA SlotInvHolds == Spec => []SlotInv
<1>1. Init => QueuesSound /\ StartedFew /\ SlotsSuffice
  BY FS_EmptySet, SlotAssumption DEF Init, QueuesSound, StartedFew,
     StartedFirst, Few, SlotsSuffice, NoRepeats, Elems, Live
<1>2. Init => (SlotInv \/ ~TypeOK \/ ~SlotsExclusive)
  BY <1>1, InitBalanced DEF SlotInv
<1>3. /\ TypeOK /\ TypeOK' /\ SlotsExclusive /\ SlotsExclusive'
      /\ SlotInv /\ [Next]_vars
      => SlotInv'
  BY QueuesSoundKept, StartedFewKept, BalancedKept, SufficeKept DEF SlotInv
<1> QED
  BY <1>2, <1>3, TypeCorrect, SlotsExclusiveHolds, PTL DEF Spec

-----------------------------------------------------------------------------
(* What the requests and the forward pass may rely on.                      *)

\* A slot is never lost: whatever is aborted, resubmitted or preempted
\* between the scheduler and the worker, its owner is alive or the notice of
\* its finish is on the way.
THEOREM SlotsReleasedHolds == Spec => []SlotsReleased
<1>1. SlotInv => SlotsReleased
  <2> SUFFICES ASSUME SlotInv, NEW r \in Reqs, slotOf[r] # NoSlot,
                      r \notin started, r \notin finished
               PROVE  \E i \in DOMAIN channel : r \in channel[i].fin
    BY DEF SlotsReleased
  <2>1. PICK H : Ledger(H)
    BY DEF SlotInv, Balanced
  <2>2. Len(channel) \in Nat /\ DOMAIN channel = 1 .. Len(channel)
    BY DEF SlotInv, TypeOK
  <2>3. 0 \in 0 .. Len(channel) /\ r \in H[0] /\ r \notin H[Len(channel)]
    BY <2>1, <2>2 DEF Ledger, Owners
  <2>4. PICK j \in 0 + 1 .. Len(channel) : r \in channel[j].fin
    BY <2>1, <2>3 DEF Ledger
  <2> QED
    BY <2>2, <2>4
<1> QED
  BY <1>1, SlotInvHolds, PTL

\* batch_to_kv_state finds the slot of every request of the batch: the
\* scheduler never sends a request the worker has dropped or never met.
THEOREM ForwardIndexableHolds == Spec => []ForwardIndexable
<1>1. SlotInv => ForwardIndexable
  <2> SUFFICES ASSUME SlotInv, channel # <<>>, NEW r \in Head(channel).reqs,
                      r \notin Head(channel).new
               PROVE  slotOf[r] # NoSlot /\ r \notin Head(channel).fin
    BY DEF ForwardIndexable
  <2>1. PICK H : Ledger(H)
    BY DEF SlotInv, Balanced
  <2>2. 1 \in 1 .. Len(channel) /\ Head(channel) = channel[1] /\ 1 - 1 = 0
    BY DEF SlotInv, TypeOK
  <2>3. /\ H[1] = (H[0] \ channel[1].fin) \cup channel[1].new
        /\ channel[1].reqs \subseteq H[1] /\ H[0] = Owners
    BY <2>1, <2>2 DEF Ledger
  <2> QED
    BY <2>2, <2>3 DEF Owners
<1> QED
  BY <1>1, SlotInvHolds, PTL

\* Under FCFS the pool of max_num_seqs slots suffices, although finishes
\* reach the worker up to Depth outputs late and preempted requests keep
\* their slots: "fail to allocate kv states" is never raised.
THEOREM SlotsSufficeHolds == ~PriorityPolicy => (Spec => []SlotsSuffice)
<1> SUFFICES ASSUME ~PriorityPolicy PROVE Spec => []SlotsSuffice
  OBVIOUS
<1>1. SlotInv => SlotsSuffice
  BY DEF SlotInv
<1> QED
  BY <1>1, SlotInvHolds, PTL
=============================================================================
