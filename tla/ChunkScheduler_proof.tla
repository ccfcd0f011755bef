------------------------- MODULE ChunkScheduler_proof -------------------------
(***************************************************************************)
(* SchedulerWithProfiler and AsyncScheduler, for any workload and any      *)
(* configuration an engine accepts: what holds of the unchunked schedulers *)
(* holds of them, and in addition deferred sampling always has an older    *)
(* batch to wait for and computes its grammar masks from all tokens.       *)
(***************************************************************************)
EXTENDS ChunkEngine, SchedulerCore_proof

USE DEF Live, Statuses, Steps, SetAside, Admit, PutBackSkipped, EnterQueue

\* As long as nothing was preempted, what has a count of tokens runs, and so
\* does, in a pipeline of two batches, what is being sampled.
ScheduledPass ==
  ~preempted /\ pc \in {"running", "alloc"} =>
    \A r \in Reqs : nsched[r] # 0 => r \in Elems(running)
SampledPass ==
  ~preempted /\ pc \in {"running", "alloc"} /\ Pipelined => SampledRun
ChunkPass == ScheduledPass /\ SampledPass

\* The mask of a structured request in flight was computed from its present
\* output; one that is sampled behind another batch of the request is
\* deferred.
MaskOf(r) ==
  /\ 1 \in InFlight(r) => queue[1].mask[r] = out[r]
  /\ 2 \in InFlight(r) /\ ~deferred => queue[2].mask[r] = out[r] /\ 1 \notin InFlight(r)
MaskInv == InOrder => \A r \in Structured : Live(r) => MaskOf(r)

ChunkInv == CoreInv /\ ChunkPass /\ DeferredHasOlder /\ MaskInv

-----------------------------------------------------------------------------
(* Every step is one of CoreNext.                                           *)

\* num_new_tokens of a running request, within the budget and the model
\* length, and not negative if what is computed is within its tokens.
LEMMA ChunkTokensType ==
  ASSUME TypeOK, NEW r \in Reqs
  PROVE  /\ ChunkTokens(r) \in Int /\ ChunkTokens(r) <= budget
         /\ computed[r] + ChunkTokens(r) <= MaxModelLen
         /\ ChunkTokens(r) <= Remaining(r)
         /\ computed[r] + ChunkTokens(r) <= Ceiling(r)
         /\ Remaining(r) >= 0 /\ computed[r] <= Ceiling(r) /\ budget > 0
              => ChunkTokens(r) >= 0
<1>1. /\ LongPrefillThreshold \in Nat /\ MaxModelLen \in Nat
      /\ computed[r] \in Int /\ spec[r] \in Nat
      /\ placeholders[r] \in Int /\ budget \in Int /\ NumTokens(r) \in Int
  <2>1. LongPrefillThreshold \in Nat /\ MaxModelLen \in Nat
    BY CoreAssumption
  <2>2. /\ computed[r] \in Int /\ spec[r] \in Nat
        /\ placeholders[r] \in Int /\ budget \in Int
    BY DEF TypeOK
  <2> QED
    BY <2>1, <2>2, TokensType
<1>2. PICK all \in Int : all = NumTokens(r) + spec[r] + placeholders[r] - computed[r]
                         /\ all = Remaining(r)
  BY <1>1 DEF Remaining
<1>3. PICK cut \in Int :
        /\ ChunkTokens(r) = MinOf(MinOf(cut, budget), MaxModelLen - computed[r])
        /\ cut <= all /\ (all >= 0 => cut >= 0)
  BY <1>1, <1>2 DEF ChunkTokens
<1>4. Ceiling(r) = MaxModelLen
  BY ChunkAssumption DEF Ceiling
<1> QED
  BY <1>1, <1>2, <1>3, <1>4 DEF MinOf

\* A pass starts when no preempted request is in flight any more, and leaves
\* the batches in flight alone.
LEMMA SampledStays ==
  ASSUME CoreInv, SampledPass, [ChunkNext]_chunkVars
  PROVE  SampledPass'
<1> SUFFICES ASSUME ~preempted', pc' \in {"running", "alloc"}, Pipelined
             PROVE  SampledRun'
  BY DEF SampledPass, Pipelined
<1>1. /\ UNCHANGED <<queue, submissions, status, todo>> /\ pc # "output"
      /\ pc = "idle" \/ (~preempted /\ pc \in {"running", "alloc"})
  <2>1. CASE BeginChunkSchedule
    BY <2>1 DEF BeginChunkSchedule, reqVars
  <2>2. CASE PassOverRunning \/ PickChunk
    BY <2>2 DEF PassOverRunning, PickChunk, reqVars
  <2>3. CASE ScheduleChunk
    BY <2>3 DEF ScheduleChunk, ScheduleRunning
  <2>4. CASE EndRunningLoop \/ EndWaitingLoop
    BY <2>4 DEF EndRunningLoop, EndWaitingLoop
  <2>5. ASSUME NEW r \in Reqs, PreemptChunk(r) \/ SkipChunk(r) \/ AdmitChunk(r) PROVE FALSE
    BY <2>5 DEF PreemptChunk, SkipChunk, AdmitChunk, Admit, SetAside
  <2>6. CASE ChunkEngineStep
    BY <2>6 DEF ChunkEngineStep, CommitAndSample, CommitAndDefer, CommitSchedule,
       SampleDeferred, FinishOutput, Drain, OutputStep, StartOutput, localVars
  <2>7. CASE ClientStep
    BY <2>7 DEF ClientStep, AddRequest, Abort
  <2>8. CASE \E r \in Reqs : GrammarReady(r) /\ UNCHANGED <<preempted, deferred>>
    BY <2>8 DEF GrammarReady
  <2>9. CASE UNCHANGED chunkVars
    BY <2>9 DEF chunkVars, vars, reqVars
  <2> QED
    BY <2>1, <2>2, <2>3, <2>4, <2>5, <2>6, <2>7, <2>8, <2>9 DEF ChunkNext, ChunkStep
<1>2. \A r : InFlight(r)' = InFlight(r)
  BY <1>1 DEF InFlight
<1>3. SampledRun
  <2>1. CASE pc = "idle"
    BY <2>1 DEF CoreInv, Single, SampledRun
  <2>2. CASE pc # "idle"
    BY <1>1, <2>2 DEF SampledPass
  <2> QED
    BY <2>1, <2>2
<1> QED
  BY <1>1, <1>2, <1>3 DEF SampledRun

\* The steps of schedule().
LEMMA ChunkScheduleIsCore ==
  ASSUME CoreInv, ChunkPass, ChunkStep
  PROVE  PassStep /\ ChunkPass' /\ UNCHANGED deferred
<1>0. SampledPass'
  BY SampledStays DEF ChunkNext, ChunkPass
<1> SUFFICES PassStep /\ ScheduledPass' /\ UNCHANGED deferred
  BY <1>0 DEF ChunkPass
<1>1. CoreInv /\ ScheduledPass /\ SampledPass /\ TypeOK
  BY DEF CoreInv, Inv, ChunkPass
<1>2. CASE BeginChunkSchedule
  <2>1. Begins /\ deferred' = deferred
    BY <1>2 DEF BeginChunkSchedule, Begins
  <2>2. nsched' = Zero
    BY <1>1, <1>2 DEF BeginChunkSchedule, CoreInv, Inv, PassState
  <2> QED
    BY <2>1, <2>2 DEF PassStep, ScheduledPass, Zero
<1>3. CASE PassOverRunning
  <2>1. PassesOver /\ UNCHANGED <<deferred, preempted, pc, nsched, running>>
    BY <1>3 DEF PassOverRunning, PassesOver, queueVars
  <2> QED
    BY <1>1, <2>1 DEF PassStep, ScheduledPass
<1>4. CASE PickChunk
  <2>1. PICK r \in Reqs : /\ r = running[idx] /\ idx <= Len(running) /\ budget > 0
                          /\ Exact => Remaining(r) >= 0 /\ computed[r] <= Ceiling(r)
                          /\ num' = ChunkTokens(r) /\ num' # 0
    BY <1>1, <1>4, NextRunning DEF PickChunk, RunningLoopGoesOn
  <2>2. /\ num' \in Int /\ num' <= budget
        /\ computed[r] + num' <= MaxModelLen
        /\ num' <= Remaining(r) /\ computed[r] + num' <= Ceiling(r)
        /\ Exact => num' > 0
    BY <1>1, <2>1, ChunkTokensType
  <2>3. Picks /\ pc = "running"
    BY <1>4, <2>1, <2>2 DEF PickChunk, Picks
  <2>4. UNCHANGED <<deferred, preempted, nsched, running>>
    BY <1>4 DEF PickChunk, queueVars
  <2> QED
    BY <1>1, <2>3, <2>4 DEF PassStep, ScheduledPass
<1>5. CASE ScheduleChunk
  <2>1. /\ ScheduleRunning /\ UNCHANGED <<deferred, preempted, running>> /\ pc = "alloc"
        /\ nsched' = [nsched EXCEPT ![cur] = num]
    BY <1>5 DEF ScheduleChunk, ScheduleRunning, queueVars
  <2>2. cur \in Elems(running)
    BY <1>1, <2>1 DEF CoreInv, PassInv, Picked
  <2> QED
    BY <1>1, <2>1, <2>2 DEF PassStep, ScheduledPass, TypeOK
<1>6. CASE EndRunningLoop
  <2>1. /\ pc = "running" /\ pc' = IF preempted THEN "commit" ELSE "waiting"
        /\ UNCHANGED <<reqVars, blockVars, queueVars, localVars, todo, queue>>
        /\ UNCHANGED <<preempted, deferred>>
    BY <1>6 DEF EndRunningLoop
  <2>2. pc' = "waiting" => \A r \in Reqs : nsched[r] # 0 => r \in Elems(running)
    BY <1>1, <2>1 DEF ScheduledPass
  <2>3. pc' = "waiting" /\ Pipelined => SampledRun
    BY <1>1, <2>1 DEF SampledPass
  <2>4. LeavesRunning
    BY <2>1, <2>2, <2>3 DEF LeavesRunning
  <2> QED
    BY <2>1, <2>4 DEF PassStep, ScheduledPass
<1>7. CASE EndWaitingLoop
  <2>1. /\ PutsBack /\ pc' = "commit" /\ deferred' = deferred
    BY <1>7 DEF EndWaitingLoop, PutsBack
  <2> QED
    BY <2>1 DEF PassStep, ScheduledPass
<1>8. ASSUME NEW r \in Reqs, PreemptChunk(r)
      PROVE  PassStep /\ ScheduledPass' /\ UNCHANGED deferred
  BY <1>8 DEF PreemptChunk, PassStep, ScheduledPass
<1>9. ASSUME NEW r \in Reqs, SkipChunk(r)
      PROVE  PassStep /\ ScheduledPass' /\ UNCHANGED deferred
  <2>1. Skips(r) /\ pc = "waiting" /\ pc' = pc /\ deferred' = deferred
    BY <1>9 DEF SkipChunk, Skips, Peeked, GoesNext
  <2> QED
    BY <2>1 DEF PassStep, ScheduledPass
<1>10. ASSUME NEW r \in Reqs, AdmitChunk(r)
       PROVE  PassStep /\ ScheduledPass' /\ UNCHANGED deferred
  <2> DEFINE n == FirstChunk(r)
  <2>1. /\ r \in Elems(waiting) /\ Fits(r, n, 0) /\ Admit(r, n) /\ deferred' = deferred
        /\ pc = "waiting" /\ Len(running) # MaxNumRunningReqs
    BY <1>10 DEF AdmitChunk, Peeked, GoesNext, WaitingLoopGoesOn
  <2>2. /\ n \in Int /\ 0 < n /\ n <= budget /\ computed[r] + n <= MaxModelLen
        /\ n <= NumTokens(r) - computed[r]
    <3>1. /\ PrefillTokens(r) \in Int /\ computed[r] + PrefillTokens(r) <= MaxModelLen
          /\ PrefillTokens(r) > 0 /\ PrefillTokens(r) <= NumTokens(r) - computed[r]
          /\ r \in Reqs /\ NumTokens(r) \in Int
      BY <1>1, <2>1, PrefillFits, TokensType
    <3>2. budget \in Int /\ budget > 0 /\ computed[r] \in Int /\ MaxModelLen \in Nat
      BY <1>1, <1>10, <3>1, CoreAssumption DEF TypeOK, AdmitChunk, WaitingLoopGoesOn
    <3> QED
      BY <3>1, <3>2 DEF FirstChunk, MinOf
  <2> HIDE DEF n
  <2>3. Admits(r, n)
    BY <2>1, <2>2 DEF Admits
  <2>4. pc' = pc
    BY <2>1
  <2> QED
    BY <2>1, <2>2, <2>3, <2>4 DEF PassStep, ScheduledPass
<1> QED
  BY <1>2, <1>3, <1>4, <1>5, <1>6, <1>7, <1>8, <1>9, <1>10 DEF ChunkStep

\* The deferred batch is sampled, and its mask renewed, when the one before
\* it is consumed.
LEMMA SampleDeferredPops ==
  ASSUME Inv, SampleDeferred
  PROVE  /\ Pops
         /\ Len(queue) = 2 => queue'[1].mask = MaskAtSampling(queue[2])
<1>1. /\ pc = "output" /\ todo = {} /\ queue \in Seq(Batches) /\ queue # <<>>
      /\ out \in [Reqs -> Nat] /\ spec \in [Reqs -> Nat]
  BY DEF SampleDeferred, Inv, TypeOK, BatchQueueBounded
<1>2. PICK n \in Nat : Len(queue) = n + 1
  <2>1. Len(queue) \in Nat \ {0}
    BY <1>1
  <2> QED
    BY <2>1
<1> DEFINE fresh(i) == [queue[i] EXCEPT !.mask = MaskAtSampling(queue[i])]
<1>3. ASSUME NEW i \in 1 .. n + 1
      PROVE  /\ fresh(i) \in Batches /\ queue[i] \in Batches
             /\ fresh(i).n = queue[i].n /\ fresh(i).s = queue[i].s
             /\ fresh(i).emit = queue[i].emit /\ fresh(i).base = queue[i].base
             /\ fresh(i).lost = queue[i].lost
             /\ fresh(i).sub = queue[i].sub
             /\ fresh(i).mask = MaskAtSampling(queue[i])
  <2>1. queue[i] \in Batches
    BY <1>1, <1>2
  <2>2. MaskAtSampling(queue[i]) \in [Reqs -> Nat]
    BY <1>1 DEF MaskAtSampling
  <2> QED
    BY <2>1, <2>2 DEF Batches
<1>4. queue' = [i \in 1 .. n |-> IF i = n THEN fresh(i + 1) ELSE queue[i + 1]]
  BY <1>2 DEF SampleDeferred
<1> HIDE DEF fresh
<1>5. \A i \in 1 .. n : i + 1 \in 1 .. n + 1
  OBVIOUS
<1>6. queue' \in Seq(Batches) /\ Len(queue') = n
  <2>1. queue' \in [1 .. n -> Batches]
    BY <1>3, <1>4, <1>5
  <2> QED
    BY <2>1
<1>7. \A i \in 1 .. n :
        /\ queue'[i].n = queue[i + 1].n /\ queue'[i].s = queue[i + 1].s
        /\ queue'[i].emit = queue[i + 1].emit /\ queue'[i].base = queue[i + 1].base
        /\ queue'[i].lost = queue[i + 1].lost
        /\ queue'[i].sub = queue[i + 1].sub
  BY <1>3, <1>4, <1>5
<1>8. Pops
  <2>1. Len(queue) - 1 = n
    BY <1>2
  <2> QED
    BY <1>1, <1>6, <1>7, <2>1 DEF Pops, SampleDeferred, reqVars
<1>9. ASSUME Len(queue) = 2 PROVE queue'[1].mask = MaskAtSampling(queue[2])
  <2>1. n = 1 /\ 2 \in 1 .. n + 1
    <3>1. n \in Nat /\ n + 1 = 2
      BY <1>2, <1>9
    <3> QED
      BY <3>1
  <2>2. queue'[1] = fresh(2)
    BY <1>4, <2>1
  <2> QED
    BY <1>3, <2>1, <2>2
<1> QED
  BY <1>8, <1>9

\* update_from_output leaves the batches of the queue where they are.
LEMMA OutputLength ==
  ASSUME TypeOK, OutputStep
  PROVE  Len(queue') = Len(queue) /\ DOMAIN queue' = DOMAIN queue
<1>1. queue \in Seq(Batches) /\ Len(queue) \in Nat /\ DOMAIN queue = 1 .. Len(queue)
  BY DEF TypeOK
<1>2. queue' = queue \/ (DOMAIN queue' = DOMAIN queue)
  BY DEF OutputStep, UpdateFromOutput
<1>3. queue' = queue \/ queue' = [i \in 1 .. Len(queue) |-> queue'[i]]
  BY <1>1 DEF OutputStep, UpdateFromOutput
<1> QED
  BY <1>1, <1>2, <1>3

\* The steps around schedule().
LEMMA ChunkOtherIsCore ==
  ASSUME CoreInv, ChunkPass, DeferredHasOlder, [ChunkNext]_chunkVars, ~ChunkStep
  PROVE  CoreNext /\ ChunkPass' /\ DeferredHasOlder'
<1>0. SampledPass'
  BY SampledStays DEF ChunkPass
<1> SUFFICES CoreNext /\ ScheduledPass' /\ DeferredHasOlder'
  BY <1>0 DEF ChunkPass
<1>1. CoreInv /\ ScheduledPass /\ TypeOK /\ Inv
  BY DEF CoreInv, Inv, ChunkPass
<1>2. CASE CommitAndSample
  <2>1. Commits /\ pc = "commit" /\ deferred' = deferred
    BY <1>2 DEF CommitAndSample, CommitSchedule, Commits
  <2>2. pc' \in {"idle", "output"}
    BY <2>1 DEF Commits, StartOutput
  <2> QED
    BY <2>1, <2>2 DEF CoreNext, ScheduledPass, DeferredHasOlder
<1>3. CASE CommitAndDefer
  <2>1. Commits /\ pc' = "output" /\ queue' = Append(queue, NewBatch) /\ pc = "commit"
    BY <1>3 DEF CommitAndDefer, Commits, StartOutput
  <2>2. PICK r \in Scheduled(nsched) : AsyncScheduling /\ placeholders[r] > 0
    BY <1>3 DEF CommitAndDefer, PendingStructuredOutputTokens
  <2>3. r \in Reqs /\ Live(r)
    BY <1>1, <2>1, <2>2 DEF CoreInv, PassInv, BudgetRespected, Scheduling,
       QueueConsistency, Scheduled
  <2>4. queue # <<>>
    <3> SUFFICES ASSUME queue = <<>> PROVE FALSE
      OBVIOUS
    <3>1. InFlight(r) = {}
      BY DEF InFlight
    <3>2. Owed(r) = 0
      BY <3>1 DEF Owed, Due
    <3>3. placeholders[r] <= 0 /\ placeholders[r] \in Int
      BY <1>1, <2>2, <2>3, <3>2 DEF CoreInv, FlightInv, Awaited, TypeOK
    <3> QED
      BY <2>2, <3>3
  <2>5. Len(queue') >= 2
    <3>1. queue \in Seq(Batches) /\ Len(queue) \in Nat \ {0}
      BY <1>1, <2>4 DEF TypeOK
    <3> QED
      BY <2>1, <3>1
  <2> QED
    BY <2>1, <2>5 DEF CoreNext, ScheduledPass, DeferredHasOlder
<1>4. CASE SampleDeferred
  <2>1. Pops
    BY <1>1, <1>4, SampleDeferredPops
  <2> QED
    BY <1>4, <2>1 DEF SampleDeferred, CoreNext, ScheduledPass, DeferredHasOlder
<1>5. CASE ~deferred /\ FinishOutput /\ UNCHANGED <<preempted, deferred>>
  <2>1. Pops /\ pc' = "idle"
    BY <1>1, <1>5, FinishPops DEF FinishOutput
  <2> QED
    BY <1>5, <2>1 DEF CoreNext, ScheduledPass, DeferredHasOlder
<1>6. CASE (Drain \/ OutputStep) /\ UNCHANGED <<preempted, deferred>>
  <2>1. CoreNext /\ pc' = "output" /\ deferred' = deferred
    BY <1>6 DEF CoreNext, Drain, OutputStep, StartOutput
  <2>2. deferred => Len(queue') = Len(queue)
    <3>1. CASE Drain
      BY <3>1 DEF Drain
    <3>2. CASE OutputStep
      BY <1>1, <3>2, OutputLength
    <3> QED
      BY <1>6, <3>1, <3>2
  <2> QED
    BY <2>1, <2>2 DEF ScheduledPass, DeferredHasOlder
<1>7. CASE (ClientStep \/ \E r \in Reqs : GrammarReady(r)) /\ UNCHANGED <<preempted, deferred>>
  <2>1. /\ UNCHANGED <<pc, nsched, queue, preempted, deferred>>
        /\ CoreNext /\ (pc # "idle" => running' = running)
    BY <1>7 DEF ClientStep, AddRequest, Abort, GrammarReady, localVars, CoreNext,
       queueVars
  <2> QED
    BY <1>1, <2>1 DEF ScheduledPass, DeferredHasOlder
<1>8. CASE UNCHANGED chunkVars
  BY <1>1, <1>8 DEF CoreNext, ScheduledPass, DeferredHasOlder, chunkVars, vars, localVars,
     queueVars
<1> QED
  BY <1>2, <1>3, <1>4, <1>5, <1>6, <1>7, <1>8 DEF ChunkNext, ChunkEngineStep

-----------------------------------------------------------------------------
(* Grammar masks.                                                           *)

\* Steps that do not concern the batches in flight.
LEMMA SameMasks ==
  ASSUME MaskInv, UNCHANGED <<queue, submissions, out, todo, deferred>>,
         pc = "output" <=> pc' = "output",
         \A r \in Structured : Live(r)' => Live(r)
  PROVE  MaskInv'
<1>1. \A r : InFlight(r)' = InFlight(r)
  BY DEF InFlight
<1>2. \A r : MaskOf(r)' <=> MaskOf(r)
  BY <1>1 DEF MaskOf
<1> QED
  BY <1>2 DEF MaskInv, InOrder

\* Two batches at most, where the masks are counted.
LEMMA TwoBatches ==
  ASSUME Inv, InOrder
  PROVE  /\ Len(queue) \in Nat /\ Len(queue) <= 2 /\ (pc # "output" => Len(queue) <= 1)
         /\ DOMAIN queue = 1 .. Len(queue)
         /\ pc # "output" /\ Len(queue) = 1 => AsyncScheduling \/ Pipelined
<1>1. queue \in Seq(Batches) /\ BatchQueueSize \in Nat
  BY CoreAssumption DEF Inv, TypeOK
<1>2. Len(queue) \in Nat /\ DOMAIN queue = 1 .. Len(queue)
  BY <1>1
<1>3. Len(queue) <= BatchQueueSize /\ (pc # "output" => Len(queue) < BatchQueueSize)
  BY DEF Inv, BatchQueueBounded, PassState
<1>4. BatchQueueSize \in {1, 2} /\ (~AsyncScheduling => BatchQueueSize = 1 \/ Pipelined)
  BY CoreAssumption DEF InOrder, Pipelined
<1> QED
  BY <1>1, <1>2, <1>3, <1>4

\* A new batch: its masks are fresh, and a request with tokens in flight is
\* deferred.
LEMMA CommitMasks ==
  ASSUME CoreInv, DeferredHasOlder, DeferredHasOlder', MaskInv, InOrder,
         CommitAndSample \/ CommitAndDefer
  PROVE  MaskInv'
<1>1. /\ Inv /\ TypeOK /\ pc = "commit" /\ ~deferred /\ FlightInv
      /\ UNCHANGED <<status, out>> /\ queue' = Append(queue, NewBatch) /\ Commits
  BY DEF CoreInv, Inv, CommitAndSample, CommitAndDefer, CommitSchedule, Commits,
     DeferredHasOlder
<1>2. PICK k \in {1, 2} : k = Len(queue) + 1 /\ (k = 2 => AsyncScheduling \/ Pipelined)
  BY <1>1, TwoBatches
<1>3. /\ queue'[k].mask = [r \in Reqs |-> IF r \in Emitting THEN out[r] ELSE 0]
      /\ \A i \in DOMAIN queue : queue'[i] = queue[i]
  <2>1. queue \in Seq(Batches) /\ NewBatch \in Batches
    BY <1>1, NewBatchType DEF TypeOK
  <2>2. queue'[k] = NewBatch /\ \A i \in DOMAIN queue : queue'[i] = queue[i]
    BY <1>1, <1>2, <2>1
  <2> QED
    BY <2>2 DEF NewBatch
<1>4. ASSUME NEW r \in Structured, Live(r) PROVE MaskOf(r)'
  <2>1. r \in Reqs
    BY CoreAssumption
  <2>2. InFlight(r)' = InFlight(r) \cup (IF r \in Emitting THEN {k} ELSE {})
    BY <1>1, <1>2, <1>4, <2>1, CommitsFlight DEF CoreInv
  <2>3. \A i \in InFlight(r) : i \in DOMAIN queue /\ i < k /\ i >= 1
    <3>1. DOMAIN queue = 1 .. Len(queue) /\ Len(queue) \in Nat
      BY <1>1, TwoBatches
    <3> QED
      BY <1>2, <3>1 DEF InFlight
  <2>4. r \in Emitting => queue'[k].mask[r] = out[r]
    BY <1>3, <2>1
  <2>5. MaskOf(r)
    BY <1>4 DEF MaskInv
  <2>6. 1 \in InFlight(r)' => queue'[1].mask[r] = out'[r]
    <3>1. CASE 1 \in InFlight(r)
      BY <1>1, <1>3, <2>3, <2>5, <3>1 DEF MaskOf
    <3>2. CASE 1 \notin InFlight(r)
      BY <1>1, <2>2, <2>4, <3>2
    <3> QED
      BY <3>1, <3>2
  <2>7. ASSUME 2 \in InFlight(r)', ~deferred'
        PROVE  queue'[2].mask[r] = out'[r] /\ 1 \notin InFlight(r)'
    <3>1. k = 2 /\ r \in Emitting
      BY <1>2, <2>2, <2>3, <2>7
    <3>2. queue'[2].mask[r] = out'[r]
      BY <1>1, <2>4, <3>1
    <3>3. ASSUME AsyncScheduling PROVE 1 \notin InFlight(r)
      <4>1. placeholders[r] = Owed(r)
        BY <1>1, <1>4, <2>1, <3>3 DEF FlightInv, Awaited, InOrder
      <4>2. CommitAndSample
        BY <2>7 DEF CommitAndDefer
      <4>3. ~(placeholders[r] > 0)
        BY <1>4, <3>1, <3>3, <4>2
           DEF CommitAndSample, PendingStructuredOutputTokens, Emitting
      <4>4. 1 \notin InFlight(r)
        <5> SUFFICES ASSUME 1 \in InFlight(r) PROVE FALSE
          OBVIOUS
        <5>1. Due(1, r) = 1 + queue[1].s[r] /\ queue[1].s[r] \in Nat /\ Due(2, r) \in Nat
          BY <1>1, <2>1, DueType DEF FlightInv
        <5> QED
          BY <4>1, <4>3, <5>1 DEF Owed
      <4> QED
        BY <4>4
    <3>4. ASSUME Pipelined PROVE 1 \notin InFlight(r)
      <4>1. nsched[r] > 0 /\ Single
        BY <3>1, <3>4 DEF Emitting, Scheduled, CoreInv
      <4> QED
        BY <1>4, <2>1, <4>1 DEF Single
    <3>5. 1 \notin InFlight(r)
      BY <1>2, <3>1, <3>3, <3>4
    <3> QED
      BY <2>2, <3>1, <3>2, <3>5
  <2> QED
    BY <2>6, <2>7 DEF MaskOf
<1> QED
  BY <1>1, <1>4 DEF MaskInv

\* The oldest batch leaves: the next one's masks are fresh, or made fresh.
LEMMA PopMasks ==
  ASSUME CoreInv, DeferredHasOlder, MaskInv, InOrder,
         SampleDeferred \/ (~deferred /\ FinishOutput /\ Pops)
  PROVE  MaskInv'
<1>1. Inv /\ FlightInv /\ UNCHANGED <<status, out>> /\ pc = "output"
  BY DEF CoreInv, SampleDeferred, FinishOutput, reqVars
<1>2. Pops
  BY <1>1, SampleDeferredPops
<1>3. Len(queue) \in 1 .. 2 /\ DOMAIN queue = 1 .. Len(queue)
  <2>1. queue \in Seq(Batches) /\ queue # <<>>
    BY <1>1 DEF Inv, TypeOK, BatchQueueBounded
  <2>2. Len(queue) # 0
    BY <2>1
  <2> QED
    BY <1>1, <2>2, TwoBatches
<1>4. ASSUME NEW r \in Structured, Live(r) PROVE MaskOf(r)'
  <2>1. r \in Reqs
    BY CoreAssumption
  <2>2. \A i \in Nat \ {0} : i \in InFlight(r)' <=> i + 1 \in InFlight(r)
    BY <1>1, <1>2, <2>1, PopsFlight
  <2>3. 2 \notin InFlight(r)'
    <3>1. 3 \notin DOMAIN queue
      BY <1>3
    <3>2. 3 \notin InFlight(r)
      BY <3>1 DEF InFlight
    <3> QED
      BY <2>2, <3>2
  <2>4. ASSUME 1 \in InFlight(r)' PROVE queue'[1].mask[r] = out'[r]
    <3>1. 2 \in InFlight(r) /\ 2 \in DOMAIN queue /\ r \in queue[2].emit
      BY <2>2, <2>4 DEF InFlight
    <3>2. Len(queue) = 2
      BY <1>3, <3>1
    <3>3. CASE SampleDeferred
      <4>1. queue'[1].mask = MaskAtSampling(queue[2])
        BY <1>1, <3>2, <3>3, SampleDeferredPops
      <4> QED
        BY <1>1, <2>1, <3>1, <4>1 DEF MaskAtSampling
    <3>4. CASE ~deferred /\ FinishOutput
      <4>1. queue'[1] = queue[2]
        <5>1. queue \in Seq(Batches) /\ queue # <<>> /\ queue' = Tail(queue)
          BY <1>1, <3>4 DEF Inv, TypeOK, BatchQueueBounded, FinishOutput
        <5>2. \A i \in 1 .. Len(queue) - 1 : queue'[i] = queue[i + 1]
          BY <5>1
        <5>3. 1 \in 1 .. Len(queue) - 1 /\ 1 + 1 = 2
          BY <3>2
        <5> QED
          BY <5>2, <5>3
      <4> QED
        BY <1>1, <1>4, <3>1, <3>4, <4>1 DEF MaskInv, MaskOf
    <3> QED
      BY <3>3, <3>4
  <2> QED
    BY <2>3, <2>4 DEF MaskOf
<1> QED
  BY <1>1, <1>4 DEF MaskInv

\* Every step keeps the masks of the batches in flight fresh.
LEMMA StepMasks ==
  ASSUME ChunkInv, [ChunkNext]_chunkVars, DeferredHasOlder'
  PROVE  MaskInv'
<1> SUFFICES ASSUME InOrder PROVE MaskInv'
  BY DEF MaskInv, InOrder
<1>1. /\ CoreInv /\ ChunkPass /\ DeferredHasOlder /\ MaskInv
      /\ Inv /\ TypeOK /\ LifeInv /\ FlightInv /\ Structured \subseteq Reqs
  BY CoreAssumption DEF ChunkInv, CoreInv, Inv
<1>2. CASE ChunkStep
  <2>1. PassStep /\ UNCHANGED deferred
    BY <1>1, <1>2, ChunkScheduleIsCore
  <2>2. /\ UNCHANGED <<queue, submissions, out, todo>>
        /\ pc # "output" /\ pc' # "output"
    BY <2>1 DEF PassStep, Begins, PutsBack, PassesOver, Picks, ScheduleRunning,
       LeavesRunning, Skips, Preempt, Admits, reqVars
  <2>3. \A r \in Reqs : Live(r)' => Live(r)
    <3>1. CASE status' = status
      BY <3>1
    <3>2. ASSUME NEW v \in Reqs, Preempt(v) PROVE \A r \in Reqs : Live(r)' => Live(r)
      BY <1>1, <3>2 DEF Preempt, IsVictim, CoreInv, QueueConsistency, TypeOK
    <3>3. ASSUME NEW v \in Reqs, NEW n \in Int, Admits(v, n)
          PROVE  \A r \in Reqs : Live(r)' => Live(r)
      BY <1>1, <3>3 DEF Admits, CoreInv, QueueConsistency, TypeOK
    <3> QED
      BY <2>1, <3>1, <3>2, <3>3 DEF PassStep, Begins, PutsBack, PassesOver, Picks,
         ScheduleRunning, LeavesRunning, Skips, reqVars
  <2> QED
    BY <1>1, <2>1, <2>2, <2>3, SameMasks
<1>3. CASE CommitAndSample \/ CommitAndDefer
  BY <1>1, <1>3, CommitMasks
<1>4. CASE SampleDeferred
  BY <1>1, <1>4, PopMasks
<1>5. CASE ~deferred /\ FinishOutput /\ UNCHANGED <<preempted, deferred>>
  <2>1. Pops
    BY <1>1, <1>5, FinishPops
  <2> QED
    BY <1>1, <1>5, <2>1, PopMasks
<1>6. CASE Drain /\ UNCHANGED <<preempted, deferred>>
  <2>1. \A r \in Reqs : Live(r) => InFlight(r)' = InFlight(r)
    BY <1>1, <1>6, DrainFlight
  <2>2. UNCHANGED <<queue, out, status, deferred>>
    BY <1>6 DEF Drain, reqVars
  <2> QED
    BY <1>1, <2>1, <2>2 DEF MaskInv, MaskOf
<1>7. CASE OutputStep /\ UNCHANGED <<preempted, deferred>>
  <2> SUFFICES ASSUME NEW r \in Structured, Live(r)' PROVE MaskOf(r)'
    BY DEF MaskInv
  <2>1. /\ Live(r) /\ \A i \in InFlight(r) : queue'[i].mask = queue[i].mask
        /\ \/ InFlight(r)' = InFlight(r) /\ out'[r] = out[r]
           \/ InFlight(r)' = InFlight(r) \ {1} /\ 1 \in InFlight(r)
    BY <1>1, <1>7, OutputFlight DEF Applied, InOrder
  <2>2. MaskOf(r)
    BY <1>1, <2>1 DEF MaskInv
  <2> QED
    BY <1>7, <2>1, <2>2 DEF MaskOf
<1>8. ASSUME NEW o \in Reqs, AddRequest(o), UNCHANGED <<preempted, deferred>> PROVE MaskInv'
  <2>1. /\ UNCHANGED <<queue, out, pc, todo>> /\ pc = "idle"
        /\ \E s : status' = [status EXCEPT ![o] = s]
        /\ submissions' = [submissions EXCEPT ![o] = @ + 1]
    BY <1>8 DEF AddRequest
  <2>2. \A r \in Reqs : r # o => /\ InFlight(r)' = InFlight(r) /\ (Live(r)' <=> Live(r))
    BY <1>1, <2>1 DEF InFlight, TypeOK
  <2>3. InFlight(o)' = {}
    BY <1>1, <1>8, AddRequestFlight
  <2> QED
    BY <1>1, <1>8, <2>1, <2>2, <2>3 DEF MaskInv, MaskOf
<1>9. ASSUME NEW o \in Reqs, Abort(o), UNCHANGED <<preempted, deferred>> PROVE MaskInv'
  <2>1. /\ UNCHANGED <<queue, pc, todo, submissions>>
        /\ status' = [status EXCEPT ![o] = "finished"] /\ out' = [out EXCEPT ![o] = 0]
    BY <1>9 DEF Abort, Finish
  <2>2. /\ ~Live(o)'
        /\ \A r \in Reqs : r # o => out'[r] = out[r] /\ status'[r] = status[r]
    BY <1>1, <2>1 DEF TypeOK
  <2>3. \A r : InFlight(r)' = InFlight(r)
    BY <2>1 DEF InFlight
  <2> QED
    BY <1>1, <1>9, <2>1, <2>2, <2>3 DEF MaskInv, MaskOf
<1>10. CASE (\E r \in Reqs : GrammarReady(r) /\ UNCHANGED <<preempted, deferred>>)
            \/ UNCHANGED chunkVars
  <2>1. UNCHANGED <<queue, submissions, out, todo, deferred, pc, status>>
    BY <1>10 DEF GrammarReady, chunkVars, vars, reqVars
  <2> QED
    BY <1>1, <2>1, SameMasks
<1> QED
  BY <1>2, <1>3, <1>4, <1>5, <1>6, <1>7, <1>8, <1>9, <1>10
     DEF ChunkNext, ChunkEngineStep, ClientStep

-----------------------------------------------------------------------------
(* The inductive invariant.                                                 *)

\* Every step of the chunked schedulers.
LEMMA ChunkStepInv ==
  ASSUME ChunkInv, [ChunkNext]_chunkVars
  PROVE  /\ CoreNext /\ ChunkInv'
         /\ [Lifecycle!LifecycleNext]_(Lifecycle!lifecycleVars)
<1>1. CoreInv /\ ChunkPass /\ DeferredHasOlder
  BY DEF ChunkInv
<1>2. CoreNext /\ ChunkPass' /\ DeferredHasOlder'
  <2>1. CASE ChunkStep
    <3>1. PassStep /\ ChunkPass' /\ deferred' = deferred
      BY <1>1, <2>1, ChunkScheduleIsCore
    <3>2. pc # "output"
      BY <3>1 DEF PassStep, Begins, PutsBack, PassesOver, Picks, ScheduleRunning,
         LeavesRunning, Skips, Preempt, Admits
    <3> QED
      BY <1>1, <3>1, <3>2 DEF CoreNext, DeferredHasOlder
  <2> QED
    BY <1>1, <2>1, ChunkOtherIsCore
<1> QED
  BY <1>1, <1>2, StepCore, StepMasks DEF ChunkInv

\* The initial state of the chunked schedulers.
LEMMA ChunkStart ==
  ASSUME ChunkInit
  PROVE  ChunkInv /\ Lifecycle!LifecycleInit
<1>1. Init /\ ~deferred /\ CoreInv /\ Lifecycle!LifecycleInit
  BY InitCore DEF ChunkInit
<1>2. \A r \in Reqs : ~Live(r)
  BY <1>1 DEF Init
<1>3. MaskInv
  BY <1>2, CoreAssumption DEF MaskInv
<1> QED
  BY <1>1, <1>3 DEF ChunkInv, ChunkPass, ScheduledPass, SampledPass, DeferredHasOlder, Init

\* The inductive invariant holds.
LEMMA ChunkInvHolds == ChunkSpec => []ChunkInv
<1>1. ChunkInit => ChunkInv
  BY ChunkStart
<1>2. ChunkInv /\ [ChunkNext]_chunkVars => ChunkInv'
  BY ChunkStepInv
<1> QED
  BY <1>1, <1>2, PTL DEF ChunkSpec
-----------------------------------------------------------------------------
(* What follows.                                                            *)

\* The chunked schedulers keep the types of their containers; the pool's
\* free counter is never negative.
THEOREM ChunkTypeCorrect == ChunkSpec => []TypeOK
<1>1. ChunkInv => TypeOK
  BY DEF ChunkInv, CoreInv, Inv
<1> QED
  BY <1>1, ChunkInvHolds, PTL

\* With deferred sampling too the batch queue is never overfilled, and never
\* popped when it is empty.
THEOREM ChunkBatchQueueBounded == ChunkSpec => []BatchQueueBounded
<1>1. ChunkInv => BatchQueueBounded
  BY DEF ChunkInv, CoreInv, Inv
<1> QED
  BY <1>1, ChunkInvHolds, PTL

\* A live request is in exactly one queue, once, and in the one its status
\* names.
THEOREM ChunkQueueConsistency == ChunkSpec => []QueueConsistency
<1>1. ChunkInv => QueueConsistency
  BY DEF ChunkInv, CoreInv
<1> QED
  BY <1>1, ChunkInvHolds, PTL

\* No KV block is lost or given out twice when prompts are cut into chunks,
\* and only running requests hold any.
THEOREM ChunkBlockAccounting == ChunkSpec => []BlockAccounting
<1>1. ChunkInv => BlockAccounting
  BY DEF ChunkInv, CoreInv
<1> QED
  BY <1>1, ChunkInvHolds, PTL

\* The assertions at the end of schedule(): running requests first, chunks of
\* prompts after them, never more than the budget and, after a preemption,
\* no preempted request among them.
THEOREM ChunkBudgetRespected == ChunkSpec => []BudgetRespected
<1>1. ChunkInv => BudgetRespected
  BY DEF ChunkInv, CoreInv, PassInv
<1> QED
  BY <1>1, ChunkInvHolds, PTL

\* Every token of a batch has a KV slot of its own request, with any number
\* of draft tokens: the chunked loop cuts at the model length.
THEOREM ChunkSlotsCoverSchedule == ChunkSpec => []SlotsCoverSchedule
<1>1. ChunkInv => SlotsCoverSchedule
  BY CoveredFacts, ChunkAssumption DEF ChunkInv, DraftsFit
<1> QED
  BY <1>1, ChunkInvHolds, PTL

\* num_output_placeholders counts the tokens in flight exactly, when ids are
\* not reused: AsyncScheduler takes off what is appended even from zero, and
\* never has to.
THEOREM ChunkPlaceholderAccounting ==
  MaxSubmissions = 1 => (ChunkSpec => []PlaceholderAccounting)
<1> SUFFICES ASSUME MaxSubmissions = 1 PROVE ChunkSpec => []PlaceholderAccounting
  OBVIOUS
<1>1. ChunkInv => PlaceholderAccounting
  BY FlightFacts DEF ChunkInv
<1> QED
  BY <1>1, ChunkInvHolds, PTL

\* A sampled token extends its request where it was computed for, when ids
\* are not reused and at most two batches are in flight, async or not.
THEOREM ChunkOutputsInSequence ==
  InOrder => (ChunkSpec => []OutputsInSequence)
<1> SUFFICES ASSUME InOrder PROVE ChunkSpec => []OutputsInSequence
  OBVIOUS
<1>1. ChunkInv => OutputsInSequence
  BY FlightFacts DEF ChunkInv, InOrder
<1> QED
  BY <1>1, ChunkInvHolds, PTL

\* A batch is deferred only behind another one: batch_queue.pop() of the
\* deferring engine step finds the batch whose tokens are missing, for every
\* workload, reused ids included.
THEOREM DeferredHasOlderHolds == ChunkSpec => []DeferredHasOlder
<1>1. ChunkInv => DeferredHasOlder
  BY DEF ChunkInv
<1> QED
  BY <1>1, ChunkInvHolds, PTL

\* The grammar bitmask of a structured request was computed from all tokens
\* before the one it constrains, deferred or not, when ids are not reused and
\* at most two batches are in flight.
THEOREM GrammarMaskFreshHolds ==
  InOrder => (ChunkSpec => []GrammarMaskFresh)
<1> SUFFICES ASSUME InOrder PROVE ChunkSpec => []GrammarMaskFresh
  OBVIOUS
<1>1. ASSUME ChunkInv, pc = "output", NEW r \in todo \cap Head(queue).emit \cap Structured
      PROVE  Head(queue).mask[r] = out[r]
  <2>1. /\ Inv /\ TypeOK /\ FlightInv /\ MaskInv /\ r \in Reqs /\ Live(r)
        /\ queue \in Seq(Batches) /\ queue # <<>>
    BY <1>1 DEF ChunkInv, CoreInv, Inv, TypeOK, LifeInv, BatchQueueBounded
  <2>2. 1 \in DOMAIN queue /\ Head(queue) = queue[1] /\ queue[1] \in Batches
    BY <2>1
  <2>3. queue[1].sub[r] = submissions[r]
    <3>1. /\ queue[1].sub[r] >= 1 /\ queue[1].sub[r] <= submissions[r]
          /\ submissions[r] <= 1
      BY <2>1, <2>2 DEF FlightInv, Tagged, Submitted, InOrder
    <3>2. queue[1].sub[r] \in Nat /\ submissions[r] \in Nat
      BY <2>1, <2>2 DEF TypeOK, Batches
    <3> QED
      BY <3>1, <3>2
  <2>4. 1 \in InFlight(r)
    BY <1>1, <2>2, <2>3 DEF InFlight
  <2> QED
    BY <1>1, <2>1, <2>2, <2>4 DEF MaskInv, MaskOf
<1>2. ChunkInv => GrammarMaskFresh
  BY <1>1 DEF GrammarMaskFresh
<1> QED
  BY <1>2, ChunkInvHolds, PTL

\* The chunked schedulers implement RequestLifecycle as well: a request cut
\* into chunks, preempted and deferred lives the life the unchunked give it.
THEOREM ChunkLifecycleImplemented == ChunkSpec => ImplementsLifecycle
<1>1. ChunkInit => ChunkInv /\ Lifecycle!LifecycleInit
  BY ChunkStart
<1>2. ChunkInv /\ [ChunkNext]_chunkVars
        => ChunkInv' /\ [Lifecycle!LifecycleNext]_(Lifecycle!lifecycleVars)
  BY ChunkStepInv
<1> QED
  BY <1>1, <1>2, PTL DEF ChunkSpec, ImplementsLifecycle, Lifecycle!LifecycleSpec

-----------------------------------------------------------------------------
(* The engine with its model runner.                                        *)

\* As long as this pass has preempted nothing, no request that may be resumed
\* is in the persistent batch.
Apart == ~preempted /\ pc \in {"running", "alloc"} => Resumable

ChunkRunnerInv == ChunkInv /\ RunnerInv /\ Apart

\* The worker adds nothing to what the scheduler does: every step of the two
\* together is one of the scheduler, or none.
LEMMA ChunkEngineStepIsStep == [EngineNext]_engineVars => [ChunkNext]_chunkVars
BY DEF EngineNext, engineVars, WorkerStep, ClientCalls, CompileGrammar, ExecuteModel, Engine,
   ChunkNext, chunkVars

\* The worker hears of every step of the engine and of its clients.
LEMMA ChunkMoves ==
  ASSUME ChunkInv, ChunkStep \/ ChunkEngineStep \/ ClientCalls
  PROVE  Moves
<1>1. CoreInv /\ ChunkPass /\ Inv
  BY DEF ChunkInv, CoreInv
<1>2. CASE ChunkStep
  BY <1>1, <1>2, ChunkScheduleIsCore DEF Moves
<1>3. CASE CommitAndSample \/ CommitAndDefer
  BY <1>3 DEF CommitAndSample, CommitAndDefer, CommitSchedule, Commits, Moves
<1>4. CASE SampleDeferred
  BY <1>1, <1>4, SampleDeferredPops DEF Moves
<1>5. CASE FinishOutput
  BY <1>1, <1>5, FinishPops DEF Moves
<1>6. CASE Drain \/ OutputStep \/ ClientCalls
  BY <1>6 DEF ClientCalls, Moves
<1> QED
  BY <1>2, <1>3, <1>4, <1>5, <1>6 DEF ChunkEngineStep

\* What may be resumed stays so while the running loop preempts nothing.
LEMMA ApartKept ==
  ASSUME ChunkInv, Inv', RunnerInv, Apart, ChunkStep, Hears
  PROVE  Apart'
<1>1. CASE \E v \in Reqs : PreemptChunk(v)
  BY <1>1 DEF PreemptChunk, Apart
<1>2. CASE BeginChunkSchedule \/ PassOverRunning \/ PickChunk \/ ScheduleChunk
  <2>1. /\ UNCHANGED <<status, queue>> /\ pc \notin {"commit", "output"}
        /\ pc \in {"idle", "running", "alloc"} /\ (pc # "idle" => preempted' = preempted)
    BY <1>2 DEF BeginChunkSchedule, PassOverRunning, PickChunk, ScheduleChunk,
       ScheduleRunning, reqVars
  <2>2. Resumable => Resumable'
    BY <2>1, QuietStep DEF ChunkInv
  <2>3. pc = "idle" => Resumable
    BY DEF RunnerInv
  <2> QED
    BY <2>1, <2>2, <2>3 DEF Apart
<1>3. CASE EndRunningLoop \/ EndWaitingLoop \/ \E r \in Reqs : SkipChunk(r) \/ AdmitChunk(r)
  <2>1. pc' \in {"waiting", "commit"}
    BY <1>3 DEF EndRunningLoop, EndWaitingLoop, SkipChunk, AdmitChunk
  <2> QED
    BY <2>1 DEF Apart
<1> QED
  BY <1>1, <1>2, <1>3 DEF ChunkStep

\* Every step of the engine with its worker.
LEMMA ChunkEngineStepInv ==
  ASSUME ChunkRunnerInv, [EngineNext]_engineVars
  PROVE  ChunkRunnerInv'
<1>1. ChunkInv /\ RunnerInv /\ Apart /\ CoreInv
  BY DEF ChunkRunnerInv, ChunkInv
<1>2. CoreNext /\ ChunkInv' /\ [ChunkNext]_chunkVars /\ Inv'
  BY <1>1, ChunkStepInv, ChunkEngineStepIsStep DEF ChunkInv, CoreInv
<1>3. pc = "running" /\ pc' = "waiting" => Resumable
  <2>1. pc = "running" /\ pc' = "waiting" => EndRunningLoop
    BY <1>2 DEF ChunkNext, ChunkStep, BeginChunkSchedule, EndWaitingLoop, PassOverRunning,
       PickChunk, ScheduleChunk, ScheduleRunning, SkipChunk, AdmitChunk, PreemptChunk,
       Preempt, ChunkEngineStep, CommitAndSample, CommitAndDefer, SampleDeferred,
       CommitSchedule, Drain, OutputStep, FinishOutput, StartOutput, ClientStep,
       AddRequest, Abort, GrammarReady, chunkVars, vars
  <2>2. EndRunningLoop /\ pc' = "waiting" => ~preempted /\ pc = "running"
    BY DEF EndRunningLoop
  <2> QED
    BY <1>1, <2>1, <2>2 DEF Apart
<1>4. CASE Engine(ChunkStep \/ ChunkEngineStep \/ ClientCalls)
  <2>1. ChunkStep \/ ChunkEngineStep \/ ClientCalls
    BY <1>4 DEF Engine
  <2>2. Moves
    BY <1>1, <2>1, ChunkMoves
  <2>3. Hears
    BY <1>4, <2>2 DEF Hears, Engine
  <2>4. RunnerInv'
    BY <1>1, <1>2, <1>3, <2>3, StepRunner
  <2>5. CASE ChunkStep
    BY <1>1, <1>2, <2>3, <2>4, <2>5, ApartKept DEF ChunkRunnerInv
  <2>6. CASE ChunkEngineStep \/ ClientCalls
    <3>1. pc' \in {"idle", "output"}
      BY <2>6 DEF ChunkEngineStep, CommitAndSample, CommitAndDefer, SampleDeferred,
         CommitSchedule, Drain, OutputStep, FinishOutput, StartOutput, ClientCalls,
         ClientStep, AddRequest, Abort
    <3> QED
      BY <1>2, <2>4, <3>1 DEF ChunkRunnerInv, Apart
  <2> QED
    BY <2>1, <2>5, <2>6
<1>5. CASE WorkerStep
  <2>1. ExecuteModel /\ pc' = "output"
    BY <1>5 DEF WorkerStep, ExecuteModel, vars
  <2>2. RunnerInv'
    BY <1>1, <1>2, <1>3, <2>1, StepRunner
  <2> QED
    BY <1>2, <2>1, <2>2 DEF ChunkRunnerInv, Apart
<1>6. CASE (\E r \in Reqs : CompileGrammar(r)) \/ UNCHANGED engineVars
  <2>2. /\ UNCHANGED <<runnerVars, status, held, nsched, finished, pc, todo, queue>>
        /\ UNCHANGED preempted
    <3>1. CASE UNCHANGED engineVars
      BY <3>1 DEF engineVars, chunkVars, vars, reqVars, blockVars, queueVars, localVars
    <3>2. CASE \E r \in Reqs : CompileGrammar(r)
      BY <3>2 DEF CompileGrammar, GrammarReady, blockVars, queueVars, localVars
    <3> QED
      BY <1>6, <3>1, <3>2
  <2>3. RunnerInv'
    BY <1>1, <1>2, <1>3, <2>2, StepRunner
  <2>4. Resumable => Resumable'
    BY <2>2 DEF Resumable, Before, Done, Batch, Scheduled, runnerVars, workerVars
  <2> QED
    BY <1>1, <1>2, <2>2, <2>3, <2>4 DEF ChunkRunnerInv, Apart
<1> QED
  BY <1>4, <1>5, <1>6 DEF EngineNext

\* The inductive invariant of the engine with its worker.
LEMMA ChunkEngineInvHolds == EngineSpec => []ChunkRunnerInv
<1>1. EngineInit => ChunkRunnerInv
  <2> SUFFICES ASSUME EngineInit PROVE ChunkRunnerInv
    OBVIOUS
  <2>1. ChunkInv /\ Init /\ RunnerInit
    <3>1. ChunkInit /\ RunnerInit
      BY DEF EngineInit
    <3>2. ChunkInv
      BY <3>1, ChunkStart
    <3>3. Init
      BY <3>1 DEF ChunkInit
    <3> QED
      BY <3>1, <3>2, <3>3
  <2>2. RunnerInv
    BY <2>1, RunnerStart
  <2>3. pc = "idle"
    BY <2>1 DEF Init
  <2> QED
    BY <2>1, <2>2, <2>3 DEF ChunkRunnerInv, Apart
<1>2. ChunkRunnerInv /\ [EngineNext]_engineVars => ChunkRunnerInv'
  BY ChunkEngineStepInv
<1> QED
  BY <1>1, <1>2, PTL DEF EngineSpec

\* The engine with its worker behaves as the chunked scheduler alone.
THEOREM ChunkEngineImplementsScheduler == EngineSpec => ChunkSpec
<1>1. EngineInit => ChunkInit
  BY DEF EngineInit
<1> QED
  BY <1>1, ChunkEngineStepIsStep, PTL DEF EngineSpec, ChunkSpec

\* With chunked prefill too, every request the worker is sent without its
\* data is in its cache, whatever is deferred, preempted or aborted.
THEOREM ChunkStateCached == EngineSpec => []StateCached
<1>1. ChunkRunnerInv => StateCached
  BY RunnerFacts DEF ChunkRunnerInv, ChunkInv
<1> QED
  BY <1>1, ChunkEngineInvHolds, PTL

\* With chunked prefill the worker's block tables are those of the scheduler,
\* without async scheduling always, with it if ids are not reused.
THEOREM ChunkWorkerBlocks == Exact => (EngineSpec => []WorkerBlocks)
<1> SUFFICES ASSUME Exact PROVE EngineSpec => []WorkerBlocks
  OBVIOUS
<1>1. ChunkRunnerInv => WorkerBlocks
  BY RunnerFacts DEF ChunkRunnerInv, ChunkInv
<1> QED
  BY <1>1, ChunkEngineInvHolds, PTL


-----------------------------------------------------------------------------
(* The positions the worker computes.                                       *)

\* A step of the engine with its worker keeps the positions right, if the
\* drafts in flight are continued where they were noted.
LEMMA ChunkStepPositions ==
  ASSUME ChunkRunnerInv, PosInv, Unpipelined, Continued, Rested, [EngineNext]_engineVars
  PROVE  PosInv'
<1>1. ChunkInv /\ RunnerInv /\ CoreInv
  BY DEF ChunkRunnerInv, ChunkInv
<1>2. CoreNext
  BY <1>1, ChunkStepInv, ChunkEngineStepIsStep
<1>3. \/ Hears
      \/ ExecuteModel
      \/ UNCHANGED runnerVars /\ ((\E r \in Reqs : GrammarReady(r)) \/ UNCHANGED vars)
  <2>1. CASE Engine(ChunkStep \/ ChunkEngineStep \/ ClientCalls)
    <3>1. ChunkStep \/ ChunkEngineStep \/ ClientCalls
      BY <2>1 DEF Engine
    <3>2. Moves
      BY <1>1, <3>1, ChunkMoves
    <3> QED
      BY <2>1, <3>2 DEF Hears, Engine
  <2> QED
    BY <2>1 DEF EngineNext, engineVars, chunkVars, WorkerStep, CompileGrammar
<1> QED
  BY <1>1, <1>2, <1>3, StepPositions


-----------------------------------------------------------------------------
(* Drafts in flight.  With async scheduling the worker only knows how many  *)
(* of a request's drafts were rejected if the request stays in its          *)
(* persistent batch, so a request with drafts must be in one batch after    *)
(* the other.  It is, if every running request always gets its next token   *)
(* and its drafts: what a request leaves to compute when it is passed on is *)
(* then one token and the drafts, as long as it is not the one that a       *)
(* prompt has just been cut for.                                            *)

\* What the budget has left for the running requests from the a-th one on.
Room(a) == (MaxNumRunningReqs - a + 1) * (1 + NumSpecTokens)

\* First come, first served, with a token and its drafts for everyone, and
\* an engine that never waits for the batch it has just made.
Roomy ==
  /\ AsyncScheduling /\ ~EarlyDone /\ ~PriorityPolicy /\ LongPrefillThreshold = 0
  /\ MaxNumScheduledTokens >= Room(1)

\* A running request has computed all but the last of the tokens it will
\* have, if any is in flight.  One scheduled with less than all of its tokens
\* took the rest of the budget.
Caught(r) ==
  status[r] = "running" =>
    IF placeholders[r] > 0 THEN computed[r] = NumTokens(r) + placeholders[r] - 1
                           ELSE computed[r] < NumTokens(r)
Cut(r) == Scheduling /\ nsched[r] > 0 /\ r \notin Emitting => budget = 0
Counts(r) == spec[r] \in {0, NumSpecTokens} /\ Caught(r) /\ Cut(r)

\* All running requests but the last sample in the next batch, and all the
\* loop has passed are scheduled or at the model length.
Ready(r) == IF nsched[r] > 0 THEN r \in Emitting ELSE Remaining(r) <= 1 + NumSpecTokens
Served(r) == nsched[r] > 0 \/ computed[r] >= MaxModelLen
IsLast(r) == r = running[Len(running)]
AllReady ==
  \A r \in Elems(running) : Ready(r) \/ (IsLast(r) /\ (pc = "waiting" => budget = 0))
Passed(r) ==
  IF pc \in {"running", "alloc"} THEN \E i \in 1 .. Len(running) : i < idx /\ running[i] = r
                                 ELSE pc \in {"waiting", "commit"} /\ r \in Elems(running)
AllServed == \A r \in Reqs : Passed(r) => Served(r)

\* The loop starts at the first request with room for all, keeps enough for
\* those to come, and asks for as much as the budget allows.
Ample == pc \in {"running", "alloc"} /\ idx <= Len(running) => budget >= Room(idx)
Chosen == pc = "alloc" => num = ChunkTokens(cur)
Fresh == pc \in {"idle", "output"} => idx = 1

Pace == (\A r \in Reqs : Counts(r)) /\ AllReady /\ AllServed /\ Ample /\ Chosen /\ Fresh

\* Each running request takes its share of the room.
LEMMA Rooms ==
  ASSUME NEW a \in Nat, 0 < a, a <= MaxNumRunningReqs
  PROVE  /\ Room(a) \in Int /\ Room(a + 1) \in Int /\ Room(a + 1) >= 0
         /\ Room(a) = Room(a + 1) + 1 + NumSpecTokens
<1>1. MaxNumRunningReqs \in Nat /\ NumSpecTokens \in Nat
  BY CoreAssumption
<1>2. PICK x \in Nat : x = MaxNumRunningReqs - a
  BY <1>1
<1>3. PICK y \in Nat : y = 1 + NumSpecTokens
  BY <1>1
<1>4. Room(a) = (x + 1) * y /\ Room(a + 1) = x * y
  <2>1. MaxNumRunningReqs - a + 1 = x + 1 /\ MaxNumRunningReqs - (a + 1) + 1 = x
    BY <1>1, <1>2
  <2> QED
    BY <1>3, <2>1 DEF Room
<1>5. (x + 1) * y = x * y + y /\ x * y \in Nat
  BY <1>2, <1>3
<1> QED
  BY <1>1, <1>3, <1>4, <1>5

\* What a running request has left to compute: its next token and its drafts,
\* or what is left of its prompt.
LEMMA Owes ==
  ASSUME CoreInv, Unpipelined, NEW r \in Reqs, status[r] = "running", Caught(r)
  PROVE  /\ placeholders[r] >= 0 /\ NumTokens(r) < MaxModelLen
         /\ Remaining(r) >= 1 + spec[r]
         /\ placeholders[r] > 0 => Remaining(r) = 1 + spec[r]
         /\ computed[r] >= MaxModelLen => placeholders[r] > 0
<1>1. Inv /\ FlightInv /\ Exact /\ Live(r)
  BY UnpipelinedExact DEF CoreInv
<1>2. /\ computed[r] \in Int /\ spec[r] \in Nat /\ placeholders[r] \in Int
      /\ NumTokens(r) \in Nat /\ MaxTotalTokens(r) \in Nat /\ MaxModelLen \in Nat
      /\ MaxTotalTokens(r) <= MaxModelLen
  BY <1>1, LevelType
<1>3. NumTokens(r) < MaxTotalTokens(r)
  BY <1>1 DEF FlightInv, Submitted
<1>4. placeholders[r] >= 0
  BY <1>1, NothingOwed
<1>5. IF placeholders[r] > 0 THEN computed[r] = NumTokens(r) + placeholders[r] - 1
                             ELSE computed[r] < NumTokens(r)
  BY DEF Caught
<1>6. Remaining(r) = NumTokens(r) + spec[r] + placeholders[r] - computed[r]
  BY DEF Remaining
<1> QED
  BY <1>2, <1>3, <1>4, <1>5, <1>6


\* No request before the last one is the last one.
LEMMA NotLast ==
  ASSUME NEW s \in Seq(Reqs), NoRepeats(s), NEW i \in Nat \ {0}, i + 1 <= Len(s)
  PROVE  s[i] # s[Len(s)]
<1>1. PICK len \in Nat : len = Len(s) /\ DOMAIN s = 1 .. len
  OBVIOUS
<1>2. i # len /\ i \in 1 .. len /\ len \in 1 .. len
  BY <1>1
<1> QED
  BY <1>1, <1>2 DEF NoRepeats

\* The running loop schedules a request.
LEMMA SchedulePace ==
  ASSUME CoreInv, Unpipelined, Roomy, Pace, ScheduleChunk
  PROVE  Pace'
<1>1. /\ Inv /\ TypeOK /\ FlightInv /\ Counted /\ QueueConsistency /\ pc = "alloc" /\ pc' = "running"
      /\ (\A r \in Reqs : Counts(r)) /\ AllReady /\ AllServed /\ Ample /\ Chosen
  BY UnpipelinedExact DEF CoreInv, Inv, Pace, ScheduleChunk, ScheduleRunning
<1>2. PICK c \in Reqs : c = cur
  BY <1>1 DEF Inv, PassState
<1>3. /\ running \in Seq(Reqs) /\ NoRepeats(running) /\ DOMAIN running = 1 .. Len(running)
      /\ Len(running) \in Nat /\ idx \in Nat \ {0} /\ num \in Int /\ budget \in Int
      /\ idx <= Len(running) /\ running[idx] = c /\ nsched[c] = 0 /\ num <= budget
      /\ Len(running) <= MaxNumRunningReqs /\ MaxNumRunningReqs \in Nat
      /\ c \in Elems(running) /\ status[c] = "running"
  <2>1. ~PriorityPolicy
    BY DEF Roomy
  <2>2. /\ idx <= Len(running) /\ running[idx] = c /\ nsched[c] = 0 /\ num <= budget
        /\ c \in Elems(running) /\ Len(running) <= MaxNumRunningReqs
    BY <1>1, <1>2, <2>1 DEF CoreInv, PassInv, Picked, RunningBound
  <2> QED
    BY <1>1, <2>2, PassFacts DEF QueueConsistency
<1>4. PICK nt \in Nat, ph \in Int, sp \in Nat, comp \in Int :
        /\ nt = NumTokens(c) /\ ph = placeholders[c] /\ sp = spec[c] /\ comp = computed[c]
  BY <1>1, LevelType
<1>5. PICK extra \in Int : extra = num + comp - nt - ph
  <2>1. num \in Int
    BY <1>3
  <2> QED
    BY <2>1
<1>6. PICK s \in Int : s = IF sp > 0 /\ extra > 0 THEN MinOf(extra, sp) ELSE 0
  BY <1>4, <1>5 DEF MinOf
<1>7. /\ nsched' = [nsched EXCEPT ![c] = num] /\ sspec' = [sspec EXCEPT ![c] = s]
      /\ spec' = [spec EXCEPT ![c] = 0] /\ budget' = budget - num /\ idx' = idx + 1
      /\ UNCHANGED <<status, out, computed, placeholders, running>>
  BY <1>2, <1>4, <1>5, <1>6 DEF ScheduleChunk, ScheduleRunning, queueVars
<1>8. /\ nsched'[c] = num /\ sspec'[c] = s /\ spec'[c] = 0
      /\ \A o \in Reqs : o # c => /\ nsched'[o] = nsched[o] /\ sspec'[o] = sspec[o]
                                  /\ spec'[o] = spec[o]
  BY <1>1, <1>7 DEF TypeOK
<1>9. /\ num > 0 /\ ph >= 0 /\ nt < MaxModelLen /\ MaxModelLen \in Int
      /\ num = MinOf(MinOf(nt + sp + ph - comp, budget), MaxModelLen - comp)
      /\ Remaining(c) = nt + sp + ph - comp
      /\ IF ph > 0 THEN comp = nt + ph - 1 ELSE comp < nt
  <2>1. Caught(c)
    BY <1>1 DEF Counts
  <2>2. num = ChunkTokens(c) /\ num > 0
    BY <1>1, <1>2 DEF Chosen, Counted
  <2>3. ~(0 < LongPrefillThreshold)
    BY DEF Roomy
  <2>4. ChunkTokens(c) = MinOf(MinOf(nt + sp + ph - comp, budget), MaxModelLen - comp)
    BY <1>4, <2>3 DEF ChunkTokens
  <2>5. MaxModelLen \in Int
    BY CoreAssumption
  <2> QED
    BY <1>3, <1>4, <2>1, <2>2, <2>4, <2>5, Owes DEF Remaining, Caught
<1>10. /\ comp + num = nt + ph + s \/ (num = budget /\ num < nt + sp + ph - comp)
       /\ num <= nt + sp + ph - comp
  <2>1. num \in Int /\ budget \in Int
    BY <1>3
  <2> QED
    BY <1>5, <1>6, <1>9, <2>1 DEF MinOf
<1>11. \A o \in Reqs : NumTokens(o)' = NumTokens(o)
  BY <1>7 DEF NumTokens
<1>12. \A o \in Reqs : o # c => (o \in Emitting' <=> o \in Emitting)
  BY <1>7, <1>8, <1>11 DEF Emitting, Scheduled
<1>13. c \in Emitting' <=> comp + num = nt + ph + s
  BY <1>4, <1>7, <1>8, <1>9, <1>11 DEF Emitting, Scheduled
<1>14. ~IsLast(c) => c \in Emitting' /\ num <= 1 + NumSpecTokens
  <2> SUFFICES ASSUME ~IsLast(c) PROVE c \in Emitting' /\ num <= 1 + NumSpecTokens
    OBVIOUS
  <2>1. Ready(c)
    BY <1>1, <1>3 DEF AllReady
  <2>2. Remaining(c) <= 1 + NumSpecTokens
    BY <1>3, <2>1 DEF Ready
  <2>3. budget >= 1 + NumSpecTokens
    <3>1. budget >= Room(idx)
      BY <1>1, <1>3 DEF Ample
    <3>2. Room(idx) \in Int /\ Room(idx) >= 1 + NumSpecTokens
      <4>1. idx \in Nat /\ 0 < idx /\ idx <= MaxNumRunningReqs
        BY <1>3
      <4>2. /\ Room(idx) \in Int /\ Room(idx + 1) \in Int /\ Room(idx + 1) >= 0
            /\ Room(idx) = Room(idx + 1) + 1 + NumSpecTokens
        BY <4>1, Rooms
      <4> QED
        BY <4>2, CoreAssumption
    <3>3. NumSpecTokens \in Nat /\ budget \in Int
      BY <1>3, CoreAssumption
    <3> QED
      BY <3>1, <3>2, <3>3
  <2>4. PICK rem \in Int : rem = nt + sp + ph - comp
    OBVIOUS
  <2>5. rem <= 1 + NumSpecTokens /\ num <= rem
    BY <1>9, <1>10, <2>2, <2>4
  <2>6. NumSpecTokens \in Nat /\ num \in Int /\ budget \in Int
    BY <1>3, CoreAssumption
  <2>7. ~(num = budget /\ num < rem) /\ num <= 1 + NumSpecTokens
    BY <2>3, <2>4, <2>5, <2>6
  <2> QED
    BY <1>10, <1>13, <2>4, <2>7
<1>15. \A r \in Reqs : Counts(r)'
  <2> SUFFICES ASSUME NEW r \in Reqs PROVE Counts(r)'
    OBVIOUS
  <2>1. spec'[r] \in {0, NumSpecTokens}
    BY <1>1, <1>8 DEF Counts
  <2>2. Caught(r)'
    BY <1>1, <1>7, <1>11 DEF Counts, Caught
  <2>3. Cut(r)'
    <3>1. CASE r = c
      BY <1>3, <1>7, <1>10, <1>13, <3>1 DEF Cut
    <3>2. CASE r # c
      <4>1. budget # 0
        BY <1>3, <1>9
      <4>2. Cut(r) /\ Scheduling
        BY <1>1 DEF Counts, Scheduling
      <4> QED
        BY <1>8, <1>12, <3>2, <4>1, <4>2 DEF Cut
    <3> QED
      BY <3>1, <3>2
  <2> QED
    BY <2>1, <2>2, <2>3 DEF Counts
<1>16. AllReady'
  <2> SUFFICES ASSUME NEW r \in Elems(running) PROVE Ready(r)' \/ IsLast(r)'
    BY <1>1, <1>7 DEF AllReady
  <2>1. r \in Reqs /\ (IsLast(r)' <=> IsLast(r))
    BY <1>3, <1>7, ElemsType DEF IsLast
  <2>2. CASE r = c
    BY <1>8, <1>9, <1>14, <2>1, <2>2 DEF Ready
  <2>3. CASE r # c
    <3>1. Ready(r) \/ IsLast(r)
      BY <1>1 DEF AllReady
    <3>2. Remaining(r)' = Remaining(r)
      BY <1>7, <1>8, <1>11, <2>1, <2>3 DEF Remaining
    <3>3. nsched'[r] = nsched[r] /\ (r \in Emitting' <=> r \in Emitting)
      BY <1>8, <1>12, <2>1, <2>3
    <3> QED
      BY <2>1, <3>1, <3>2, <3>3 DEF Ready
  <2> QED
    BY <2>2, <2>3
<1>17. AllServed'
  <2> SUFFICES ASSUME NEW r \in Reqs, Passed(r)' PROVE Served(r)'
    BY DEF AllServed
  <2>1. CASE r = c
    BY <1>8, <1>9, <2>1 DEF Served
  <2>2. CASE r # c
    <3>1. PICK i \in 1 .. Len(running) : i < idx + 1 /\ running[i] = r
      BY <1>1, <1>7 DEF Passed
    <3>2. i # idx
      BY <1>3, <2>2, <3>1
    <3>3. i < idx
      BY <1>3, <3>1, <3>2
    <3>4. Passed(r)
      BY <1>1, <3>1, <3>3 DEF Passed
    <3> QED
      BY <1>1, <1>7, <1>8, <2>2, <3>4 DEF AllServed, Served
  <2> QED
    BY <2>1, <2>2
<1>18. Ample'
  <2> SUFFICES ASSUME idx + 1 <= Len(running) PROVE budget' >= Room(idx + 1)
    <3>1. Room(idx)' = Room(idx + 1)
      BY <1>7 DEF Room
    <3> QED
      BY <1>7, <3>1 DEF Ample
  <2>0. idx + 1 <= Len(running)
    OBVIOUS
  <2>1. ~IsLast(c)
    <3>1. running \in Seq(Reqs) /\ NoRepeats(running) /\ idx \in Nat \ {0}
      BY <1>3
    <3>2. running[idx] # running[Len(running)]
      BY <2>0, <3>1, NotLast
    <3> QED
      BY <1>3, <3>2 DEF IsLast
  <2>2. num <= 1 + NumSpecTokens /\ budget >= Room(idx)
    BY <1>1, <1>3, <1>14, <2>1 DEF Ample
  <2>3. /\ Room(idx) \in Int /\ Room(idx + 1) \in Int
        /\ Room(idx) = Room(idx + 1) + 1 + NumSpecTokens
    <3>1. idx \in Nat /\ 0 < idx /\ idx <= MaxNumRunningReqs
      BY <1>3
    <3> QED
      BY <3>1, Rooms
  <2>4. NumSpecTokens \in Nat /\ budget' = budget - num
    BY <1>7, CoreAssumption
  <2> QED
    BY <1>3, <2>2, <2>3, <2>4
<1>19. Chosen' /\ Fresh'
  BY <1>1 DEF Chosen, Fresh
<1> QED
  BY <1>15, <1>16, <1>17, <1>18, <1>19 DEF Pace


\* What the counts of a request say does not change without them.
LEMMA SameCounts ==
  ASSUME UNCHANGED <<out, computed, placeholders, spec, nsched, sspec>>
  PROVE  /\ Emitting' = Emitting
         /\ \A r \in Reqs : /\ Remaining(r)' = Remaining(r) /\ NumTokens(r)' = NumTokens(r)
                            /\ Ready(r)' <=> Ready(r)
                            /\ Served(r)' <=> Served(r)
                            /\ status'[r] = status[r] => (Caught(r)' <=> Caught(r))
<1>1. \A r \in Reqs : NumTokens(r)' = NumTokens(r)
  BY DEF NumTokens
<1>2. Emitting' = Emitting
  BY <1>1 DEF Emitting, Scheduled
<1>3. \A r \in Reqs : Remaining(r)' = Remaining(r)
  BY <1>1 DEF Remaining
<1> QED
  BY <1>1, <1>2, <1>3 DEF Ready, Served, Caught

\* The running loop passes over a request only if it is at the model length.
LEMMA PassedOver ==
  ASSUME CoreInv, Unpipelined, Roomy, NEW r \in Reqs, status[r] = "running", Caught(r),
         budget > 0, ChunkTokens(r) = 0
  PROVE  computed[r] >= MaxModelLen
<1>1. /\ Inv /\ FlightInv /\ MaxModelLen \in Int
  BY CoreAssumption DEF CoreInv
<1>2. PICK rem \in Int : rem = Remaining(r)
  BY <1>1, LevelType
<1>3. rem >= 1
  <2>1. rem >= 1 + spec[r] /\ spec[r] \in Nat
    BY <1>1, <1>2, Owes, LevelType
  <2> QED
    BY <1>2, <2>1
<1>4. computed[r] \in Int /\ budget \in Int
  BY <1>1 DEF Inv, TypeOK
<1>5. ChunkTokens(r) = MinOf(MinOf(rem, budget), MaxModelLen - computed[r])
  <2>1. ~(0 < LongPrefillThreshold)
    BY DEF Roomy
  <2> QED
    BY <1>2, <2>1 DEF ChunkTokens, Remaining
<1> QED
  BY <1>1, <1>2, <1>3, <1>4, <1>5 DEF MinOf

\* The loops begin, pass over requests, pick one, and end.
LEMMA LoopPace ==
  ASSUME CoreInv, Unpipelined, Roomy, Pace,
         \/ BeginChunkSchedule \/ PassOverRunning \/ PickChunk \/ EndRunningLoop
         \/ EndWaitingLoop \/ \E r \in Reqs : SkipChunk(r)
  PROVE  Pace'
<1>1. /\ Inv /\ TypeOK /\ FlightInv /\ QueueConsistency /\ PassInv
      /\ (\A r \in Reqs : Counts(r)) /\ AllReady /\ AllServed /\ Ample /\ Chosen /\ Fresh
  BY DEF CoreInv, Inv, Pace
<1>2. /\ UNCHANGED <<status, out, computed, placeholders, spec, nsched, sspec, running>>
  BY DEF BeginChunkSchedule, PassOverRunning, PickChunk, EndRunningLoop, EndWaitingLoop,
     SkipChunk, reqVars, localVars, queueVars
<1>3. /\ Emitting' = Emitting
      /\ \A r \in Reqs : /\ Remaining(r)' = Remaining(r)
                         /\ Ready(r)' <=> Ready(r)
                         /\ Served(r)' <=> Served(r)
                         /\ Caught(r)' <=> Caught(r)
                         /\ IsLast(r)' <=> IsLast(r)
  BY <1>2, SameCounts DEF IsLast
<1>4. /\ running \in Seq(Reqs) /\ DOMAIN running = 1 .. Len(running) /\ Len(running) \in Nat
      /\ idx \in Nat \ {0} /\ budget \in Int /\ Elems(running) \subseteq Reqs
      /\ Len(running) <= MaxNumRunningReqs /\ MaxNumRunningReqs \in Nat
      /\ Elems(running)' = Elems(running)
  BY <1>1, <1>2, PassFacts DEF PassInv, RunningBound, Elems
<1>5. nsched = Zero \/ (Scheduling /\ budget' = budget)
  BY <1>1 DEF Inv, PassState, Scheduling, BeginChunkSchedule, PassOverRunning, PickChunk,
     EndRunningLoop, EndWaitingLoop, SkipChunk, localVars
<1>6. \A r \in Reqs : Counts(r)'
  <2> SUFFICES ASSUME NEW r \in Reqs PROVE Cut(r)'
    BY <1>1, <1>2, <1>3 DEF Counts
  <2>1. Cut(r)
    BY <1>1 DEF Counts
  <2>2. CASE nsched = Zero
    BY <1>2, <2>2 DEF Cut, Zero
  <2>3. CASE Scheduling /\ budget' = budget
    BY <1>2, <1>3, <2>1, <2>3 DEF Cut
  <2> QED
    BY <1>5, <2>2, <2>3
<1>7. \A r \in Reqs : r \in Elems(running) => status[r] = "running" /\ Caught(r) /\ Cut(r)
  BY <1>1 DEF QueueConsistency, Counts
<1>8. CASE BeginChunkSchedule
  <2>1. pc = "idle" /\ pc' = "running" /\ idx' = 1 /\ budget' = MaxNumScheduledTokens
    BY <1>1, <1>8 DEF BeginChunkSchedule, Fresh
  <2>2. AllReady'
    BY <1>1, <1>3, <1>4, <2>1 DEF AllReady
  <2>3. AllServed'
    <3>1. \A r \in Reqs : ~Passed(r)'
      BY <2>1 DEF Passed
    <3> QED
      BY <3>1 DEF AllServed
  <2>4. Ample'
    <3>1. Room(1)' = Room(1)
      BY DEF Room
    <3> QED
      BY <2>1, <3>1 DEF Ample, Roomy
  <2> QED
    BY <1>6, <2>1, <2>2, <2>3, <2>4 DEF Pace, Chosen, Fresh
<1>9. CASE PassOverRunning \/ PickChunk
  <2>1. /\ pc = "running" /\ pc' \in {"running", "alloc"} /\ budget' = budget /\ budget > 0
        /\ idx <= Len(running)
        /\ \/ pc' = "alloc" /\ idx' = idx /\ cur' = running[idx] /\ num' = ChunkTokens(running[idx])
           \/ pc' = "running" /\ idx' = idx + 1 /\ ChunkTokens(running[idx]) = 0
    BY <1>9 DEF PassOverRunning, PickChunk, RunningLoopGoesOn
  <2>2. AllReady'
    BY <1>1, <1>3, <1>4, <2>1 DEF AllReady
  <2>3. PICK c \in Reqs : c = running[idx] /\ c \in Elems(running)
    BY <1>4, <2>1 DEF Elems
  <2>4. AllServed'
    <3> SUFFICES ASSUME NEW r \in Reqs, Passed(r)' PROVE Served(r)'
      BY DEF AllServed
    <3>1. PICK i \in 1 .. Len(running) : i < idx' /\ running[i] = r
      BY <1>2, <2>1 DEF Passed
    <3>2. CASE i < idx
      <4>1. Passed(r)
        BY <2>1, <3>1, <3>2 DEF Passed
      <4> QED
        BY <1>1, <1>3, <4>1 DEF AllServed
    <3>3. CASE ~(i < idx)
      <4>1. i = idx /\ r = c /\ ChunkTokens(c) = 0
        BY <1>4, <2>1, <2>3, <3>1, <3>3
      <4>2. computed[c] >= MaxModelLen
        BY <1>7, <2>1, <2>3, <4>1, PassedOver
      <4> QED
        BY <1>3, <4>1, <4>2 DEF Served
    <3> QED
      BY <3>2, <3>3
  <2>5. Ample'
    <3>1. Room(idx)' = Room(idx') /\ Room(idx) \in Int /\ Room(idx + 1) \in Int
          /\ Room(idx + 1) <= Room(idx)
      <4>1. idx \in Nat /\ 0 < idx /\ idx <= MaxNumRunningReqs /\ NumSpecTokens \in Nat
        <5>1. idx <= Len(running)
          BY <2>1
        <5>2. MaxNumRunningReqs \in Nat /\ NumSpecTokens \in Nat
          BY CoreAssumption
        <5>3. Len(running) \in Nat /\ Len(running) <= MaxNumRunningReqs
          BY <1>1, PassFacts DEF PassInv, RunningBound
        <5>4. idx \in Nat /\ 0 < idx
          BY <1>4
        <5> QED
          BY <5>1, <5>2, <5>3, <5>4
      <4>2. /\ Room(idx) \in Int /\ Room(idx + 1) \in Int
            /\ Room(idx) = Room(idx + 1) + 1 + NumSpecTokens
        BY <4>1, Rooms
      <4> QED
        BY <4>1, <4>2 DEF Room
    <3>2. budget >= Room(idx)
      BY <1>1, <2>1 DEF Ample
    <3>3. budget >= Room(idx')
      <4>1. CASE idx' = idx
        BY <3>2, <4>1
      <4>2. CASE idx' = idx + 1
        <5>1. budget >= Room(idx + 1)
          BY <1>4, <3>1, <3>2
        <5> QED
          BY <4>2, <5>1
      <4> QED
        BY <2>1, <4>1, <4>2
    <3> QED
      BY <2>1, <3>1, <3>3 DEF Ample
  <2>6. Chosen'
    <3>1. pc' = "alloc" => num' = ChunkTokens(c) /\ cur' = c
      BY <2>1, <2>3
    <3>2. ChunkTokens(c)' = ChunkTokens(c)
      BY <1>2, <2>1 DEF ChunkTokens, NumTokens
    <3> QED
      BY <3>1, <3>2 DEF Chosen
  <2> QED
    BY <1>6, <2>1, <2>2, <2>4, <2>5, <2>6 DEF Pace, Fresh
<1>10. CASE EndRunningLoop
  <2>1. pc = "running" /\ pc' \in {"waiting", "commit"} /\ budget' = budget /\ ~RunningLoopGoesOn
    BY <1>10 DEF EndRunningLoop, localVars
  <2>2. ~(idx <= Len(running))
    <3> SUFFICES ASSUME idx <= Len(running) PROVE FALSE
      OBVIOUS
    <3>1. budget >= Room(idx) /\ ~(budget > 0)
      BY <1>1, <2>1 DEF Ample, RunningLoopGoesOn
    <3>2. idx \in Nat /\ 0 < idx /\ idx <= MaxNumRunningReqs /\ NumSpecTokens \in Nat
      BY <1>4, CoreAssumption
    <3>3. /\ Room(idx) \in Int /\ Room(idx + 1) \in Int /\ Room(idx + 1) >= 0
          /\ Room(idx) = Room(idx + 1) + 1 + NumSpecTokens
      BY <3>2, Rooms
    <3> QED
      BY <1>4, <3>1, <3>2, <3>3
  <2>3. \A r \in Elems(running) : Served(r)
    <3> SUFFICES ASSUME NEW r \in Elems(running) PROVE Served(r)
      OBVIOUS
    <3>1. PICK i \in 1 .. Len(running) : running[i] = r
      BY <1>4 DEF Elems
    <3>2. i < idx
      BY <1>4, <2>2, <3>1
    <3>3. Passed(r) /\ r \in Reqs
      BY <1>4, <2>1, <3>1, <3>2 DEF Passed
    <3> QED
      BY <1>1, <3>3 DEF AllServed
  <2>4. AllReady'
    <3> SUFFICES ASSUME NEW r \in Elems(running)
                 PROVE  Ready(r) \/ (IsLast(r) /\ budget = 0)
      BY <1>3, <1>4, <2>1 DEF AllReady
    <3>1. r \in Reqs /\ status[r] = "running" /\ Caught(r) /\ Cut(r) /\ Served(r)
      BY <1>4, <1>7, <2>3
    <3>2. CASE nsched[r] > 0
      <4>1. Scheduling
        BY <2>1 DEF Scheduling
      <4>2. r \in Emitting \/ budget = 0
        BY <3>1, <3>2, <4>1 DEF Cut
      <4>3. Ready(r) \/ IsLast(r)
        BY <1>1 DEF AllReady
      <4>4. r \in Emitting <=> Ready(r)
        BY <3>2 DEF Ready
      <4> QED
        BY <4>2, <4>3, <4>4
    <3>3. CASE ~(nsched[r] > 0)
      <4>1. placeholders[r] > 0 /\ Remaining(r) = 1 + spec[r]
        BY <3>1, <3>3, Owes DEF Served
      <4>2. spec[r] \in {0, NumSpecTokens} /\ NumSpecTokens \in Nat
        BY <1>1, <3>1, CoreAssumption DEF Counts
      <4>3. Remaining(r) <= 1 + NumSpecTokens
        BY <4>1, <4>2
      <4> QED
        BY <3>3, <4>3 DEF Ready
    <3> QED
      BY <3>2, <3>3
  <2>5. AllServed'
    <3> SUFFICES ASSUME NEW r \in Reqs, Passed(r)' PROVE Served(r)'
      BY DEF AllServed
    <3>1. r \in Elems(running)
      BY <1>4, <2>1 DEF Passed
    <3> QED
      BY <1>3, <2>3, <3>1
  <2> QED
    BY <1>6, <2>1, <2>4, <2>5 DEF Pace, Ample, Chosen, Fresh
<1>11. CASE EndWaitingLoop \/ \E r \in Reqs : SkipChunk(r)
  <2>1. pc = "waiting" /\ pc' \in {"waiting", "commit"} /\ budget' = budget
    BY <1>11 DEF EndWaitingLoop, SkipChunk
  <2>2. AllReady'
    BY <1>1, <1>3, <1>4, <2>1 DEF AllReady
  <2>3. AllServed'
    <3> SUFFICES ASSUME NEW r \in Reqs, Passed(r)' PROVE Served(r)'
      BY DEF AllServed
    <3>1. Passed(r)
      BY <1>4, <2>1 DEF Passed
    <3> QED
      BY <1>1, <1>3, <3>1 DEF AllServed
  <2> QED
    BY <1>6, <2>1, <2>2, <2>3 DEF Pace, Ample, Chosen, Fresh
<1> QED
  BY <1>8, <1>9, <1>10, <1>11


\* The running loop preempts the last request, which it has not scheduled.
LEMMA PreemptPace ==
  ASSUME CoreInv, Unpipelined, Roomy, Pace, NEW v \in Reqs, PreemptChunk(v)
  PROVE  Pace'
<1>1. /\ Inv /\ TypeOK /\ FlightInv /\ QueueConsistency /\ PassInv /\ ~PriorityPolicy
      /\ (\A r \in Reqs : Counts(r)) /\ AllReady /\ AllServed /\ Ample /\ Chosen
  BY DEF CoreInv, Inv, Pace, Roomy
<1>2. /\ pc = "alloc" /\ IsVictim(running, v, PriorityPolicy, Rank)
      /\ running' = Without(running, v) /\ computed' = [computed EXCEPT ![v] = 0]
      /\ status' = [status EXCEPT ![v] = "preempted"]
      /\ UNCHANGED <<out, placeholders, spec, nsched, sspec, budget, idx>>
      /\ IF v = cur THEN pc' = "commit" ELSE UNCHANGED <<pc, cur, num>>
  BY <1>1 DEF PreemptChunk, Preempt, Refund
<1>3. /\ running \in Seq(Reqs) /\ NoRepeats(running) /\ DOMAIN running = 1 .. Len(running)
      /\ Elems(running) \subseteq Reqs /\ idx \in Nat \ {0}
  BY <1>1, PassFacts
<1>4. PICK len \in Nat : len = Len(running) /\ DOMAIN running = 1 .. len
  <2>1. running \in Seq(Reqs)
    BY <1>3
  <2> QED
    BY <2>1
<1>5. v \in Elems(running) /\ v = running[len]
  BY <1>1, <1>2, <1>4 DEF IsVictim
<1>6. len \in 1 .. len
  BY <1>3, <1>4, <1>5 DEF Elems
<1>7. PICK c \in Reqs : c = cur /\ idx <= len /\ running[idx] = c
  BY <1>1, <1>2, <1>4 DEF Inv, PassState, PassInv, Picked
<1>8. nsched[v] = 0
  BY <1>1, <1>2, <1>4, <1>5, <1>6, <1>7 DEF PassInv, AheadFree
<1>9. /\ Len(running') = len - 1 /\ running' \in Seq(Reqs)
      /\ \A j \in 1 .. len - 1 : running'[j] = running[j]
      /\ \A r \in Elems(running') : r \in Elems(running) /\ r # v /\ r \in Reqs
  <2>1. /\ Len(Without(running, v)) = len - 1
        /\ \A j \in 1 .. len - 1 : Without(running, v)[j] = IF j < len THEN running[j] ELSE running[j + 1]
    <3>1. running \in Seq(Reqs) /\ NoRepeats(running) /\ len \in 1 .. Len(running)
      BY <1>3, <1>4, <1>6
    <3>2. /\ Len(Without(running, running[len])) = Len(running) - 1
          /\ \A j \in 1 .. Len(running) - 1 :
               Without(running, running[len])[j] = IF j < len THEN running[j] ELSE running[j + 1]
      BY <3>1, WithoutAt
    <3> QED
      BY <1>4, <1>5, <3>2
  <2>2. Without(running, v) \in Seq(Reqs) /\ Elems(Without(running, v)) = Elems(running) \ {v}
    BY <1>3, WithoutElems
  <2> QED
    BY <1>2, <1>3, <1>4, <2>1, <2>2
<1>10. \A r \in Reqs : r # v => computed'[r] = computed[r] /\ status'[r] = status[r]
  BY <1>1, <1>2 DEF TypeOK
<1>11. \A r \in Reqs : NumTokens(r)' = NumTokens(r)
  BY <1>2 DEF NumTokens
<1>12. \A r \in Reqs : r # v => /\ r \in Emitting' <=> r \in Emitting
                                /\ Ready(r)' <=> Ready(r)
                                /\ Served(r)' <=> Served(r)
                                /\ Caught(r)' <=> Caught(r)
  <2>1. \A r \in Reqs : r # v => (r \in Emitting' <=> r \in Emitting)
    BY <1>2, <1>10, <1>11 DEF Emitting, Scheduled
  <2>2. \A r \in Reqs : r # v => Remaining(r)' = Remaining(r)
    BY <1>2, <1>10, <1>11 DEF Remaining
  <2> QED
    BY <1>2, <1>10, <1>11, <2>1, <2>2 DEF Ready, Served, Caught
<1>13. \A r \in Reqs : Counts(r)'
  <2> SUFFICES ASSUME NEW r \in Reqs PROVE Caught(r)' /\ Cut(r)'
    BY <1>1, <1>2 DEF Counts
  <2>1. CASE r = v
    BY <1>1, <1>2, <1>8, <2>1 DEF Caught, Cut, TypeOK
  <2>2. CASE r # v
    <3>1. Caught(r) /\ Cut(r) /\ Scheduling
      BY <1>1, <1>2 DEF Counts, Scheduling
    <3> QED
      BY <1>2, <1>12, <2>2, <3>1 DEF Cut
  <2> QED
    BY <2>1, <2>2
<1>14. \A r \in Elems(running') : Ready(r)'
  <2> SUFFICES ASSUME NEW r \in Elems(running') PROVE Ready(r)'
    OBVIOUS
  <2>1. r \in Elems(running) /\ r # v /\ r \in Reqs
    BY <1>9
  <2>2. ~IsLast(r)
    BY <1>4, <1>5, <2>1 DEF IsLast
  <2> QED
    BY <1>1, <1>12, <2>1, <2>2 DEF AllReady
<1>15. AllReady'
  BY <1>14 DEF AllReady
<1>16. AllServed'
  <2> SUFFICES ASSUME NEW r \in Reqs, Passed(r)' PROVE Served(r)'
    BY DEF AllServed
  <2>1. PICK i \in 1 .. len - 1 : i < idx /\ running[i] = r /\ r # v
    <3>1. CASE v = cur
      <4>1. r \in Elems(running')
        BY <1>2, <3>1 DEF Passed
      <4>2. PICK i \in 1 .. len - 1 : running'[i] = r
        <5>1. Elems(running') = {running'[i] : i \in 1 .. Len(running')}
          BY <1>9, ElemsType
        <5> QED
          BY <1>9, <4>1, <5>1
      <4>3. idx = len
        <5>1. running[idx] = running[len]
          BY <1>5, <1>7, <3>1
        <5>2. idx \in 1 .. len /\ len \in 1 .. len
          BY <1>3, <1>6, <1>7
        <5>3. idx \in DOMAIN running /\ len \in DOMAIN running
          BY <1>4, <5>2
        <5>4. NoRepeats(running)
          BY <1>3
        <5> QED
          BY <5>1, <5>3, <5>4 DEF NoRepeats
      <4> QED
        BY <1>4, <1>9, <4>1, <4>2, <4>3
    <3>2. CASE v # cur
      <4>1. PICK i \in 1 .. Len(running') : i < idx /\ running'[i] = r
        BY <1>2, <3>2 DEF Passed
      <4>2. i \in 1 .. len - 1
        BY <1>9, <4>1
      <4>3. r # v
        <5>1. r \in Elems(running')
          <6>1. Elems(running') = {running'[j] : j \in 1 .. Len(running')}
            BY <1>9, ElemsType
          <6> QED
            BY <4>1, <6>1
        <5> QED
          BY <1>9, <5>1
      <4> QED
        BY <1>9, <4>1, <4>2, <4>3
    <3> QED
      BY <3>1, <3>2
  <2>2. i \in 1 .. Len(running)
    BY <1>4, <2>1
  <2>3. Passed(r)
    BY <1>2, <2>1, <2>2 DEF Passed
  <2> QED
    BY <1>1, <1>12, <2>1, <2>3 DEF AllServed
<1>17. Ample'
  <2> SUFFICES ASSUME pc' = "alloc" PROVE budget' >= Room(idx)'
    BY <1>2 DEF Ample
  <2>1. Room(idx)' = Room(idx)
    BY <1>2 DEF Room
  <2>2. budget >= Room(idx)
    BY <1>1, <1>2, <1>4, <1>7 DEF Ample
  <2> QED
    BY <1>2, <2>1, <2>2
<1>18. Chosen'
  <2> SUFFICES ASSUME pc' = "alloc" PROVE num' = ChunkTokens(cur)'
    BY DEF Chosen
  <2>1. c # v /\ cur' = c /\ num' = num /\ num = ChunkTokens(c)
    BY <1>1, <1>2, <1>7 DEF Chosen
  <2>2. ChunkTokens(c)' = ChunkTokens(c)
    BY <1>2, <1>10, <1>11, <2>1 DEF ChunkTokens
  <2>3. ChunkTokens(cur)' = ChunkTokens(c)'
    BY <2>1 DEF ChunkTokens, NumTokens
  <2> QED
    BY <2>1, <2>2, <2>3
<1>19. Fresh'
  BY <1>2 DEF Fresh
<1> QED
  BY <1>13, <1>15, <1>16, <1>17, <1>18, <1>19 DEF Pace

\* What the waiting loop may admit has no tokens in flight: a new request is
\* in no batch, and a preempted one has left the last.
LEMMA WaitingRest ==
  ASSUME CoreInv, Unpipelined, RunnerInv, PosInv, Roomy, pc = "waiting", NEW r \in Elems(waiting)
  PROVE  r \in Reqs /\ placeholders[r] = 0
<1>1. /\ Inv /\ TypeOK /\ FlightInv /\ QueueConsistency /\ RunnerType /\ Resumable /\ ~executed
      /\ MaxSubmissions = 1 /\ AsyncScheduling
  BY UnpipelinedExact DEF CoreInv, Inv, RunnerInv, Paired, Roomy
<1>2. r \in Reqs /\ Live(r) /\ status[r] \in {"waiting", "waiting_fsm", "preempted"}
  BY <1>1, ElemsType DEF QueueConsistency, TypeOK
<1>3. queue \in Seq(Batches) /\ Len(queue) \in Nat /\ Len(queue) <= 1
  BY <1>1, AtMostTwo
<1>4. ASSUME NEW i \in InFlight(r) PROVE FALSE
  <2>1. i \in 1 .. Len(queue) /\ r \in queue[i].emit
    BY <1>3 DEF InFlight
  <2>2. i = 1 /\ Len(queue) = 1
    <3>1. PICK m \in Nat : m = Len(queue) /\ m <= 1
      BY <1>3
    <3>2. i \in 1 .. m
      BY <2>1, <3>1
    <3>3. i = 1 /\ m = 1
      BY <3>1, <3>2
    <3> QED
      BY <3>1, <3>3
  <2>3. r \in Batch(1)
    <3>1. queue[1].n[r] > 0
      BY <1>1, <1>3, <2>1, <2>2 DEF FlightInv, Tagged
    <3> QED
      BY <1>2, <3>1 DEF Batch, Scheduled
  <2>4. CASE status[r] = "preempted"
    <3>1. r \notin Before(1)
      BY <1>1, <1>2, <2>2, <2>4 DEF Resumable
    <3> QED
      BY <1>1, <2>3, <3>1 DEF Before, Done
  <2>5. CASE status[r] \in {"waiting", "waiting_fsm"}
    <3>1. Untouched(r, Len(queue))
      BY <1>2, <2>5 DEF PosInv, Traced, NewAreNew
    <3> QED
      BY <2>2, <2>3, <3>1 DEF Untouched
  <2> QED
    BY <1>2, <2>4, <2>5
<1>5. Due(1, r) = 0 /\ Due(2, r) = 0
  BY <1>4 DEF Due
<1>6. placeholders[r] = Owed(r)
  BY <1>1, <1>2 DEF FlightInv, Awaited
<1> QED
  BY <1>2, <1>5, <1>6 DEF Owed


\* The waiting loop admits a request with all of its tokens, or with what is
\* left of the budget.
LEMMA AdmitPace ==
  ASSUME CoreInv, Unpipelined, Roomy, Pace, NEW c \in Reqs, placeholders[c] = 0, AdmitChunk(c)
  PROVE  Pace'
<1>1. /\ Inv /\ TypeOK /\ FlightInv /\ Counted /\ QueueConsistency /\ PassInv
      /\ (\A r \in Reqs : Counts(r)) /\ AllReady /\ AllServed
  BY UnpipelinedExact DEF CoreInv, Inv, Pace
<1>2. PICK n : n = FirstChunk(c)
  OBVIOUS
<1>3. /\ pc = "waiting" /\ pc' = "waiting" /\ budget > 0 /\ c \in Elems(waiting)
      /\ status' = [status EXCEPT ![c] = "running"] /\ nsched' = [nsched EXCEPT ![c] = n]
      /\ running' = Append(running, c) /\ budget' = budget - n
      /\ UNCHANGED <<out, computed, placeholders, spec, sspec>>
  BY <1>2 DEF AdmitChunk, WaitingLoopGoesOn, Peeked, GoesNext
<1>4. /\ status[c] # "running" /\ c \notin Elems(running) /\ nsched[c] = 0 /\ sspec[c] = 0
      /\ computed[c] <= 0
  <2>1. c \notin Elems(running) /\ status[c] # "running"
    BY <1>1, <1>3 DEF QueueConsistency
  <2>2. nsched[c] = 0
    BY <1>1, <1>3, <2>1 DEF PassInv, WaitingFree
  <2>3. sspec[c] = 0
    BY <1>1, <2>2 DEF Counted
  <2>4. computed[c] <= 0
    BY <1>1, <2>1 DEF PassInv, Unstarted
  <2> QED
    BY <2>1, <2>2, <2>3, <2>4
<1>5. /\ computed[c] \in Int /\ NumTokens(c) \in Int /\ budget \in Int /\ NumTokens(c) > 0
  <2>1. Prompt[c] \in Nat \ {0}
    BY CoreAssumption
  <2>2. out[c] \in Nat /\ computed[c] \in Int /\ budget \in Int
    BY <1>1 DEF TypeOK
  <2> QED
    BY <2>1, <2>2 DEF NumTokens
<1>6. /\ n = MinOf(NumTokens(c) - computed[c], budget) /\ n \in Int /\ n > 0
      /\ n = NumTokens(c) - computed[c] \/ n = budget
  <2>1. ~(0 < LongPrefillThreshold)
    BY DEF Roomy
  <2>2. PrefillTokens(c) = NumTokens(c) - computed[c]
    BY <2>1 DEF PrefillTokens
  <2>3. n = MinOf(NumTokens(c) - computed[c], budget)
    BY <1>2, <2>2 DEF FirstChunk
  <2> QED
    BY <1>3, <1>4, <1>5, <2>3 DEF MinOf
<1>7. /\ nsched'[c] = n /\ status'[c] = "running"
      /\ \A o \in Reqs : o # c => nsched'[o] = nsched[o] /\ status'[o] = status[o]
  BY <1>1, <1>3 DEF TypeOK
<1>8. \A o \in Reqs : NumTokens(o)' = NumTokens(o)
  BY <1>3 DEF NumTokens
<1>9. \A o \in Reqs : o # c => (o \in Emitting' <=> o \in Emitting)
  BY <1>3, <1>7, <1>8 DEF Emitting, Scheduled
<1>10. c \in Emitting' \/ budget' = 0
  <2>1. CASE n = budget
    BY <1>3, <1>5, <2>1
  <2>2. CASE n = NumTokens(c) - computed[c]
    <3>1. computed[c] + n = NumTokens(c) + 0 + 0
      BY <1>5, <2>2
    <3>2. computed'[c] + nsched'[c] = NumTokens(c)' + placeholders'[c] + sspec'[c]
      BY <1>3, <1>4, <1>7, <1>8, <3>1
    <3> QED
      BY <1>6, <1>7, <3>2 DEF Emitting, Scheduled
  <2> QED
    BY <1>6, <2>1, <2>2
<1>11. \A o \in Reqs : o # c => /\ Caught(o)' <=> Caught(o)
                                /\ Ready(o)' <=> Ready(o)
                                /\ Served(o)' <=> Served(o)
  <2>1. \A o \in Reqs : Remaining(o)' = Remaining(o)
    BY <1>3, <1>8 DEF Remaining
  <2> QED
    BY <1>3, <1>7, <1>8, <1>9, <2>1 DEF Caught, Ready, Served
<1>12. \A o \in Reqs : Cut(o) /\ (nsched[o] > 0 => o \in Emitting)
  <2>1. Scheduling /\ budget # 0
    BY <1>3, <1>5 DEF Scheduling
  <2> QED
    BY <1>1, <2>1 DEF Counts, Cut
<1>13. \A o \in Reqs : Counts(o)'
  <2> SUFFICES ASSUME NEW o \in Reqs PROVE Caught(o)' /\ Cut(o)'
    BY <1>1, <1>3 DEF Counts
  <2>1. CASE o = c
    BY <1>3, <1>4, <1>5, <1>7, <1>8, <1>10, <2>1 DEF Caught, Cut
  <2>2. CASE o # c
    <3>1. Caught(o)
      BY <1>1 DEF Counts
    <3> QED
      BY <1>7, <1>9, <1>11, <1>12, <2>2, <3>1 DEF Cut
  <2> QED
    BY <2>1, <2>2
<1>14. /\ running \in Seq(Reqs) /\ Elems(running') = Elems(running) \cup {c}
       /\ running'[Len(running')] = c
  <2>1. running \in Seq(Reqs)
    BY <1>1 DEF TypeOK
  <2>2. Elems(Append(running, c)) = Elems(running) \cup {c}
    BY <2>1, AppendElems
  <2>3. Append(running, c)[Len(Append(running, c))] = c
    BY <2>1
  <2> QED
    BY <1>3, <2>1, <2>2, <2>3
<1>15. AllReady'
  <2> SUFFICES ASSUME NEW o \in Elems(running') PROVE Ready(o)' \/ (IsLast(o)' /\ budget' = 0)
    BY DEF AllReady
  <2>1. CASE o = c
    BY <1>6, <1>7, <1>10, <1>14, <2>1 DEF Ready, IsLast
  <2>2. CASE o # c
    <3>1. o \in Elems(running) /\ o \in Reqs
      BY <1>14, <2>2, ElemsType
    <3>2. Ready(o)
      <4>1. budget # 0
        BY <1>3, <1>5
      <4> QED
        BY <1>1, <1>3, <3>1, <4>1 DEF AllReady
    <3> QED
      BY <1>11, <2>2, <3>1, <3>2
  <2> QED
    BY <2>1, <2>2
<1>16. AllServed'
  <2> SUFFICES ASSUME NEW o \in Reqs, Passed(o)' PROVE Served(o)'
    BY DEF AllServed
  <2>1. CASE o = c
    BY <1>6, <1>7, <2>1 DEF Served
  <2>2. CASE o # c
    <3>1. o \in Elems(running)
      BY <1>3, <1>14, <2>2 DEF Passed
    <3>2. Passed(o)
      BY <1>3, <3>1 DEF Passed
    <3> QED
      BY <1>1, <1>11, <2>2, <3>2 DEF AllServed
  <2> QED
    BY <2>1, <2>2
<1> QED
  BY <1>3, <1>13, <1>15, <1>16 DEF Pace, Ample, Chosen, Fresh


\* Taking another request out leaves the last one the last.
LEMMA LastStays ==
  ASSUME NEW s \in Seq(Reqs), NoRepeats(s), NEW o, NEW r \in Elems(s), o # r,
         r = s[Len(s)]
  PROVE  r = Without(s, o)[Len(Without(s, o))]
<1>1. CASE o \notin Elems(s)
  BY <1>1 DEF Without
<1>2. CASE o \in Elems(s)
  <2>1. PICK len \in Nat : len = Len(s) /\ DOMAIN s = 1 .. len
    OBVIOUS
  <2>2. PICK p \in 1 .. len : s[p] = o
    BY <1>2, <2>1 DEF Elems
  <2>3. p # len /\ p < len /\ len - 1 \in 1 .. len - 1
    BY <2>1, <2>2
  <2>4. /\ Len(Without(s, s[p])) = len - 1
        /\ Without(s, s[p])[len - 1] = IF len - 1 < p THEN s[len - 1] ELSE s[len - 1 + 1]
    <3>1. p \in 1 .. Len(s)
      BY <2>1
    <3>2. /\ Len(Without(s, s[p])) = Len(s) - 1
          /\ \A j \in 1 .. Len(s) - 1 :
               Without(s, s[p])[j] = IF j < p THEN s[j] ELSE s[j + 1]
      BY <3>1, WithoutAt
    <3> QED
      BY <2>1, <2>3, <3>2
  <2>5. Without(s, o)[len - 1] = s[len]
    <3>1. ~(len - 1 < p) /\ len - 1 + 1 = len
      BY <2>1, <2>3
    <3> QED
      BY <2>2, <2>4, <3>1
  <2> QED
    BY <2>1, <2>2, <2>4, <2>5
<1> QED
  BY <1>1, <1>2


\* A request that samples has its next token and its drafts left to compute;
\* one that does not is not done with its prompt.
LEMMA CommitPace ==
  ASSUME CoreInv, Unpipelined, Roomy, PosInv, Pace, Commits
  PROVE  Pace'
<1>1. /\ Inv /\ TypeOK /\ FlightInv /\ Counted /\ QueueConsistency /\ PassInv
      /\ (\A r \in Reqs : Counts(r)) /\ AllReady /\ Within /\ AsyncScheduling
      /\ pc = "commit" /\ Scheduling /\ pc' \in {"idle", "output"} /\ idx' = 1
      /\ UNCHANGED <<status, out, running>>
  BY UnpipelinedExact DEF CoreInv, Inv, Pace, PosInv, Commits, StartOutput, Scheduling, Roomy
<1>2. \A r \in Reqs :
        /\ computed'[r] = computed[r] + nsched[r]
        /\ placeholders'[r] = IF r \in Emitting THEN placeholders[r] + 1 + sspec[r] ELSE placeholders[r]
        /\ spec'[r] = IF r \in Emitting THEN NumSpecTokens ELSE spec[r]
        /\ nsched'[r] = 0
  BY <1>1 DEF Commits, Zero
<1>3. \A r \in Reqs : NumTokens(r)' = NumTokens(r)
  BY <1>1 DEF NumTokens
<1>4. ASSUME NEW r \in Reqs, status[r] = "running"
      PROVE  Caught(r)' /\ (Ready(r) => Ready(r)')
  <2>1. PICK nt \in Nat, ph \in Int, sp \in Nat, comp \in Int, n \in Int, s \in Nat :
          /\ nt = NumTokens(r) /\ ph = placeholders[r] /\ sp = spec[r] /\ comp = computed[r]
          /\ n = nsched[r] /\ s = sspec[r]
    BY <1>1, LevelType
  <2>2. Caught(r) /\ ph >= 0 /\ n >= 0 /\ (s > 0 => comp + n = nt + ph + s)
        /\ (n > 0 => comp + n <= nt + ph + s) /\ (n = 0 => s = 0)
    <3>1. Caught(r) /\ ph >= 0
      BY <1>1, <1>4, <2>1, Owes DEF Counts
    <3>2. n >= 0 /\ (s > 0 => comp + n = nt + ph + s) /\ (n = 0 => s = 0)
      BY <1>1, <1>4, <2>1 DEF Counted, Level
    <3>3. n > 0 => comp + n <= nt + ph + s
      BY <1>1, <2>1 DEF Within
    <3> QED
      BY <3>1, <3>2, <3>3
  <2>3. r \in Emitting <=> n > 0 /\ comp + n = nt + ph + s
    BY <2>1 DEF Emitting, Scheduled
  <2>4. /\ computed'[r] = comp + n /\ NumTokens(r)' = nt /\ nsched'[r] = 0
        /\ status'[r] = "running"
    BY <1>1, <1>2, <1>3, <1>4, <2>1
  <2>5. NumSpecTokens \in Nat
    BY CoreAssumption
  <2>6. IF ph > 0 THEN comp = nt + ph - 1 ELSE comp < nt
    BY <1>4, <2>1, <2>2 DEF Caught
  <2>7. CASE r \in Emitting
    <3>1. placeholders'[r] = ph + 1 + s /\ spec'[r] = NumSpecTokens /\ comp + n = nt + ph + s
      BY <1>2, <2>1, <2>3, <2>7
    <3>2. placeholders'[r] > 0 /\ computed'[r] = NumTokens(r)' + placeholders'[r] - 1
      BY <2>1, <2>2, <2>4, <3>1
    <3>3. Caught(r)'
      BY <3>2 DEF Caught
    <3>4. Remaining(r)' = 1 + NumSpecTokens
      BY <2>1, <2>4, <2>5, <3>1 DEF Remaining
    <3>5. Remaining(r)' <= 1 + NumSpecTokens /\ ~(nsched'[r] > 0)
      BY <2>4, <2>5, <3>4
    <3> QED
      BY <3>3, <3>5 DEF Ready
  <2>8. CASE r \notin Emitting
    <3>1. placeholders'[r] = ph /\ spec'[r] = sp
      BY <1>2, <2>1, <2>8
    <3>2. n > 0 => ph = 0 /\ comp + n < nt
      BY <2>1, <2>2, <2>3, <2>6, <2>8
    <3>3. IF ph > 0 THEN comp + n = nt + ph - 1 ELSE comp + n < nt
      BY <2>1, <2>2, <2>6, <3>2
    <3>4. Caught(r)'
      BY <2>4, <3>1, <3>3 DEF Caught
    <3>5. Ready(r) => n = 0 /\ Remaining(r) <= 1 + NumSpecTokens
      BY <2>1, <2>2, <2>8 DEF Ready
    <3>6. n = 0 => Remaining(r)' = Remaining(r)
      BY <2>1, <2>4, <3>1 DEF Remaining
    <3>7. ~(nsched'[r] > 0)
      BY <2>4
    <3> QED
      BY <3>4, <3>5, <3>6, <3>7 DEF Ready
  <2> QED
    BY <2>7, <2>8
<1>5. \A r \in Reqs : Counts(r)'
  <2> SUFFICES ASSUME NEW r \in Reqs PROVE Counts(r)'
    OBVIOUS
  <2>1. spec'[r] \in {0, NumSpecTokens}
    BY <1>1, <1>2 DEF Counts
  <2>2. Caught(r)'
    BY <1>1, <1>4 DEF Caught
  <2>3. Cut(r)'
    BY <1>1 DEF Cut, Scheduling
  <2> QED
    BY <2>1, <2>2, <2>3 DEF Counts
<1>6. AllReady'
  <2> SUFFICES ASSUME NEW r \in Elems(running) PROVE Ready(r)' \/ IsLast(r)'
    BY <1>1 DEF AllReady
  <2>1. r \in Reqs /\ status[r] = "running" /\ (IsLast(r)' <=> IsLast(r))
    BY <1>1, ElemsType DEF QueueConsistency, TypeOK, IsLast
  <2>2. Ready(r) \/ IsLast(r)
    BY <1>1 DEF AllReady
  <2> QED
    BY <1>4, <2>1, <2>2
<1>7. AllServed'
  <2>1. \A r \in Reqs : ~Passed(r)'
    BY <1>1 DEF Passed
  <2> QED
    BY <2>1 DEF AllServed
<1> QED
  BY <1>1, <1>5, <1>6, <1>7 DEF Pace, Ample, Chosen, Fresh

\* Between two passes a step that changes no counts of live requests, and
\* takes none but a finished one out of running, keeps the pace.
LEMMA BetweenPace ==
  ASSUME CoreInv, Pace, pc \in {"idle", "output"}, pc' \in {"idle", "output"},
         idx' = idx, UNCHANGED <<nsched, sspec>>,
         running' = running \/ \E o \in Reqs : ~Live(o)' /\ running' = Without(running, o),
         \A r \in Reqs :
           /\ status'[r] = "running" => status[r] = "running"
           /\ spec'[r] \in {spec[r], 0}
           /\ status'[r] = "running" => Remaining(r)' = Remaining(r) /\ (Caught(r) => Caught(r)'),
         CoreInv'
  PROVE  Pace'
<1>1. /\ Inv /\ TypeOK /\ QueueConsistency /\ QueueConsistency' /\ (\A r \in Reqs : Counts(r))
      /\ AllReady /\ Fresh /\ nsched = Zero /\ nsched' = Zero
  BY DEF CoreInv, Inv, Pace, PassState
<1>2. /\ running \in Seq(Reqs) /\ NoRepeats(running) /\ running' \in Seq(Reqs)
  BY <1>1 DEF TypeOK, QueueConsistency, CoreInv, Inv
<1>3. \A r \in Reqs : Counts(r)'
  <2> SUFFICES ASSUME NEW r \in Reqs PROVE Counts(r)'
    OBVIOUS
  <2>1. spec'[r] \in {0, NumSpecTokens} /\ Caught(r)'
    BY <1>1 DEF Counts, Caught
  <2>2. Cut(r)'
    BY DEF Cut, Scheduling
  <2> QED
    BY <2>1, <2>2 DEF Counts
<1>4. ASSUME NEW r \in Elems(running') PROVE Ready(r)' \/ IsLast(r)'
  <2>1. r \in Reqs /\ status'[r] = "running"
    BY <1>1, <1>2, <1>4, ElemsType DEF QueueConsistency
  <2>2. status[r] = "running" /\ r \in Elems(running)
    BY <1>1, <2>1 DEF QueueConsistency
  <2>3. Ready(r) => Ready(r)'
    BY <1>1, <2>1 DEF Ready, Zero
  <2>4. IsLast(r) => IsLast(r)'
    <3>1. CASE running' = running
      BY <3>1 DEF IsLast
    <3>2. CASE \E o \in Reqs : ~Live(o)' /\ running' = Without(running, o)
      <4>1. PICK o \in Reqs : ~Live(o)' /\ running' = Without(running, o)
        BY <3>2
      <4>2. o # r
        BY <2>1, <4>1
      <4> QED
        BY <1>2, <2>2, <4>1, <4>2, LastStays DEF IsLast
    <3> QED
      BY <3>1, <3>2
  <2> QED
    BY <1>1, <2>2, <2>3, <2>4 DEF AllReady
<1>5. AllReady'
  BY <1>4 DEF AllReady
<1>6. AllServed'
  <2>1. \A r \in Reqs : ~Passed(r)'
    BY DEF Passed
  <2> QED
    BY <2>1 DEF AllServed
<1>7. Ample' /\ Chosen' /\ Fresh'
  BY <1>1 DEF Ample, Chosen, Fresh
<1> QED
  BY <1>3, <1>5, <1>6, <1>7 DEF Pace


\* An output brings a request its next token and the drafts it accepts, and
\* takes all of what the batch was to sample for it off its placeholders.
Sampled(q) ==
  /\ 1 \in InFlight(q) /\ queue[1].s[q] \in Nat
  /\ UNCHANGED <<status, spec, running>>
  /\ \E a \in Nat :
       /\ a <= queue[1].s[q] /\ NumTokens(q)' = NumTokens(q) + a + 1
       /\ placeholders[q] >= 1 + queue[1].s[q]
       /\ placeholders'[q] = placeholders[q] - 1 - queue[1].s[q]
       /\ computed'[q] = IF computed[q] > 0 THEN computed[q] - (queue[1].s[q] - a)
                                            ELSE computed[q]

\* One turn of update_from_output: nothing for a request that has not
\* sampled, its end, or its tokens.
Turn(q) ==
  /\ q \in todo /\ Live(q) /\ todo' = todo \ {q} /\ UNCHANGED <<localVars, pc, submissions>>
  /\ Len(queue') = Len(queue) /\ DOMAIN queue' = DOMAIN queue
  /\ \A i \in DOMAIN queue : /\ queue'[i].n = queue[i].n /\ queue'[i].s = queue[i].s
                             /\ queue'[i].emit = queue[i].emit /\ queue'[i].sub = queue[i].sub
  /\ \A o \in Reqs : o # q => /\ out'[o] = out[o] /\ computed'[o] = computed[o]
                              /\ placeholders'[o] = placeholders[o]
                              /\ spec'[o] = spec[o] /\ status'[o] = status[o]
  /\ \/ q \notin queue[1].emit /\ UNCHANGED <<reqVars, running>>
     \/ status'[q] = "finished" /\ spec'[q] = 0 /\ running' = Without(running, q)
     \/ Sampled(q)

\* What update_from_output does for a request that goes on.
LEMMA UpdateTurn ==
  ASSUME CoreInv, Unpipelined, AsyncScheduling, pc = "output", NEW q \in todo,
         NEW accepted \in Nat, NEW kept \in Nat, NEW stopped \in BOOLEAN,
         UpdateFromOutput(q, accepted, kept, stopped), ~Finish(q)
  PROVE  Sampled(q)
<1>1. /\ Inv /\ TypeOK /\ FlightInv /\ q \in Reqs /\ Live(q) /\ 1 \in DOMAIN queue
      /\ Head(queue) = queue[1] /\ MaxSubmissions = 1
  <2>1. Inv /\ TypeOK /\ FlightInv /\ q \in Reqs /\ Live(q) /\ MaxSubmissions = 1
    BY UnpipelinedExact DEF CoreInv, Inv, TypeOK, LifeInv
  <2>2. queue \in Seq(Batches) /\ queue # <<>>
    BY <2>1 DEF Inv, TypeOK, BatchQueueBounded
  <2> QED
    BY <2>1, <2>2
<1>2. PICK s \in Nat : /\ s = queue[1].s[q] /\ accepted \in 0 .. s /\ q \in queue[1].emit
                       /\ Rejected(Head(queue), q, accepted) = s - accepted
  <2>1. queue[1] \in Batches
    BY <1>1 DEF TypeOK
  <2>2. q \in queue[1].emit /\ accepted \in 0 .. queue[1].s[q]
    BY <1>1 DEF UpdateFromOutput
  <2>3. queue[1].s[q] \in Nat
    BY <1>1, <2>1, <2>2 DEF Batches, FlightInv, Tagged
  <2> QED
    BY <1>1, <2>2, <2>3 DEF Rejected
<1>3. /\ kept = accepted + 1
      /\ out' = [out EXCEPT ![q] = out[q] + kept]
      /\ placeholders' = [placeholders EXCEPT ![q] = PlaceholdersAfter(q, s - accepted, kept)]
      /\ status' = status
  BY <1>1, <1>2, GoesOn
<1>4. /\ computed' = [computed EXCEPT ![q] = IF @ > 0 THEN @ - (s - accepted) ELSE @]
      /\ UNCHANGED <<status, spec, running>>
  BY <1>2 DEF UpdateFromOutput, queueVars
<1>5. /\ computed'[q] = IF computed[q] > 0 THEN computed[q] - (s - accepted) ELSE computed[q]
      /\ placeholders'[q] = PlaceholdersAfter(q, s - accepted, accepted + 1)
  BY <1>1, <1>3, <1>4 DEF TypeOK
<1>6. NumTokens(q)' = NumTokens(q) + accepted + 1
  <2>1. out'[q] = out[q] + kept /\ out[q] \in Nat /\ Prompt[q] \in Nat
    BY <1>1, <1>3, CoreAssumption DEF TypeOK
  <2> QED
    BY <1>3, <2>1 DEF NumTokens
<1>7. 1 \in InFlight(q)
  <2>1. /\ queue[1].sub[q] >= 1 /\ queue[1].sub[q] <= submissions[q] /\ submissions[q] <= 1
    BY <1>1, <1>2 DEF FlightInv, Tagged, Submitted
  <2>2. queue[1] \in Batches
    BY <1>1 DEF TypeOK
  <2>3. queue[1].sub[q] \in Nat /\ submissions[q] \in Nat
    BY <1>1, <2>2 DEF TypeOK, Batches
  <2>4. queue[1].sub[q] = submissions[q]
    BY <2>1, <2>3
  <2> QED
    BY <1>1, <1>2, <2>4 DEF InFlight
<1>8. PICK later \in Nat : placeholders[q] = later + 1 + s
  <2>1. Due(1, q) = 1 + s /\ Due(2, q) \in Nat
    BY <1>1, <1>2, <1>7, DueType DEF FlightInv
  <2>2. placeholders[q] = Due(1, q) + Due(2, q)
    BY <1>1 DEF FlightInv, Awaited, Owed
  <2> QED
    BY <1>2, <2>1, <2>2
<1>9. placeholders'[q] = later
  BY <1>1, <1>2, <1>5, <1>8, AfterOutput
<1>10. placeholders[q] >= 1 + s /\ placeholders'[q] = placeholders[q] - 1 - s /\ accepted <= s
  BY <1>2, <1>8, <1>9
<1> QED
  BY <1>2, <1>4, <1>5, <1>6, <1>7, <1>10 DEF Sampled

\* Each step of the output takes one live request of the batch.
LEMMA OutputTurn ==
  ASSUME CoreInv, Unpipelined, AsyncScheduling, OutputStep
  PROVE  \E q \in Reqs : Turn(q)
<1>1. /\ Inv /\ TypeOK /\ LifeInv /\ pc = "output" /\ todo # {} /\ todo \subseteq Reqs
      /\ UNCHANGED <<localVars, pc>>
      /\ \E q \in todo : q = CHOOSE r \in todo : TRUE
  BY DEF OutputStep, CoreInv, Inv, TypeOK
<1>2. PICK q \in todo : q = CHOOSE r \in todo : TRUE
  BY <1>1
<1>3. /\ todo' = todo \ {q}
      /\ \/ \E accepted \in 0 .. NumSpecTokens, kept \in 1 .. NumSpecTokens + 1,
              stopped \in BOOLEAN : UpdateFromOutput(q, accepted, kept, stopped)
         \/ /\ q \notin Head(queue).emit
            /\ UNCHANGED <<reqVars, blockVars, queueVars, queue>>
  BY <1>2 DEF OutputStep
<1>4. q \in Reqs /\ Live(q) /\ Head(queue) = queue[1] /\ queue \in Seq(Batches)
  <2>1. queue \in Seq(Batches) /\ queue # <<>>
    BY <1>1 DEF Inv, TypeOK, BatchQueueBounded
  <2> QED
    BY <1>1, <2>1 DEF LifeInv
<1>5. Len(queue') = Len(queue) /\ DOMAIN queue' = DOMAIN queue
  BY <1>1, OutputLength
<1>6. CASE q \notin Head(queue).emit /\ UNCHANGED <<reqVars, blockVars, queueVars, queue>>
  BY <1>1, <1>3, <1>4, <1>5, <1>6 DEF Turn, reqVars, queueVars
<1>7. CASE \E accepted \in 0 .. NumSpecTokens, kept \in 1 .. NumSpecTokens + 1,
              stopped \in BOOLEAN : UpdateFromOutput(q, accepted, kept, stopped)
  <2>1. PICK accepted \in 0 .. NumSpecTokens, kept \in 1 .. NumSpecTokens + 1,
             stopped \in BOOLEAN : UpdateFromOutput(q, accepted, kept, stopped)
    BY <1>7
  <2>2. accepted \in Nat /\ kept \in Nat
    BY CoreAssumption
  <2>3. \A i \in DOMAIN queue : /\ queue'[i].n = queue[i].n /\ queue'[i].s = queue[i].s
                                /\ queue'[i].emit = queue[i].emit
                                /\ queue'[i].sub = queue[i].sub
    <3>1. queue' = [i \in DOMAIN queue |->
             IF i > 1 /\ q \in queue[i].emit
             THEN [queue[i] EXCEPT !.lost[q] = @ + Rejected(Head(queue), q, accepted)]
             ELSE queue[i]]
      BY <2>1 DEF UpdateFromOutput
    <3>2. \A i \in DOMAIN queue : queue[i] \in Batches
      BY <1>4
    <3> QED
      BY <3>1, <3>2 DEF Batches
  <2>4. /\ submissions' = submissions
        /\ \A o \in Reqs : o # q => /\ out'[o] = out[o] /\ computed'[o] = computed[o]
                                    /\ placeholders'[o] = placeholders[o]
                                    /\ spec'[o] = spec[o] /\ status'[o] = status[o]
    <3>1. CASE Finish(q)
      BY <1>1, <3>1 DEF Finish, TypeOK
    <3>2. CASE ~Finish(q)
      BY <1>1, <2>1, <3>2 DEF UpdateFromOutput, TypeOK
    <3> QED
      BY <3>1, <3>2
  <2>5. \/ status'[q] = "finished" /\ spec'[q] = 0 /\ running' = Without(running, q)
        \/ Sampled(q)
    <3>1. CASE Finish(q)
      BY <1>1, <1>4, <3>1 DEF Finish, TypeOK
    <3>2. CASE ~Finish(q)
      BY <1>1, <1>4, <2>1, <2>2, <3>2, UpdateTurn
    <3> QED
      BY <3>1, <3>2
  <2> QED
    BY <1>1, <1>3, <1>4, <1>5, <2>3, <2>4, <2>5 DEF Turn
<1> QED
  BY <1>3, <1>6, <1>7


\* update_from_output keeps the pace: what a request has left to compute is
\* what it had.
LEMMA OutputPace ==
  ASSUME CoreInv, CoreInv', Unpipelined, Roomy, Pace, OutputStep
  PROVE  Pace'
<1>1. /\ Inv /\ TypeOK /\ FlightInv /\ AsyncScheduling /\ pc = "output"
      /\ \A r \in Reqs : Counts(r)
  BY DEF CoreInv, Inv, Roomy, Pace, OutputStep
<1>2. PICK q \in Reqs : Turn(q)
  BY <1>1, OutputTurn
<1>3. pc' = "output" /\ idx' = idx /\ UNCHANGED <<nsched, sspec>>
  BY <1>1, <1>2 DEF Turn, localVars
<1>4. running' = running \/ \E o \in Reqs : ~Live(o)' /\ running' = Without(running, o)
  BY <1>2 DEF Turn, Sampled
<1>5. \A r \in Reqs : /\ status'[r] = "running" => status[r] = "running"
                      /\ spec'[r] \in {spec[r], 0}
  BY <1>2 DEF Turn, Sampled, reqVars
<1>6. ASSUME NEW r \in Reqs, status'[r] = "running"
      PROVE  Remaining(r)' = Remaining(r) /\ Caught(r)'
  <2>1. Caught(r) /\ status[r] = "running"
    BY <1>1, <1>5, <1>6 DEF Counts
  <2>2. CASE UNCHANGED <<out[r], computed[r], placeholders[r], spec[r]>>
    <3>1. NumTokens(r)' = NumTokens(r)
      BY <2>2 DEF NumTokens
    <3> QED
      BY <2>1, <2>2, <3>1 DEF Remaining, Caught
  <2>3. CASE r = q /\ Sampled(q)
    <3>1. PICK a \in Nat :
            /\ a <= queue[1].s[r] /\ NumTokens(r)' = NumTokens(r) + a + 1
            /\ placeholders[r] >= 1 + queue[1].s[r]
            /\ placeholders'[r] = placeholders[r] - 1 - queue[1].s[r]
            /\ computed'[r] = IF computed[r] > 0 THEN computed[r] - (queue[1].s[r] - a)
                                                 ELSE computed[r]
      BY <2>3 DEF Sampled
    <3>2. PICK s \in Nat, nt \in Nat, ph \in Int, comp \in Int, sp \in Nat :
            /\ s = queue[1].s[r] /\ nt = NumTokens(r) /\ ph = placeholders[r]
            /\ comp = computed[r] /\ sp = spec[r]
      BY <1>1, <2>3, LevelType DEF Sampled
    <3>3. ph > 0 /\ comp = nt + ph - 1 /\ nt > 0
      <4>1. Prompt[r] \in Nat \ {0} /\ out[r] \in Nat
        BY <1>1, CoreAssumption DEF TypeOK
      <4>2. nt > 0
        BY <3>2, <4>1 DEF NumTokens
      <4> QED
        BY <2>1, <3>1, <3>2, <4>2 DEF Caught
    <3>4. /\ NumTokens(r)' = nt + a + 1 /\ placeholders'[r] = ph - 1 - s
          /\ computed'[r] = comp - (s - a) /\ ph >= 1 + s /\ spec'[r] = sp
      BY <2>3, <3>1, <3>2, <3>3 DEF Sampled
    <3>5. Remaining(r)' = Remaining(r)
      BY <3>2, <3>4 DEF Remaining
    <3>6. Caught(r)'
      <4>1. placeholders'[r] > 0 => computed'[r] = NumTokens(r)' + placeholders'[r] - 1
        BY <3>2, <3>3, <3>4
      <4>2. ~(placeholders'[r] > 0) => computed'[r] < NumTokens(r)'
        BY <3>2, <3>3, <3>4
      <4> QED
        BY <4>1, <4>2 DEF Caught
    <3> QED
      BY <3>5, <3>6
  <2> QED
    BY <1>2, <1>6, <2>2, <2>3 DEF Turn, reqVars
<1> QED
  BY <1>1, <1>3, <1>4, <1>5, <1>6, BetweenPace

\* Between the passes nothing else changes the counts of a live request.
LEMMA RestPace ==
  ASSUME CoreInv, CoreInv', Unpipelined, Roomy, Pace,
         Drain \/ ClientStep \/ SampleDeferred \/ FinishOutput
  PROVE  Pace'
<1>1. /\ Inv /\ TypeOK /\ AsyncScheduling /\ \A r \in Reqs : Counts(r)
  BY DEF CoreInv, Inv, Roomy, Pace
<1>2. CASE \E q \in Reqs : Abort(q)
  <2>1. PICK q \in Reqs : Abort(q)
    BY <1>2
  <2>2. /\ pc = "idle" /\ pc' = "idle" /\ idx' = idx /\ UNCHANGED <<nsched, sspec>>
        /\ running' = Without(running, q) /\ ~Live(q)'
        /\ \A o \in Reqs : o # q => /\ out'[o] = out[o] /\ computed'[o] = computed[o]
                                    /\ placeholders'[o] = placeholders[o]
                                    /\ spec'[o] = spec[o] /\ status'[o] = status[o]
        /\ spec'[q] = 0
    BY <1>1, <2>1 DEF Abort, Finish, localVars, TypeOK
  <2>3. \A o \in Reqs : o # q => /\ NumTokens(o)' = NumTokens(o)
    BY <2>2 DEF NumTokens
  <2>4. \A r \in Reqs :
           /\ status'[r] = "running" => status[r] = "running"
           /\ spec'[r] \in {spec[r], 0}
           /\ status'[r] = "running" => Remaining(r)' = Remaining(r) /\ (Caught(r) => Caught(r)')
    BY <2>2, <2>3 DEF Remaining, Caught
  <2> QED
    BY <2>2, <2>4, BetweenPace
<1>3. CASE Drain \/ SampleDeferred \/ FinishOutput \/ \E q \in Reqs : AddRequest(q)
  <2>1. /\ pc \in {"idle", "output"} /\ pc' \in {"idle", "output"} /\ idx' = idx
        /\ UNCHANGED <<nsched, sspec, running, out, computed, placeholders>>
        /\ \A r \in Reqs : spec'[r] = spec[r]
    BY <1>1, <1>3 DEF Drain, SampleDeferred, FinishOutput, HandOverDrafts, AddRequest,
       StartOutput, localVars, reqVars, queueVars
  <2>2. \A r \in Reqs : status'[r] = "running" => status[r] = "running"
    BY <1>1, <1>3 DEF Drain, SampleDeferred, FinishOutput, AddRequest, StartOutput, reqVars, TypeOK
  <2>3. \A r \in Reqs : NumTokens(r)' = NumTokens(r)
    BY <2>1 DEF NumTokens
  <2>4. \A r \in Reqs :
           /\ status'[r] = "running" => status[r] = "running"
           /\ spec'[r] \in {spec[r], 0}
           /\ status'[r] = "running" => Remaining(r)' = Remaining(r) /\ (Caught(r) => Caught(r)')
    BY <2>1, <2>2, <2>3 DEF Remaining, Caught
  <2> QED
    BY <2>1, <2>4, BetweenPace
<1> QED
  BY <1>2, <1>3 DEF ClientStep

\* The worker and the grammar compiler do not touch the counts.
LEMMA SilentPace ==
  ASSUME Pace, (\E r \in Reqs : GrammarReady(r)) \/ UNCHANGED vars
  PROVE  Pace'
<1>1. /\ UNCHANGED <<out, computed, placeholders, spec, nsched, sspec, status, running, pc, idx,
                     budget, num, cur>>
  <2>1. CASE UNCHANGED vars
    BY <2>1 DEF vars, reqVars, queueVars, localVars
  <2>2. CASE \E r \in Reqs : GrammarReady(r)
    BY <2>2 DEF GrammarReady, queueVars, localVars
  <2> QED
    BY <2>1, <2>2
<1>2. /\ Emitting' = Emitting
      /\ \A r \in Reqs : /\ NumTokens(r)' = NumTokens(r)
                         /\ Ready(r)' <=> Ready(r)
                         /\ Served(r)' <=> Served(r)
                         /\ Caught(r)' <=> Caught(r)
  BY <1>1, SameCounts
<1>3. \A r : NumTokens(r)' = NumTokens(r) /\ Remaining(r)' = Remaining(r)
  BY <1>1 DEF NumTokens, Remaining
<1>4. \A r \in Reqs : Counts(r)' <=> Counts(r)
  BY <1>1, <1>2 DEF Counts, Cut, Scheduling
<1>5. AllReady'
  <2>1. \A r : (Ready(r)' <=> Ready(r)) /\ (IsLast(r)' <=> IsLast(r))
    BY <1>1, <1>2, <1>3 DEF Ready, IsLast
  <2>2. Elems(running)' = Elems(running)
    BY <1>1 DEF Elems
  <2> QED
    BY <1>1, <2>1, <2>2 DEF Pace, AllReady
<1>6. AllServed'
  <2>1. \A r \in Reqs : Passed(r)' <=> Passed(r)
    BY <1>1 DEF Passed, Elems
  <2> QED
    BY <1>2, <2>1 DEF Pace, AllServed
<1>7. Ample'
  <2>1. Room(idx)' = Room(idx)
    BY <1>1 DEF Room
  <2> QED
    BY <1>1, <2>1 DEF Pace, Ample
<1>8. Chosen'
  <2>1. ChunkTokens(cur)' = ChunkTokens(cur)
    BY <1>1 DEF ChunkTokens, NumTokens
  <2> QED
    BY <1>1, <2>1 DEF Pace, Chosen
<1>9. Fresh'
  BY <1>1 DEF Pace, Fresh
<1> QED
  BY <1>4, <1>5, <1>6, <1>7, <1>8, <1>9 DEF Pace


-----------------------------------------------------------------------------
(* With that pace, a request with drafts in a batch was in the batch before *)
(* it, or it is not in the next one: a request a pass leaves out is at the  *)
(* model length, and so it is again when it comes back.                     *)

\* The batch a new one follows, and the drafts a request may yet lose.
Latest(r) == r \in Before(Len(queue))
Pending(r) == IF Len(queue) = 2 /\ 1 \in InFlight(r) THEN queue[1].s[r] ELSE 0

\* A request that was left out reaches the model length with the drafts it
\* will come back with.
Stalled(r) ==
  status[r] = "running" /\ nsched[r] = 0 /\ ~Latest(r) =>
    /\ Remaining(r) <= 1 + NumSpecTokens
    /\ spec[r] > 0 => NumTokens(r) + placeholders[r] + spec[r] - Pending(r) >= MaxModelLen
Full(r) ==
  Scheduling /\ nsched[r] > 0 /\ sspec[r] > 0 /\ ~Latest(r) => computed[r] + nsched[r] >= MaxModelLen

\* The batch after i does without r.
AtLimit(r) == status[r] = "running" => computed[r] >= MaxModelLen /\ nsched[r] = 0
Over(i, r) == IF i = Len(queue) THEN AtLimit(r) ELSE r \notin Batch(i + 1)
Carried(r) ==
  \A i \in Done + 1 .. Len(queue) :
    Live(r) /\ r \in Batch(i) /\ queue[i].s[r] > 0 /\ r \notin Before(i - 1) => Over(i, r)

\* The engine only waits for its one batch, or is left without any, when
\* nobody in that batch lives.
Alone ==
  /\ pc = "output" /\ Len(queue) = 1 => \A r \in Batch(1) : ~Live(r)
  /\ queue = <<>> => \A r \in inBatch : ~Live(r)

Streak == (\A r \in Reqs : Stalled(r) /\ Full(r) /\ Carried(r)) /\ Alone

\* Steps that leave the batches alone leave their requests in them.
LEMMA SameHistory ==
  ASSUME TypeOK, SameBatches, executed => queue # <<>>
  PROVE  /\ \A r : Latest(r)' <=> Latest(r)
         /\ \A i \in 1 .. Len(queue) : /\ Batch(i)' = Batch(i) /\ queue'[i].s = queue[i].s
                                       /\ i > Done => Before(i - 1)' = Before(i - 1)
         /\ Done' = Done /\ Len(queue') = Len(queue)
<1>1. \A i \in 1 .. Len(queue) : Batch(i)' = Batch(i)
  BY DEF SameBatches, Batch, Scheduled
<1>2. Done' = Done /\ Len(queue') = Len(queue) /\ inBatch' = inBatch
  BY DEF SameBatches, Done
<1>3. PICK len \in Nat : len = Len(queue) /\ (executed => len # 0) /\ (len # 0 => len \in 1 .. len)
  <2>1. queue \in Seq(Batches)
    BY DEF TypeOK
  <2> QED
    BY <2>1
<1>4. \A i \in 0 .. len : i > 0 \/ Done = 0 => Before(i)' = Before(i)
  BY <1>1, <1>2, <1>3 DEF Before
<1>5. len \in 0 .. len /\ (len > 0 \/ Done = 0)
  BY <1>3 DEF Done
<1>6. \A i \in 1 .. len : i - 1 \in 0 .. len /\ (i > Done => i - 1 > 0 \/ Done = 0)
  BY <1>3 DEF Done
<1>7. ASSUME NEW r PROVE Latest(r)' <=> Latest(r)
  <2>1. Before(len)' = Before(len)
    BY <1>4, <1>5
  <2>2. Before(Len(queue))' = Before(len)'
    BY <1>2, <1>3 DEF Before
  <2> QED
    BY <1>3, <2>1, <2>2 DEF Latest
<1> QED
  BY <1>1, <1>2, <1>3, <1>4, <1>6, <1>7 DEF SameBatches

\* What a step does not concern stays.
LEMMA CarriedKept ==
  ASSUME TypeOK, SameBatches, executed => queue # <<>>, NEW r \in Reqs, Carried(r),
         Live(r)' => Live(r), AtLimit(r) => AtLimit(r)'
  PROVE  Carried(r)'
<1> SUFFICES ASSUME NEW i \in Done' + 1 .. Len(queue)', Live(r)', r \in Batch(i)',
                    queue'[i].s[r] > 0, r \notin Before(i - 1)'
             PROVE  Over(i, r)'
  BY DEF Carried
<1>1. PICK len \in Nat : len = Len(queue) /\ len = Len(queue')
  <2>1. queue \in Seq(Batches)
    BY DEF TypeOK
  <2> QED
    BY <2>1 DEF SameBatches
<1>2. i \in 1 .. len /\ i > Done /\ i \in Done + 1 .. len /\ (i # len => i + 1 \in 1 .. len)
  BY <1>1, SameHistory DEF Done
<1>3. r \in Batch(i) /\ queue[i].s[r] > 0 /\ r \notin Before(i - 1)
  BY <1>1, <1>2, SameHistory
<1>4. Over(i, r)
  BY <1>1, <1>2, <1>3 DEF Carried
<1>5. i # len => Batch(i + 1)' = Batch(i + 1)
  BY <1>1, <1>2, SameHistory
<1> QED
  BY <1>1, <1>4, <1>5 DEF Over

\* A request whose tokens and drafts stay as they are stays stalled.
LEMMA StalledKept ==
  ASSUME TypeOK, SameBatches, executed => queue # <<>>, NEW r \in Reqs, Stalled(r),
         status'[r] = "running" /\ nsched'[r] = 0 =>
           /\ status[r] = "running" /\ nsched[r] = 0
           /\ out'[r] = out[r] /\ computed'[r] = computed[r]
           /\ placeholders'[r] = placeholders[r] /\ spec'[r] = spec[r],
         1 \in InFlight(r)' <=> 1 \in InFlight(r)
  PROVE  Stalled(r)'
<1> SUFFICES ASSUME status'[r] = "running" /\ nsched'[r] = 0, ~Latest(r)'
             PROVE  /\ Remaining(r)' <= 1 + NumSpecTokens
                    /\ spec'[r] > 0 => NumTokens(r)' + placeholders'[r] + spec'[r] - Pending(r)'
                                         >= MaxModelLen
  BY DEF Stalled
<1>1. /\ status[r] = "running" /\ nsched[r] = 0 /\ ~Latest(r)
      /\ placeholders'[r] = placeholders[r] /\ spec'[r] = spec[r]
  BY SameHistory
<1>2. NumTokens(r)' = NumTokens(r) /\ Remaining(r)' = Remaining(r)
  BY DEF NumTokens, Remaining
<1>3. Pending(r)' = Pending(r)
  <2>1. queue \in Seq(Batches)
    BY DEF TypeOK
  <2>2. Len(queue) = 2 => 1 \in 1 .. Len(queue)
    BY <2>1
  <2> QED
    BY <2>2, SameHistory DEF Pending
<1> QED
  BY <1>1, <1>2, <1>3 DEF Stalled

\* Alone is about the batches and who lives.
LEMMA AloneKept ==
  ASSUME TypeOK, SameBatches, Alone, \A r \in Reqs : Live(r)' => Live(r) \/ r \notin inBatch,
         inBatch \subseteq Reqs, pc' = "output" => pc = "output",
         pc = "output" => \A r \in Reqs : Live(r)' => Live(r)
  PROVE  Alone'
<1>1. queue \in Seq(Batches)
  BY DEF TypeOK
<1>2. PICK len \in Nat : len = Len(queue) /\ len = Len(queue')
  BY <1>1 DEF SameBatches
<1>3. (queue' = <<>> => queue = <<>>) /\ inBatch' = inBatch
  <2>1. queue' = <<>> => len = 0
    BY <1>2
  <2> QED
    BY <1>1, <1>2, <2>1 DEF SameBatches
<1>4. len = 1 => Batch(1)' = Batch(1) /\ Batch(1) \subseteq Reqs
  <2>1. len = 1 => 1 \in 1 .. Len(queue)
    BY <1>2
  <2> QED
    BY <2>1 DEF SameBatches, Batch, Scheduled
<1> QED
  BY <1>2, <1>3, <1>4 DEF Alone


\* The loops begin, pass over requests, pick one, and end.
LEMMA LoopStreak ==
  ASSUME CoreInv, SameBatches, executed => queue # <<>>, inBatch \subseteq Reqs, Streak,
         \/ BeginChunkSchedule \/ PassOverRunning \/ PickChunk \/ EndRunningLoop
         \/ EndWaitingLoop \/ \E r \in Reqs : SkipChunk(r)
  PROVE  Streak'
<1>1. /\ Inv /\ TypeOK /\ pc # "output" /\ pc' # "output"
      /\ UNCHANGED <<status, out, computed, placeholders, spec, nsched, sspec, queue, submissions>>
  BY DEF BeginChunkSchedule, PassOverRunning, PickChunk, EndRunningLoop, EndWaitingLoop,
     SkipChunk, reqVars, localVars, CoreInv, Inv
<1>2. \A r : InFlight(r)' = InFlight(r)
  BY <1>1 DEF InFlight
<1>3. \A r \in Reqs : Stalled(r)' /\ Carried(r)'
  BY <1>1, <1>2, StalledKept, CarriedKept DEF Streak, AtLimit
<1>4. ASSUME NEW r \in Reqs PROVE Full(r)'
  <2>1. Full(r) /\ (Scheduling \/ nsched = Zero)
    <3>1. Scheduling \/ pc = "idle"
      BY <1>1 DEF BeginChunkSchedule, PassOverRunning, PickChunk, EndRunningLoop, EndWaitingLoop,
         SkipChunk, Scheduling
    <3> QED
      BY <1>1, <3>1 DEF Streak, Inv, PassState
  <2>2. CASE Scheduling
    BY <1>1, <2>1, <2>2, SameHistory DEF Full
  <2>3. CASE nsched = Zero
    BY <1>1, <2>3 DEF Full, Zero
  <2> QED
    BY <2>1, <2>2, <2>3
<1>5. Alone'
  BY <1>1, AloneKept DEF Streak
<1> QED
  BY <1>3, <1>4, <1>5 DEF Streak

\* A request that comes back is scheduled up to the model length; one that is
\* at the model length is not scheduled.
LEMMA ScheduleStreak ==
  ASSUME CoreInv, Unpipelined, Roomy, Pace, FewDrafts, SameBatches, executed => queue # <<>>,
         inBatch \subseteq Reqs, Streak, ScheduleChunk
  PROVE  Streak'
<1>1. /\ Inv /\ TypeOK /\ FlightInv /\ Counted /\ pc = "alloc" /\ pc' = "running"
      /\ (\A r \in Reqs : Counts(r)) /\ Ample /\ Chosen
      /\ UNCHANGED <<status, out, computed, placeholders, queue, submissions>>
  BY UnpipelinedExact DEF CoreInv, Inv, Pace, ScheduleChunk, ScheduleRunning, queueVars
<1>2. PICK c \in Reqs : c = cur
  BY <1>1 DEF Inv, PassState
<1>3. /\ num \in Int /\ budget \in Int /\ idx <= Len(running) /\ nsched[c] = 0
      /\ Len(running) <= MaxNumRunningReqs /\ status[c] = "running"
      /\ idx \in Nat \ {0} /\ Len(running) \in Nat /\ MaxNumRunningReqs \in Nat
  <2>1. ~PriorityPolicy
    BY DEF Roomy
  <2>2. /\ idx <= Len(running) /\ nsched[c] = 0 /\ c \in Elems(running)
        /\ Len(running) <= MaxNumRunningReqs
    BY <1>1, <1>2, <2>1 DEF CoreInv, PassInv, Picked, RunningBound
  <2>3. status[c] = "running"
    BY <2>2 DEF CoreInv, QueueConsistency
  <2> QED
    BY <1>1, <2>2, <2>3, PassFacts DEF CoreInv
<1>4. PICK nt \in Nat, ph \in Int, sp \in Nat, comp \in Int :
        /\ nt = NumTokens(c) /\ ph = placeholders[c] /\ sp = spec[c] /\ comp = computed[c]
  BY <1>1, LevelType
<1>5. /\ nsched' = [nsched EXCEPT ![c] = num] /\ spec' = [spec EXCEPT ![c] = 0]
      /\ \E s : sspec' = [sspec EXCEPT ![c] = s] /\ (s > 0 => sp > 0)
  <2>1. PICK s : s = LET extra == num + computed[c] - NumTokens(c) - placeholders[c] IN
                     IF spec[c] > 0 /\ extra > 0 THEN MinOf(extra, spec[c]) ELSE 0
    OBVIOUS
  <2>2. s > 0 => sp > 0
    BY <1>4, <2>1
  <2> QED
    BY <1>2, <2>1, <2>2 DEF ScheduleChunk, ScheduleRunning
<1>6. /\ nsched'[c] = num /\ (sspec'[c] > 0 => sp > 0)
      /\ \A o \in Reqs : o # c => /\ nsched'[o] = nsched[o] /\ sspec'[o] = sspec[o]
                                  /\ spec'[o] = spec[o]
  BY <1>1, <1>5 DEF TypeOK
<1>7. /\ num > 0 /\ MaxModelLen \in Int /\ Remaining(c) = nt + sp + ph - comp
      /\ num = MinOf(MinOf(nt + sp + ph - comp, budget), MaxModelLen - comp)
  <2>1. num = ChunkTokens(c) /\ num > 0
    BY <1>1, <1>2 DEF Chosen, Counted
  <2>2. ~(0 < LongPrefillThreshold)
    BY DEF Roomy
  <2>3. ChunkTokens(c) = MinOf(MinOf(nt + sp + ph - comp, budget), MaxModelLen - comp)
    BY <1>4, <2>2 DEF ChunkTokens
  <2> QED
    BY <1>4, <2>1, <2>3, CoreAssumption DEF Remaining
<1>8. ~AtLimit(c)
  <2>1. PICK rem \in Int : rem = nt + sp + ph - comp
    OBVIOUS
  <2>2. ~(comp >= MaxModelLen)
    BY <1>3, <1>7, <2>1 DEF MinOf
  <2> QED
    BY <1>3, <1>4, <2>2 DEF AtLimit
<1>9. \A r : InFlight(r)' = InFlight(r)
  BY <1>1 DEF InFlight
<1>10. \A r \in Reqs : Stalled(r)' /\ Carried(r)'
  <2> SUFFICES ASSUME NEW r \in Reqs PROVE Stalled(r)' /\ Carried(r)'
    OBVIOUS
  <2>1. Stalled(r) /\ Carried(r)
    BY DEF Streak
  <2>2. CASE r = c
    <3>1. ~(nsched'[r] = 0)
      BY <1>6, <1>7, <2>2
    <3> QED
      BY <1>1, <1>8, <1>9, <2>1, <2>2, <3>1, StalledKept, CarriedKept
  <2>3. CASE r # c
    <3>1. AtLimit(r) => AtLimit(r)'
      BY <1>1, <1>6, <2>3 DEF AtLimit
    <3> QED
      BY <1>1, <1>6, <1>9, <2>1, <2>3, <3>1, StalledKept, CarriedKept
  <2> QED
    BY <2>2, <2>3
<1>11. ASSUME NEW r \in Reqs PROVE Full(r)'
  <2>1. Full(r) /\ Stalled(r) /\ Scheduling /\ (Latest(r)' <=> Latest(r))
    BY <1>1, SameHistory DEF Streak, Scheduling
  <2>2. CASE r # c
    BY <1>1, <1>6, <2>1, <2>2 DEF Full
  <2>3. CASE r = c
    <3> SUFFICES ASSUME sspec'[c] > 0, ~Latest(c) PROVE comp + num >= MaxModelLen
      BY <1>1, <1>4, <1>6, <2>1, <2>3 DEF Full
    <3>1. Remaining(c) <= 1 + NumSpecTokens /\ nt + ph + sp - Pending(c) >= MaxModelLen
      BY <1>3, <1>4, <1>6, <2>1, <2>3 DEF Stalled
    <3>2. Pending(c) \in Nat
      <4>1. queue \in Seq(Batches)
        BY <1>1 DEF TypeOK
      <4>2. Len(queue) = 2 => queue[1].s[c] \in Nat
        <5>1. Len(queue) = 2 => 1 \in 1 .. Len(queue)
          BY <4>1
        <5>2. ASSUME 1 \in 1 .. Len(queue) PROVE queue[1].s[c] \in Nat
          <6>1. queue[1] \in Batches /\ queue[1].s[c] >= 0
            BY <4>1, <5>2 DEF FewDrafts
          <6>2. queue[1].s[c] \in Int
            BY <6>1 DEF Batches
          <6> QED
            BY <6>1, <6>2
        <5> QED
          BY <5>1, <5>2
      <4> QED
        BY <4>2 DEF Pending
    <3>3. PICK rem \in Int : rem = nt + sp + ph - comp /\ rem <= 1 + NumSpecTokens
      BY <1>7, <3>1
    <3>4. budget >= 1 + NumSpecTokens /\ NumSpecTokens \in Nat
      <4>1. budget >= Room(idx)
        BY <1>1, <1>3 DEF Ample
      <4>2. idx \in Nat /\ 0 < idx /\ idx <= MaxNumRunningReqs
        BY <1>3
      <4>3. /\ Room(idx) \in Int /\ Room(idx + 1) \in Int /\ Room(idx + 1) >= 0
            /\ Room(idx) = Room(idx + 1) + 1 + NumSpecTokens
        BY <4>2, Rooms
      <4>4. NumSpecTokens \in Nat
        BY CoreAssumption
      <4> QED
        BY <1>3, <4>1, <4>3, <4>4
    <3>5. comp + rem >= MaxModelLen
      BY <1>7, <3>1, <3>2, <3>3
    <3>6. num = MinOf(MinOf(rem, budget), MaxModelLen - comp)
      BY <1>7, <3>3
    <3> QED
      BY <1>3, <1>7, <3>3, <3>4, <3>5, <3>6 DEF MinOf
  <2> QED
    BY <2>2, <2>3
<1>12. Alone'
  BY <1>1, AloneKept DEF Streak
<1> QED
  BY <1>10, <1>11, <1>12 DEF Streak

\* A preempted request does not run, and has nothing in this pass.
LEMMA PreemptStreak ==
  ASSUME CoreInv, Roomy, SameBatches, executed => queue # <<>>, inBatch \subseteq Reqs, Streak,
         NEW v \in Reqs, PreemptChunk(v)
  PROVE  Streak'
<1>1. /\ Inv /\ TypeOK /\ QueueConsistency /\ PassInv /\ ~PriorityPolicy
  BY DEF CoreInv, Inv, Roomy
<1>2. /\ pc = "alloc" /\ pc' # "output" /\ IsVictim(running, v, PriorityPolicy, Rank)
      /\ computed' = [computed EXCEPT ![v] = 0] /\ status' = [status EXCEPT ![v] = "preempted"]
      /\ UNCHANGED <<out, placeholders, spec, nsched, sspec, queue, submissions>>
  BY <1>1 DEF PreemptChunk, Preempt, Refund
<1>3. v \in Elems(running) /\ nsched[v] = 0 /\ Live(v)
  <2>1. PICK len \in Nat : len = Len(running) /\ DOMAIN running = 1 .. len
    <3>1. running \in Seq(Reqs)
      BY <1>1 DEF TypeOK
    <3> QED
      BY <3>1
  <2>2. v \in Elems(running) /\ v = running[len]
    BY <1>1, <1>2, <2>1 DEF IsVictim
  <2>3. len \in 1 .. len /\ idx <= len
    <3>1. DOMAIN running # {}
      BY <2>2 DEF Elems
    <3>2. len \in 1 .. len
      BY <2>1, <3>1
    <3> QED
      BY <1>1, <1>2, <2>1, <3>2 DEF PassInv, Picked
  <2>4. nsched[v] = 0
    BY <1>1, <1>2, <2>1, <2>2, <2>3 DEF PassInv, AheadFree
  <2> QED
    BY <1>1, <2>2, <2>4 DEF QueueConsistency
<1>4. /\ status'[v] = "preempted"
      /\ \A r \in Reqs : r # v => computed'[r] = computed[r] /\ status'[r] = status[r]
  BY <1>1, <1>2 DEF TypeOK
<1>5. \A r : InFlight(r)' = InFlight(r)
  BY <1>2 DEF InFlight
<1>6. \A r \in Reqs : Live(r)' => Live(r)
  BY <1>3, <1>4
<1>7. \A r \in Reqs : AtLimit(r) => AtLimit(r)'
  BY <1>2, <1>4 DEF AtLimit
<1>8. \A r \in Reqs : status'[r] = "running" /\ nsched'[r] = 0 =>
        /\ status[r] = "running" /\ nsched[r] = 0
        /\ out'[r] = out[r] /\ computed'[r] = computed[r]
        /\ placeholders'[r] = placeholders[r] /\ spec'[r] = spec[r]
  BY <1>2, <1>4
<1>9. \A r \in Reqs : Stalled(r)' /\ Carried(r)'
  BY <1>1, <1>5, <1>6, <1>7, <1>8, StalledKept, CarriedKept DEF Streak
<1>10. \A r \in Reqs : Full(r)'
  <2>1. \A r : Latest(r)' <=> Latest(r)
    BY <1>1, SameHistory
  <2>2. Scheduling /\ ~(nsched'[v] > 0)
    BY <1>2, <1>3 DEF Scheduling
  <2> QED
    BY <1>2, <1>4, <2>1, <2>2 DEF Full, Streak
<1>11. Alone'
  BY <1>1, <1>2, <1>6, AloneKept DEF Streak
<1> QED
  BY <1>9, <1>10, <1>11 DEF Streak


\* A request is admitted after it has left the batches in flight.
LEMMA AdmitStreak ==
  ASSUME CoreInv, RunnerInv, PosInv, Unpipelined, SameBatches, inBatch \subseteq Reqs, Streak,
         NEW c \in Reqs, AdmitChunk(c)
  PROVE  Streak'
<1>1. /\ Inv /\ TypeOK /\ QueueConsistency /\ PassInv /\ Counted /\ Resumable
      /\ pc = "waiting" /\ pc' # "output" /\ c \in Elems(waiting) /\ ~executed
  BY UnpipelinedExact DEF CoreInv, Inv, RunnerInv, Paired, AdmitChunk, Peeked, GoesNext
<1>2. PICK n : n = FirstChunk(c)
  OBVIOUS
<1>3. /\ status' = [status EXCEPT ![c] = "running"] /\ nsched' = [nsched EXCEPT ![c] = n]
      /\ UNCHANGED <<out, computed, placeholders, spec, sspec, queue, submissions>>
  BY <1>2 DEF AdmitChunk
<1>4. nsched'[c] = n /\ \A o \in Reqs : o # c => nsched'[o] = nsched[o] /\ status'[o] = status[o]
  BY <1>1, <1>3 DEF TypeOK
<1>5. Live(c) /\ status[c] # "running" /\ sspec[c] = 0
  <2>1. Live(c) /\ status[c] # "running" /\ c \notin Elems(running)
    BY <1>1 DEF QueueConsistency
  <2>2. nsched[c] = 0
    BY <1>1, <2>1 DEF PassInv, WaitingFree
  <2> QED
    BY <1>1, <2>1, <2>2 DEF Counted
<1>6. nsched'[c] # 0
  <2>1. budget > 0 /\ budget \in Int
    BY <1>1 DEF AdmitChunk, WaitingLoopGoesOn, TypeOK
  <2>2. computed[c] <= 0 /\ computed[c] \in Int
    BY <1>1, <1>5 DEF PassInv, Unstarted, TypeOK
  <2>3. NumTokens(c) \in Nat /\ NumTokens(c) > 0
    <3>1. Prompt[c] \in Nat \ {0} /\ out[c] \in Nat
      BY <1>1, CoreAssumption DEF TypeOK
    <3> QED
      BY <3>1 DEF NumTokens
  <2>4. PrefillTokens(c) \in Int /\ PrefillTokens(c) > 0
    BY <2>2, <2>3, CoreAssumption DEF PrefillTokens
  <2> QED
    BY <1>2, <1>4, <2>1, <2>4 DEF FirstChunk, MinOf
<1>7. \A i \in Done + 1 .. Len(queue) : c \notin Batch(i)
  <2>1. PICK len \in Nat : len = Len(queue) /\ len <= 1
    BY <1>1, AtMostTwo
  <2> SUFFICES ASSUME NEW i \in Done + 1 .. Len(queue) PROVE c \notin Batch(i)
    OBVIOUS
  <2>2. i = len /\ i \in 1 .. len /\ i # Done
    BY <1>1, <2>1 DEF Done
  <2>3. CASE status[c] = "preempted"
    BY <1>1, <2>1, <2>2, <2>3 DEF Resumable, Before
  <2>4. CASE status[c] \in {"waiting", "waiting_fsm"}
    <3>1. Untouched(c, Len(queue))
      BY <2>4 DEF PosInv, Traced, NewAreNew
    <3> QED
      BY <2>1, <2>2, <3>1 DEF Untouched
  <2> QED
    BY <1>1, <1>5, <2>3, <2>4
<1>8. \A r : InFlight(r)' = InFlight(r)
  BY <1>1, <1>3 DEF InFlight
<1>9. executed => queue # <<>>
  BY <1>1
<1>10. ASSUME NEW r \in Reqs PROVE Stalled(r)' /\ Carried(r)' /\ Full(r)'
  <2>1. Stalled(r) /\ Carried(r) /\ Full(r) /\ Scheduling /\ (Latest(r)' <=> Latest(r))
    BY <1>1, <1>9, SameHistory DEF Streak, Scheduling
  <2>2. CASE r = c
    <3>1. Stalled(r)' /\ Full(r)'
      BY <1>3, <1>5, <1>6, <2>2 DEF Stalled, Full
    <3>2. Carried(r)'
      <4>1. \A i \in Done' + 1 .. Len(queue)' : c \notin Batch(i)'
        BY <1>3, <1>7 DEF SameBatches, Done, Batch, Scheduled
      <4> QED
        BY <2>2, <4>1 DEF Carried
    <3> QED
      BY <3>1, <3>2
  <2>3. CASE r # c
    <3>1. AtLimit(r) => AtLimit(r)'
      BY <1>3, <1>4, <2>3 DEF AtLimit
    <3>2. Full(r)'
      BY <1>3, <1>4, <2>1, <2>3 DEF Full
    <3> QED
      BY <1>1, <1>3, <1>4, <1>8, <1>9, <2>1, <2>3, <3>1, <3>2, StalledKept, CarriedKept
  <2> QED
    BY <2>2, <2>3
<1>11. Alone'
  <2>1. \A r \in Reqs : Live(r)' => Live(r)
    BY <1>4, <1>5
  <2> QED
    BY <1>1, <2>1, AloneKept DEF Streak
<1> QED
  BY <1>10, <1>11 DEF Streak

\* A schedule that leaves a running request out is at the model length with
\* it; one that takes it back reaches that length.
LEMMA CommitStreak ==
  ASSUME CoreInv, RunnerInv, Unpipelined, Roomy, PosInv, Pace, Streak, EnterQueue,
         inBatch' = inBatch, executed' = FALSE, pc' \in {"idle", "output"},
         pc' = "output" /\ queue = <<>> => Scheduled(nsched) = {}
  PROVE  Streak'
<1>1. /\ Inv /\ TypeOK /\ FlightInv /\ Counted /\ QueueConsistency /\ PassInv /\ FewDrafts
      /\ (\A r \in Reqs : Counts(r)) /\ AllServed /\ pc = "commit" /\ Scheduling
      /\ executed = FALSE /\ AsyncScheduling
      /\ UNCHANGED <<status, out, running>> /\ queue' = Append(queue, NewBatch)
  BY UnpipelinedExact DEF CoreInv, Inv, Pace, PosInv, Scheduling, RunnerInv, RunnerType, Paired, Roomy
<1>2. \A r \in Reqs :
        /\ computed'[r] = computed[r] + nsched[r]
        /\ placeholders'[r] = IF r \in Emitting THEN placeholders[r] + 1 + sspec[r] ELSE placeholders[r]
        /\ spec'[r] = IF r \in Emitting THEN NumSpecTokens ELSE spec[r]
        /\ nsched'[r] = 0
  BY <1>1 DEF Zero
<1>3. PICK n \in 0 .. 1 : n = Len(queue) /\ Len(queue') = n + 1
  <2>1. queue \in Seq(Batches) /\ Len(queue) \in Nat /\ Len(queue) <= 1
    BY <1>1, AtMostTwo
  <2>2. Len(queue') = Len(queue) + 1
    BY <1>1, <2>1
  <2>3. PICK m \in Nat : m = Len(queue) /\ m <= 1
    BY <2>1
  <2> QED
    BY <2>2, <2>3
<1>4. Done = 0 /\ Done' = 0
  BY <1>1 DEF Done
<1>5. /\ \A i \in 1 .. n : queue'[i] = queue[i]
      /\ queue'[n + 1].n = nsched /\ queue'[n + 1].s = sspec
  <2>1. queue \in Seq(Batches)
    BY <1>1 DEF TypeOK
  <2>2. \A i \in 1 .. n : queue'[i] = queue[i]
    BY <1>1, <1>3, <2>1
  <2>3. queue'[n + 1] = NewBatch
    BY <1>1, <1>3, <2>1
  <2>4. NewBatch.n = nsched /\ NewBatch.s = sspec
    BY DEF NewBatch
  <2> QED
    BY <2>2, <2>3, <2>4
<1>6. /\ \A i \in 1 .. n : Batch(i)' = Batch(i)
      /\ Batch(n + 1)' = Scheduled(nsched)
      /\ \A i \in 0 .. n : Before(i)' = Before(i)
  <2>1. \A i \in 1 .. n : Batch(i)' = Batch(i)
    BY <1>5 DEF Batch, Scheduled
  <2>2. Batch(n + 1)' = Scheduled(nsched)
    BY <1>5 DEF Batch, Scheduled
  <2>3. \A i \in 0 .. n : Before(i)' = Before(i)
    <3>1. \A i \in 0 .. n : i = 0 \/ i \in 1 .. n
      BY <1>3
    <3> QED
      BY <1>4, <2>1, <3>1 DEF Before
  <2> QED
    BY <2>1, <2>2, <2>3
<1>7. \A r \in Scheduled(nsched) : r \in Reqs /\ status[r] = "running" /\ nsched[r] > 0
  <2>1. Scheduled(nsched) \subseteq Elems(running)
    BY <1>1 DEF PassInv, BudgetRespected
  <2> QED
    BY <1>1, <2>1 DEF QueueConsistency, Scheduled
<1>8. ASSUME NEW r \in Reqs PROVE Stalled(r)'
  <2> SUFFICES ASSUME status[r] = "running", ~Latest(r)'
               PROVE  /\ Remaining(r)' <= 1 + NumSpecTokens
                      /\ spec'[r] > 0 => NumTokens(r)' + placeholders'[r] + spec'[r] - Pending(r)'
                                           >= MaxModelLen
    BY <1>1 DEF Stalled
  <2>1. r \notin Scheduled(nsched)
    <3>1. Before(n + 1)' = Batch(n + 1)' /\ Before(Len(queue))' = Before(n + 1)'
      BY <1>3, <1>4 DEF Before
    <3> QED
      BY <1>6, <3>1 DEF Latest
  <2>2. computed[r] >= MaxModelLen /\ ~(nsched[r] > 0) /\ nsched[r] = 0 /\ r \notin Emitting
    <3>1. r \in Elems(running)
      BY <1>1 DEF QueueConsistency
    <3>2. Served(r)
      BY <1>1, <3>1 DEF AllServed, Passed
    <3>3. ~(nsched[r] > 0) /\ nsched[r] >= 0 /\ nsched[r] \in Int
      BY <1>1, <2>1 DEF Scheduled, Counted, TypeOK
    <3> QED
      BY <3>2, <3>3 DEF Served, Emitting, Scheduled
  <2>3. PICK nt \in Nat, ph \in Int, sp \in Nat, comp \in Int :
          /\ nt = NumTokens(r) /\ ph = placeholders[r] /\ sp = spec[r] /\ comp = computed[r]
    BY <1>1, LevelType
  <2>4. ph > 0 /\ Remaining(r) = 1 + sp /\ comp = nt + ph - 1
    <3>1. Caught(r)
      BY <1>1 DEF Counts
    <3>2. ph > 0 /\ Remaining(r) = 1 + sp
      BY <1>1, <2>2, <2>3, <3>1, Owes
    <3> QED
      BY <2>3, <3>1, <3>2 DEF Caught
  <2>5. sp \in {0, NumSpecTokens} /\ NumSpecTokens \in Nat /\ MaxModelLen \in Int
    BY <1>1, <2>3, CoreAssumption DEF Counts
  <2>6. placeholders'[r] = ph /\ spec'[r] = sp /\ computed'[r] = comp /\ NumTokens(r)' = nt
    <3>1. computed'[r] = comp + 0
      BY <1>2, <2>2, <2>3
    <3> QED
      BY <1>1, <1>2, <2>2, <2>3, <3>1 DEF NumTokens
  <2>7. Remaining(r)' <= 1 + NumSpecTokens
    <3>1. Remaining(r)' = Remaining(r)
      BY <2>3, <2>6 DEF Remaining
    <3> QED
      BY <2>4, <2>5, <3>1
  <2>8. Pending(r)' \in Int /\ Pending(r)' <= NumSpecTokens
    <3>1. Len(queue') = 2 => n = 1
      BY <1>3
    <3>2. n = 1 => queue'[1].s[r] \in Int /\ queue'[1].s[r] <= NumSpecTokens
      <4> SUFFICES ASSUME n = 1 PROVE queue[1].s[r] \in Int /\ queue[1].s[r] <= NumSpecTokens
        BY <1>5
      <4>1. queue \in Seq(Batches) /\ 1 \in 1 .. Len(queue)
        BY <1>1, <1>3 DEF TypeOK
      <4>2. queue[1] \in Batches
        BY <4>1
      <4> QED
        BY <1>1, <4>1, <4>2 DEF FewDrafts, Batches
    <3> QED
      BY <2>5, <3>1, <3>2 DEF Pending
  <2>9. sp > 0 => nt + ph + sp - Pending(r)' >= MaxModelLen
    <3>1. PICK p \in Int : p = Pending(r)' /\ p <= NumSpecTokens
      BY <2>8
    <3>2. comp >= MaxModelLen
      BY <2>2, <2>3
    <3>3. comp = nt + ph - 1 /\ (sp > 0 => sp = NumSpecTokens)
      BY <2>4, <2>5
    <3>4. NumSpecTokens \in Nat /\ MaxModelLen \in Int
      BY <2>5
    <3>5. sp > 0 => nt + ph + sp - p >= MaxModelLen
      <4>1. nt \in Nat /\ ph \in Int /\ sp \in Nat /\ comp \in Int
        BY <2>3
      <4>2. p \in Int /\ p <= NumSpecTokens
        BY <3>1
      <4> QED
        BY ONLY <3>2, <3>3, <3>4, <4>1, <4>2
    <3> QED
      BY <3>1, <3>5
  <2> QED
    BY <2>6, <2>7, <2>9
<1>9. \A r \in Reqs : Full(r)'
  BY <1>1 DEF Full, Scheduling
<1>10. ASSUME NEW r \in Reqs PROVE Carried(r)'
  <2>1. Carried(r) /\ Full(r)
    BY DEF Streak
  <2> SUFFICES ASSUME NEW i \in 1 .. n + 1, Live(r), r \in Batch(i)', queue'[i].s[r] > 0,
                      r \notin Before(i - 1)'
               PROVE  Over(i, r)'
    BY <1>1, <1>3, <1>4 DEF Carried
  <2>2. i - 1 \in 0 .. n /\ r \notin Before(i - 1)
    BY <1>6
  <2>3. CASE i = n + 1
    <3>1. nsched[r] > 0 /\ sspec[r] > 0 /\ ~Latest(r)
      <4>1. i - 1 = n
        BY <2>3
      <4> QED
        BY <1>3, <1>5, <1>6, <2>2, <2>3, <4>1 DEF Latest, Scheduled
    <3>2. computed[r] + nsched[r] >= MaxModelLen
      BY <1>1, <2>1, <3>1 DEF Full
    <3> QED
      BY <1>2, <1>3, <2>3, <3>2 DEF Over, AtLimit
  <2>4. CASE i # n + 1
    <3>1. i = n /\ i \in 1 .. n /\ i # n + 1
      BY <2>4
    <3>2. r \in Batch(i) /\ queue[i].s[r] > 0
      BY <1>5, <1>6, <3>1
    <3>3. Over(i, r)
      BY <1>3, <1>4, <2>1, <2>2, <3>1, <3>2 DEF Carried
    <3>4. AtLimit(r)
      BY <1>3, <3>1, <3>3 DEF Over
    <3>5. r \notin Scheduled(nsched)
      <4>1. r \in Scheduled(nsched) => status[r] = "running" /\ nsched[r] > 0
        BY <1>7
      <4>2. status[r] = "running" => nsched[r] = 0
        BY <3>4 DEF AtLimit
      <4> QED
        BY <4>1, <4>2
    <3>6. r \notin Batch(i + 1)'
      BY <1>6, <3>1, <3>5
    <3> QED
      BY <1>3, <3>1, <3>6 DEF Over
  <2> QED
    BY <2>3, <2>4
<1>11. Alone'
  <2>1. queue' # <<>>
    BY <1>3
  <2>2. ASSUME pc' = "output", Len(queue') = 1 PROVE Batch(1)' = {}
    <3>1. n = 0 /\ queue = <<>>
      <4>1. n = 0
        BY <1>3, <2>2
      <4> QED
        BY <1>1, <1>3, <4>1 DEF TypeOK
    <3>2. Scheduled(nsched) = {}
      BY <2>2, <3>1
    <3>3. n + 1 = 1
      BY <3>1
    <3> QED
      BY <1>6, <3>2, <3>3
  <2> QED
    BY <2>1, <2>2 DEF Alone
<1> QED
  BY <1>8, <1>9, <1>10, <1>11 DEF Streak


\* An output never reaches a request that has been left out of the batches
\* behind it, and what it brings a request is what it takes back.
LEMMA OutputStreak ==
  ASSUME CoreInv, RunnerInv, Unpipelined, Roomy, PosInv, Pace, Streak, OutputStep, SameBatches,
         executed
  PROVE  Streak'
<1>1. /\ Inv /\ TypeOK /\ FlightInv /\ AsyncScheduling /\ pc = "output" /\ Done = 1
      /\ (\A r \in Reqs : Counts(r)) /\ inBatch = Batch(1) /\ todo \subseteq Batch(1)
      /\ inBatch \subseteq Reqs
  BY DEF CoreInv, Inv, Roomy, Pace, PosInv, RunnerInv, RunnerType, Paired, OutputStep, Done
<1>2. PICK q \in Reqs : Turn(q)
  BY <1>1, OutputTurn
<1>3. pc' = "output" /\ UNCHANGED <<nsched, sspec, submissions>> /\ q \in todo /\ q \in inBatch
  BY <1>1, <1>2 DEF Turn, localVars
<1>4. PICK len \in Nat : len = Len(queue) /\ (len = 1 \/ len = 2)
  <2>1. Len(queue) \in Nat /\ Len(queue) <= 2 /\ Len(queue) >= 1
    BY <1>1, AtMostTwo
  <2>2. PICK m \in Nat : m = Len(queue)
    BY <2>1
  <2>3. m = 1 \/ m = 2
    BY <2>1, <2>2
  <2> QED
    BY <2>2, <2>3
<1>5. executed => queue # <<>>
  BY <1>1 DEF Inv, BatchQueueBounded
<1>6. len = 2
  <2>1. len = 1 => \A r \in Batch(1) : ~Live(r)
    BY <1>1, <1>4 DEF Streak, Alone
  <2>2. Live(q) /\ q \in Batch(1)
    BY <1>1, <1>2, <1>3 DEF Turn
  <2> QED
    BY <1>4, <2>1, <2>2
<1>7. \A r \in Reqs : /\ Live(r)' => Live(r)
                      /\ status'[r] = "running" => status[r] = "running"
  BY <1>2 DEF Turn, Sampled, reqVars
<1>8. DOMAIN queue = 1 .. Len(queue) /\ DOMAIN queue' = DOMAIN queue /\ 1 \in DOMAIN queue
      /\ queue'[1].emit = queue[1].emit /\ queue'[1].sub = queue[1].sub
  <2>1. queue \in Seq(Batches)
    BY <1>1 DEF TypeOK
  <2>2. DOMAIN queue = 1 .. Len(queue)
    BY <2>1
  <2>3. 1 \in 1 .. Len(queue)
    <3>1. 1 \in 1 .. len
      BY <1>6
    <3> QED
      BY <1>4, <3>1
  <2> QED
    BY <1>2, <2>2, <2>3 DEF Turn
<1>9. /\ \A r \in Reqs : r # q => (1 \in InFlight(r)' <=> 1 \in InFlight(r))
      /\ ~(1 \in InFlight(q)')
  <2>1. todo' = todo \ {q}
    BY <1>2 DEF Turn
  <2> QED
    BY <1>1, <1>3, <1>8, <2>1 DEF InFlight
<1>10. ASSUME NEW r \in Reqs PROVE Carried(r)'
  <2>1. CASE r = q
    <3> SUFFICES ASSUME NEW i \in Done' + 1 .. Len(queue)', r \notin Before(i - 1)' PROVE FALSE
      BY DEF Carried
    <3>1. i = 2 /\ i - 1 = 1 /\ Done' = 1
      <4>1. Done' = 1 /\ Len(queue)' = len
        BY <1>1, <1>4, <1>5, SameHistory
      <4> QED
        BY <1>6, <4>1
    <3>2. Before(i - 1)' = inBatch
      BY <3>1 DEF Before, SameBatches
    <3> QED
      BY <1>3, <2>1, <3>2
  <2>2. CASE r # q
    <3>1. AtLimit(r) => AtLimit(r)'
      BY <1>2, <1>3, <2>2 DEF AtLimit, Turn
    <3> QED
      BY <1>1, <1>5, <1>7, <3>1, CarriedKept DEF Streak
  <2> QED
    BY <2>1, <2>2
<1>11. ASSUME NEW r \in Reqs PROVE Stalled(r)'
  <2>1. Stalled(r)
    BY DEF Streak
  <2>2. CASE r # q
    BY <1>1, <1>2, <1>3, <1>5, <1>9, <2>1, <2>2, StalledKept DEF Turn
  <2>3. CASE r = q /\ q \notin queue[1].emit /\ UNCHANGED <<reqVars, running>>
    <3>1. 1 \notin InFlight(q)
      BY <2>3 DEF InFlight
    <3> QED
      BY <1>1, <1>3, <1>5, <1>9, <2>1, <2>3, <3>1, StalledKept DEF reqVars
  <2>4. CASE r = q /\ status'[q] = "finished"
    BY <2>4 DEF Stalled
  <2>5. CASE r = q /\ Sampled(q)
    <3> SUFFICES ASSUME status[r] = "running", nsched[r] = 0, ~Latest(r)
                 PROVE  /\ Remaining(r)' <= 1 + NumSpecTokens
                        /\ spec'[r] > 0 => NumTokens(r)' + placeholders'[r] + spec'[r] - Pending(r)'
                                             >= MaxModelLen
      BY <1>1, <1>3, <1>5, <1>7, SameHistory DEF Stalled
    <3>1. PICK a \in Nat :
            /\ a <= queue[1].s[r] /\ NumTokens(r)' = NumTokens(r) + a + 1
            /\ placeholders[r] >= 1 + queue[1].s[r]
            /\ placeholders'[r] = placeholders[r] - 1 - queue[1].s[r]
            /\ computed'[r] = IF computed[r] > 0 THEN computed[r] - (queue[1].s[r] - a)
                                                 ELSE computed[r]
      BY <2>5 DEF Sampled
    <3>2. PICK s \in Nat, nt \in Nat, ph \in Int, comp \in Int, sp \in Nat :
            /\ s = queue[1].s[r] /\ nt = NumTokens(r) /\ ph = placeholders[r]
            /\ comp = computed[r] /\ sp = spec[r]
      BY <1>1, <2>5, LevelType DEF Sampled
    <3>3. ph > 0 /\ comp = nt + ph - 1 /\ nt > 0
      <4>1. Prompt[r] \in Nat \ {0} /\ out[r] \in Nat
        BY <1>1, CoreAssumption DEF TypeOK
      <4>2. nt > 0
        BY <3>2, <4>1 DEF NumTokens
      <4>3. Caught(r)
        BY <1>1 DEF Counts
      <4> QED
        BY <3>1, <3>2, <4>2, <4>3 DEF Caught
    <3>4. /\ NumTokens(r)' = nt + a + 1 /\ placeholders'[r] = ph - 1 - s
          /\ computed'[r] = comp - (s - a) /\ ph >= 1 + s /\ spec'[r] = sp /\ a <= s
      BY <2>5, <3>1, <3>2, <3>3 DEF Sampled
    <3>5. Remaining(r)' = Remaining(r)
      BY <3>2, <3>4 DEF Remaining
    <3>6. Pending(r)' = 0 /\ Pending(r) = s
      BY <1>4, <1>6, <1>9, <2>5, <3>2 DEF Pending, Sampled
    <3>7. /\ Remaining(r) <= 1 + NumSpecTokens
          /\ sp > 0 => nt + ph + sp - s >= MaxModelLen
      BY <2>1, <3>2, <3>6 DEF Stalled
    <3>8. sp > 0 => nt + a + 1 + (ph - 1 - s) + sp - 0 >= MaxModelLen
      <4>1. MaxModelLen \in Int
        BY CoreAssumption
      <4>2. nt \in Nat /\ ph \in Int /\ sp \in Nat /\ s \in Nat /\ a \in Nat
        BY <3>2
      <4>3. sp > 0 => nt + ph + sp - s >= MaxModelLen
        BY <3>7
      <4> QED
        BY ONLY <4>1, <4>2, <4>3
    <3> QED
      BY <3>4, <3>5, <3>6, <3>7, <3>8
  <2> QED
    BY <1>2, <2>2, <2>3, <2>4, <2>5 DEF Turn
<1>12. \A r \in Reqs : Full(r)'
  BY <1>3 DEF Full, Scheduling
<1>13. Alone'
  BY <1>1, <1>3, <1>7, AloneKept DEF Streak
<1> QED
  BY <1>10, <1>11, <1>12, <1>13 DEF Streak

\* The oldest batch leaves, and the persistent batch stands for it.
LEMMA PopStreak ==
  ASSUME CoreInv, RunnerInv, Unpipelined, Roomy, PosInv, Streak, SampleDeferred \/ FinishOutput,
         executed, executed' = FALSE, inBatch' = inBatch
  PROVE  Streak'
<1>1. /\ Inv /\ TypeOK /\ AsyncScheduling /\ pc = "output" /\ pc' = "idle" /\ todo = {}
      /\ Done = 1 /\ Done' = 0 /\ inBatch = Batch(1) /\ Pops
      /\ UNCHANGED <<status, out, computed, placeholders, nsched, sspec, submissions>>
      /\ \A r \in Reqs : spec'[r] = spec[r]
  <2>1. Inv /\ TypeOK /\ AsyncScheduling /\ Done = 1 /\ Done' = 0 /\ inBatch = Batch(1)
    BY DEF CoreInv, Inv, Roomy, PosInv, Done
  <2>2. Pops
    BY <2>1, SampleDeferredPops, FinishPops
  <2>3. \A r \in Reqs : spec'[r] = spec[r]
    BY <2>1 DEF SampleDeferred, FinishOutput, HandOverDrafts, reqVars, TypeOK
  <2> QED
    BY <2>1, <2>2, <2>3 DEF Pops, localVars
<1>2. PICK n \in 0 .. 1 : n + 1 = Len(queue) /\ n = Len(queue')
  <2>1. Len(queue) \in Nat /\ Len(queue) <= 2 /\ Len(queue) >= 1 /\ Len(queue') = Len(queue) - 1
    BY <1>1, AtMostTwo DEF Pops
  <2>2. PICK m \in Nat : m = Len(queue)
    BY <2>1
  <2>3. m - 1 \in 0 .. 1 /\ m - 1 + 1 = m
    BY <2>1, <2>2
  <2> QED
    BY <2>1, <2>2, <2>3
<1>3. \A i \in 1 .. n : queue'[i].s = queue[i + 1].s /\ Batch(i)' = Batch(i + 1)
  <2>1. \A i \in 1 .. n : queue'[i].n = queue[i + 1].n /\ queue'[i].s = queue[i + 1].s
    BY <1>1, <1>2 DEF Pops
  <2> QED
    BY <2>1 DEF Batch, Scheduled
<1>4. \A i \in 0 .. n : Before(i)' = Before(i + 1)
  <2>1. Before(0)' = inBatch /\ Before(1) = inBatch
    BY <1>1 DEF Before
  <2>2. ASSUME n = 1 PROVE Before(1)' = Before(1 + 1)
    <3>1. Batch(1)' = Batch(1 + 1)
      BY <1>3, <2>2
    <3> QED
      BY <1>1, <3>1 DEF Before
  <2>3. \A i \in 0 .. n : i = 0 \/ (i = 1 /\ n = 1)
    BY <1>2
  <2> QED
    BY <2>1, <2>2, <2>3
<1>5. \A r : Latest(r)' <=> Latest(r)
  <2>1. Before(n)' = Before(n + 1)
    BY <1>2, <1>4
  <2>2. Before(Len(queue))' = Before(n)'
    BY <1>2 DEF Before
  <2> QED
    BY <1>2, <2>1, <2>2 DEF Latest
<1>6. \A r \in Reqs : Pending(r) = 0 /\ Pending(r)' = 0
  <2>1. \A r : 1 \notin InFlight(r)
    BY <1>1 DEF InFlight
  <2>2. Len(queue') # 2
    BY <1>2
  <2> QED
    BY <2>1, <2>2 DEF Pending
<1>7. ASSUME NEW r \in Reqs PROVE Stalled(r)'
  <2>1. NumTokens(r)' = NumTokens(r) /\ Remaining(r)' = Remaining(r)
    BY <1>1 DEF NumTokens, Remaining
  <2> QED
    BY <1>1, <1>5, <1>6, <2>1 DEF Stalled, Streak
<1>8. ASSUME NEW r \in Reqs PROVE Carried(r)'
  <2> SUFFICES ASSUME NEW i \in 1 .. n, Live(r), r \in Batch(i)', queue'[i].s[r] > 0,
                      r \notin Before(i - 1)'
               PROVE  Over(i, r)'
    BY <1>1, <1>2 DEF Carried
  <2>1. i = 1 /\ n = 1 /\ i \in 0 .. n /\ i - 1 \in 0 .. n /\ i - 1 + 1 = i + 1 - 1
    BY <1>2
  <2>2. r \in Batch(i + 1) /\ queue[i + 1].s[r] > 0 /\ r \notin Before(i + 1 - 1)
    BY <1>3, <1>4, <2>1
  <2>3. i + 1 \in Done + 1 .. Len(queue) /\ i + 1 = Len(queue)
    <3>1. i + 1 = n + 1 /\ i + 1 \in 2 .. n + 1
      BY <2>1
    <3>2. i + 1 = Len(queue)
      BY <1>2, <3>1
    <3>3. Done + 1 = 2
      BY <1>1
    <3> QED
      BY <1>2, <3>1, <3>2, <3>3
  <2>4. Over(i + 1, r)
    BY <2>2, <2>3 DEF Streak, Carried
  <2>5. AtLimit(r)'
    BY <1>1, <2>3, <2>4 DEF Over, AtLimit
  <2> QED
    BY <1>2, <2>1, <2>5 DEF Over
<1>9. \A r \in Reqs : Full(r)'
  BY <1>1 DEF Full, Scheduling
<1>10. Alone'
  <2>1. ASSUME queue' = <<>> PROVE \A r \in inBatch : ~Live(r)
    <3>1. n = 0
      BY <1>2, <2>1
    <3>2. Len(queue) = 1
      BY <1>2, <3>1
    <3> QED
      BY <1>1, <3>2 DEF Streak, Alone
  <2> QED
    BY <1>1, <2>1 DEF Alone
<1> QED
  BY <1>7, <1>8, <1>9, <1>10 DEF Streak

\* Clients submit ids nobody has met and abort requests; the engine waits for
\* its batch when nobody lives.
LEMMA ClientStreak ==
  ASSUME CoreInv, Unpipelined, PosInv, RunnerType, Paired, SameBatches, Streak, Drain \/ ClientStep
  PROVE  Streak'
<1>1. /\ Inv /\ TypeOK /\ FlightInv /\ pc = "idle" /\ queue' = queue /\ ~executed
      /\ UNCHANGED <<nsched, sspec>> /\ inBatch \subseteq Reqs /\ (executed => queue # <<>>)
      /\ pc' \in {"idle", "output"}
  BY DEF CoreInv, Inv, Drain, ClientStep, AddRequest, Abort, StartOutput, localVars, RunnerType,
     Paired
<1>2. \A r \in Reqs : Full(r)'
  BY <1>1 DEF Full, Scheduling
<1>3. CASE Drain
  <2>1. pc' = "output" /\ \A r \in Reqs : ~Live(r) /\ ~Live(r)'
    BY <1>3 DEF Drain, StartOutput, HasRequests, reqVars
  <2>2. \A r \in Reqs : Stalled(r)' /\ Carried(r)'
    BY <2>1 DEF Stalled, Carried
  <2>3. Batch(1)' \subseteq Reqs /\ inBatch' \subseteq Reqs
    BY <1>1 DEF Batch, Scheduled, SameBatches
  <2>4. Alone'
    BY <2>1, <2>3 DEF Alone
  <2> QED
    BY <1>2, <2>2, <2>4 DEF Streak
<1>4. CASE ClientStep
  <2>1. PICK q \in Reqs : AddRequest(q) \/ Abort(q)
    BY <1>4 DEF ClientStep
  <2>2. /\ pc' = "idle" /\ status'[q] # "running"
        /\ \A o \in Reqs : o # q => /\ out'[o] = out[o] /\ computed'[o] = computed[o]
                                    /\ placeholders'[o] = placeholders[o]
                                    /\ spec'[o] = spec[o] /\ status'[o] = status[o]
                                    /\ submissions'[o] = submissions[o]
    BY <1>1, <2>1 DEF AddRequest, Abort, Finish, TypeOK
  <2>3. Live(q)' => \/ Live(q)
                    \/ q \notin inBatch /\ \A i \in 1 .. Len(queue) : q \notin Batch(i)
    <3>1. CASE AddRequest(q)
      <4>1. submissions[q] = 0
        BY <1>1, <3>1, UnpipelinedExact DEF AddRequest, TypeOK
      <4>2. Traceless(q)
        BY <4>1 DEF PosInv, Traced
      <4> QED
        BY <4>2 DEF Traceless
    <3>2. CASE Abort(q)
      BY <1>1, <3>2 DEF Abort, Finish, TypeOK
    <3> QED
      BY <2>1, <3>1, <3>2
  <2>4. ASSUME NEW r \in Reqs PROVE Stalled(r)' /\ Carried(r)'
    <3>1. CASE r = q
      <4>1. Stalled(r)'
        BY <2>2, <3>1 DEF Stalled
      <4>2. AtLimit(r)'
        BY <2>2, <3>1 DEF AtLimit
      <4>3. Carried(r)'
        <5>1. CASE Live(q)' => Live(q)
          BY <1>1, <3>1, <4>2, <5>1, CarriedKept DEF Streak
        <5>2. CASE \A i \in 1 .. Len(queue) : q \notin Batch(i)
          <6>1. Done' = 0 /\ Len(queue)' = Len(queue) /\ \A i \in 1 .. Len(queue) : Batch(i)' = Batch(i)
            BY <1>1, SameHistory DEF Done
          <6> QED
            BY <3>1, <5>2, <6>1 DEF Carried
        <5> QED
          BY <2>3, <5>1, <5>2
      <4> QED
        BY <4>1, <4>3
    <3>2. CASE r # q
      <4>1. (1 \in InFlight(r)' <=> 1 \in InFlight(r)) /\ (AtLimit(r) => AtLimit(r)')
        BY <1>1, <2>2, <3>2 DEF InFlight, AtLimit
      <4> QED
        BY <1>1, <2>2, <3>2, <4>1, StalledKept, CarriedKept DEF Streak
    <3> QED
      BY <3>1, <3>2
  <2>5. Alone'
    <3>1. \A r \in Reqs : Live(r)' => Live(r) \/ r \notin inBatch
      BY <2>2, <2>3
    <3> QED
      BY <1>1, <2>2, <3>1, AloneKept DEF Streak
  <2> QED
    BY <1>2, <2>4, <2>5 DEF Streak
<1> QED
  BY <1>3, <1>4

\* The worker executes the oldest batch, and the grammar compiler is silent.
LEMMA SilentStreak ==
  ASSUME CoreInv, PosInv, RunnerType, Paired, Streak,
         \/ ExecuteModel
         \/ /\ UNCHANGED runnerVars
            /\ (\E r \in Reqs : GrammarReady(r)) \/ UNCHANGED vars
  PROVE  Streak'
<1>1. /\ UNCHANGED <<out, computed, placeholders, spec, nsched, sspec, submissions, pc, todo, queue>>
      /\ \A r \in Reqs : status'[r] = "running" <=> status[r] = "running"
      /\ \A r \in Reqs : Live(r)' <=> Live(r)
  BY DEF CoreInv, Inv, TypeOK, ExecuteModel, GrammarReady, vars, reqVars, localVars
<1>2. \A r : /\ InFlight(r)' = InFlight(r) /\ Pending(r)' = Pending(r)
             /\ NumTokens(r)' = NumTokens(r) /\ Remaining(r)' = Remaining(r)
  BY <1>1 DEF InFlight, Pending, NumTokens, Remaining
<1>3. PICK len \in Nat : len = Len(queue) /\ len = Len(queue') /\ (queue = <<>> <=> len = 0)
  <2>1. queue \in Seq(Batches) /\ queue' = queue
    BY <1>1 DEF CoreInv, Inv, TypeOK
  <2>2. Len(queue) \in Nat /\ (queue = <<>> <=> Len(queue) = 0)
    BY <2>1
  <2> QED
    BY <2>1, <2>2
<1>4. \A i : Batch(i)' = Batch(i)
  BY <1>1 DEF Batch, Scheduled
<1>5. /\ \A i \in 1 .. len : Before(i)' = Before(i)
      /\ Done \in {0, 1} /\ Done' \in {0, 1} /\ Done' >= Done
      /\ Done' = Done => inBatch' = inBatch
      /\ Done' # Done => len # 0
  <2>1. CASE UNCHANGED runnerVars
    <3>1. inBatch' = inBatch /\ executed' = executed
      BY <2>1 DEF runnerVars, workerVars
    <3>2. Done' = Done /\ Done \in {0, 1}
      BY <3>1 DEF Done
    <3> QED
      BY <1>4, <3>1, <3>2 DEF Before
  <2>2. CASE ExecuteModel
    <3>1. ~executed /\ executed' /\ queue # <<>> /\ inBatch' = Scheduled(Head(queue).n)
      BY <2>2 DEF ExecuteModel, UpdateStates, CoreInv, Inv, BatchQueueBounded
    <3>2. Done = 0 /\ Done' = 1 /\ len # 0
      BY <1>3, <3>1 DEF Done
    <3>3. inBatch' = Batch(1)
      BY <3>1 DEF Batch
    <3>4. ASSUME NEW i \in 1 .. len PROVE Before(i)' = Before(i)
      <4>1. i # 0
        OBVIOUS
      <4>2. Before(i)' = Batch(i)
        BY <1>4, <3>2, <3>3 DEF Before
      <4> QED
        BY <3>2, <4>1, <4>2 DEF Before
    <3> QED
      BY <3>2, <3>4
  <2> QED
    BY <2>1, <2>2
<1>6. \A r : Latest(r)' <=> Latest(r)
  <2>1. Before(len)' = Before(len)
    <3>1. CASE len # 0
      BY <1>3, <1>5, <3>1
    <3>2. CASE len = 0
      <4>1. Done' = Done /\ inBatch' = inBatch
        BY <1>5, <3>2
      <4> QED
        BY <1>4, <4>1 DEF Before
    <3> QED
      BY <3>1, <3>2
  <2>2. Before(Len(queue)) = Before(len) /\ Before(Len(queue))' = Before(len)'
    BY <1>3
  <2> QED
    BY <2>1, <2>2 DEF Latest
<1>7. ASSUME NEW r \in Reqs PROVE Stalled(r)'
  BY <1>1, <1>2, <1>6 DEF Stalled, Streak
<1>8. ASSUME NEW r \in Reqs PROVE Full(r)'
  BY <1>1, <1>6 DEF Full, Scheduling, Streak
<1>9. ASSUME NEW r \in Reqs PROVE Carried(r)'
  <2> SUFFICES ASSUME NEW i \in Done' + 1 .. len, Live(r), r \in Batch(i), queue[i].s[r] > 0,
                      r \notin Before(i - 1)'
               PROVE  Over(i, r)'
    BY <1>1, <1>3, <1>4 DEF Carried
  <2>1. i \in Done + 1 .. len /\ i - 1 \in 0 .. len
    BY <1>3, <1>5
  <2>2. Before(i - 1)' = Before(i - 1)
    <3>1. CASE i - 1 = 0
      <4>1. Done' = Done
        <5>1. i = 1
          BY <2>1, <3>1
        <5>2. Done' # 1
          <6> SUFFICES ASSUME Done' = 1 PROVE FALSE
            OBVIOUS
          <6>1. 1 \in 1 + 1 .. len
            BY <5>1
          <6> QED
            BY <6>1
        <5> QED
          BY <1>5, <5>2
      <4>2. inBatch' = inBatch /\ Done = 0
        BY <1>5, <3>1, <4>1
      <4> QED
        BY <3>1, <4>1, <4>2 DEF Before
    <3>2. CASE i - 1 # 0
      <4>1. i - 1 \in 1 .. len
        BY <2>1, <3>2
      <4> QED
        BY <1>5, <4>1
    <3> QED
      BY <3>1, <3>2
  <2>3. Over(i, r)
    <3>1. Carried(r)
      BY DEF Streak
    <3> QED
      BY <1>3, <2>1, <2>2, <3>1 DEF Carried
  <2>4. AtLimit(r)' <=> AtLimit(r)
    BY <1>1 DEF AtLimit
  <2>5. Batch(i + 1)' = Batch(i + 1)
    BY <1>4
  <2> QED
    BY <1>3, <2>3, <2>4, <2>5 DEF Over
<1>10. Alone'
  <2>1. Batch(1)' = Batch(1) /\ Batch(1) \subseteq Reqs
    BY <1>4 DEF Batch, Scheduled
  <2>2. queue' = <<>> => queue = <<>> /\ inBatch' = inBatch
    BY <1>1, <1>3, <1>5
  <2>3. inBatch \subseteq Reqs
    BY DEF RunnerType
  <2> QED
    BY <1>1, <2>1, <2>2, <2>3 DEF Alone, Streak
<1> QED
  BY <1>7, <1>8, <1>9, <1>10 DEF Streak


\* A pass of the engine's scheduler, heard by the worker.
LEMMA PassStreak ==
  ASSUME ChunkRunnerInv, CoreInv', PosInv, Unpipelined, Roomy, Pace, Streak, ChunkStep, Hears
  PROVE  Pace' /\ Streak'
<1>1. /\ CoreInv /\ RunnerInv /\ ChunkPass /\ RunnerType /\ Paired /\ FewDrafts /\ Inv /\ TypeOK
      /\ inBatch \subseteq Reqs
  BY DEF ChunkRunnerInv, ChunkInv, CoreInv, Inv, RunnerInv, RunnerType, PosInv
<1>2. queue' = queue /\ pc \notin {"commit", "output"}
  <2>1. PassStep
    BY <1>1, ChunkScheduleIsCore
  <2> QED
    BY <2>1 DEF PassStep, Begins, PutsBack, PassesOver, Picks, ScheduleRunning,
       LeavesRunning, Skips, Preempt, Admits
<1>3. SameBatches /\ executed = FALSE
  BY <1>1, <1>2, StillWorker
<1>4. executed => queue # <<>>
  BY <1>3
<1>5. CASE ScheduleChunk
  BY <1>1, <1>3, <1>4, <1>5, SchedulePace, ScheduleStreak
<1>6. CASE \/ BeginChunkSchedule \/ PassOverRunning \/ PickChunk \/ EndRunningLoop
           \/ EndWaitingLoop \/ \E r \in Reqs : SkipChunk(r)
  <2>1. Pace'
    BY <1>1, <1>6, LoopPace
  <2>2. Streak'
    BY <1>1, <1>3, <1>4, <1>6, LoopStreak
  <2> QED
    BY <2>1, <2>2
<1>7. ASSUME NEW v \in Reqs, PreemptChunk(v) PROVE Pace' /\ Streak'
  BY <1>1, <1>3, <1>4, <1>7, PreemptPace, PreemptStreak
<1>8. ASSUME NEW c \in Reqs, AdmitChunk(c) PROVE Pace' /\ Streak'
  <2>1. placeholders[c] = 0
    <3>1. pc = "waiting" /\ c \in Elems(waiting)
      BY <1>8 DEF AdmitChunk, Peeked, GoesNext
    <3> QED
      BY <1>1, <3>1, WaitingRest
  <2> QED
    BY <1>1, <1>3, <1>8, <2>1, AdmitPace, AdmitStreak
<1> QED
  BY <1>5, <1>6, <1>7, <1>8 DEF ChunkStep

\* The batch enters the queue. The engine waits for it only if it is empty:
\* the queue has room for two, and a deferred batch is behind another.
LEMMA EnterStreak ==
  ASSUME ChunkRunnerInv, ChunkInv', PosInv, Unpipelined, Roomy, Pace, Streak,
         CommitAndSample \/ CommitAndDefer, Hears
  PROVE  Pace' /\ Streak'
<1>1. /\ CoreInv /\ RunnerInv /\ RunnerType /\ Paired /\ Inv /\ TypeOK /\ TypeOK'
      /\ AsyncScheduling /\ ~EarlyDone
  BY DEF ChunkRunnerInv, ChunkInv, CoreInv, Inv, RunnerInv, Roomy
<1>2. Commits /\ EnterQueue
  BY DEF CommitAndSample, CommitAndDefer, CommitSchedule, Commits
<1>3. pc = "commit" /\ pc' \in {"idle", "output"} /\ queue' = Append(queue, NewBatch)
  BY <1>2 DEF Commits, StartOutput
<1>4. inBatch' = inBatch /\ executed' = FALSE
  <2>1. executed' \in BOOLEAN /\ inBatch' = inBatch
    BY <1>1, HearsType DEF RunnerType
  <2> QED
    BY <1>1, <1>3, <2>1, HearsType
<1>5. ASSUME pc' = "output", queue = <<>> PROVE Scheduled(nsched) = {}
  <2>1. Len(queue') = 1
    BY <1>3, <1>5
  <2>2. CASE CommitAndDefer
    <3>1. Len(queue') >= 2
      BY <2>2 DEF CommitAndDefer, ChunkInv, DeferredHasOlder
    <3> QED
      BY <2>1, <3>1
  <2>3. CASE CommitAndSample
    <3>1. QueueHasRoom(Append(queue, NewBatch))
      BY <1>1, <1>3, <2>1, CoreAssumption DEF QueueHasRoom
    <3> QED
      BY <1>1, <1>5, <2>3, <3>1 DEF CommitAndSample, CommitSchedule
  <2> QED
    BY <2>2, <2>3
<1>6. Pace'
  BY <1>1, <1>2, CommitPace
<1>7. Streak'
  BY <1>1, <1>2, <1>3, <1>4, <1>5, CommitStreak
<1> QED
  BY <1>6, <1>7

\* The output of the oldest batch, and its end.
LEMMA ConsumeStreak ==
  ASSUME ChunkRunnerInv, CoreInv', PosInv, Unpipelined, Roomy, Pace, Streak, Hears,
         OutputStep \/ SampleDeferred \/ FinishOutput
  PROVE  Pace' /\ Streak'
<1>1. /\ CoreInv /\ RunnerInv /\ RunnerType /\ Paired /\ Inv /\ TypeOK /\ TypeOK'
      /\ AsyncScheduling
  BY DEF ChunkRunnerInv, ChunkInv, CoreInv, Inv, RunnerInv, Roomy
<1>2. pc = "output" /\ executed = TRUE /\ inBatch' = inBatch /\ executed' \in BOOLEAN
  <2>1. pc = "output"
    BY DEF OutputStep, SampleDeferred, FinishOutput
  <2>2. inBatch' = inBatch /\ executed /\ executed' \in BOOLEAN /\ executed \in BOOLEAN
    BY <1>1, <2>1, HearsType DEF RunnerType
  <2> QED
    BY <2>1, <2>2
<1>3. CASE OutputStep
  <2>1. pc' = "output" /\ executed' = TRUE
    <3>1. pc' = "output"
      BY <1>3 DEF OutputStep, localVars
    <3> QED
      BY <1>1, <1>2, <3>1, HearsType
  <2>2. sent' = sent
    BY <1>2, <2>1 DEF Hears, Engine, TrackPass
  <2>3. PICK q \in Reqs : Turn(q)
    BY <1>1, <1>3, OutputTurn
  <2>4. SameBatches
    <3>1. DOMAIN queue = 1 .. Len(queue)
      BY <1>1 DEF TypeOK
    <3> QED
      BY <1>2, <2>1, <2>2, <2>3, <3>1 DEF SameBatches, Turn
  <2>5. Pace'
    BY <1>1, <1>3, OutputPace
  <2>6. Streak'
    BY <1>1, <1>2, <1>3, <2>4, OutputStreak
  <2> QED
    BY <2>5, <2>6
<1>4. CASE SampleDeferred \/ FinishOutput
  <2>1. executed' = FALSE
    <3>1. pc' = "idle"
      BY <1>4 DEF SampleDeferred, FinishOutput
    <3> QED
      BY <1>1, <1>2, <3>1, HearsType
  <2>2. Pace'
    BY <1>1, <1>4, RestPace
  <2>3. Streak'
    BY <1>1, <1>2, <1>4, <2>1, PopStreak
  <2> QED
    BY <2>2, <2>3
<1> QED
  BY <1>3, <1>4

\* Every step of the engine with its worker keeps the pace and the streaks.
LEMMA StepStreak ==
  ASSUME ChunkRunnerInv, PosInv, Unpipelined, Roomy, Pace, Streak, [EngineNext]_engineVars
  PROVE  Pace' /\ Streak'
<1>1. /\ ChunkInv /\ RunnerInv /\ CoreInv /\ RunnerType /\ Paired
      /\ Inv /\ ChunkInv' /\ CoreInv'
  <2>1. ChunkInv /\ RunnerInv /\ CoreInv /\ RunnerType /\ Paired /\ Inv
    BY DEF ChunkRunnerInv, ChunkInv, CoreInv, RunnerInv
  <2>2. ChunkInv'
    BY <2>1, ChunkStepInv, ChunkEngineStepIsStep
  <2> QED
    BY <2>1, <2>2 DEF ChunkInv
<1>2. CASE Engine(ChunkStep \/ ChunkEngineStep \/ ClientCalls)
  <2>1. ChunkStep \/ ChunkEngineStep \/ ClientCalls
    BY <1>2 DEF Engine
  <2>2. Moves
    BY <1>1, <2>1, ChunkMoves
  <2>3. Hears
    BY <1>2, <2>2 DEF Hears, Engine
  <2>4. CASE ChunkStep
    BY <1>1, <2>3, <2>4, PassStreak
  <2>5. CASE CommitAndSample \/ CommitAndDefer
    BY <1>1, <2>3, <2>5, EnterStreak
  <2>6. CASE OutputStep \/ SampleDeferred \/ FinishOutput
    BY <1>1, <2>3, <2>6, ConsumeStreak
  <2>7. CASE Drain \/ ClientStep
    <3>1. pc = "idle" /\ queue' = queue
      BY <2>7 DEF Drain, ClientStep, AddRequest, Abort
    <3>2. SameBatches
      BY <1>1, <2>3, <3>1, StillWorker
    <3>3. Pace'
      BY <1>1, <2>7, RestPace
    <3>4. Streak'
      BY <1>1, <2>7, <3>2, ClientStreak
    <3> QED
      BY <3>3, <3>4
  <2> QED
    BY <2>1, <2>4, <2>5, <2>6, <2>7 DEF ChunkEngineStep, ClientCalls
<1>3. CASE WorkerStep
  <2>1. ExecuteModel /\ UNCHANGED vars
    BY <1>3 DEF WorkerStep, ExecuteModel
  <2> QED
    BY <1>1, <2>1, SilentPace, SilentStreak
<1>4. CASE (\E r \in Reqs : CompileGrammar(r)) \/ UNCHANGED engineVars
  <2>1. UNCHANGED runnerVars /\ ((\E r \in Reqs : GrammarReady(r)) \/ UNCHANGED vars)
    BY <1>4 DEF CompileGrammar, engineVars, chunkVars, runnerVars
  <2> QED
    BY <1>1, <2>1, SilentPace, SilentStreak
<1> QED
  BY <1>2, <1>3, <1>4 DEF EngineNext

\* A request whose drafts the worker continues was in the batch before, and
\* one that was in a batch alone leaves no rejected drafts behind.
LEMMA RoomyContinues ==
  ASSUME CoreInv, Unpipelined, RunnerType, Roomy, Streak
  PROVE  Continued /\ Rested
<1>1. Inv /\ inBatch \subseteq Reqs
  BY DEF CoreInv, RunnerType
<1>2. Rested
  BY <1>1 DEF Rested, Streak, Alone
<1>3. ASSUME pc = "output", ~executed, NEW r \in Batch(1), Live(r), queue[1].s[r] > 0,
             Len(queue) = 2 => r \in Batch(2), r \notin inBatch
      PROVE  FALSE
  <2>1. PICK len \in Nat : len = Len(queue) /\ (len = 1 \/ len = 2)
    <3>1. Len(queue) \in Nat /\ Len(queue) <= 2 /\ Len(queue) >= 1
      BY <1>1, <1>3, AtMostTwo
    <3>2. PICK m \in Nat : m = Len(queue)
      BY <3>1
    <3>3. m = 1 \/ m = 2
      BY <3>1, <3>2
    <3> QED
      BY <3>2, <3>3
  <2>2. len = 2
    BY <1>3, <2>1 DEF Streak, Alone
  <2>3. Done = 0 /\ Before(0) = inBatch
    BY <1>3 DEF Before, Done
  <2>4. 1 \in Done + 1 .. Len(queue) /\ 1 - 1 = 0 /\ 1 # Len(queue) /\ 1 + 1 = 2
    <3>1. 1 \in 0 + 1 .. len /\ 1 # len
      BY <2>2
    <3> QED
      BY <2>1, <2>3, <3>1
  <2>5. r \in Reqs
    BY DEF Batch, Scheduled
  <2>6. Over(1, r)
    <3>1. r \notin Before(1 - 1)
      BY <1>3, <2>3, <2>4
    <3> QED
      BY <1>3, <2>4, <2>5, <3>1 DEF Streak, Carried
  <2>7. r \notin Batch(2)
    BY <2>4, <2>6 DEF Over
  <2> QED
    BY <1>3, <2>1, <2>2, <2>7
<1> QED
  BY <1>2, <1>3 DEF Continued

\* At the start nothing is scheduled or known.
LEMMA StreakStart ==
  ASSUME Init, RunnerInit
  PROVE  Pace /\ Streak
<1>1. /\ \A r \in Reqs : /\ status[r] = "none" /\ placeholders[r] = 0 /\ spec[r] = 0 /\ computed[r] = 0
                         /\ nsched[r] = 0
      /\ running = <<>> /\ pc = "idle" /\ idx = 1 /\ queue = <<>> /\ inBatch = {} /\ executed = FALSE
  BY DEF Init, RunnerInit, Zero
<1>2. \A r \in Reqs : Counts(r)
  BY <1>1 DEF Counts, Caught, Cut
<1>3. AllReady /\ AllServed /\ Ample /\ Chosen /\ Fresh
  BY <1>1 DEF AllReady, AllServed, Passed, Ample, Chosen, Fresh, Elems
<1>4. \A r \in Reqs : Stalled(r) /\ Full(r)
  BY <1>1 DEF Stalled, Full, Scheduling
<1>5. \A r \in Reqs : Carried(r)
  BY <1>1 DEF Carried
<1>6. Alone
  BY <1>1 DEF Alone
<1> QED
  BY <1>2, <1>3, <1>4, <1>5, <1>6 DEF Pace, Streak

\* With one batch at a time, without drafts in flight, or with room for the drafts of
\* everyone, the positions and what they rest on hold in every state.
LEMMA ChunkPositions ==
  Unpipelined /\ (Plain \/ Roomy) =>
    (EngineSpec => [](ChunkRunnerInv /\ PosInv /\ (Roomy => Pace /\ Streak)))
<1> SUFFICES ASSUME Unpipelined, Plain \/ Roomy
             PROVE  EngineSpec => [](ChunkRunnerInv /\ PosInv /\ (Roomy => Pace /\ Streak))
  OBVIOUS
<1> DEFINE Positions == PosInv /\ (Roomy => Pace /\ Streak)
<1>1. EngineInit => Positions
  <2> SUFFICES ASSUME EngineInit PROVE Positions
    OBVIOUS
  <2>1. Init /\ RunnerInit
    BY DEF EngineInit, ChunkInit
  <2> QED
    BY <2>1, PositionsStart, StreakStart
<1>2. ChunkRunnerInv /\ Positions /\ [EngineNext]_engineVars => Positions'
  <2> SUFFICES ASSUME ChunkRunnerInv, Positions, [EngineNext]_engineVars PROVE Positions'
    OBVIOUS
  <2>1. CoreInv /\ RunnerInv /\ RunnerType /\ PosInv
    BY DEF ChunkRunnerInv, ChunkInv, RunnerInv
  <2>2. Continued /\ Rested
    <3>1. CASE Plain
      BY <2>1, <3>1, PlainContinues
    <3>2. CASE Roomy
      BY <2>1, <3>2, RoomyContinues
    <3> QED
      BY <3>1, <3>2
  <2>3. PosInv'
    BY <2>1, <2>2, ChunkStepPositions
  <2>4. Roomy => Pace' /\ Streak'
    BY <2>1, StepStreak
  <2>5. Roomy' <=> Roomy
    BY DEF Roomy, Room
  <2> QED
    BY <2>3, <2>4, <2>5
<1>3. EngineSpec => []Positions
  <2>1. EngineSpec => []ChunkRunnerInv
    BY ChunkEngineInvHolds
  <2> QED
    BY <1>1, <1>2, <2>1, PTL DEF EngineSpec
<1> QED
  BY <1>3, ChunkEngineInvHolds, PTL

\* With chunked prefill the worker's positions continue the tokens a request
\* really has, whatever a pass cuts, passes over, preempts or defers.  With
\* async scheduling and drafts this takes a budget with room for everyone.
THEOREM ChunkWorkerPositions ==
  Unpipelined /\ (Plain \/ Roomy) => (EngineSpec => []WorkerPositions)
<1> SUFFICES ASSUME Unpipelined, Plain \/ Roomy PROVE EngineSpec => []WorkerPositions
  OBVIOUS
<1>1. ChunkRunnerInv /\ PosInv => WorkerPositions
  BY PositionFacts DEF ChunkRunnerInv, ChunkInv
<1>2. EngineSpec => [](ChunkRunnerInv /\ PosInv /\ (Roomy => Pace /\ Streak))
  BY ChunkPositions
<1> QED
  BY <1>1, <1>2, PTL

\* With the same hypotheses the worker samples for exactly the requests whose
\* tokens the scheduler waits for.
THEOREM ChunkSamplesExpected ==
  Unpipelined /\ (Plain \/ Roomy) => (EngineSpec => []SamplesExpected)
<1> SUFFICES ASSUME Unpipelined, Plain \/ Roomy PROVE EngineSpec => []SamplesExpected
  OBVIOUS
<1>1. ChunkRunnerInv /\ PosInv => SamplesExpected
  BY PositionFacts DEF ChunkRunnerInv, ChunkInv
<1>2. EngineSpec => [](ChunkRunnerInv /\ PosInv /\ (Roomy => Pace /\ Streak))
  BY ChunkPositions
<1> QED
  BY <1>1, <1>2, PTL
=============================================================================
