------------------------ MODULE UnchunkScheduler_proof ------------------------
(***************************************************************************)
(* MLUUnchunkScheduler and its async subclass, for any workload and any    *)
(* configuration an engine accepts: types, queues, KV blocks, the token    *)
(* budget, the slots of a batch and the life of a request; with its worker *)
(* the positions and samples of a batch; and the even shares of a decode   *)
(* batch.                                                                  *)
(***************************************************************************)
EXTENDS UnchunkEngine, SchedulerCore_proof

USE DEF Live, Statuses, Steps, SetAside, Admit, PutBackSkipped, EnterQueue

\* The waiting loop comes first: the index is not used yet, and no count of
\* tokens is negative.
WaitingFirst ==
  /\ pc \in {"idle", "waiting", "output"} => idx = 1
  /\ pc = "waiting" => \A r \in Reqs : nsched[r] >= 0

UnchunkInv == CoreInv /\ WaitingFirst

-----------------------------------------------------------------------------
(* Every step is one of CoreNext.                                           *)

\* num_new_tokens of a running request is an integer within the budget and
\* the limit, which with at most one draft token is within the model length;
\* it is not negative if what is computed is within the tokens and the limit.
LEMMA NewTokensType ==
  ASSUME TypeOK, NEW r \in Reqs
  PROVE  /\ NumNewTokens(r) \in Int /\ NumNewTokens(r) <= budget
         /\ NumSpecTokens <= 1 => computed[r] + NumNewTokens(r) <= MaxModelLen
         /\ NumNewTokens(r) <= Remaining(r)
         /\ computed[r] + NumNewTokens(r) <= Ceiling(r)
         /\ Remaining(r) >= 0 /\ computed[r] <= Ceiling(r) /\ budget > 0
              => NumNewTokens(r) >= 0
<1>1. /\ NumSpecTokens \in Nat /\ LongPrefillThreshold \in Nat
      /\ computed[r] \in Int /\ spec[r] \in Nat
      /\ placeholders[r] \in Int /\ budget \in Int
  BY CoreAssumption DEF TypeOK
<1>2. NumTokens(r) \in Int /\ MaxTotalTokens(r) \in Int /\ MaxTotalTokens(r) <= MaxModelLen
      /\ MaxModelLen \in Nat
  <2>1. /\ NumTokens(r) \in Int /\ MaxTotalTokens(r) \in Int /\ MaxModelLen \in Nat
        /\ Prompt[r] \in Nat /\ MaxTokens[r] \in Nat
    BY TokensType, CoreAssumption
  <2> QED
    BY <2>1 DEF MaxTotalTokens, MinOf
<1>3. PICK all \in Int : all = NumTokens(r) + spec[r] + placeholders[r] - computed[r]
                         /\ all = Remaining(r)
  BY <1>1, <1>2 DEF Remaining
<1>4. PICK cut \in Int : /\ NumNewTokens(r) = MinOf(MinOf(cut, budget),
                               MaxTotalTokens(r) + NumSpecTokens - 1 - computed[r])
                         /\ cut <= all /\ (all >= 0 => cut >= 0)
  BY <1>1, <1>3 DEF NumNewTokens
<1>5. PICK most \in Int : most = MaxTotalTokens(r) + NumSpecTokens - 1 /\ most = Ceiling(r)
  BY <1>1, <1>2, UnchunkAssumption DEF Ceiling
<1>6. /\ NumNewTokens(r) = MinOf(MinOf(cut, budget), most - computed[r])
      /\ NumSpecTokens <= 1 => most <= MaxModelLen
  BY <1>1, <1>2, <1>4, <1>5
<1> QED
  BY <1>1, <1>2, <1>3, <1>4, <1>5, <1>6 DEF MinOf

\* The steps of schedule().
LEMMA ScheduleIsCore ==
  ASSUME UnchunkInv, ScheduleStep
  PROVE  PassStep /\ WaitingFirst'
<1>1. CoreInv /\ WaitingFirst /\ TypeOK
  BY DEF UnchunkInv, CoreInv, Inv
<1>2. CASE BeginSchedule
  <2>1. Begins
    BY <1>2 DEF BeginSchedule, Begins
  <2>2. nsched = Zero /\ nsched' = nsched /\ idx' = 1
    BY <1>1, <1>2 DEF BeginSchedule, WaitingFirst, CoreInv, Inv, PassState
  <2>3. \A r \in Reqs : nsched'[r] >= 0
    BY <2>2 DEF Zero
  <2> QED
    BY <2>1, <2>2, <2>3 DEF PassStep, WaitingFirst
<1>3. ASSUME NEW r \in Reqs, SkipWaiting(r) PROVE PassStep /\ WaitingFirst'
  <2>1. Skips(r)
    BY <1>3 DEF SkipWaiting, Skips, Peeked, GoesNext
  <2>2. UNCHANGED <<pc, idx, nsched>>
    BY <2>1 DEF Skips
  <2> QED
    BY <1>1, <2>1, <2>2 DEF PassStep, WaitingFirst
<1>4. ASSUME NEW r \in Reqs, AdmitWaiting(r) PROVE PassStep /\ WaitingFirst'
  <2> DEFINE n == PrefillTokens(r)
  <2>1. r \in Elems(waiting) /\ n <= budget /\ Fits(r, n, 0) /\ Admit(r, n)
        /\ pc = "waiting" /\ Len(running) # MaxNumRunningReqs
    BY <1>4 DEF AdmitWaiting, Admissible, Peeked, GoesNext, WaitingLoopGoesOn
  <2>2. n \in Int /\ n > 0 /\ computed[r] + n <= MaxModelLen /\ n <= NumTokens(r) - computed[r]
    BY <1>1, <2>1, PrefillFits
  <2> HIDE DEF n
  <2>3. Admits(r, n)
    BY <2>1, <2>2 DEF Admits
  <2>4. nsched' = [nsched EXCEPT ![r] = n] /\ pc' = pc /\ idx' = idx
    BY <2>1
  <2>5. \A o \in Reqs : nsched'[o] >= 0
    BY <1>1, <2>1, <2>2, <2>4 DEF WaitingFirst, TypeOK
  <2> QED
    BY <1>1, <2>1, <2>2, <2>3, <2>4, <2>5 DEF PassStep, WaitingFirst
<1>5. CASE EndWaiting
  <2>1. Scheduled(nsched) = {} => nsched = Zero
    <3> SUFFICES ASSUME Scheduled(nsched) = {} PROVE nsched = Zero
      OBVIOUS
    <3>1. \A r \in Reqs : nsched[r] \in Int /\ nsched[r] >= 0 /\ ~(nsched[r] > 0)
      BY <1>1, <1>5 DEF EndWaiting, WaitingFirst, TypeOK, Scheduled
    <3>2. \A r \in Reqs : nsched[r] = 0
      BY <3>1
    <3> QED
      BY <1>1, <3>2 DEF TypeOK, Zero
  <2>2. PutsBack
    BY <1>5, <2>1 DEF EndWaiting, PutsBack
  <2>3. pc' \in {"running", "commit"}
    BY <1>5 DEF EndWaiting
  <2> QED
    BY <2>2, <2>3 DEF PassStep, WaitingFirst
<1>6. CASE SkipRunning
  BY <1>6 DEF SkipRunning, PassesOver, PassStep, WaitingFirst
<1>7. CASE PickRunning
  <2>1. PICK r \in Reqs : /\ r = running[idx] /\ idx <= Len(running) /\ budget > 0
                          /\ Exact => Remaining(r) >= 0 /\ computed[r] <= Ceiling(r)
                          /\ num' = NumNewTokens(r) /\ num' # 0
    BY <1>1, <1>7, NextRunning DEF PickRunning, RunningLoopGoesOn
  <2>2. /\ num' \in Int /\ num' <= budget
        /\ DraftsFit => computed[r] + num' <= MaxModelLen
        /\ num' <= Remaining(r) /\ computed[r] + num' <= Ceiling(r)
        /\ Exact => num' >= 0
    BY <1>1, <2>1, NewTokensType, UnchunkAssumption DEF DraftsFit
  <2>3. Exact => num' > 0
    BY <2>1, <2>2
  <2>4. Picks
    BY <1>7, <2>1, <2>2, <2>3 DEF PickRunning, Picks
  <2> QED
    BY <1>7, <2>4 DEF PassStep, WaitingFirst, PickRunning
<1>8. CASE ScheduleRunning
  BY <1>8 DEF ScheduleRunning, PassStep, WaitingFirst
<1>9. CASE EndRunning
  BY <1>9 DEF EndRunning, LeavesRunning, PassStep, WaitingFirst
<1>10. ASSUME NEW r \in Reqs, Preempt(r) PROVE PassStep /\ WaitingFirst'
  <2>1. pc' \in {"alloc", "commit"}
    BY <1>10 DEF Preempt
  <2> QED
    BY <1>10, <2>1 DEF PassStep, WaitingFirst
<1> QED
  BY <1>2, <1>3, <1>4, <1>5, <1>6, <1>7, <1>8, <1>9, <1>10 DEF ScheduleStep

\* The steps of the engine around schedule(), and of its clients.
LEMMA EngineIsCore ==
  ASSUME UnchunkInv, EngineStep \/ ClientStep
  PROVE  (Commits \/ Drain \/ OutputStep \/ Pops \/ ClientStep) /\ WaitingFirst'
<1>1. CoreInv /\ WaitingFirst /\ TypeOK
  BY DEF UnchunkInv, CoreInv, Inv
<1>2. CASE CommitSchedule
  <2>1. Commits
    BY <1>2 DEF CommitSchedule, Commits
  <2>2. pc' # "waiting" /\ idx' = 1
    BY <2>1 DEF Commits, StartOutput
  <2> QED
    BY <2>1, <2>2 DEF WaitingFirst
<1>3. CASE Drain
  BY <1>1, <1>3 DEF Drain, StartOutput, WaitingFirst, localVars
<1>4. CASE OutputStep
  BY <1>1, <1>4 DEF OutputStep, WaitingFirst, localVars
<1>5. CASE FinishOutput
  <2>1. Pops /\ pc' = "idle"
    BY <1>1, <1>5, FinishPops DEF FinishOutput, CoreInv
  <2>2. WaitingFirst'
    BY <1>1, <1>5, <2>1 DEF FinishOutput, WaitingFirst, localVars
  <2> QED
    BY <2>1, <2>2
<1>6. CASE ClientStep
  <2>1. UNCHANGED <<pc, idx, nsched>>
    BY <1>6 DEF ClientStep, AddRequest, Abort, localVars
  <2> QED
    BY <1>1, <1>6, <2>1 DEF WaitingFirst
<1> QED
  BY <1>2, <1>3, <1>4, <1>5, <1>6 DEF EngineStep

\* Every step but those of schedule().
LEMMA OtherIsCore ==
  ASSUME UnchunkInv, [Next]_vars, ~ScheduleStep
  PROVE  CoreNext /\ WaitingFirst'
<1>1. WaitingFirst
  BY DEF UnchunkInv
<1>2. CASE EngineStep \/ ClientStep
  BY <1>2, EngineIsCore DEF CoreNext
<1>3. ASSUME NEW r \in Reqs, GrammarReady(r) PROVE CoreNext /\ WaitingFirst'
  <2>1. UNCHANGED <<pc, idx, nsched>>
    BY <1>3 DEF GrammarReady, localVars
  <2> QED
    BY <1>1, <1>3, <2>1 DEF CoreNext, WaitingFirst
<1>4. CASE UNCHANGED vars
  BY <1>1, <1>4 DEF CoreNext, WaitingFirst, vars, localVars
<1> QED
  BY <1>2, <1>3, <1>4 DEF Next

\* Every step of the unchunked schedulers.
LEMMA UnchunkStep ==
  ASSUME UnchunkInv, [Next]_vars
  PROVE  /\ CoreNext /\ UnchunkInv'
         /\ [Lifecycle!LifecycleNext]_(Lifecycle!lifecycleVars)
<1>1. CoreNext /\ WaitingFirst'
  BY ScheduleIsCore, OtherIsCore DEF CoreNext
<1>2. CoreInv
  BY DEF UnchunkInv
<1> QED
  BY <1>1, <1>2, StepCore DEF UnchunkInv

\* The initial state of the unchunked schedulers.
LEMMA UnchunkStart ==
  ASSUME Init
  PROVE  UnchunkInv /\ Lifecycle!LifecycleInit
BY InitCore DEF Init, UnchunkInv, WaitingFirst

\* The inductive invariant holds.
LEMMA InvHolds == Spec => []UnchunkInv
<1>1. Init => UnchunkInv
  BY UnchunkStart
<1>2. UnchunkInv /\ [Next]_vars => UnchunkInv'
  BY UnchunkStep
<1> QED
  BY <1>1, <1>2, PTL DEF Spec

-----------------------------------------------------------------------------
(* What follows.                                                            *)

\* Every reachable state has the types the code gives its containers; the
\* pool's free counter is never negative, whatever is preempted or aborted.
THEOREM TypeCorrect == Spec => []TypeOK
<1>1. UnchunkInv => TypeOK
  BY DEF UnchunkInv, CoreInv, Inv
<1> QED
  BY <1>1, InvHolds, PTL

\* step_with_batch_queue never overfills its queue and never pops from an
\* empty one.
THEOREM BatchQueueBoundedHolds == Spec => []BatchQueueBounded
<1>1. UnchunkInv => BatchQueueBounded
  BY DEF UnchunkInv, CoreInv, Inv
<1> QED
  BY <1>1, InvHolds, PTL

\* The loop index of schedule() stays behind what the pass has scheduled.
THEOREM LoopIndexHolds == Spec => []LoopIndex
<1>1. UnchunkInv => LoopIndex
  BY DEF UnchunkInv, CoreInv, Inv, LoopAhead, WaitingFirst, LoopIndex
<1> QED
  BY <1>1, InvHolds, PTL

\* A live request is in exactly one queue, once, and in the one its status
\* names, for every workload, policy and pipeline depth.
THEOREM QueueConsistencyHolds == Spec => []QueueConsistency
<1>1. UnchunkInv => QueueConsistency
  BY DEF UnchunkInv, CoreInv
<1> QED
  BY <1>1, InvHolds, PTL

\* No KV block is lost or given out twice, through admissions, preemptions,
\* stops and aborts, and only running requests hold any.
THEOREM BlockAccountingHolds == Spec => []BlockAccounting
<1>1. UnchunkInv => BlockAccounting
  BY DEF UnchunkInv, CoreInv
<1> QED
  BY <1>1, InvHolds, PTL

\* The assertions at the end of schedule() hold: the budget is used up
\* exactly by what is scheduled, refunds included, no preempted request
\* stays in the batch and no more run than max_num_seqs.
THEOREM BudgetRespectedHolds == Spec => []BudgetRespected
<1>1. UnchunkInv => BudgetRespected
  BY DEF UnchunkInv, CoreInv, PassInv
<1> QED
  BY <1>1, InvHolds, PTL

\* Every token of a batch has a KV slot of its own request, with at most one
\* draft token: with more, the running loop goes past the model length, where
\* allocate_slots gives no slots.
THEOREM SlotsCoverScheduleHolds == NumSpecTokens <= 1 => (Spec => []SlotsCoverSchedule)
<1> SUFFICES ASSUME NumSpecTokens <= 1 PROVE Spec => []SlotsCoverSchedule
  OBVIOUS
<1>1. UnchunkInv => SlotsCoverSchedule
  BY CoveredFacts DEF UnchunkInv, DraftsFit
<1> QED
  BY <1>1, InvHolds, PTL

\* With at most one draft token no input position exceeds the model length,
\* as the comment in schedule() asks.
THEOREM InputPositionInRangeHolds ==
  NumSpecTokens <= 1 => (Spec => []InputPositionInRange)
<1> SUFFICES ASSUME NumSpecTokens <= 1 PROVE Spec => []InputPositionInRange
  OBVIOUS
<1>1. UnchunkInv => InputPositionInRange
  BY CoveredFacts DEF UnchunkInv, DraftsFit, InputPositionInRange
<1> QED
  BY <1>1, InvHolds, PTL

\* num_output_placeholders counts the tokens in flight exactly, through
\* rejected drafts, preemptions and late outputs, when ids are not reused.
THEOREM PlaceholderAccountingHolds ==
  MaxSubmissions = 1 => (Spec => []PlaceholderAccounting)
<1> SUFFICES ASSUME MaxSubmissions = 1 PROVE Spec => []PlaceholderAccounting
  OBVIOUS
<1>1. UnchunkInv => PlaceholderAccounting
  BY FlightFacts DEF UnchunkInv
<1> QED
  BY <1>1, InvHolds, PTL

\* A sampled token extends its request where it was computed for, when ids
\* are not reused and at most two batches are in flight, async or not.
THEOREM OutputsInSequenceHolds ==
  InOrder => (Spec => []OutputsInSequence)
<1> SUFFICES ASSUME InOrder PROVE Spec => []OutputsInSequence
  OBVIOUS
<1>1. UnchunkInv => OutputsInSequence
  BY FlightFacts DEF UnchunkInv, InOrder
<1> QED
  BY <1>1, InvHolds, PTL

\* The unchunked schedulers, synchronous or async, FCFS or by priority,
\* implement RequestLifecycle: no token of a request is ever lost, no limit
\* exceeded and never more than max_num_seqs requests started.
THEOREM LifecycleImplemented == Spec => ImplementsLifecycle
<1>1. Init => UnchunkInv /\ Lifecycle!LifecycleInit
  BY UnchunkStart
<1>2. UnchunkInv /\ [Next]_vars
        => UnchunkInv' /\ [Lifecycle!LifecycleNext]_(Lifecycle!lifecycleVars)
  BY UnchunkStep
<1> QED
  BY <1>1, <1>2, PTL DEF Spec, ImplementsLifecycle, Lifecycle!LifecycleSpec

-----------------------------------------------------------------------------
(* The engine with its model runner.                                        *)

\* The worker adds nothing to what the scheduler does: every step of the two
\* together is one of the scheduler, or none.
LEMMA EngineStepIsStep == [EngineNext]_engineVars => [Next]_vars
BY DEF EngineNext, engineVars, ExecuteModel, Engine, Next

\* The steps of the loops never go from the running requests to the waiting
\* ones, and the worker hears of every step of schedule().
LEMMA EngineStepRunner ==
  ASSUME UnchunkInv, RunnerInv, [EngineNext]_engineVars
  PROVE  RunnerInv'
<1>1. CoreInv /\ CoreNext /\ [Next]_vars
  BY UnchunkStep, EngineStepIsStep DEF UnchunkInv
<1>2. pc = "running" => pc' # "waiting"
  BY <1>1 DEF Next, ScheduleStep, BeginSchedule, EndWaiting, SkipRunning, PickRunning,
     ScheduleRunning, EndRunning, SkipWaiting, AdmitWaiting, Preempt, EngineStep,
     CommitSchedule, Drain, OutputStep, FinishOutput, StartOutput, ClientStep, AddRequest,
     Abort, GrammarReady, vars
<1>3. CASE Engine(ScheduleStep \/ EngineStep \/ ClientStep)
  <2>1. ScheduleStep \/ EngineStep \/ ClientStep
    BY <1>3 DEF Engine
  <2>2. Moves
    BY <2>1, ScheduleIsCore, EngineIsCore DEF Moves
  <2>3. Hears
    BY <1>3, <2>2 DEF Hears, Engine
  <2> QED
    BY <1>1, <1>2, <2>3, StepRunner
<1>4. CASE ExecuteModel
  BY <1>1, <1>2, <1>4, StepRunner
<1>5. CASE (\E r \in Reqs : GrammarReady(r) /\ UNCHANGED runnerVars) \/ UNCHANGED engineVars
  <2>1. UNCHANGED <<runnerVars, status, held, nsched, finished, pc, todo, queue>>
    BY <1>5 DEF GrammarReady, engineVars, vars, reqVars, blockVars, queueVars, localVars
  <2> QED
    BY <1>1, <1>2, <2>1, StepRunner
<1> QED
  BY <1>3, <1>4, <1>5 DEF EngineNext

\* The inductive invariant of the engine with its worker.
LEMMA EngineInvHolds == EngineSpec => [](UnchunkInv /\ RunnerInv)
<1>1. EngineInit => UnchunkInv /\ RunnerInv
  <2>1. UnchunkInv => CoreInv
    BY DEF UnchunkInv
  <2> QED
    BY <2>1, UnchunkStart, RunnerStart DEF EngineInit
<1>2. UnchunkInv /\ RunnerInv /\ [EngineNext]_engineVars => (UnchunkInv /\ RunnerInv)'
  BY UnchunkStep, EngineStepIsStep, EngineStepRunner
<1> QED
  BY <1>1, <1>2, PTL DEF EngineSpec

\* The engine with its worker behaves as the scheduler alone: whatever is
\* proved of Spec holds of EngineSpec.
THEOREM EngineImplementsScheduler == EngineSpec => Spec
<1>1. EngineInit => Init
  BY DEF EngineInit
<1> QED
  BY <1>1, EngineStepIsStep, PTL DEF EngineSpec, Spec

\* Every request the worker is sent without its data is in its cache: however
\* requests are preempted, resumed, aborted and submitted again while batches
\* are in flight, self.requests[req_id] never fails.
THEOREM StateCachedHolds == EngineSpec => []StateCached
<1>1. UnchunkInv /\ RunnerInv => StateCached
  BY RunnerFacts DEF UnchunkInv
<1> QED
  BY <1>1, EngineInvHolds, PTL

\* The worker's block tables are those of the scheduler when the batch was
\* made, without async scheduling always, with it if ids are not
\* reused: then a request is never given a negative number of tokens.
THEOREM WorkerBlocksHolds == Exact => (EngineSpec => []WorkerBlocks)
<1> SUFFICES ASSUME Exact PROVE EngineSpec => []WorkerBlocks
  OBVIOUS
<1>1. UnchunkInv /\ RunnerInv => WorkerBlocks
  BY RunnerFacts DEF UnchunkInv
<1> QED
  BY <1>1, EngineInvHolds, PTL

\* Where no drafts are in flight with async scheduling, the worker knows the
\* positions of every request it executes.
LEMMA EnginePositions == Unpipelined /\ Plain => (EngineSpec => []PosInv)
<1> SUFFICES ASSUME Unpipelined, Plain PROVE EngineSpec => []PosInv
  OBVIOUS
<1>1. EngineInit => PosInv
  BY PositionsStart DEF EngineInit
<1>2. UnchunkInv /\ RunnerInv /\ PosInv /\ [EngineNext]_engineVars => PosInv'
  <2> SUFFICES ASSUME UnchunkInv, RunnerInv, PosInv, [EngineNext]_engineVars PROVE PosInv'
    OBVIOUS
  <2>1. CoreInv /\ CoreNext /\ Continued /\ Rested
    BY UnchunkStep, EngineStepIsStep, PlainContinues DEF UnchunkInv
  <2>2. \/ Hears
        \/ ExecuteModel
        \/ UNCHANGED runnerVars /\ ((\E r \in Reqs : GrammarReady(r)) \/ UNCHANGED vars)
    <3>1. CASE Engine(ScheduleStep \/ EngineStep \/ ClientStep)
      <4>1. ScheduleStep \/ EngineStep \/ ClientStep
        BY <3>1 DEF Engine
      <4>2. Moves
        BY <2>1, <4>1, ScheduleIsCore, EngineIsCore DEF Moves, UnchunkInv
      <4> QED
        BY <3>1, <4>2 DEF Hears, Engine
    <3> QED
      BY <3>1 DEF EngineNext, engineVars
  <2> QED
    BY <2>1, <2>2, StepPositions
<1> QED
  BY <1>1, <1>2, EngineInvHolds, PTL DEF EngineSpec

\* Where an output reaches only the life of a request that it belongs to and
\* no drafts are in flight with async scheduling, the positions the worker
\* computes from the optimistic counts it is sent continue the tokens the
\* request really has, however batches overlap and requests are preempted,
\* resumed and aborted between them.
THEOREM WorkerPositionsHolds == Unpipelined /\ Plain => (EngineSpec => []WorkerPositions)
<1> SUFFICES ASSUME Unpipelined, Plain PROVE EngineSpec => []WorkerPositions
  OBVIOUS
<1>1. UnchunkInv /\ RunnerInv /\ PosInv => WorkerPositions
  BY PositionFacts DEF UnchunkInv
<1> QED
  BY <1>1, EngineInvHolds, EnginePositions, PTL

\* discard_requests_mask: under the same conditions the worker samples for
\* exactly the requests whose tokens the scheduler waits for.
THEOREM SamplesExpectedHolds == Unpipelined /\ Plain => (EngineSpec => []SamplesExpected)
<1> SUFFICES ASSUME Unpipelined, Plain PROVE EngineSpec => []SamplesExpected
  OBVIOUS
<1>1. UnchunkInv /\ RunnerInv /\ PosInv => SamplesExpected
  BY PositionFacts DEF UnchunkInv
<1> QED
  BY <1>1, EngineInvHolds, EnginePositions, PTL

-----------------------------------------------------------------------------
(* The shares of a decode batch: one sampled token and its drafts for each *)
(* request of it, or the threshold if that is less.  A request with          *)
(* structured output has that much or less.                                *)

Share == IF LongPrefillThreshold = 0 THEN 1 + NumSpecTokens ELSE LongPrefillThreshold

\* What the running loop may have given to the requests before index a.
Spent(a) == (a - 1) * Share

\* One batch at a time, a threshold no larger than a decode step, and a budget
\* that has a share for every request.
EvenShares ==
  /\ ~AsyncScheduling /\ BatchQueueSize = 1
  /\ LongPrefillThreshold <= 1 + NumSpecTokens
  /\ MaxNumRunningReqs * Share <= MaxNumScheduledTokens

\* A running request has something to compute: its last token, or part of its
\* prompt if that was cut to the threshold.
Lags(r) ==
  /\ 0 < computed[r] /\ computed[r] < NumTokens(r)
  /\ LongPrefillThreshold = 0 => computed[r] = NumTokens(r) - 1

\* Its share of a batch, and its drafts: all of them, if no grammar cuts them.
IsShare(r, n) == n <= Share /\ (r \notin Structured => n = Share)
HasDrafts(r) == spec[r] <= NumSpecTokens /\ (r \notin Structured => spec[r] = NumSpecTokens)

\* It is scheduled by the waiting loop, or with its share by the running loop.
Starts(r) ==
  /\ pc \in {"waiting", "commit"} /\ computed[r] = 0 /\ sspec[r] = 0
  /\ nsched[r] <= NumTokens(r)
  /\ LongPrefillThreshold = 0 => nsched[r] = NumTokens(r)

Decodes(r) ==
  /\ Lags(r) /\ IsShare(r, nsched[r])
  /\ IF nsched[r] + computed[r] > NumTokens(r)
       THEN nsched[r] + computed[r] = NumTokens(r) + sspec[r] ELSE sspec[r] = 0

\* Its output is awaited, or it has its drafts, or will have them when the
\* output that is being consumed is done.
Awaits(r) ==
  /\ 0 < computed[r] /\ 0 < queue[1].n[r]
  /\ IF r \in queue[1].emit THEN computed[r] = NumTokens(r) + queue[1].s[r]
                            ELSE computed[r] < NumTokens(r) /\ LongPrefillThreshold # 0

Rests(r) ==
  Lags(r) /\ (HasDrafts(r) \/ (pc = "output" /\ 0 < queue[1].n[r]))

Even(r) ==
  IF nsched[r] > 0 THEN Starts(r) \/ Decodes(r)
  ELSE IF pc = "output" /\ r \in todo THEN Awaits(r) ELSE Rests(r)

\* What the running loop asks for the request it has picked.
Asks(r) == /\ 0 < num /\ IsShare(r, num)
           /\ num + computed[r] <= NumTokens(r) + spec[r]

EvenInv ==
  /\ \A r \in Reqs : IF status[r] = "running" THEN Even(r) ELSE computed[r] = 0
  /\ pc = "alloc" => Asks(cur)

\* A sum of at most y for each member of A, and of nothing for the others.
LEMMA SumBound ==
  ASSUME NEW D, IsFiniteSet(D), NEW f \in [D -> Int], NEW y \in Nat, NEW A \in SUBSET D,
         \A x \in D : f[x] <= IF x \in A THEN y ELSE 0
  PROVE  Sum(f) <= Cardinality(A) * y
<1> DEFINE c(t) == Cardinality(A \cap t)
           F == {t \in SUBSET D : ~(Total(f, t) <= c(t) * y)}
<1>1. F = {}
  <2> SUFFICES ASSUME F # {} PROVE FALSE
    OBVIOUS
  <2>1. PICK T \in F : \A U \in F : U \subseteq T => U = T
    <3>1. F \subseteq SUBSET D
      OBVIOUS
    <3> HIDE DEF F
    <3> QED
      BY <3>1, SmallestMember
  <2>2. T \in SUBSET D /\ ~(Total(f, T) <= c(T) * y)
    BY <2>1
  <2>3. T # {}
    <3> SUFFICES ASSUME T = {} PROVE FALSE
      OBVIOUS
    <3>1. A \cap T = {} /\ c(T) = 0 /\ Total(f, T) = 0
      BY TotalEmpty, FS_EmptySet
    <3> QED
      BY <2>2, <3>1
  <2>4. PICK x \in T : TRUE
    BY <2>3
  <2>5. PICK U : U = T \ {x}
    OBVIOUS
  <2>6. U \notin F /\ U \in SUBSET D
    BY <2>1, <2>2, <2>4, <2>5
  <2>7. /\ IsFiniteSet(T) /\ IsFiniteSet(A \cap T) /\ IsFiniteSet(A \cap U)
        /\ \A z \in T : f[z] \in Int
    BY <2>2, <2>6, FS_Subset
  <2>8. Total(f, U) \in Int /\ Total(f, T) = f[x] + Total(f, U)
    BY <2>4, <2>5, <2>7, TotalSplit
  <2>9. c(U) \in Nat /\ c(T) = c(U) + (IF x \in A THEN 1 ELSE 0)
    <3>1. c(U) \in Nat
      BY <2>7, FS_CardinalityType
    <3>2. CASE x \in A
      <4>1. A \cap T = (A \cap U) \cup {x} /\ x \notin A \cap U
        BY <2>4, <2>5, <3>2
      <4>2. Cardinality((A \cap U) \cup {x}) = Cardinality(A \cap U) + 1
        BY <2>7, <4>1, FS_AddElement
      <4>3. c(T) = c(U) + 1
        BY <4>1, <4>2
      <4> QED
        BY <3>1, <3>2, <4>3
    <3>3. CASE x \notin A
      <4>1. A \cap T = A \cap U
        BY <2>5, <3>3
      <4>2. c(T) = c(U)
        BY <4>1
      <4> QED
        BY <3>1, <3>3, <4>2
    <3> QED
      BY <3>2, <3>3
  <2>10. Total(f, U) <= c(U) * y
    BY <2>6
  <2>11. f[x] \in Int /\ f[x] <= IF x \in A THEN y ELSE 0
    BY <2>2, <2>4
  <2> HIDE DEF c, F
  <2>12. PICK k \in Nat, a \in Int, b \in Int :
           k = c(U) /\ a = Total(f, U) /\ b = f[x] /\ a <= k * y
    BY <2>8, <2>9, <2>10, <2>11
  <2>13. (k + 1) * y = k * y + y /\ k * y \in Nat
    OBVIOUS
  <2>14. ~(b + a <= c(T) * y)
    BY <2>2, <2>8, <2>12
  <2>15. CASE x \in A
    <3>1. c(T) = k + 1
      BY <2>9, <2>12, <2>15
    <3>2. b <= y
      BY <2>11, <2>12, <2>15
    <3>3. ~(b + a <= (k + 1) * y)
      BY <2>14, <3>1
    <3> QED
      BY <2>12, <2>13, <3>2, <3>3
  <2>16. CASE x \notin A
    <3>1. c(T) = k
      BY <2>9, <2>12, <2>16
    <3>2. b <= 0
      BY <2>11, <2>12, <2>16
    <3>3. ~(b + a <= k * y)
      BY <2>14, <3>1
    <3> QED
      BY <2>12, <2>13, <3>2, <3>3
  <2> QED
    BY <2>15, <2>16
<1>2. Total(f, D) <= c(D) * y
  BY <1>1
<1>3. A \cap D = A /\ Sum(f) = Total(f, D)
  BY SumIsTotal
<1> QED
  BY <1>2, <1>3

\* One share more is spent with each request, and every request has one.
LEMMA Shares ==
  ASSUME EvenShares
  PROVE  /\ Share \in Nat /\ 0 < Share /\ Share <= 1 + NumSpecTokens /\ NumSpecTokens \in Nat
         /\ LongPrefillThreshold \in Nat /\ Spent(1) = 0
         /\ \A a \in Nat : 0 < a => /\ Spent(a) \in Nat /\ Spent(a + 1) = Spent(a) + Share
                                    /\ a <= MaxNumRunningReqs
                                         => Share <= MaxNumScheduledTokens - Spent(a)
<1>1. /\ NumSpecTokens \in Nat /\ LongPrefillThreshold \in Nat
      /\ MaxNumRunningReqs \in Nat /\ MaxNumScheduledTokens \in Nat
      /\ LongPrefillThreshold <= 1 + NumSpecTokens
  BY CoreAssumption DEF EvenShares
<1>2. Share \in Nat /\ 0 < Share /\ Share <= 1 + NumSpecTokens
  BY <1>1 DEF Share
<1>3. PICK y \in Nat : y = Share
  BY <1>2
<1>4. MaxNumRunningReqs * y <= MaxNumScheduledTokens
  BY <1>3 DEF EvenShares
<1>5. ASSUME NEW a \in Nat, 0 < a
      PROVE  /\ Spent(a) \in Nat /\ Spent(a + 1) = Spent(a) + Share
             /\ a <= MaxNumRunningReqs => Share <= MaxNumScheduledTokens - Spent(a)
  <2>1. PICK x \in Nat : x = a - 1
    BY <1>5
  <2>2. Spent(a) = x * y /\ Spent(a + 1) = (x + 1) * y
    <3>1. a + 1 - 1 = x + 1
      BY <2>1
    <3> QED
      BY <1>3, <2>1, <3>1 DEF Spent
  <2>3. (x + 1) * y = x * y + y /\ x * y \in Nat
    OBVIOUS
  <2>4. ASSUME a <= MaxNumRunningReqs PROVE x * y + y <= MaxNumScheduledTokens
    <3>1. PICK z \in Nat : MaxNumRunningReqs = (x + 1) + z
      <4>1. MaxNumRunningReqs - (x + 1) \in Nat /\ MaxNumRunningReqs = (x + 1) + (MaxNumRunningReqs - (x + 1))
        BY <1>1, <2>1, <2>4
      <4> QED
        BY <4>1
    <3>2. ((x + 1) + z) * y = (x + 1) * y + z * y /\ z * y \in Nat
      OBVIOUS
    <3> QED
      BY <1>1, <1>4, <2>3, <3>1, <3>2
  <2> QED
    BY <1>1, <1>3, <2>2, <2>3, <2>4
<1>6. Spent(1) = 0
  <2>1. Spent(1) = 0 * y
    BY <1>3 DEF Spent
  <2> QED
    BY <2>1
<1> QED
  BY <1>1, <1>2, <1>5, <1>6


\* The numbers of a request, without async scheduling.
LEMMA EvenNumbers ==
  ASSUME CoreInv, EvenShares, NEW r \in Reqs
  PROVE  /\ computed[r] \in Int /\ nsched[r] \in Nat /\ spec[r] \in Nat /\ sspec[r] \in Nat
         /\ placeholders[r] = 0 /\ NumTokens(r) \in Nat /\ 0 < NumTokens(r)
         /\ NumSpecTokens \in Nat /\ MaxTotalTokens(r) \in Nat
         /\ status[r] = "running" => NumTokens(r) < MaxTotalTokens(r)
         /\ nsched[r] = 0 => sspec[r] = 0
<1>1. Inv /\ TypeOK /\ FlightInv /\ Counted
  BY DEF CoreInv, Inv, Exact, EvenShares
<1>2. placeholders[r] = 0
  BY <1>1 DEF EvenShares, FlightInv, Awaited
<1>3. 0 < NumTokens(r)
  <2>1. Prompt[r] \in Nat \ {0} /\ out[r] \in Nat
    BY <1>1, CoreAssumption DEF TypeOK
  <2> QED
    BY <2>1 DEF NumTokens
<1>4. status[r] = "running" => NumTokens(r) < MaxTotalTokens(r)
  BY <1>1 DEF FlightInv, Submitted
<1>5. nsched[r] >= 0 /\ (nsched[r] = 0 => sspec[r] = 0)
  BY <1>1 DEF Counted
<1> QED
  BY <1>1, <1>2, <1>3, <1>4, <1>5, LevelType

\* The running loop offers a request that rests its share, or what its drafts
\* leave of it: neither the budget nor the length limit cuts it.
LEMMA OffersShare ==
  ASSUME CoreInv, EvenShares, NEW r \in Reqs, status[r] = "running",
         Lags(r), HasDrafts(r), Share <= budget
  PROVE  /\ 0 < NumNewTokens(r) /\ IsShare(r, NumNewTokens(r))
         /\ NumNewTokens(r) + computed[r] <= NumTokens(r) + spec[r]
<1>1. PICK nt \in Nat, comp \in Int, t \in Nat, k \in Nat, d \in Nat, sh \in Nat, m \in Nat,
           b \in Int :
        /\ nt = NumTokens(r) /\ comp = computed[r] /\ t = LongPrefillThreshold
        /\ k = NumSpecTokens /\ d = spec[r]
        /\ sh = Share /\ m = MaxTotalTokens(r) /\ b = budget
        /\ nt < m /\ placeholders[r] = 0 /\ sh <= 1 + k /\ 0 < sh
        /\ IF t = 0 THEN sh = 1 + k ELSE sh = t
  <2>1. budget \in Int
    BY DEF CoreInv, Inv, TypeOK
  <2> QED
    BY <2>1, EvenNumbers, Shares DEF Share
<1>2. /\ 0 < comp /\ comp < nt /\ (t = 0 => comp = nt - 1)
      /\ d <= k /\ (r \notin Structured => d = k) /\ sh <= b
  BY <1>1 DEF Lags, HasDrafts
<1>3. PICK all \in Int : all = nt + d + 0 - comp
  BY <1>1
<1>4. PICK c \in Int : c = IF 0 < t /\ t < all THEN t ELSE all
  BY <1>1
<1>5. NumNewTokens(r) = MinOf(MinOf(c, b), m + k - 1 - comp)
  BY <1>1, <1>3, <1>4 DEF NumNewTokens
<1>6. 0 < c /\ c <= all /\ c <= sh /\ (d = k => c = sh)
  BY <1>1, <1>2, <1>3, <1>4
<1>7. c <= m + k - 1 - comp /\ c <= b
  BY <1>1, <1>2, <1>3, <1>6
<1>8. MinOf(c, b) = c /\ MinOf(c, m + k - 1 - comp) = c
  BY <1>1, <1>7 DEF MinOf
<1>9. NumNewTokens(r) = c
  BY <1>5, <1>8
<1> QED
  BY <1>1, <1>2, <1>3, <1>6, <1>9 DEF IsShare

\* What Even says of a request does not change without its numbers.
LEMMA EvenKept ==
  ASSUME CoreInv, EvenShares, NEW r \in Reqs, Even(r), pc \in {"idle", "waiting", "running", "alloc"},
         pc' \in {"waiting", "running", "alloc", "commit", "idle"},
         nsched[r] > 0 => pc # "waiting" \/ pc' \in {"waiting", "commit"},
         computed'[r] = computed[r], nsched'[r] = nsched[r], spec'[r] = spec[r],
         sspec'[r] = sspec[r], out'[r] = out[r]
  PROVE  Even(r)'
<1>1. NumTokens(r)' = NumTokens(r)
  BY DEF NumTokens
<1>2. Lags(r) => Lags(r)'
  BY <1>1 DEF Lags
<1>3. CASE nsched[r] > 0
  <2>1. Starts(r) \/ Decodes(r)
    BY <1>3 DEF Even
  <2>2. Starts(r) => Starts(r)'
    BY <1>1, <1>3 DEF Starts
  <2>3. Decodes(r) => Decodes(r)'
    BY <1>1, <1>2 DEF Decodes, IsShare, Share
  <2> QED
    BY <1>3, <2>1, <2>2, <2>3 DEF Even
<1>4. CASE ~(nsched[r] > 0)
  <2>1. Rests(r)
    BY <1>4 DEF Even
  <2>2. Rests(r)'
    BY <1>2, <2>1 DEF Rests, HasDrafts
  <2> QED
    BY <1>4, <2>2 DEF Even
<1> QED
  BY <1>3, <1>4


\* A pass begins with the whole budget.
LEMMA BeginEven ==
  ASSUME CoreInv, WaitingFirst, EvenShares, EvenInv, BeginSchedule
  PROVE  EvenInv'
<1>1. /\ pc = "idle" /\ pc' \in {"waiting", "running"} /\ nsched = Zero
      /\ budget' = MaxNumScheduledTokens /\ idx = 1 /\ idx' = 1
      /\ UNCHANGED <<status, out, computed, spec, nsched, sspec>>
  BY DEF BeginSchedule, CoreInv, Inv, PassState, WaitingFirst, reqVars
<1>2. ASSUME NEW r \in Reqs, status'[r] = "running" PROVE Even(r)'
  <2>1. Even(r) /\ nsched[r] = 0
    BY <1>1, <1>2 DEF EvenInv, Zero
  <2> QED
    BY <1>1, <2>1, EvenKept
<1> QED
  BY <1>1, <1>2 DEF EvenInv

\* The waiting loop sets a request aside, and ends with nothing scheduled or
\* without a running loop.
LEMMA WaitingEven ==
  ASSUME CoreInv, WaitingFirst, EvenShares, EvenInv,
         EndWaiting \/ \E r \in Reqs : SkipWaiting(r)
  PROVE  EvenInv'
<1>1. /\ pc = "waiting" /\ pc' \in {"waiting", "running", "commit"} /\ idx = 1
      /\ UNCHANGED <<status, out, computed, spec, nsched, sspec, budget, idx>>
      /\ (pc' = "running" => Scheduled(nsched) = {})
  BY DEF EndWaiting, SkipWaiting, WaitingFirst, reqVars
<1>2. pc' = "running" => nsched = Zero
  <2> SUFFICES ASSUME Scheduled(nsched) = {} PROVE nsched = Zero
    BY <1>1
  <2>1. \A r \in Reqs : nsched[r] \in Int /\ nsched[r] >= 0 /\ ~(nsched[r] > 0)
    BY <1>1 DEF CoreInv, Inv, WaitingFirst, TypeOK, Scheduled
  <2>2. \A r \in Reqs : nsched[r] = 0
    BY <2>1
  <2> QED
    BY <2>2 DEF CoreInv, Inv, TypeOK, Zero
<1>3. ASSUME NEW r \in Reqs, status'[r] = "running" PROVE Even(r)'
  <2>1. Even(r) /\ (pc' = "running" => ~(nsched[r] > 0))
    BY <1>1, <1>2, <1>3 DEF EvenInv, Zero
  <2> QED
    BY <1>1, <2>1, EvenKept
<1> QED
  BY <1>1, <1>3 DEF EvenInv

\* An admitted request starts from nothing.
LEMMA AdmitEven ==
  ASSUME CoreInv, CoreInv', EvenShares, EvenInv, NEW q \in Reqs, AdmitWaiting(q)
  PROVE  EvenInv'
<1>1. /\ pc = "waiting" /\ pc' = "waiting" /\ q \in Elems(waiting)
      /\ status' = [status EXCEPT ![q] = "running"]
      /\ nsched' = [nsched EXCEPT ![q] = PrefillTokens(q)]
      /\ UNCHANGED <<out, computed, spec, sspec>>
  BY DEF AdmitWaiting, Peeked, GoesNext
<1>2. /\ nsched \in [Reqs -> Int] /\ status \in [Reqs -> Statuses] /\ QueueConsistency /\ PassInv
      /\ TypeOK
  BY DEF CoreInv, Inv, TypeOK
<1>3. ASSUME NEW r \in Reqs, status'[r] = "running", r # q PROVE Even(r)'
  <2>1. status[r] = "running" /\ nsched'[r] = nsched[r]
    BY <1>1, <1>2, <1>3
  <2>2. Even(r)
    BY <2>1 DEF EvenInv
  <2> QED
    BY <1>1, <2>1, <2>2, EvenKept
<1>4. Even(q)'
  <2>1. status[q] # "running" /\ nsched[q] = 0
    BY <1>1, <1>2 DEF QueueConsistency, PassInv, WaitingFree
  <2>2. sspec[q] = 0 /\ NumTokens(q) \in Nat
    BY <2>1, EvenNumbers
  <2>3. computed[q] = 0
    BY <2>1 DEF EvenInv
  <2>4. nsched'[q] = PrefillTokens(q) /\ NumTokens(q)' = NumTokens(q)
    BY <1>1, <1>2 DEF NumTokens
  <2>5. /\ PrefillTokens(q) > 0 /\ PrefillTokens(q) <= NumTokens(q)
        /\ LongPrefillThreshold = 0 => PrefillTokens(q) = NumTokens(q)
    BY <1>1, <2>2, <2>3, PrefillFits, CoreAssumption DEF PrefillTokens
  <2>6. Starts(q)'
    BY <1>1, <2>2, <2>3, <2>4, <2>5 DEF Starts
  <2> QED
    BY <2>4, <2>5, <2>6 DEF Even
<1> QED
  BY <1>1, <1>3, <1>4 DEF EvenInv


\* The budget has a share for the request the loop has come to: it has given
\* at most one to each request it has passed.
LEMMA RoomForShare ==
  ASSUME CoreInv, EvenShares, EvenInv, pc \in {"running", "alloc"}, idx <= Len(running)
  PROVE  Share <= budget
<1>1. PICK a \in Nat : a = idx /\ 0 < a
  BY DEF CoreInv, Inv, TypeOK
<1>2. /\ Spent(a) \in Nat /\ Share \in Nat
      /\ a <= MaxNumRunningReqs => Share <= MaxNumScheduledTokens - Spent(a)
  BY <1>1, Shares
<1>3. MaxNumScheduledTokens \in Nat /\ budget \in Int /\ Len(running) \in Nat
      /\ MaxNumRunningReqs \in Nat /\ Len(running) <= MaxNumRunningReqs
  BY PassFacts DEF CoreInv, PassInv, RunningBound
<1>4. /\ nsched \in [Reqs -> Int] /\ budget + Sum(nsched) = MaxNumScheduledTokens
      /\ \A r \in Scheduled(nsched) : r \in Reqs /\ status[r] = "running"
      /\ Cardinality(Scheduled(nsched)) < idx
  BY DEF CoreInv, Inv, TypeOK, LoopAhead, PassInv, BudgetRespected, Scheduling,
         QueueConsistency, Scheduled
<1>5. \A r \in Reqs : nsched[r] <= IF r \in Scheduled(nsched) THEN Share ELSE 0
  <2> TAKE r \in Reqs
  <2>1. CASE r \in Scheduled(nsched)
    <3>1. nsched[r] > 0 /\ Even(r)
      BY <1>4, <2>1 DEF Scheduled, EvenInv
    <3>2. Decodes(r)
      BY <3>1 DEF Even, Starts
    <3> QED
      BY <2>1, <3>2 DEF Decodes, IsShare
  <2>2. CASE r \notin Scheduled(nsched)
    <3>1. nsched[r] \in Int /\ ~(nsched[r] > 0)
      BY <1>4, <2>2 DEF Scheduled
    <3> QED
      BY <2>2, <3>1
  <2> QED
    BY <2>1, <2>2
<1>6. PICK n \in Nat : n = Cardinality(Scheduled(nsched)) /\ n < a
  <2>1. IsFiniteSet(Scheduled(nsched))
    BY CoreAssumption, FS_Subset DEF Scheduled
  <2> QED
    BY <1>1, <1>4, <2>1, FS_CardinalityType
<1>7. PICK y \in Nat : y = Share
  BY <1>2
<1>8. Sum(nsched) \in Int /\ Sum(nsched) <= n * y
  <2>1. IsFiniteSet(Reqs) /\ Scheduled(nsched) \in SUBSET Reqs
    BY CoreAssumption DEF Scheduled
  <2>2. Sum(nsched) <= Cardinality(Scheduled(nsched)) * y
    BY <1>4, <1>5, <1>7, <2>1, SumBound
  <2>3. Sum(nsched) \in Int
    BY <1>4, <2>1, SumIsTotal, TotalType
  <2> QED
    BY <1>6, <2>2, <2>3
<1>9. n * y <= Spent(a)
  <2>1. PICK z \in Nat : a - 1 = n + z
    <3>1. a - 1 - n \in Nat /\ a - 1 = n + (a - 1 - n)
      BY <1>1, <1>6
    <3> QED
      BY <3>1
  <2>2. (n + z) * y = n * y + z * y /\ n * y \in Nat /\ z * y \in Nat
    OBVIOUS
  <2>3. Spent(a) = (n + z) * y
    BY <1>7, <2>1 DEF Spent
  <2> QED
    BY <2>2, <2>3
<1>10. PICK x \in Int, w \in Nat, q \in Nat :
         /\ x = Sum(nsched) /\ w = Spent(a) /\ q = n * y
         /\ x <= q /\ q <= w
  BY <1>2, <1>8, <1>9
<1> QED
  BY <1>1, <1>2, <1>3, <1>4, <1>10

\* Picking a request asks for its share.
LEMMA PickEven ==
  ASSUME CoreInv, EvenShares, EvenInv, SkipRunning \/ PickRunning \/ EndRunning
  PROVE  EvenInv'
<1>1. /\ pc = "running" /\ pc' \in {"running", "alloc", "commit"}
      /\ UNCHANGED <<status, out, computed, spec, nsched, sspec, budget>>
      /\ idx' \in {idx, idx + 1}
  BY DEF SkipRunning, PickRunning, EndRunning, reqVars, localVars
<1>2. ASSUME NEW r \in Reqs, status'[r] = "running" PROVE Even(r)'
  <2>1. Even(r)
    BY <1>1, <1>2 DEF EvenInv
  <2> QED
    BY <1>1, <2>1, EvenKept
<1>3. pc' = "alloc" => Asks(cur)'
  <2> SUFFICES ASSUME PickRunning PROVE Asks(cur)'
    BY <1>1 DEF SkipRunning, EndRunning
  <2>1. idx <= Len(running) /\ num' = NumNewTokens(running[idx]) /\ cur' = running[idx]
    BY DEF PickRunning, RunningLoopGoesOn
  <2>2. idx \in DOMAIN running /\ idx >= idx
    BY <2>1, PassFacts DEF CoreInv
  <2>3. PICK r \in Reqs : r = running[idx] /\ r \in Elems(running) /\ nsched[r] = 0
    BY <1>1, <2>2, PassFacts DEF Elems, CoreInv, PassInv, AheadFree
  <2>4. status[r] = "running"
    BY <2>3 DEF CoreInv, QueueConsistency
  <2>5. Lags(r) /\ HasDrafts(r)
    BY <1>1, <2>3, <2>4 DEF EvenInv, Even, Rests
  <2>6. Share <= budget
    BY <1>1, <2>1, RoomForShare
  <2>7. /\ 0 < NumNewTokens(r) /\ IsShare(r, NumNewTokens(r))
        /\ NumNewTokens(r) + computed[r] <= NumTokens(r) + spec[r]
    BY <2>4, <2>5, <2>6, OffersShare
  <2>8. cur' = r /\ num' = NumNewTokens(r) /\ NumTokens(r)' = NumTokens(r)
    BY <1>1, <2>1, <2>3 DEF NumTokens
  <2>9. IsShare(r, NumNewTokens(r)) => IsShare(r, num')
    BY <2>8
  <2>10. 0 < num' /\ IsShare(r, num') /\ num' + computed[r]' <= NumTokens(r)' + spec[r]'
    BY <1>1, <2>7, <2>8, <2>9
  <2> QED
    BY <2>8, <2>10 DEF Asks, IsShare, Share, NumTokens
<1> QED
  BY <1>1, <1>2, <1>3 DEF EvenInv

\* The picked request gets its share, with the drafts that fit into it.
LEMMA ShareEven ==
  ASSUME CoreInv, CoreInv', EvenShares, EvenInv, ScheduleRunning
  PROVE  EvenInv'
<1>1. PICK c \in Reqs : /\ c = cur /\ c \in Elems(running) /\ nsched[c] = 0
                        /\ status[c] = "running"
  BY DEF ScheduleRunning, CoreInv, Inv, PassState, PassInv, Picked, QueueConsistency
<1>2. /\ pc = "alloc" /\ pc' = "running" /\ Asks(c)
      /\ nsched' = [nsched EXCEPT ![c] = num] /\ spec' = [spec EXCEPT ![c] = 0]
      /\ UNCHANGED <<status, out, computed>>
  BY <1>1 DEF ScheduleRunning, EvenInv
<1>3. PICK extra \in Int :
        /\ extra = num + computed[c] - NumTokens(c)
        /\ sspec' = [sspec EXCEPT ![c] =
                       IF spec[c] > 0 /\ extra > 0 THEN MinOf(extra, spec[c]) ELSE 0]
  <2>1. num \in Int
    BY DEF CoreInv, Inv, TypeOK
  <2>2. num + computed[c] - NumTokens(c) - placeholders[c] = num + computed[c] - NumTokens(c)
        /\ num + computed[c] - NumTokens(c) \in Int
    BY <2>1, EvenNumbers
  <2> QED
    BY <1>1, <2>2 DEF ScheduleRunning
<1>4. /\ nsched \in [Reqs -> Int] /\ spec \in [Reqs -> Nat] /\ sspec \in [Reqs -> Int]
      /\ num \in Int
  BY DEF CoreInv, Inv, TypeOK
<1>5. ASSUME NEW r \in Reqs, status'[r] = "running", r # c PROVE Even(r)'
  <2>1. Even(r) /\ nsched'[r] = nsched[r] /\ spec'[r] = spec[r] /\ sspec'[r] = sspec[r]
    BY <1>2, <1>3, <1>4, <1>5 DEF EvenInv
  <2> QED
    BY <1>2, <2>1, EvenKept
<1>6. Even(c)'
  <2>1. Lags(c)
    BY <1>1, <1>2 DEF EvenInv, Even, Rests
  <2>2. nsched'[c] = num /\ NumTokens(c)' = NumTokens(c) /\ Lags(c)' /\ IsShare(c, nsched[c])'
    BY <1>2, <1>4, <2>1 DEF NumTokens, Lags, Asks, IsShare, Share
  <2>3. PICK n \in Int, k \in Nat, nt \in Nat, comp \in Int :
          /\ n = num /\ k = spec[c] /\ nt = NumTokens(c) /\ comp = computed[c]
          /\ 0 < n /\ n + comp <= nt + k
    BY <1>2, <1>4, EvenNumbers DEF Asks
  <2>4. comp < nt /\ extra = n + comp - nt /\ extra <= k
    BY <1>3, <2>1, <2>3 DEF Lags
  <2>5. sspec'[c] = IF k > 0 /\ extra > 0 THEN MinOf(extra, k) ELSE 0
    BY <1>3, <1>4, <2>3
  <2>6. IF n + comp > nt THEN n + comp = nt + sspec'[c] ELSE sspec'[c] = 0
    BY <2>3, <2>4, <2>5 DEF MinOf
  <2>7. Decodes(c)'
    BY <1>2, <2>2, <2>3, <2>6 DEF Decodes
  <2>8. nsched'[c] > 0
    BY <2>2, <2>3
  <2> QED
    BY <2>7, <2>8 DEF Even
<1> QED
  BY <1>2, <1>5, <1>6 DEF EvenInv

\* A victim loses what it has computed.
LEMMA PreemptEven ==
  ASSUME CoreInv, CoreInv', EvenShares, EvenInv, NEW v \in Reqs, Preempt(v)
  PROVE  EvenInv'
<1>1. /\ pc = "alloc" /\ v \in Elems(running) /\ status[v] = "running"
      /\ status' = [status EXCEPT ![v] = "preempted"]
      /\ computed' = [computed EXCEPT ![v] = 0] /\ UNCHANGED <<out, spec>>
      /\ pc' \in {"alloc", "commit"} /\ (pc' = "alloc" => num' = num /\ cur' = cur /\ cur # v)
      /\ \A r \in Reqs : r # v => nsched'[r] = nsched[r] /\ sspec'[r] = sspec[r]
  <2>1. v \in Elems(running) /\ status[v] = "running"
    BY DEF Preempt, IsVictim, CoreInv, QueueConsistency
  <2>2. /\ pc = "alloc" /\ status' = [status EXCEPT ![v] = "preempted"]
        /\ computed' = [computed EXCEPT ![v] = 0] /\ UNCHANGED <<out, spec>>
        /\ pc' \in {"alloc", "commit"} /\ (pc' = "alloc" => num' = num /\ cur' = cur /\ cur # v)
    BY DEF Preempt
  <2>3. nsched \in [Reqs -> Int] /\ sspec \in [Reqs -> Int]
    BY DEF CoreInv, Inv, TypeOK
  <2>4. \A r \in Reqs : r # v => nsched'[r] = nsched[r] /\ sspec'[r] = sspec[r]
    BY <2>3 DEF Preempt
  <2> QED
    BY <2>1, <2>2, <2>4
<1>2. ASSUME NEW r \in Reqs, r # v PROVE status'[r] = status[r] /\ computed'[r] = computed[r]
  BY <1>1, <1>2 DEF CoreInv, Inv, TypeOK
<1>3. ASSUME NEW r \in Reqs, r # v, status'[r] = "running" PROVE Even(r)'
  <2>1. Even(r) /\ computed'[r] = computed[r]
    BY <1>2, <1>3 DEF EvenInv
  <2> QED
    BY <1>1, <1>3, <2>1, EvenKept
<1>4. status'[v] = "preempted" /\ computed'[v] = 0
  BY <1>1 DEF CoreInv, Inv, TypeOK
<1>5. ASSUME pc' = "alloc" PROVE Asks(cur)'
  <2>1. PICK c \in Reqs : c = cur /\ Asks(c)
    BY <1>1 DEF CoreInv, Inv, PassState, EvenInv, PassInv, Picked
  <2>2. c # v /\ cur' = c /\ num' = num /\ computed'[c] = computed[c] /\ spec'[c] = spec[c]
    BY <1>1, <1>2, <1>5, <2>1
  <2>3. NumTokens(c)' = NumTokens(c)
    BY <1>1 DEF NumTokens
  <2> QED
    BY <2>1, <2>2, <2>3 DEF Asks, IsShare, Share, NumTokens
<1> QED
  BY <1>1, <1>2, <1>3, <1>4, <1>5 DEF EvenInv


\* The batch goes out, and the engine waits for its output at once.
LEMMA CommitEven ==
  ASSUME CoreInv, EvenShares, EvenInv, CommitSchedule
  PROVE  EvenInv'
<1>1. queue \in Seq(Batches) /\ NewBatch \in Batches /\ Len(queue) = 0 /\ TypeOK
  <2>1. queue \in Seq(Batches) /\ NewBatch \in Batches /\ TypeOK
    BY NewBatchType DEF CoreInv, Inv, TypeOK
  <2>2. PICK m \in Nat : m = Len(queue) /\ m < BatchQueueSize
    BY <2>1 DEF CommitSchedule, CoreInv, Inv, PassState
  <2> QED
    BY <2>1, <2>2 DEF EvenShares
<1>2. /\ Append(queue, NewBatch)[1] = NewBatch /\ Head(Append(queue, NewBatch)) = NewBatch
      /\ Len(Append(queue, NewBatch)) = 1
  BY <1>1
<1>3. /\ pc = "commit" /\ pc' = "output" /\ queue'[1] = NewBatch
      /\ todo' = {r \in Scheduled(NewBatch.n) : Live(r)}
      /\ UNCHANGED <<status, out>>
      /\ \A r \in Reqs : /\ computed'[r] = computed[r] + nsched[r] /\ nsched'[r] = 0
                         /\ spec'[r] = spec[r]
  <2>1. /\ pc = "commit" /\ UNCHANGED <<status, out>> /\ queue' = Append(queue, NewBatch)
        /\ \A r \in Reqs : /\ computed'[r] = computed[r] + nsched[r] /\ nsched'[r] = 0
                           /\ spec'[r] = spec[r]
    BY DEF CommitSchedule, EvenShares, Zero
  <2>2. ~QueueHasRoom(Append(queue, NewBatch))
    BY <1>2 DEF QueueHasRoom, EvenShares
  <2>3. StartOutput(Append(queue, NewBatch))
    BY <2>2 DEF CommitSchedule
  <2>4. queue'[1] = NewBatch
    BY <1>2, <2>1
  <2> QED
    BY <1>2, <2>1, <2>3, <2>4 DEF StartOutput
<1>4. NewBatch.n = nsched /\ NewBatch.s = sspec /\ NewBatch.emit = Emitting
  BY DEF NewBatch
<1>5. ASSUME NEW r \in Reqs, status'[r] # "running" PROVE computed'[r] = 0
  <2>1. status[r] # "running" /\ computed[r] = 0
    BY <1>3, <1>5 DEF EvenInv
  <2>2. r \notin Elems(running)
    BY <2>1 DEF CoreInv, QueueConsistency
  <2>3. ~(nsched[r] > 0)
    BY <1>3, <2>2 DEF CoreInv, PassInv, BudgetRespected, Scheduling, Scheduled
  <2> QED
    BY <1>3, <2>1, <2>3, EvenNumbers
<1>6. ASSUME NEW r \in Reqs, status'[r] = "running" PROVE Even(r)'
  <2>1. status[r] = "running" /\ Live(r) /\ Even(r) /\ NumTokens(r)' = NumTokens(r)
    BY <1>3, <1>6 DEF EvenInv, NumTokens
  <2>2. PICK nt \in Nat, comp \in Int, n \in Nat, s \in Nat :
          /\ nt = NumTokens(r) /\ comp = computed[r] /\ n = nsched[r] /\ s = sspec[r]
          /\ placeholders[r] = 0 /\ 0 < nt
    BY EvenNumbers
  <2>3. computed'[r] = comp + n /\ ~(nsched'[r] > 0) /\ spec'[r] = spec[r] /\ NumTokens(r)' = nt
    BY <1>3, <2>1, <2>2
  <2>4. CASE n = 0
    <3>1. Rests(r) /\ Lags(r) /\ HasDrafts(r)
      BY <1>3, <2>1, <2>2, <2>4 DEF Even, Rests
    <3>2. Lags(r)'
      BY <2>2, <2>3, <2>4, <3>1 DEF Lags
    <3>3. r \notin todo'
      <4>1. ~(NewBatch.n[r] > 0)
        BY <1>4, <2>2, <2>4
      <4> QED
        BY <1>3, <4>1 DEF Scheduled
    <3>4. Rests(r)'
      BY <2>3, <3>1, <3>2 DEF Rests, HasDrafts
    <3> QED
      BY <2>3, <3>3, <3>4 DEF Even
  <2>5. CASE n > 0
    <3>1. r \in todo' /\ pc' = "output"
      BY <1>3, <1>4, <2>1, <2>2, <2>5 DEF Scheduled
    <3>2. r \in Emitting <=> comp + n = nt + s
      BY <2>2, <2>5 DEF Emitting, Scheduled
    <3>3. /\ 0 < comp + n
          /\ comp + n # nt + s => comp + n < nt /\ LongPrefillThreshold # 0
      <4>1. CASE Starts(r)
        BY <2>2, <2>5, <4>1 DEF Starts
      <4>2. CASE Decodes(r)
        <5>1. /\ 0 < comp /\ comp < nt /\ (LongPrefillThreshold = 0 => comp = nt - 1)
              /\ IF n + comp > nt THEN n + comp = nt + s ELSE s = 0
          BY <2>2, <4>2 DEF Decodes, Lags
        <5> QED
          BY <2>2, <2>5, <5>1
      <4> QED
        BY <2>1, <2>2, <2>5, <4>1, <4>2 DEF Even
    <3>4. queue'[1].n[r] = n /\ queue'[1].s[r] = s /\ (r \in queue'[1].emit <=> r \in Emitting)
      BY <1>3, <1>4, <2>2
    <3>5. Awaits(r)'
      BY <2>2, <2>3, <2>5, <3>2, <3>3, <3>4 DEF Awaits
    <3> QED
      BY <2>3, <3>1, <3>5 DEF Even
  <2> QED
    BY <2>2, <2>4, <2>5
<1> QED
  BY <1>3, <1>5, <1>6 DEF EvenInv


\* An output takes a request back to its last token, whatever it accepts of
\* the drafts.
LEMMA OutputEven ==
  ASSUME CoreInv, EvenShares, EvenInv, OutputStep
  PROVE  EvenInv'
<1>1. /\ Inv /\ TypeOK /\ FlightInv /\ pc = "output" /\ pc' = "output" /\ nsched = Zero
      /\ UNCHANGED <<nsched, sspec>> /\ todo # {} /\ todo \subseteq Reqs
      /\ \E q \in todo : q = CHOOSE r \in todo : TRUE
  BY DEF OutputStep, CoreInv, Inv, PassState, TypeOK, localVars
<1>2. 1 \in DOMAIN queue /\ Head(queue) = queue[1] /\ queue[1] \in Batches
  <2>1. queue \in Seq(Batches) /\ queue # <<>>
    BY <1>1 DEF Inv, TypeOK, BatchQueueBounded
  <2> QED
    BY <2>1
<1>3. PICK q \in todo : q = CHOOSE r \in todo : TRUE
  BY <1>1
<1>4. /\ todo' = todo \ {q}
      /\ \/ \E accepted \in 0 .. NumSpecTokens, kept \in 1 .. NumSpecTokens + 1,
              stopped \in BOOLEAN : UpdateFromOutput(q, accepted, kept, stopped)
         \/ q \notin queue[1].emit /\ UNCHANGED <<reqVars, blockVars, queueVars, queue>>
  BY <1>2, <1>3 DEF OutputStep
<1>5. /\ q \in Reqs /\ \A r \in Reqs : nsched[r] = 0 /\ nsched'[r] = 0
  BY <1>1 DEF Zero
<1>6. /\ queue'[1] = queue[1]
      /\ \A r \in Reqs : r # q => /\ out'[r] = out[r] /\ computed'[r] = computed[r]
                                  /\ spec'[r] = spec[r] /\ status'[r] = status[r]
  <2>1. CASE q \notin queue[1].emit /\ UNCHANGED <<reqVars, blockVars, queueVars, queue>>
    BY <2>1 DEF reqVars
  <2>2. ASSUME NEW accepted \in 0 .. NumSpecTokens, NEW kept \in 1 .. NumSpecTokens + 1,
               NEW stopped \in BOOLEAN, UpdateFromOutput(q, accepted, kept, stopped)
        PROVE  /\ queue'[1] = queue[1]
               /\ \A r \in Reqs : r # q => /\ out'[r] = out[r] /\ computed'[r] = computed[r]
                                           /\ spec'[r] = spec[r] /\ status'[r] = status[r]
    <3>1. queue'[1] = queue[1]
      BY <1>2, <2>2 DEF UpdateFromOutput
    <3>2. CASE Finish(q)
      BY <1>1, <3>1, <3>2 DEF Finish, TypeOK
    <3>3. CASE ~Finish(q)
      BY <1>1, <2>2, <3>1, <3>3 DEF UpdateFromOutput, TypeOK
    <3> QED
      BY <3>2, <3>3
  <2> QED
    BY <1>4, <2>1, <2>2
<1>7. ASSUME NEW r \in Reqs, r # q
      PROVE  IF status'[r] = "running" THEN Even(r)' ELSE computed'[r] = 0
  <2>1. status'[r] = status[r] /\ computed'[r] = computed[r]
    BY <1>6, <1>7
  <2>2. CASE status[r] # "running"
    BY <2>1, <2>2 DEF EvenInv
  <2>3. CASE status[r] = "running"
    <3>1. Even(r) /\ NumTokens(r)' = NumTokens(r) /\ (r \in todo' <=> r \in todo)
      BY <1>4, <1>6, <1>7, <2>3 DEF EvenInv, NumTokens
    <3>2. Awaits(r) => Awaits(r)'
      BY <1>6, <2>1, <3>1 DEF Awaits
    <3>3. Rests(r) => Rests(r)'
      BY <1>1, <1>6, <1>7, <2>1, <3>1 DEF Rests, HasDrafts, Lags
    <3>4. IF r \in todo' THEN Awaits(r)' ELSE Rests(r)'
      BY <1>1, <1>5, <3>1, <3>2, <3>3 DEF Even
    <3>5. Even(r)'
      BY <1>1, <1>5, <3>4 DEF Even
    <3> QED
      BY <2>1, <2>3, <3>5
  <2> QED
    BY <2>2, <2>3
<1>8. IF status'[q] = "running" THEN Lags(q)' /\ 0 < queue[1].n[q] ELSE computed'[q] = 0
  <2>1. IF status[q] = "running" THEN Awaits(q) ELSE computed[q] = 0
    BY <1>1, <1>3, <1>5 DEF EvenInv, Even
  <2>2. CASE q \notin queue[1].emit /\ UNCHANGED <<reqVars, blockVars, queueVars, queue>>
    <3>1. status' = status /\ computed' = computed /\ NumTokens(q)' = NumTokens(q)
      BY <2>2 DEF reqVars, NumTokens
    <3> QED
      BY <2>1, <2>2, <3>1 DEF Awaits, Lags
  <2>3. ASSUME NEW accepted \in 0 .. NumSpecTokens, NEW kept \in 1 .. NumSpecTokens + 1,
               NEW stopped \in BOOLEAN, UpdateFromOutput(q, accepted, kept, stopped)
        PROVE  IF status'[q] = "running" THEN Lags(q)' /\ 0 < queue[1].n[q] ELSE computed'[q] = 0
    <3>1. CASE Finish(q)
      <4>1. status'[q] = "finished" /\ computed'[q] = 0
        BY <1>1, <1>5, <3>1 DEF Finish, TypeOK
      <4> QED
        BY <4>1
    <3>2. CASE ~Finish(q)
      <4>1. accepted \in Nat /\ kept \in Nat
        BY CoreAssumption
      <4>2. kept = accepted + 1 /\ out' = [out EXCEPT ![q] = out[q] + kept] /\ status' = status
        BY <1>1, <1>5, <2>3, <3>2, <4>1, GoesOn
      <4>3. q \in queue[1].emit /\ accepted <= queue[1].s[q] /\ queue[1].s[q] \in Int
        BY <1>2, <1>5, <2>3, <4>1 DEF UpdateFromOutput, Batches
      <4>4. computed'[q] = IF computed[q] > 0 THEN computed[q] - (queue[1].s[q] - accepted)
                                              ELSE computed[q]
        <5>1. computed' = [computed EXCEPT ![q] =
                 IF @ > 0 THEN @ - Rejected(Head(queue), q, accepted) ELSE @]
          BY <2>3, <3>2 DEF UpdateFromOutput
        <5>2. Rejected(Head(queue), q, accepted) = queue[1].s[q] - accepted
          BY <1>2 DEF Rejected
        <5>3. computed \in [Reqs -> Int]
          BY <1>1 DEF TypeOK
        <5> QED
          BY <1>5, <5>1, <5>2, <5>3
      <4>5. NumTokens(q)' = NumTokens(q) + accepted + 1 /\ NumTokens(q) \in Nat
        <5>1. out'[q] = out[q] + kept /\ out[q] \in Nat /\ Prompt[q] \in Nat
          BY <1>1, <1>5, <4>2, CoreAssumption DEF TypeOK
        <5> QED
          BY <4>1, <4>2, <5>1 DEF NumTokens
      <4>6. CASE status[q] # "running"
        BY <2>1, <4>2, <4>4, <4>6
      <4>7. CASE status[q] = "running"
        <5>1. /\ 0 < computed[q] /\ 0 < queue[1].n[q]
              /\ computed[q] = NumTokens(q) + queue[1].s[q]
          BY <2>1, <4>3, <4>7 DEF Awaits
        <5>2. computed'[q] = NumTokens(q) + accepted /\ 0 < NumTokens(q)
          BY <1>5, <4>1, <4>3, <4>4, <4>5, <5>1, EvenNumbers
        <5>3. Lags(q)'
          BY <4>1, <4>5, <5>2 DEF Lags
        <5> QED
          BY <4>2, <4>7, <5>1, <5>3
      <4> QED
        BY <4>6, <4>7
    <3> QED
      BY <3>1, <3>2
  <2> QED
    BY <1>4, <2>2, <2>3
<1>9. status'[q] = "running" => Even(q)'
  <2> SUFFICES ASSUME status'[q] = "running" PROVE Even(q)'
    OBVIOUS
  <2>1. Rests(q)'
    BY <1>1, <1>6, <1>8 DEF Rests
  <2> QED
    BY <1>4, <1>5, <2>1 DEF Even
<1> QED
  BY <1>1, <1>7, <1>8, <1>9 DEF EvenInv


\* The drafts of the requests of the batch come back with its output.
LEMMA FinishEven ==
  ASSUME CoreInv, EvenShares, EvenInv, FinishOutput
  PROVE  EvenInv'
<1>1. /\ Inv /\ pc = "output" /\ pc' = "idle" /\ todo = {} /\ nsched = Zero
      /\ UNCHANGED <<status, out, computed, nsched>> /\ queue # <<>>
  BY DEF FinishOutput, CoreInv, Inv, PassState, BatchQueueBounded, localVars
<1>2. Head(queue) = queue[1]
  <2>1. queue \in Seq(Batches)
    BY <1>1 DEF Inv, TypeOK
  <2> QED
    BY <1>1, <2>1
<1>3. ASSUME NEW r \in Reqs, status'[r] = "running" PROVE Even(r)'
  <2>1. Even(r) /\ nsched[r] = 0 /\ nsched'[r] = 0 /\ status[r] = "running"
    BY <1>1, <1>3 DEF EvenInv, Zero
  <2>2. Rests(r)
    BY <1>1, <2>1 DEF Even
  <2>3. Lags(r)'
    BY <1>1, <2>2 DEF Rests, Lags, NumTokens
  <2>4. HasDrafts(r)'
    <3>1. Live(r) /\ ~AsyncScheduling /\ NumSpecTokens \in Nat
      BY <2>1, CoreAssumption DEF EvenShares, Live
    <3>2. Head(queue).n[r] > 0 <=> 0 < queue[1].n[r]
      BY <1>2
    <3>3. IF 0 < queue[1].n[r]
            THEN IF r \in Structured THEN spec'[r] \in 0 .. NumSpecTokens
                                     ELSE spec'[r] = NumSpecTokens
            ELSE spec'[r] = spec[r]
      BY <3>1, <3>2 DEF FinishOutput, HandOverDrafts
    <3>4. CASE 0 < queue[1].n[r]
      BY <3>1, <3>3, <3>4 DEF HasDrafts
    <3>5. CASE ~(0 < queue[1].n[r])
      BY <2>2, <3>3, <3>5 DEF Rests, HasDrafts
    <3> QED
      BY <3>4, <3>5
  <2> QED
    BY <1>1, <2>1, <2>3, <2>4 DEF Even, Rests
<1> QED
  BY <1>1, <1>3 DEF EvenInv

\* What clients and the grammar backend do between two passes, or nothing.
LEMMA ClientEven ==
  ASSUME CoreInv, EvenShares, EvenInv,
         ClientStep \/ (\E r \in Reqs : GrammarReady(r)) \/ UNCHANGED vars
  PROVE  EvenInv'
<1>1. TypeOK
  BY DEF CoreInv, Inv
<1>2. CASE ClientStep
  <2>1. PICK q \in Reqs : AddRequest(q) \/ Abort(q)
    BY <1>2 DEF ClientStep
  <2>2. /\ pc = "idle" /\ pc' = "idle" /\ UNCHANGED <<nsched, sspec>>
        /\ status'[q] # "running" /\ computed'[q] \in {0, computed[q]}
        /\ (AddRequest(q) => status[q] # "running") /\ (Abort(q) => computed'[q] = 0)
    BY <1>1, <2>1 DEF AddRequest, Abort, Finish, TypeOK, localVars
  <2>3. \A o \in Reqs : o # q => /\ out'[o] = out[o] /\ computed'[o] = computed[o]
                                 /\ spec'[o] = spec[o] /\ status'[o] = status[o]
    BY <1>1, <2>1 DEF AddRequest, Abort, Finish, TypeOK
  <2>4. computed'[q] = 0
    BY <2>1, <2>2 DEF EvenInv
  <2>5. ASSUME NEW r \in Reqs, r # q
        PROVE  IF status'[r] = "running" THEN Even(r)' ELSE computed'[r] = 0
    <3>1. status[r] = "running" => Even(r)'
      BY <2>2, <2>3, <2>5, EvenKept DEF EvenInv
    <3> QED
      BY <2>3, <2>5, <3>1 DEF EvenInv
  <2> QED
    BY <2>2, <2>4, <2>5 DEF EvenInv
<1>3. CASE (\E r \in Reqs : GrammarReady(r)) \/ UNCHANGED vars
  <2>1. UNCHANGED <<status, out, computed, spec, nsched, sspec, pc, todo, queue, cur, num>>
    BY <1>3 DEF GrammarReady, vars, reqVars, localVars
  <2>2. \A r \in Reqs : Even(r) => Even(r)'
    BY <2>1 DEF Even, Starts, Decodes, Awaits, Rests, Lags, IsShare, HasDrafts, NumTokens, Share
  <2>3. Asks(cur) => Asks(cur)'
    BY <2>1 DEF Asks, IsShare, NumTokens, Share
  <2> QED
    BY <2>1, <2>2, <2>3 DEF EvenInv
<1> QED
  BY <1>2, <1>3

\* Every step.
LEMMA StepEven ==
  ASSUME UnchunkInv, EvenShares, EvenInv, [Next]_vars
  PROVE  EvenInv'
<1>1. CoreInv /\ WaitingFirst /\ CoreInv'
  BY UnchunkStep DEF UnchunkInv
<1>2. CASE ScheduleStep
  BY <1>1, <1>2, BeginEven, WaitingEven, AdmitEven, PickEven, ShareEven, PreemptEven
     DEF ScheduleStep
<1>3. CASE EngineStep
  <2>1. ~Drain
    <3> SUFFICES ASSUME Drain PROVE FALSE
      OBVIOUS
    <3>1. queue \in Seq(Batches) /\ queue # <<>>
      BY <1>1 DEF Drain, CoreInv, Inv, TypeOK
    <3>2. PICK m \in Nat : m = Len(queue) /\ m # 0
      BY <3>1
    <3>3. m < 1
      BY <1>1, <3>2 DEF Drain, CoreInv, Inv, PassState, EvenShares
    <3> QED
      BY <3>2, <3>3
  <2> QED
    BY <1>1, <1>3, <2>1, CommitEven, OutputEven, FinishEven DEF EngineStep
<1>4. CASE ClientStep \/ (\E r \in Reqs : GrammarReady(r)) \/ UNCHANGED vars
  BY <1>1, <1>4, ClientEven
<1> QED
  BY <1>2, <1>3, <1>4 DEF Next

\* "modify to ensure same token counts per batch during MTP", the comment in the
\* running loop of schedule(): with one batch at a time, a threshold no larger than
\* a decode step and a share of the budget for every request, the requests of
\* a decode batch whose drafts no grammar cuts all have the same number of
\* tokens, and the others no more, whatever the grammars refuse, preemptions,
\* resumptions and rejected drafts included.
THEOREM SameTokenCountsHolds == EvenShares => (Spec => []SameTokenCounts)
<1> SUFFICES ASSUME EvenShares PROVE Spec => []SameTokenCounts
  OBVIOUS
<1>1. Init => EvenInv
  BY DEF Init, EvenInv, Zero
<1>2. UnchunkInv /\ EvenInv /\ [Next]_vars => EvenInv'
  BY StepEven
<1>3. UnchunkInv /\ EvenInv => SameTokenCounts
  <2>1. ASSUME UnchunkInv, EvenInv, pc = "commit", NEW r \in Scheduled(nsched), computed[r] > 0
        PROVE  IsShare(r, nsched[r])
    <3>1. r \in Reqs /\ nsched[r] > 0
      BY DEF Scheduled
    <3>2. status[r] = "running"
      BY <2>1, <3>1 DEF UnchunkInv, CoreInv, PassInv, BudgetRespected, Scheduling, QueueConsistency
    <3> QED
      BY <2>1, <3>1, <3>2 DEF EvenInv, Even, Starts, Decodes
  <2>2. SUFFICES ASSUME UnchunkInv, EvenInv, pc = "commit", NEW r \in Scheduled(nsched),
                        NEW o \in Scheduled(nsched), computed[r] > 0, computed[o] > 0,
                        r \notin Structured
                 PROVE  nsched[o] <= nsched[r]
    BY DEF SameTokenCounts
  <2> QED
    BY <2>1, <2>2 DEF IsShare
<1> QED
  BY <1>1, <1>2, <1>3, InvHolds, PTL DEF Spec
=============================================================================
