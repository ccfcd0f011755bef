----------------------------- MODULE SchedulerCore -----------------------------
(***************************************************************************)
(* What the schedulers of vllm-mlu and the engine core that drives them    *)
(* share: the state of the requests, KV block accounting, the queue of     *)
(* batches in flight, update_from_output and the client calls.  A module   *)
(* that extends this one adds the loops of one schedule() method.          *)
(*                                                                         *)
(* Tokens are counted, not named: only lengths decide what is scheduled.   *)
(* A block is one unit of a counted pool; prefix caching, encoder inputs   *)
(* and KV connectors are left out.                                         *)
(***************************************************************************)
EXTENDS Integers, Sequences, FiniteSets, Functions, RequestQueue

CONSTANTS
  Reqs,                  \* request ids
  Prompt,                \* num_prompt_tokens of each request
  MaxTokens,             \* max_tokens of each request
  Rank,                  \* (priority, arrival_time) of each request
  Structured,            \* requests with use_structured_output
  Lora,                  \* lora_int_id of each request, 0 without adapter
  MaxLoras,              \* lora_config.max_loras, 0 without lora_config
  MaxSubmissions,        \* bound: how often a client may submit one id
  NumBlocks, BlockSize,  \* the KV block pool
  MaxNumScheduledTokens, MaxNumRunningReqs, MaxModelLen,
  NumSpecTokens,         \* num_speculative_tokens, 0 without speculation
  LongPrefillThreshold,  \* long_prefill_token_threshold, 0 when off
  FixedWindow,           \* fixed_window_tokens of allocate_slots
  PriorityPolicy,        \* SchedulingPolicy.PRIORITY instead of FCFS
  AsyncScheduling,       \* the async subclass of the scheduler
  Chunked,               \* SchedulerWithProfiler, not MLUUnchunkScheduler
  NoReq,                 \* no request
  EarlyDone,             \* a batch may be done when the engine looks at once
  BatchQueueSize         \* 1: EngineCore.step, else step_with_batch_queue

\* An engine that starts satisfies these: a prompt shorter than the model
\* length, room for one request of full length, async scheduling two batches
\* deep and speculation either async or with one batch at a time.
ASSUME CoreAssumption ==
  /\ IsFiniteSet(Reqs)
  /\ Prompt \in [Reqs -> Nat \ {0}] /\ \A r \in Reqs : Prompt[r] < MaxModelLen
  /\ MaxTokens \in [Reqs -> Nat \ {0}]
  /\ Rank \in [Reqs -> Nat] /\ Structured \subseteq Reqs
  /\ {MaxSubmissions, NumBlocks, BlockSize, MaxNumRunningReqs, MaxModelLen,
      BatchQueueSize} \subseteq Nat \ {0}
  /\ MaxNumScheduledTokens \in Nat \ {0}
  /\ Lora \in [Reqs -> Nat]
  /\ {NumSpecTokens, LongPrefillThreshold, FixedWindow, MaxLoras} \subseteq Nat
  /\ NumBlocks * BlockSize >= MaxModelLen
  /\ {PriorityPolicy, AsyncScheduling, Chunked, EarlyDone} \subseteq BOOLEAN
  /\ AsyncScheduling => BatchQueueSize = 2
  /\ NumSpecTokens > 0 => AsyncScheduling \/ BatchQueueSize = 1
  /\ NoReq \notin Reqs

VARIABLES
  \* Request objects.
  status, out, computed, placeholders, spec, submissions,
  ready,     \* structured requests whose grammar is compiled
  held,      \* number of KV blocks of each request
  free,      \* number of blocks in the pool's free queue
  \* The scheduler's queues.
  waiting, running, finished,
  \* Locals of the schedule() or update_from_output being executed.
  pc, skipped, budget, idx, cur, num, nsched, sspec, todo,
  \* The engine's batch queue, oldest batch first.
  queue

reqVars == <<status, out, computed, placeholders, spec, submissions, ready>>
blockVars == <<held, free>>
queueVars == <<waiting, running, finished>>
localVars == <<skipped, budget, idx, cur, num, nsched, sspec>>
vars == <<reqVars, blockVars, queueVars, localVars, pc, todo, queue>>

Statuses == {"none", "waiting", "waiting_fsm", "preempted", "running", "finished"}
Steps == {"idle", "waiting", "running", "alloc", "commit", "output"}

MinOf(a, b) == IF a <= b THEN a ELSE b
Zero == [r \in Reqs |-> 0]
Live(r) == status[r] \in {"waiting", "waiting_fsm", "preempted", "running"}
NumTokens(r) == Prompt[r] + out[r]
\* Mutant: the model length is not a limit.
MaxTotalTokensOwn(r) == Prompt[r] + MaxTokens[r]

MaxTotalTokens(r) == MinOf(Prompt[r] + MaxTokens[r], MaxModelLen)
HasRequests == finished # {} \/ \E r \in Reqs : Live(r)
Scheduled(n) == {r \in Reqs : n[r] > 0}

\* One batch in flight: per request the tokens and the draft tokens of it,
\* the output length its grammar bitmask was computed for, and which
\* submission of the id it belongs to.  Two fields are history: "base", the
\* tokens the scheduler took the request to have, those in flight included,
\* when it scheduled the batch, and "lost", how many of these were drafts that
\* outputs consumed since have rejected.
Batches == [n : [Reqs -> Int], s : [Reqs -> Int], emit : SUBSET Reqs,
            base : [Reqs -> Int], lost : [Reqs -> Int],
            mask : [Reqs -> Nat], sub : [Reqs -> Nat]]

Init ==
  /\ status = [r \in Reqs |-> "none"]
  /\ out = Zero /\ computed = Zero /\ placeholders = Zero /\ spec = Zero
  /\ submissions = Zero /\ ready = {}
  /\ held = Zero /\ free = NumBlocks
  /\ waiting = <<>> /\ running = <<>> /\ finished = {}
  /\ pc = "idle" /\ skipped = <<>> /\ budget = 0 /\ idx = 1
  /\ cur = NoReq /\ num = 0 /\ nsched = Zero /\ sspec = Zero
  /\ todo = {} /\ queue = <<>>

-----------------------------------------------------------------------------
(* KVCacheManager.allocate_slots and free.                                  *)

\* Mutant: rounded down: no block for a last, partial one.
BlocksForFloor(r, n, lookahead) ==
  MinOf(computed[r] + n + lookahead + FixedWindow, MaxModelLen) \div BlockSize

\* Blocks a request must own to have slots for its computed tokens, n new
\* ones, the draft tokens and the fixed window, up to the model length.
BlocksFor(r, n, lookahead) ==
  (MinOf(computed[r] + n + lookahead + FixedWindow, MaxModelLen)
     + BlockSize - 1) \div BlockSize

\* What allocate_slots takes from the free queue (nothing is given back).
NewBlocks(r, n, lookahead) ==
  IF BlocksFor(r, n, lookahead) > held[r]
  THEN BlocksFor(r, n, lookahead) - held[r] ELSE 0

\* Mutant: the pool is not asked.
FitsAlways(r, n, lookahead) == TRUE

\* Mutant: the last free block is never given out.
FitsStrictly(r, n, lookahead) == NewBlocks(r, n, lookahead) < free

Fits(r, n, lookahead) == NewBlocks(r, n, lookahead) <= free

\* Mutant: the request's block list is replaced by the new blocks.
AllocateSlotsReplacing(r, n, lookahead) ==
  /\ held' = [held EXCEPT ![r] = NewBlocks(r, n, lookahead)]
  /\ free' = free - NewBlocks(r, n, lookahead)

AllocateSlots(r, n, lookahead) ==
  /\ held' = [held EXCEPT ![r] = @ + NewBlocks(r, n, lookahead)]
  /\ free' = free - NewBlocks(r, n, lookahead)

FreeBlocks(r) ==
  /\ held' = [held EXCEPT ![r] = 0]
  /\ free' = free + held[r]

-----------------------------------------------------------------------------
(* Requests come, are aborted and stop.                                     *)

\* EngineCore.add_request, between two engine steps.
AddRequest(r) ==
  /\ pc = "idle" /\ ~Live(r) /\ submissions[r] < MaxSubmissions
  /\ status' = [status EXCEPT ![r] =
                  IF r \in Structured THEN "waiting_fsm" ELSE "waiting"]
  /\ submissions' = [submissions EXCEPT ![r] = @ + 1]
  /\ ready' = ready \ {r}
  /\ waiting' = Append(waiting, r)
  /\ UNCHANGED <<out, computed, placeholders, spec, blockVars, running,
                 finished, localVars, pc, todo, queue>>

\* The grammar backend has compiled the grammar, at any moment.
GrammarReady(r) ==
  /\ status[r] = "waiting_fsm" /\ r \notin ready
  /\ ready' = ready \cup {r}
  /\ UNCHANGED <<status, out, computed, placeholders, spec, submissions,
                 blockVars, queueVars, localVars, pc, todo, queue>>

\* _free_request and the removal from both queues: the request object is
\* gone, its id is reported with the next SchedulerOutput.
Finish(r) ==
  /\ status' = [status EXCEPT ![r] = "finished"]
  /\ out' = [out EXCEPT ![r] = 0] /\ computed' = [computed EXCEPT ![r] = 0]
  /\ placeholders' = [placeholders EXCEPT ![r] = 0]
  /\ spec' = [spec EXCEPT ![r] = 0]
  /\ FreeBlocks(r)
  /\ waiting' = Without(waiting, r) /\ running' = Without(running, r)
  /\ finished' = finished \cup {r}
  /\ UNCHANGED <<submissions, ready>>

\* finish_requests for a client's abort; batches in flight stay in flight.
Abort(r) ==
  /\ pc = "idle" /\ Live(r) /\ Finish(r)
  /\ UNCHANGED <<localVars, pc, todo, queue>>

-----------------------------------------------------------------------------
(* What the loops of the schedule() methods have in common.                 *)

WaitingLoopGoesOn ==
  waiting # <<>> /\ budget > 0 /\ Len(running) # MaxNumRunningReqs

PrefillTokens(r) ==
  IF 0 < LongPrefillThreshold /\ LongPrefillThreshold < NumTokens(r) - computed[r]
  THEN LongPrefillThreshold ELSE NumTokens(r) - computed[r]

\* A request whose grammar is compiled counts as WAITING (the code writes
\* the new status at this point, and acts on it nowhere else).
FsmPending(r) == status[r] = "waiting_fsm" /\ r \notin ready
Peeked(r) == GoesNext(waiting, r, PriorityPolicy, Rank)

\* The adapters of the requests scheduled so far in this pass.
ScheduledLoras == {Lora[r] : r \in Scheduled(nsched)} \ {0}

LoraFull(r) ==
  /\ MaxLoras > 0 /\ Lora[r] # 0
  /\ Cardinality(ScheduledLoras) = MaxLoras /\ Lora[r] \notin ScheduledLoras

\* The waiting loop sets the request aside and goes on with the next one.
Skippable(r) == FsmPending(r) \/ LoraFull(r)

SetAside(r) ==
  /\ waiting' = Without(waiting, r)
  /\ skipped' = Prepend(skipped, r)
  /\ UNCHANGED <<reqVars, blockVars, running, finished, pc, budget, idx, cur,
                 num, nsched, sspec, todo, queue>>

\* A waiting request starts, or starts again, with n tokens.
Admit(r, n) ==
  /\ waiting' = Without(waiting, r)
  /\ running' = Append(running, r)
  /\ status' = [status EXCEPT ![r] = "running"]
  /\ AllocateSlots(r, n, 0)
  /\ nsched' = [nsched EXCEPT ![r] = n]
  /\ budget' = budget - n
  /\ UNCHANGED <<out, computed, placeholders, spec, submissions, ready,
                 finished, pc, skipped, idx, cur, num, sspec, todo, queue>>

\* prepend_requests of the skipped ones, in an order the base class decides.
PutBackSkipped ==
  /\ waiting' \in {skipped \o waiting, Backwards(skipped) \o waiting}
  /\ skipped' = <<>>

RunningLoopGoesOn == idx <= Len(running) /\ budget > 0

\* allocate_slots succeeds for the picked request, which is scheduled with
\* as many of its draft tokens as fit into num.
ScheduleRunning ==
  /\ pc = "alloc" /\ Fits(cur, num, NumSpecTokens)
  /\ AllocateSlots(cur, num, NumSpecTokens)
  /\ nsched' = [nsched EXCEPT ![cur] = num]
  /\ budget' = budget - num /\ idx' = idx + 1
  /\ LET extra == num + computed[cur] - NumTokens(cur) - placeholders[cur] IN
       sspec' = [sspec EXCEPT ![cur] =
                   IF spec[cur] > 0 /\ extra > 0 THEN MinOf(extra, spec[cur])
                                                 ELSE 0]
  /\ spec' = [spec EXCEPT ![cur] = 0]
  /\ pc' = "running" /\ cur' = NoReq /\ num' = 0
  /\ UNCHANGED <<status, out, computed, placeholders, submissions, ready,
                 queueVars, skipped, todo, queue>>

\* Mutant: what the victim was given in this pass is forgotten.
NoRefund(v) == FALSE

\* The victim was scheduled earlier in this pass (only PRIORITY looks).
Refund(v) == PriorityPolicy /\ nsched[v] > 0

\* No blocks: the victim loses its own and waits in front.  PRIORITY may
\* take one scheduled earlier in this pass and refunds its budget.  The loop
\* ends when the victim is the picked request itself.
Preempt(v) ==
  /\ pc = "alloc" /\ ~Fits(cur, num, NumSpecTokens)
  /\ IsVictim(running, v, PriorityPolicy, Rank)
  /\ running' = Without(running, v)
  /\ waiting' = Prepend(waiting, v)
  /\ FreeBlocks(v)
  /\ status' = [status EXCEPT ![v] = "preempted"]
  /\ computed' = [computed EXCEPT ![v] = 0]
  /\ budget' = IF Refund(v) THEN budget + nsched[v] ELSE budget
  /\ idx' = IF Refund(v) THEN idx - 1 ELSE idx
  /\ nsched' = IF Refund(v) THEN [nsched EXCEPT ![v] = 0] ELSE nsched
  /\ sspec' = IF Refund(v) THEN [sspec EXCEPT ![v] = 0] ELSE sspec
  /\ IF v = cur THEN pc' = "commit" /\ cur' = NoReq /\ num' = 0
                ELSE UNCHANGED <<pc, cur, num>>
  /\ UNCHANGED <<out, placeholders, spec, submissions, ready, finished,
                 skipped, todo, queue>>

-----------------------------------------------------------------------------
(* The end of schedule(), and the engine step around it.                    *)

\* Mutant: one batch more than the queue is made for.
QueueHasRoomForOneMore(q) == Len(q) <= BatchQueueSize

QueueHasRoom(q) == Len(q) < BatchQueueSize

\* The requests of the new batch that sample: all their tokens are computed.
Emitting ==
  {r \in Scheduled(nsched) :
     computed[r] + nsched[r] = NumTokens(r) + placeholders[r] + sspec[r]}

NewBatch ==
  [n |-> nsched, s |-> sspec, emit |-> Emitting,
   base |-> [r \in Reqs |-> IF r \in Emitting
                            THEN NumTokens(r) + placeholders[r] ELSE 0],
   lost |-> Zero,
   mask |-> [r \in Reqs |-> IF r \in Emitting THEN out[r] ELSE 0],
   sub |-> [r \in Reqs |-> IF nsched[r] > 0 THEN submissions[r] ELSE 0]]

\* The batch whose output update_from_output is about to consume.
StartOutput(q) ==
  /\ pc' = "output"
  /\ todo' = {r \in Scheduled(Head(q).n) : Live(r)}

\* _update_after_schedule, and the batch enters the queue.
EnterQueue ==
  /\ pc = "commit"
  /\ computed' = [r \in Reqs |-> computed[r] + nsched[r]]
  /\ placeholders' = [r \in Reqs |->
       IF AsyncScheduling /\ r \in Emitting
       THEN placeholders[r] + 1 + sspec[r] ELSE placeholders[r]]
  /\ spec' = [r \in Reqs |-> IF AsyncScheduling /\ r \in Emitting
                             THEN NumSpecTokens ELSE spec[r]]
  /\ finished' = {}
  /\ queue' = Append(queue, NewBatch)
  /\ nsched' = Zero /\ sspec' = Zero /\ budget' = 0 /\ idx' = 1
  /\ UNCHANGED <<status, out, submissions, ready, blockVars, waiting,
                 running, skipped, cur, num>>

\* The engine returns at once only if the batch has work, the queue has room
\* and the oldest batch is not done; otherwise it waits for the oldest batch.
CommitSchedule ==
  /\ EnterQueue
  /\ LET mayReturn == /\ Scheduled(nsched) # {}
                     /\ QueueHasRoom(Append(queue, NewBatch))
     IN  \/ mayReturn /\ pc' = "idle" /\ todo' = {}
         \/ (mayReturn => EarlyDone) /\ StartOutput(Append(queue, NewBatch))

\* Nothing to schedule: step_with_batch_queue waits for the oldest batch.
Drain ==
  /\ pc = "idle" /\ ~HasRequests /\ queue # <<>>
  /\ StartOutput(queue)
  /\ UNCHANGED <<reqVars, blockVars, queueVars, localVars, queue>>

Rejected(b, r, accepted) == b.s[r] - accepted

\* Mutant: rejected drafts are not taken off the placeholders.
PlaceholdersKept(r, rejected, kept) ==
  IF AsyncScheduling /\ placeholders[r] > 0 THEN placeholders[r] - kept
                                            ELSE placeholders[r]

\* num_output_placeholders after an output: the rejected drafts are taken
\* off, and by the async schedulers the tokens that were appended (only the
\* unchunked one leaves a count of zero alone).
PlaceholdersAfter(r, rejected, kept) ==
  LET ph == IF placeholders[r] > 0 THEN placeholders[r] - rejected
                                   ELSE placeholders[r]
  IN  IF AsyncScheduling /\ (Chunked \/ ph > 0) THEN ph - kept ELSE ph

\* One turn of update_from_output's loop: request r got "accepted" of its
\* draft tokens accepted; "kept" tokens were appended until it hit its limit,
\* an end-of-sequence token, or the last of them.
UpdateFromOutput(r, accepted, kept, stopped) ==
  LET b == Head(queue)
      rejected == Rejected(b, r, accepted)
      left == MaxTotalTokens(r) - NumTokens(r)
  IN  /\ r \in b.emit
      /\ accepted \in 0 .. b.s[r]
      /\ kept \in 1 .. MinOf(accepted + 1, left)
      /\ kept < MinOf(accepted + 1, left) => stopped
      /\ kept = left => stopped
      /\ \/ stopped /\ Finish(r)
         \/ /\ ~stopped
            /\ out' = [out EXCEPT ![r] = @ + kept]
            /\ computed' = [computed EXCEPT ![r] =
                 IF @ > 0 THEN @ - rejected ELSE @]
            /\ placeholders' = [placeholders EXCEPT ![r] =
                 PlaceholdersAfter(r, rejected, kept)]
            /\ UNCHANGED <<status, spec, submissions, ready, blockVars,
                           queueVars>>
      \* History: younger batches counted on the rejected tokens.
      /\ queue' = [i \in DOMAIN queue |->
           IF i > 1 /\ r \in queue[i].emit
           THEN [queue[i] EXCEPT !.lost[r] = @ + rejected] ELSE queue[i]]

OutputStep ==
  /\ pc = "output" /\ todo # {}
  /\ LET r == CHOOSE r \in todo : TRUE IN
       /\ todo' = todo \ {r}
       /\ \/ \E accepted \in 0 .. NumSpecTokens,
                kept \in 1 .. NumSpecTokens + 1, stopped \in BOOLEAN :
               UpdateFromOutput(r, accepted, kept, stopped)
          \/ /\ r \notin Head(queue).emit
             /\ UNCHANGED <<reqVars, blockVars, queueVars, queue>>
  /\ UNCHANGED <<localVars, pc>>

\* EngineCore.post_step: without async scheduling the scheduler is handed the
\* new draft tokens of the batch's requests (update_draft_token_ids).  Those
\* of a structured request are cut where its grammar refuses one.
HandOverDrafts ==
  LET given == {r \in Reqs : ~AsyncScheduling /\ Live(r) /\ Head(queue).n[r] > 0}
  IN  \E valid \in [given \cap Structured -> 0 .. NumSpecTokens] :
        spec' = [r \in Reqs |-> IF r \notin given THEN spec[r]
                               ELSE IF r \in Structured THEN valid[r]
                               ELSE NumSpecTokens]

\* The batch leaves the queue.
FinishOutput ==
  /\ pc = "output" /\ todo = {}
  /\ queue' = Tail(queue) /\ pc' = "idle"
  /\ HandOverDrafts
  /\ UNCHANGED <<status, out, computed, placeholders, submissions, ready,
                 blockVars, queueVars, localVars, todo>>

EngineStep == CommitSchedule \/ Drain \/ OutputStep \/ FinishOutput
ClientStep == \E r \in Reqs : AddRequest(r) \/ Abort(r)

-----------------------------------------------------------------------------
(* Properties every scheduler of this kind owes its engine.                 *)

Sum(f) == FoldFunction(LAMBDA a, b : a + b, 0, f)
Scheduling == pc \in {"waiting", "running", "alloc", "commit"}

\* Every variable ranges over what the code stores in it.
TypeOK ==
  /\ status \in [Reqs -> Statuses]
  /\ out \in [Reqs -> Nat] /\ computed \in [Reqs -> Int]
  /\ placeholders \in [Reqs -> Int] /\ spec \in [Reqs -> Nat]
  /\ submissions \in [Reqs -> Nat] /\ ready \subseteq Reqs
  /\ held \in [Reqs -> Nat] /\ free \in Nat
  /\ waiting \in Seq(Reqs) /\ running \in Seq(Reqs)
  /\ finished \subseteq Reqs
  /\ pc \in Steps /\ skipped \in Seq(Reqs) /\ budget \in Int
  /\ idx \in Nat \ {0}
  /\ cur \in Reqs \cup {NoReq} /\ num \in Int
  /\ nsched \in [Reqs -> Int] /\ sspec \in [Reqs -> Int]
  /\ todo \subseteq Reqs
  /\ queue \in Seq(Batches)

\* A live request is in exactly one queue, once, and in the one its status
\* names; a request that is gone is in none (remove_all, remove_requests,
\* pop_request, prepend_request of schedule() and update_from_output).
QueueConsistency ==
  /\ NoRepeats(waiting) /\ NoRepeats(running) /\ NoRepeats(skipped)
  /\ Elems(waiting) \cap Elems(skipped) = {}
  /\ \A r \in Reqs :
       /\ r \in Elems(running) <=> status[r] = "running"
       /\ r \in Elems(waiting) \cup Elems(skipped)
            <=> status[r] \in {"waiting", "waiting_fsm", "preempted"}

\* No KV block is lost or given out twice, and only running requests hold
\* any: preemption, stop and abort give all of them back.
BlockAccounting ==
  /\ free + Sum(held) = NumBlocks
  /\ \A r \in Reqs : held[r] > 0 => status[r] = "running"

\* The assertions at the end of schedule(): the budget is respected, also
\* after a preemption refunded part of it, and what is scheduled is running.
BudgetRespected ==
  Scheduling =>
    /\ budget >= 0 /\ budget + Sum(nsched) = MaxNumScheduledTokens
    /\ Scheduled(nsched) \subseteq Elems(running)
    /\ Len(running) <= MaxNumRunningReqs

\* Every token of the batch has a KV slot of its own request to go to when
\* the batch is launched, the draft tokens included.
SlotsCoverSchedule ==
  pc = "commit" => \A r \in Scheduled(nsched) :
    computed[r] + nsched[r] <= held[r] * BlockSize

\* num_output_placeholders counts the tokens of the batches in flight, for
\* every request, through rejections, preemptions and late outputs.
InFlight(r) ==
  {i \in DOMAIN queue : /\ r \in queue[i].emit
                        /\ queue[i].sub[r] = submissions[r]
                        /\ pc = "output" /\ i = 1 => r \in todo}
PlaceholderAccounting ==
  AsyncScheduling => \A r \in Reqs : Live(r) =>
    placeholders[r] =
      Sum([i \in InFlight(r) |-> 1 + queue[i].s[r]])

\* Outputs are applied in sequence: when the output of a batch reaches a
\* request, the request has exactly the tokens the scheduler took it to have
\* when it scheduled the batch, less the drafts rejected since.  Preemptions
\* with batches in flight, resumptions and rejections never make schedule()
\* compute a token twice or skip one, as a count of placeholders that is reset,
\* or paid back twice, would.  (Where the worker puts the tokens is the matter of
\* WorkerPositions in ModelRunner.)
OutputsInSequence ==
  pc = "output" => \A r \in todo \cap Head(queue).emit :
    Head(queue).sub[r] = submissions[r] =>
      Head(queue).base[r] - Head(queue).lost[r] = NumTokens(r)

\* The grammar bitmask of a structured request was computed from all the
\* tokens before the one it constrains.
GrammarMaskFresh ==
  pc = "output" => \A r \in todo \cap Head(queue).emit \cap Structured :
    Head(queue).mask[r] = out[r]

\* step_with_batch_queue is entered with room in the batch queue, and has a
\* batch to wait for when it waits (its assertion and its pop()).
BatchQueueBounded ==
  /\ Len(queue) <= BatchQueueSize
  /\ pc = "idle" => Len(queue) < BatchQueueSize
  /\ pc = "output" => queue # <<>>

\* The life of a request as clients see it: a preempted request is queued
\* again and keeps its tokens, an ended one starts from nothing when its id
\* is submitted again.
Phase(r) ==
  CASE status[r] = "running" -> "active"
    [] status[r] \in {"waiting", "waiting_fsm", "preempted"} -> "queued"
    [] OTHER -> "gone"

Lifecycle == INSTANCE RequestLifecycle WITH
  Requests <- Reqs,
  Limit <- [r \in Reqs |-> MinOf(MaxTokens[r], MaxModelLen - Prompt[r])],
  Capacity <- MaxNumRunningReqs,
  phase <- [r \in Reqs |-> Phase(r)],
  produced <- out

\* The schedulers implement RequestLifecycle: schedule(), update_from_output
\* and aborts together never lose a token, exceed a limit or start more
\* requests than max_num_seqs.
ImplementsLifecycle == Lifecycle!LifecycleSpec

\* Every request a client submits finishes, if it is not aborted.
EveryRequestFinishes ==
  \A r \in Reqs : Live(r) ~> status[r] = "finished"
=============================================================================
