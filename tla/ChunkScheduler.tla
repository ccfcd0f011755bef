---------------------------- MODULE ChunkScheduler ----------------------------
(***************************************************************************)
(* SchedulerWithProfiler and AsyncScheduler: schedule() serves the running  *)
(* requests first and then, unless it had to preempt, fills the batch with  *)
(* waiting ones, cutting prompts to what is left of the budget.  With async *)
(* scheduling the engine core defers the sampling of a batch whose grammar  *)
(* masks depend on tokens that are still in flight.                         *)
(***************************************************************************)
EXTENDS SchedulerCore

CONSTANT EnableChunkedPrefill   \* scheduler_config.enable_chunked_prefill

\* Without chunked prefill the budget is at least the model length.  This
\* schedule() calls allocate_slots without fixed_window_tokens, whose default
\* is 0.
ASSUME ChunkAssumption ==
  /\ Chunked /\ EnableChunkedPrefill \in BOOLEAN /\ FixedWindow = 0
  /\ EnableChunkedPrefill \/ MaxNumScheduledTokens >= MaxModelLen

VARIABLES
  preempted,   \* preempted_reqs of this schedule() is not empty
  deferred     \* the last batch of queue is deferred_scheduler_output

chunkVars == <<vars, preempted, deferred>>

ChunkInit == Init /\ preempted = FALSE /\ deferred = FALSE

BeginChunkSchedule ==
  /\ pc = "idle" /\ HasRequests /\ QueueHasRoom(queue)
  /\ budget' = MaxNumScheduledTokens
  /\ pc' = "running" /\ preempted' = FALSE
  /\ UNCHANGED <<reqVars, blockVars, queueVars, skipped, idx, cur, num,
                 nsched, sspec, todo, queue, deferred>>

-----------------------------------------------------------------------------
(* The running loop.                                                        *)

\* num_new_tokens of a running request; only the model length limits it.
ChunkTokens(r) ==
  LET all == NumTokens(r) + spec[r] + placeholders[r] - computed[r]
      cut == IF 0 < LongPrefillThreshold /\ LongPrefillThreshold < all
             THEN LongPrefillThreshold ELSE all
  IN  MinOf(MinOf(cut, budget), MaxModelLen - computed[r])

PassOverRunning ==
  /\ pc = "running" /\ RunningLoopGoesOn
  /\ ChunkTokens(running[idx]) = 0
  /\ idx' = idx + 1
  /\ UNCHANGED <<reqVars, blockVars, queueVars, pc, skipped, budget, cur,
                 num, nsched, sspec, todo, queue, preempted, deferred>>

PickChunk ==
  /\ pc = "running" /\ RunningLoopGoesOn
  /\ ChunkTokens(running[idx]) # 0
  /\ cur' = running[idx] /\ num' = ChunkTokens(running[idx])
  /\ pc' = "alloc"
  /\ UNCHANGED <<reqVars, blockVars, queueVars, skipped, budget, idx, nsched,
                 sspec, todo, queue, preempted, deferred>>

ScheduleChunk == ScheduleRunning /\ UNCHANGED <<preempted, deferred>>

PreemptChunk(v) == Preempt(v) /\ preempted' = TRUE /\ UNCHANGED deferred

\* After a preemption no waiting request is considered.
EndRunningLoop ==
  /\ pc = "running" /\ ~RunningLoopGoesOn
  /\ pc' = IF preempted THEN "commit" ELSE "waiting"
  /\ UNCHANGED <<reqVars, blockVars, queueVars, localVars, todo, queue,
                 preempted, deferred>>

-----------------------------------------------------------------------------
(* The waiting loop.                                                        *)

\* Whole prompts only, and this one does not fit into the budget any more.
TooLong(r) == ~EnableChunkedPrefill /\ PrefillTokens(r) > budget

SkippableChunk(r) == Skippable(r) \/ TooLong(r)

FirstChunk(r) == MinOf(PrefillTokens(r), budget)

SkipChunk(r) ==
  /\ pc = "waiting" /\ WaitingLoopGoesOn /\ Peeked(r) /\ SkippableChunk(r)
  /\ SetAside(r) /\ UNCHANGED <<preempted, deferred>>

AdmitChunk(r) ==
  /\ pc = "waiting" /\ WaitingLoopGoesOn /\ Peeked(r)
  /\ ~SkippableChunk(r) /\ Fits(r, FirstChunk(r), 0)
  /\ Admit(r, FirstChunk(r)) /\ UNCHANGED <<preempted, deferred>>

EndWaitingLoop ==
  /\ pc = "waiting"
  /\ WaitingLoopGoesOn =>
       \E r \in Elems(waiting) : /\ Peeked(r) /\ ~SkippableChunk(r)
                                 /\ ~Fits(r, FirstChunk(r), 0)
  /\ PutBackSkipped /\ pc' = "commit"
  /\ UNCHANGED <<reqVars, blockVars, running, finished, budget, idx, cur,
                 num, nsched, sspec, todo, queue, preempted, deferred>>

-----------------------------------------------------------------------------
(* Deferred sampling.                                                       *)

\* Mutant: every structured request is taken to wait for a token.
PendingAnyStructured == Scheduled(nsched) \cap Structured # {}

\* pending_structured_output_tokens of the new batch.
PendingStructuredOutputTokens ==
  /\ AsyncScheduling
  /\ \E r \in Scheduled(nsched) \cap Structured : placeholders[r] > 0

CommitAndSample ==
  /\ ~PendingStructuredOutputTokens /\ CommitSchedule
  /\ UNCHANGED <<preempted, deferred>>

\* The batch is executed but not sampled: the engine consumes the oldest
\* output in its queue first, whatever room the queue has.
CommitAndDefer ==
  /\ PendingStructuredOutputTokens /\ EnterQueue
  /\ StartOutput(Append(queue, NewBatch))
  /\ deferred' = TRUE /\ UNCHANGED preempted

\* Mutant: the masks are those of schedule().
MaskAtSchedule(b) == b.mask

\* get_grammar_bitmask, when the output before the batch has been consumed.
MaskAtSampling(b) == [r \in Reqs |-> IF r \in b.emit THEN out[r] ELSE 0]

SampleDeferred ==
  /\ pc = "output" /\ todo = {} /\ deferred
  /\ queue' = [i \in 1 .. Len(queue) - 1 |->
                 IF i = Len(queue) - 1
                 THEN [queue[i + 1] EXCEPT !.mask = MaskAtSampling(queue[i + 1])]
                 ELSE queue[i + 1]]
  /\ pc' = "idle" /\ deferred' = FALSE
  /\ UNCHANGED <<reqVars, blockVars, queueVars, localVars, todo, preempted>>

-----------------------------------------------------------------------------
ChunkStep ==
  \/ BeginChunkSchedule \/ PassOverRunning \/ PickChunk \/ ScheduleChunk
  \/ EndRunningLoop \/ EndWaitingLoop
  \/ \E r \in Reqs : PreemptChunk(r) \/ SkipChunk(r) \/ AdmitChunk(r)

ChunkEngineStep ==
  \/ CommitAndSample \/ CommitAndDefer \/ SampleDeferred
  \/ ~deferred /\ FinishOutput /\ UNCHANGED <<preempted, deferred>>
  \/ (Drain \/ OutputStep) /\ UNCHANGED <<preempted, deferred>>

ChunkNext ==
  \/ ChunkStep \/ ChunkEngineStep
  \/ ClientStep /\ UNCHANGED <<preempted, deferred>>
  \/ \E r \in Reqs : GrammarReady(r) /\ UNCHANGED <<preempted, deferred>>

ChunkSpec == ChunkInit /\ [][ChunkNext]_chunkVars

-----------------------------------------------------------------------------
(* Properties of the chunked loops and of deferred sampling.                *)

\* A batch is deferred only while an older one is in the queue: the tokens
\* it waits for are in flight, and batch_queue.pop() finds them.
DeferredHasOlder == deferred => pc = "output" /\ Len(queue) >= 2
=============================================================================
