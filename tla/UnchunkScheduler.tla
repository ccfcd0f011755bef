--------------------------- MODULE UnchunkScheduler ---------------------------
(***************************************************************************)
(* MLUUnchunkScheduler and MLUUnchunkAsyncScheduler, the default schedulers *)
(* of vllm-mlu.  schedule() serves the waiting queue first, with whole      *)
(* prompts only; the running requests get their turn in a batch of their    *)
(* own, when no request could be admitted.  Each turn of the two loops is a *)
(* step here, so that the properties can look inside schedule().            *)
(***************************************************************************)
EXTENDS SchedulerCore

CONSTANT MinPrefillBatch   \* VLLM_V1_MIN_PREFILL_BATCH

\* Without chunked prefill a token budget below the model length is refused
\* (SchedulerConfig), so that every prompt fits into a batch.
ASSUME UnchunkAssumption ==
  /\ MinPrefillBatch \in Nat \ {0} /\ ~Chunked
  /\ MaxNumScheduledTokens >= MaxModelLen

\* schedule() starts: the waiting loop breaks at once when fewer requests
\* wait than make up a prefill batch.
BeginSchedule ==
  /\ pc = "idle" /\ HasRequests /\ QueueHasRoom(queue)
  /\ budget' = MaxNumScheduledTokens
  /\ pc' = IF Len(waiting) >= MinPrefillBatch THEN "waiting" ELSE "running"
  /\ UNCHANGED <<reqVars, blockVars, queueVars, skipped, idx, cur, num,
                 nsched, sspec, todo, queue>>

-----------------------------------------------------------------------------
(* The waiting loop.                                                        *)

Admissible(r) ==
  ~Skippable(r) /\ PrefillTokens(r) <= budget /\ Fits(r, PrefillTokens(r), 0)

SkipWaiting(r) ==
  /\ pc = "waiting" /\ WaitingLoopGoesOn /\ Peeked(r) /\ Skippable(r)
  /\ SetAside(r)

AdmitWaiting(r) ==
  /\ pc = "waiting" /\ WaitingLoopGoesOn /\ Peeked(r) /\ Admissible(r)
  /\ Admit(r, PrefillTokens(r))

\* The loop ends; skipped requests go back to the front of waiting, in an
\* order the base class's prepend_requests decides.  The running loop
\* follows only when no request was admitted.
EndWaiting ==
  /\ pc = "waiting"
  /\ WaitingLoopGoesOn =>
       \E r \in Elems(waiting) : Peeked(r) /\ ~Skippable(r) /\ ~Admissible(r)
  /\ PutBackSkipped
  /\ pc' = IF Scheduled(nsched) = {} THEN "running" ELSE "commit"
  /\ UNCHANGED <<reqVars, blockVars, running, finished, budget, idx, cur,
                 num, nsched, sspec, todo, queue>>

-----------------------------------------------------------------------------
(* The running loop.                                                        *)

\* Mutant: the limit without room for draft tokens, as before the MTP change.
NumNewTokensNoDrafts(r) ==
  LET all == NumTokens(r) + spec[r] + placeholders[r] - computed[r]
  IN  MinOf(MinOf(all, budget), MaxTotalTokens(r) - 1 - computed[r])

\* num_new_tokens of a running request: what is not computed yet, cut to the
\* threshold, the budget and the length limit, which speculation extends.
NumNewTokens(r) ==
  LET all == NumTokens(r) + spec[r] + placeholders[r] - computed[r]
      cut == IF 0 < LongPrefillThreshold /\ LongPrefillThreshold < all
             THEN LongPrefillThreshold ELSE all
  IN  MinOf(MinOf(cut, budget),
            MaxTotalTokens(r) + NumSpecTokens - 1 - computed[r])

\* Nothing to schedule: all its tokens are in flight, or it is at its limit.
SkipRunning ==
  /\ pc = "running" /\ RunningLoopGoesOn
  /\ NumNewTokens(running[idx]) = 0
  /\ idx' = idx + 1
  /\ UNCHANGED <<reqVars, blockVars, queueVars, pc, skipped, budget, cur,
                 num, nsched, sspec, todo, queue>>

PickRunning ==
  /\ pc = "running" /\ RunningLoopGoesOn
  /\ NumNewTokens(running[idx]) # 0
  /\ cur' = running[idx] /\ num' = NumNewTokens(running[idx])
  /\ pc' = "alloc"
  /\ UNCHANGED <<reqVars, blockVars, queueVars, skipped, budget, idx, nsched,
                 sspec, todo, queue>>

EndRunning ==
  /\ pc = "running" /\ ~RunningLoopGoesOn
  /\ pc' = "commit"
  /\ UNCHANGED <<reqVars, blockVars, queueVars, localVars, todo, queue>>

-----------------------------------------------------------------------------
ScheduleStep ==
  \/ BeginSchedule \/ EndWaiting
  \/ SkipRunning \/ PickRunning \/ ScheduleRunning \/ EndRunning
  \/ \E r \in Reqs : SkipWaiting(r) \/ AdmitWaiting(r) \/ Preempt(r)

Next == ScheduleStep \/ EngineStep \/ ClientStep
        \/ \E r \in Reqs : GrammarReady(r)

Spec == Init /\ [][Next]_vars

\* The engine loop runs as long as it has work, and grammars get compiled.
FairSpec ==
  /\ Spec
  /\ WF_vars(ScheduleStep \/ EngineStep)
  /\ \A r \in Reqs : WF_vars(GrammarReady(r))

-----------------------------------------------------------------------------
(* Properties of the unchunked loops.                                       *)

\* The running loop has passed every request it scheduled, however many of
\* them it preempted again: "req_index -= 1" never takes the index before
\* the first request, where Python would index from the end.
LoopIndex ==
  /\ pc \in {"idle", "waiting", "output"} => idx = 1
  /\ pc \in {"running", "alloc"} => Cardinality(Scheduled(nsched)) < idx

\* "Make sure the input position does not exceed the max model len": nothing in
\* a batch is computed at a position the model and the block table do not have,
\* although the limit is extended by the drafts.  (Tokens past a request's own
\* max_tokens are computed, with drafts in flight, and dropped with its output.)
InputPositionInRange ==
  pc = "commit" => \A r \in Scheduled(nsched) :
    computed[r] + nsched[r] <= MaxModelLen

\* "ensure same token counts per batch during MTP": in a decode batch no
\* request has more tokens than one without structured output, so that those
\* without all have the same number, at the length limits and after rejections
\* too.  (One with structured output may have fewer: its grammar cuts drafts.)
SameTokenCounts ==
  pc = "commit" => \A r, o \in Scheduled(nsched) :
    computed[r] > 0 /\ computed[o] > 0 /\ r \notin Structured =>
      nsched[o] <= nsched[r]
=============================================================================
