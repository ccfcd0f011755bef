------------------------------ MODULE ModelRunner ------------------------------
(***************************************************************************)
(* The worker's side of a batch: MLUModelRunner._update_states keeps a     *)
(* cached state per request and a persistent batch, _prepare_inputs        *)
(* derives positions from them, and _bookkeeping_sync notes what was       *)
(* sampled.  With async scheduling the numbers the scheduler sends are     *)
(* optimistic: the worker takes back the draft tokens that the batch       *)
(* before rejected.                                                        *)
(*                                                                         *)
(* The worker is composed with a scheduler: Engine(A) is a step A of the   *)
(* scheduler, with what it means for the outputs sent to the worker.  The  *)
(* worker sees nothing but these outputs, in order, and nobody sees the    *)
(* worker but through the tokens it samples; it executes a batch when the  *)
(* engine waits for that batch.  Rows of the persistent batch are named by *)
(* their request, so that condensing and reordering them leave no trace.   *)
(***************************************************************************)
EXTENDS SchedulerCore

VARIABLES
  \* Locals of schedule(): scheduled_new_reqs, scheduled_resumed_reqs and the
  \* number of blocks in req_to_new_blocks.
  newReqs, resumedReqs, newBlocks,
  sent,       \* the SchedulerOutputs of the batches in queue
  executed,   \* the worker has prepared the batch the engine waits for
  cached,     \* self.requests
  inBatch,    \* input_batch.req_id_to_index
  counts      \* valid_sampled_token_count, by prev_req_id_to_index

passVars == <<newReqs, resumedReqs, newBlocks>>
workerVars == <<executed, cached, inBatch, counts>>
runnerVars == <<passVars, sent, workerVars>>

Unknown == [known |-> FALSE, computed |-> 0, outs |-> 0, blocks |-> 0,
            draftLen |-> 0]

RunnerInit ==
  /\ newReqs = {} /\ resumedReqs = {} /\ newBlocks = Zero
  /\ sent = <<>> /\ executed = FALSE
  /\ cached = [r \in Reqs |-> Unknown] /\ inBatch = {} /\ counts = Zero

-----------------------------------------------------------------------------
(* What the steps of the scheduler mean for its outputs.                    *)

\* _make_cached_request_data and NewRequestData: num_computed_tokens of
\* before the batch, and the output tokens with those still in flight.
Output ==
  [new |-> newReqs, resumed |-> resumedReqs, blocks |-> newBlocks,
   computed |-> computed, finished |-> finished, held |-> held,
   outs |-> [r \in Reqs |-> out[r] + placeholders[r]]]

Started(r) == status[r] # "running" /\ status'[r] = "running"

\* All blocks of an admitted request, the additional ones of a running one.
BlocksAfter(r) ==
  IF nsched'[r] = 0 THEN 0
  ELSE IF Started(r) THEN held'[r]
  ELSE newBlocks[r] + held'[r] - held[r]

TrackPass ==
  IF pc = "commit"
  THEN /\ newReqs' = {} /\ resumedReqs' = {} /\ newBlocks' = Zero
       /\ sent' = Append(sent, Output)
  ELSE /\ newReqs' = newReqs \cup
            {r \in Reqs : Started(r) /\ status[r] # "preempted"}
       /\ resumedReqs' = resumedReqs \cup
            {r \in Reqs : Started(r) /\ status[r] = "preempted"}
       /\ newBlocks' = [r \in Reqs |-> BlocksAfter(r)]
       /\ sent' = IF pc = "output" /\ pc' = "idle" THEN Tail(sent) ELSE sent

-----------------------------------------------------------------------------
(* _bookkeeping_sync.                                                       *)

\* The tokens of r in the output just consumed (of no interest when they
\* end the request).
NumSampled(r) == IF Live(r)' THEN out'[r] - out[r] ELSE 1

\* Without async scheduling the sampled tokens are appended; with it one
\* placeholder, the accepted drafts follow in the next _update_states.
Bookkeeping ==
  LET sampled == (todo \ todo') \cap Head(queue).emit IN
  /\ counts' = [r \in Reqs |-> IF r \in sampled THEN NumSampled(r) ELSE counts[r]]
  /\ cached' = [r \in Reqs |->
       IF r \in sampled
       THEN [cached[r] EXCEPT !.outs =
               @ + IF AsyncScheduling THEN 1 ELSE NumSampled(r)]
       ELSE cached[r]]

Engine(A) ==
  /\ pc = "output" => executed
  /\ A
  /\ TrackPass
  /\ executed' = (pc = "output" /\ pc' = "output")
  /\ IF pc = "output" /\ pc' = "output" THEN Bookkeeping
                                        ELSE UNCHANGED <<cached, counts>>
  /\ UNCHANGED inBatch

-----------------------------------------------------------------------------
(* _update_states.                                                          *)

\* Mutant: the rejected drafts of the batch before stay counted.
NumRejectedNone(st, count) == 0

\* num_rejected of a request that stays in the persistent batch.
NumRejected(st, count) ==
  IF st.draftLen > 0 THEN st.draftLen - (count - 1) ELSE 0

\* Mutant: all drafts are taken for accepted.
NumAcceptedAll(st, count) == st.draftLen

\* The placeholders of the accepted drafts.
NumAccepted(st, count) == IF st.draftLen > 0 THEN count - 1 ELSE 0

NewState(o, r) ==
  [known |-> TRUE, computed |-> o.computed[r], outs |-> 0,
   blocks |-> o.blocks[r], draftLen |-> 0]

\* A request of the persistent batch: its optimistic count is corrected.
KeptState(o, s, r) ==
  LET st == cached[r] IN
  [st EXCEPT !.computed = o.computed[r] - NumRejected(st, counts[r]),
             !.outs = MinOf(o.outs[r], @ + NumAccepted(st, counts[r])),
             !.blocks = @ + o.blocks[r],
             !.draftLen = IF AsyncScheduling THEN s[r] ELSE @]

\* Mutant: new blocks are always appended.
BlocksAppended(o, r) == cached[r].blocks + o.blocks[r]

\* A resumed request owns nothing but its new blocks.
BlocksReadded(o, r) ==
  IF r \in o.resumed THEN o.blocks[r] ELSE cached[r].blocks + o.blocks[r]

\* A request that was preempted, or not scheduled in the batch before.
ReaddedState(o, r) ==
  [cached[r] EXCEPT !.computed = o.computed[r],
                    !.outs = IF AsyncScheduling /\ o.outs[r] > 0
                             THEN o.outs[r] ELSE MinOf(o.outs[r], @),
                    !.blocks = BlocksReadded(o, r),
                    !.draftLen = 0]

\* Mutant: the finished ids are dropped last, those of resubmitted requests too.
ForgottenLast(o, r) == r \in o.finished

\* A finished id is dropped first: it may come back as a new request.
Forgotten(o, r) == r \in o.finished \ o.new

UpdateStates(o, b) ==
  /\ inBatch' = Scheduled(b.n)
  /\ cached' = [r \in Reqs |->
       CASE Forgotten(o, r) -> Unknown
         [] ~Forgotten(o, r) /\ r \in o.new -> NewState(o, r)
         [] r \in Scheduled(b.n) \ (o.new \cup o.finished) ->
              IF r \in inBatch THEN KeptState(o, b.s, r) ELSE ReaddedState(o, r)
         [] OTHER -> cached[r]]

\* The engine waits for a batch, and the worker executes it.
ExecuteModel ==
  /\ pc = "output" /\ ~executed
  /\ UpdateStates(Head(sent), Head(queue))
  /\ executed' = TRUE /\ counts' = Zero
  /\ UNCHANGED <<vars, passVars, sent>>

-----------------------------------------------------------------------------
(* Properties.  They speak of the batch the worker has just executed.       *)

Executed(r) == pc = "output" /\ executed /\ r \in todo
                 /\ Head(queue).sub[r] = submissions[r]

\* self.requests[req_id] of a request sent without its data never fails.
StateCached ==
  pc = "output" /\ executed =>
    \A r \in Scheduled(Head(queue).n) : cached[r].known

\* "update actual num_computed_tokens of each request": the worker's input
\* positions continue the tokens the request really has, so that the first
\* sampled token is the next one.
WorkerPositions ==
  \A r \in Reqs : Executed(r) /\ r \in Head(queue).emit =>
    cached[r].computed + Head(queue).n[r] - Head(queue).s[r] = NumTokens(r)

\* discard_requests_mask: the worker samples for exactly the requests whose
\* tokens the scheduler waits for, partial prompts and resumed requests
\* included.
SamplesExpected ==
  \A r \in Reqs : Executed(r) =>
    (r \in Head(queue).emit <=>
       cached[r].computed + Head(queue).n[r] >= Prompt[r] + cached[r].outs)

\* The worker's block table lists as many blocks as the request owned when
\* it was scheduled.
WorkerBlocks ==
  \A r \in Reqs : Executed(r) => cached[r].blocks = Head(sent).held[r]
=============================================================================
