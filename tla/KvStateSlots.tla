----------------------------- MODULE KvStateSlots -----------------------------
(***************************************************************************)
(* The DeepSeek-V4 kv-state slots of MLUModelRunner.  Every request owns   *)
(* one slot of a fixed pool from the step that first schedules it until    *)
(* the worker is told that it has finished.  The scheduler learns of a     *)
(* finish at once, the worker only with the next SchedulerOutput, and the  *)
(* two are up to Depth outputs apart (async scheduling, pipelining).       *)
(*                                                                         *)
(* The scheduler is reduced to what the worker can see of it: which        *)
(* requests a SchedulerOutput starts, runs and reports finished.  It picks *)
(* waiting requests and preemption victims by the policies of              *)
(* MLUUnchunkScheduler; token budgets and KV blocks become free choices.   *)
(***************************************************************************)
EXTENDS Naturals, Sequences, FiniteSets, RequestQueue

CONSTANTS
  Reqs,            \* request ids a client may use, and use again
  MaxNumSeqs,      \* max_num_seqs: running requests, and kv-state slots
  Depth,           \* batch_queue_size: outputs the engine keeps in flight
  PriorityPolicy,  \* SchedulingPolicy.PRIORITY instead of FCFS
  Rank,            \* (priority, arrival time): a smaller rank goes first
  NoSlot           \* "not a key of req_id_to_kv_state"

ASSUME SlotAssumption ==
  /\ MaxNumSeqs \in Nat \ {0}
  /\ Depth \in Nat \ {0}
  /\ PriorityPolicy \in BOOLEAN
  /\ Rank \in [Reqs -> Nat]
  /\ NoSlot \notin 0 .. MaxNumSeqs - 1

VARIABLES
  waiting,    \* scheduler.waiting
  running,    \* scheduler.running
  started,    \* live requests scheduled before (RUNNING or PREEMPTED)
  finished,   \* scheduler.finished_req_ids
  phase,      \* "idle", or the phase of schedule() being executed
  fresh,      \* scheduled_new_reqs of the output being built
  admitted,   \* requests popped from waiting by this schedule()
  channel,    \* SchedulerOutputs sent, not executed by the worker
  results,    \* request ids of executed outputs, not consumed yet
  slotOf,     \* req_id_to_kv_state
  freeSlots,  \* kv_state_free_slots
  failure     \* the exception that stopped the worker

schedVars == <<waiting, running, started, finished, phase, fresh, admitted>>
workerVars == <<slotOf, freeSlots, failure>>
vars == <<schedVars, channel, results, workerVars>>

Slots == 0 .. MaxNumSeqs - 1
Live == Elems(waiting) \cup Elems(running)
Outputs == [fin : SUBSET Reqs, new : SUBSET Reqs, reqs : SUBSET Reqs]

Outstanding == Len(channel) + Len(results)

Init ==
  /\ waiting = <<>> /\ running = <<>>
  /\ started = {} /\ finished = {}
  /\ phase = "idle" /\ fresh = {} /\ admitted = {}
  /\ channel = <<>> /\ results = <<>>
  /\ slotOf = [r \in Reqs |-> NoSlot]
  /\ freeSlots = Slots
  /\ failure = "none"

-----------------------------------------------------------------------------
(* The engine core and its scheduler.                                       *)

\* Client calls are handled between two engine steps; a step that keeps no
\* batch queue has consumed its own output by then.
BetweenSteps ==
  /\ failure = "none" /\ phase = "idle"
  /\ Depth = 1 => Outstanding = 0

AddRequest(r) ==
  /\ BetweenSteps /\ r \notin Live
  /\ waiting' = Append(waiting, r)
  /\ UNCHANGED <<running, started, finished, phase, fresh, admitted,
                 channel, results, workerVars>>

\* finish_requests / _free_request, for an abort or for a stop.
Free(r) ==
  /\ waiting' = Without(waiting, r)
  /\ running' = Without(running, r)
  /\ started' = started \ {r}
  /\ finished' = finished \cup {r}
  /\ UNCHANGED <<phase, fresh, admitted, channel, results, workerVars>>

Abort(r) == BetweenSteps /\ r \in Live /\ Free(r)

BeginSchedule ==
  /\ failure = "none" /\ phase = "idle"
  /\ Outstanding < Depth
  /\ Live # {} \/ finished # {}
  /\ phase' = "waiting" /\ fresh' = {} /\ admitted' = {}
  /\ UNCHANGED <<waiting, running, started, finished, channel, results,
                 workerVars>>

\* Mutant: a resubmitted id taken for the one that was aborted.
IsNewUnlessReported(r) == r \notin started /\ r \notin finished

\* status WAITING, not PREEMPTED: the worker does not know the request.
IsNew(r) == r \notin started

\* One turn of the waiting loop: a new or a resumed request is admitted.
Admit(r) ==
  /\ phase = "waiting" /\ Len(running) < MaxNumSeqs
  /\ GoesNext(waiting, r, PriorityPolicy, Rank)
  /\ waiting' = Without(waiting, r)
  /\ running' = Append(running, r)
  /\ fresh' = IF IsNew(r) THEN fresh \cup {r} ELSE fresh
  /\ admitted' = admitted \cup {r}
  /\ started' = started \cup {r}
  /\ UNCHANGED <<finished, phase, channel, results, workerVars>>

\* The loop may stop at any turn (budget, blocks, prefill batch size); the
\* running phase follows only when it admitted nobody.
EndWaiting ==
  /\ phase = "waiting"
  /\ phase' = IF admitted = {} THEN "running" ELSE "emit"
  /\ UNCHANGED <<waiting, running, started, finished, fresh, admitted,
                 channel, results, workerVars>>

\* No blocks for some running request: one of them goes back to waiting.
Preempt(r) ==
  /\ phase = "running" /\ Len(running) > 1
  /\ IsVictim(running, r, PriorityPolicy, Rank)
  /\ running' = Without(running, r)
  /\ waiting' = Prepend(waiting, r)
  /\ UNCHANGED <<started, finished, phase, fresh, admitted, channel,
                 results, workerVars>>

\* Mutant: the ids that finished are not passed on.
OutputWithoutFinished(some) == [fin |-> {}, new |-> fresh, reqs |-> some]

Output(some) == [fin |-> finished, new |-> fresh, reqs |-> some]

\* The SchedulerOutput, and _update_after_schedule clearing finished_req_ids.
Emit ==
  /\ phase \in {"running", "emit"}
  /\ \E some \in IF phase = "emit" THEN {admitted}
                                   ELSE SUBSET Elems(running) :
       channel' = Append(channel, Output(some))
  /\ finished' = {} /\ phase' = "idle" /\ fresh' = {} /\ admitted' = {}
  /\ UNCHANGED <<waiting, running, started, results, workerVars>>

\* update_from_output: a sampled token stops a request of the oldest output.
\* Request ids are all it goes by, so the id may have been resubmitted.
Stop(r) ==
  /\ failure = "none" /\ phase = "idle" /\ results # <<>>
  /\ r \in Head(results) /\ r \in Live
  /\ Free(r)

EndOutput ==
  /\ failure = "none" /\ phase = "idle" /\ results # <<>>
  /\ results' = Tail(results)
  /\ UNCHANGED <<schedVars, channel, workerVars>>

-----------------------------------------------------------------------------
(* The worker: _update_states, then _prepare_inputs of the oldest output.   *)

\* Every id of fin is a key of req_id_to_kv_state.
Known(fin) == \A r \in fin : slotOf[r] # NoSlot

\* Mutant: the finished id stays in req_id_to_kv_state.
SlotsNotRemoved(b) == slotOf

SlotsAfterRemove(b) ==
  [r \in Reqs |-> IF r \in b.fin THEN NoSlot ELSE slotOf[r]]
FreeAfterRemove(b) == freeSlots \cup {slotOf[r] : r \in b.fin}

\* The assertions of _insert_req_id, for all new requests of an output.
AlreadyStored(b) == \E r \in b.new : SlotsAfterRemove(b)[r] # NoSlot
TooFewSlots(b) == Cardinality(b.new) > Cardinality(FreeAfterRemove(b))

\* The exception that executing b ends in: _remove_req_id pops an id that
\* never got a slot, or an assertion of _insert_req_id fails.
Exception(b) ==
  IF ~Known(b.fin) THEN "key_error"
  ELSE IF AlreadyStored(b) THEN "already_stored"
  ELSE IF TooFewSlots(b) THEN "no_free_slot"
  ELSE "none"

ExecuteFails ==
  /\ failure = "none" /\ channel # <<>>
  /\ Exception(Head(channel)) # "none"
  /\ failure' = Exception(Head(channel))
  /\ UNCHANGED <<schedVars, channel, results, slotOf, freeSlots>>

\* Both succeed; set.pop() hands out free slots in an arbitrary order.
Execute ==
  /\ failure = "none" /\ channel # <<>>
  /\ LET b == Head(channel) IN
       /\ Known(b.fin) /\ ~AlreadyStored(b)
       /\ \E pick \in [b.new -> FreeAfterRemove(b)] :
            /\ \A r, o \in b.new : pick[r] = pick[o] => r = o
            /\ slotOf' = [r \in Reqs |-> IF r \in b.new THEN pick[r]
                                         ELSE SlotsAfterRemove(b)[r]]
            /\ freeSlots' = FreeAfterRemove(b) \ {pick[r] : r \in b.new}
       /\ results' = Append(results, b.reqs)
  /\ channel' = Tail(channel)
  /\ UNCHANGED <<schedVars, failure>>

\* The exception has ended the worker, and with it the engine.
EngineDead == failure # "none" /\ UNCHANGED vars

Next ==
  \/ \E r \in Reqs : \/ AddRequest(r) \/ Abort(r) \/ Stop(r)
                     \/ Admit(r) \/ Preempt(r)
  \/ BeginSchedule \/ EndWaiting \/ Emit \/ EndOutput
  \/ ExecuteFails \/ Execute \/ EngineDead

Spec == Init /\ [][Next]_vars

-----------------------------------------------------------------------------
(* Properties.                                                              *)

\* The variables range over what the code stores in them.
TypeOK ==
  /\ waiting \in Seq(Reqs) /\ running \in Seq(Reqs)
  /\ started \subseteq Reqs /\ finished \subseteq Reqs
  /\ phase \in {"idle", "waiting", "running", "emit"}
  /\ fresh \subseteq Reqs /\ admitted \subseteq Reqs
  /\ channel \in Seq(Outputs) /\ results \in Seq(SUBSET Reqs)
  /\ slotOf \in [Reqs -> Slots \cup {NoSlot}]
  /\ freeSlots \subseteq Slots
  /\ failure \in {"none", "key_error", "already_stored", "no_free_slot"}

\* No two requests share a compressor state, and no owned slot is on the
\* free list, whatever aborts, resubmissions and preemptions come between
\* (_insert_req_id, _remove_req_id).
SlotsExclusive ==
  /\ \A r, o \in Reqs : slotOf[r] # NoSlot /\ slotOf[r] = slotOf[o] => r = o
  /\ freeSlots = {s \in Slots : \A r \in Reqs : slotOf[r] # s}

\* A slot is not lost: its owner is still alive, or a notice of its finish
\* is on the way to the worker (finished_req_ids of some output).
SlotsReleased ==
  \A r \in Reqs : slotOf[r] # NoSlot =>
    \/ r \in started \/ r \in finished
    \/ \E i \in DOMAIN channel : r \in channel[i].fin

\* The forward pass looks up the slot of every request of the batch
\* (batch_to_kv_state): each one has a slot, or gets it in this very step.
ForwardIndexable ==
  channel # <<>> =>
    LET b == Head(channel) IN
      \A r \in b.reqs : r \in b.new \/ (slotOf[r] # NoSlot /\ r \notin b.fin)

\* The assertion of _insert_req_id: "fail to allocate kv states".
SlotsSuffice == failure # "no_free_slot"

=============================================================================
