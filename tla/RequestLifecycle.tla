---------------------------- MODULE RequestLifecycle ----------------------------
(***************************************************************************)
(* What a client and the worker may rely on, whatever the schedulers do:   *)
(* a request is queued, becomes active when there is room for it, may be   *)
(* suspended any number of times, gets its tokens one after the other      *)
(* without ever losing one, and ends before or when it reaches its limit.  *)
(* One step concerns one request.                                          *)
(***************************************************************************)
EXTENDS Integers, FiniteSets

CONSTANTS
  Requests,
  Limit,      \* the number of tokens that ends a request
  Capacity    \* how many requests may be active

VARIABLES phase, produced

lifecycleVars == <<phase, produced>>

Active == {r \in Requests : phase[r] = "active"}

LifecycleInit ==
  /\ phase = [r \in Requests |-> "gone"]
  /\ produced = [r \in Requests |-> 0]

Submit(r) ==
  /\ phase[r] = "gone" /\ produced[r] = 0
  /\ phase' = [phase EXCEPT ![r] = "queued"]
  /\ UNCHANGED produced

Activate(r) ==
  /\ phase[r] = "queued" /\ Cardinality(Active) < Capacity
  /\ phase' = [phase EXCEPT ![r] = "active"]
  /\ UNCHANGED produced

Suspend(r) ==
  /\ phase[r] = "active"
  /\ phase' = [phase EXCEPT ![r] = "queued"]
  /\ UNCHANGED produced

\* Tokens may still arrive for a request that was just suspended.
Produce(r) ==
  /\ phase[r] # "gone"
  /\ \E n \in produced[r] + 1 .. Limit[r] - 1 :
       produced' = [produced EXCEPT ![r] = n]
  /\ UNCHANGED phase

End(r) ==
  /\ phase[r] # "gone"
  /\ phase' = [phase EXCEPT ![r] = "gone"]
  /\ produced' = [produced EXCEPT ![r] = 0]

LifecycleNext ==
  \E r \in Requests :
    Submit(r) \/ Activate(r) \/ Suspend(r) \/ Produce(r) \/ End(r)

LifecycleSpec == LifecycleInit /\ [][LifecycleNext]_lifecycleVars
=============================================================================
