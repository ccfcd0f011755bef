------------------------------ MODULE MCWorkloads ------------------------------
(* Small workloads for the runs of the schedulers.                          *)
EXTENDS SchedulerCore, TLC

CONSTANTS r1, r2, r3

\* r1 is the most urgent request, and came first.
RankByName == [r \in Reqs |-> CASE r = r1 -> 1 [] r = r2 -> 2 [] OTHER -> 3]
Fours == [r \in Reqs |-> 4]
OneTwoOne == [r \in Reqs |-> IF r = r2 THEN 2 ELSE 1]
OneThreeOne == [r \in Reqs |-> IF r = r2 THEN 3 ELSE 1]
None == {}
FirstOnly == {r1}
\* Adapters: none at all, or two different ones.
NoLora == [r \in Reqs |-> 0]
TwoLoras == [r \in Reqs |-> CASE r = r1 -> 1 [] r = r3 -> 2 [] OTHER -> 0]
=============================================================================
