---------------------------- MODULE MCKvStateSlots ----------------------------
(* Three requests over two slots, for the runs of KvStateSlots.             *)
EXTENDS KvStateSlots, TLC

CONSTANTS r1, r2, r3

\* r1 is the most urgent request.
RankByName == (r1 :> 1) @@ (r2 :> 2) @@ (r3 :> 3)
=============================================================================
