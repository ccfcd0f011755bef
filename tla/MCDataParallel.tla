----------------------------- MODULE MCDataParallel -----------------------------
(* Batches for TLC, with two draft tokens: a decode row is three tokens.          *)
EXTENDS DataParallel

Prefill(lens) == [lens |-> lens, computed |-> 0, drafts |-> FALSE, dummy |-> FALSE]
Decode(n) == [lens |-> [i \in 1..n |-> 3], computed |-> 5, drafts |-> TRUE, dummy |-> FALSE]

AllKinds == {Prefill(<<4>>), Prefill(<<5, 4>>), Prefill(<<2>>),
             Decode(1), Decode(2), Decode(3)}
ShortPrompts == {Prefill(<<2>>), Decode(1)}
================================================================================
