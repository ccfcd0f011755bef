------------------------------- MODULE MCLocalIds -------------------------------
(* Requests and blocks are interchangeable.                                       *)
EXTENDS LocalIds, TLC

Symmetry == Permutations(Reqs) \cup Permutations(Blocks)
================================================================================
