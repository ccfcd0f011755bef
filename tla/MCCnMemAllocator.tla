--------------------------- MODULE MCCnMemAllocator ---------------------------
(* Four interchangeable addresses, for the runs of CnMemAllocator.          *)
EXTENDS CnMemAllocator, TLC

Interchangeable == Permutations(Ptrs)
=============================================================================
