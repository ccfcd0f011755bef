---------------------------- MODULE MCUnchunkEngine ----------------------------
(* UnchunkEngine with the workloads of MCWorkloads.                         *)
EXTENDS UnchunkEngine, MCWorkloads
=============================================================================
