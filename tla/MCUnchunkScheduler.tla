-------------------------- MODULE MCUnchunkScheduler --------------------------
(* UnchunkScheduler with the workloads of MCWorkloads.                      *)
EXTENDS UnchunkScheduler, MCWorkloads
=============================================================================
