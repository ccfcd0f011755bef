----------------------------- MODULE MCChunkEngine -----------------------------
(* ChunkEngine with the workloads of MCWorkloads.                           *)
EXTENDS ChunkEngine, MCWorkloads
=============================================================================
