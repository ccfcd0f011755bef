------------------------------ MODULE ChunkEngine ------------------------------
(* The chunked scheduler, its engine and the model runner it drives.        *)
EXTENDS ChunkScheduler, ModelRunner

engineVars == <<chunkVars, runnerVars>>

EngineInit == ChunkInit /\ RunnerInit

WorkerStep == ExecuteModel /\ UNCHANGED <<preempted, deferred>>

ClientCalls == ClientStep /\ UNCHANGED <<preempted, deferred>>

\* Grammars are compiled in a thread of their own.
CompileGrammar(r) ==
  GrammarReady(r) /\ UNCHANGED <<preempted, deferred, runnerVars>>

EngineNext ==
  \/ WorkerStep \/ Engine(ChunkStep \/ ChunkEngineStep \/ ClientCalls)
  \/ \E r \in Reqs : CompileGrammar(r)

EngineSpec == EngineInit /\ [][EngineNext]_engineVars

\* The engine loop and the worker run while they have work, and grammars get
\* compiled.
EngineFairSpec ==
  /\ EngineSpec
  /\ WF_engineVars(WorkerStep \/ Engine(ChunkStep \/ ChunkEngineStep))
  /\ \A r \in Reqs : WF_engineVars(CompileGrammar(r))
=============================================================================
