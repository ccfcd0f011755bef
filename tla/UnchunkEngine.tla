----------------------------- MODULE UnchunkEngine -----------------------------
(* The unchunked scheduler, its engine and the model runner it drives.      *)
EXTENDS UnchunkScheduler, ModelRunner

engineVars == <<vars, runnerVars>>

EngineInit == Init /\ RunnerInit

\* Grammars are compiled in a thread of their own.
EngineNext ==
  \/ ExecuteModel \/ Engine(ScheduleStep \/ EngineStep \/ ClientStep)
  \/ \E r \in Reqs : GrammarReady(r) /\ UNCHANGED runnerVars

EngineSpec == EngineInit /\ [][EngineNext]_engineVars
=============================================================================
