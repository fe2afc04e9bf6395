----------------------------- MODULE MCExecutor -----------------------------
(* Executor with what TLC needs to check it on small instances.              *)
EXTENDS Executor

\* The first function is due twice as often as any other.
MCPeriod == [f \in Funcs |-> IF f = CHOOSE g \in Funcs : TRUE THEN 1 ELSE 2]
=============================================================================
