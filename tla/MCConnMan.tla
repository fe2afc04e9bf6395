----------------------------- MODULE MCConnMan -----------------------------
(* ConnMan with what TLC needs to check it on small instances.              *)
EXTENDS ConnMan, TLC

\* The worker threads of CExecutor are interchangeable.
WorkerSymmetry == Permutations(Workers)
=============================================================================
