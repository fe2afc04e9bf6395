----------------------------- MODULE MCTeardown -----------------------------
(* Teardown with what TLC needs to check it on small instances.             *)
EXTENDS Teardown

TwoWorkers == <<"w1", "w2">>
=============================================================================
