----------------------------- MODULE MCMqttLink -----------------------------
(* MqttLink with what TLC needs to check it on small instances.              *)
EXTENDS MqttLink, TLC

TopicSymmetry == Permutations(Topics)
=============================================================================
