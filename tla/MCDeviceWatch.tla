--------------------------- MODULE MCDeviceWatch ---------------------------
(* DeviceWatch with what TLC needs to check it on small instances.          *)
EXTENDS DeviceWatch, TLC

\* The worker threads of CExecutor are interchangeable.
WorkerSymmetry == Permutations(Workers)
=============================================================================
