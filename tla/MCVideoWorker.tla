--------------------------- MODULE MCVideoWorker ---------------------------
(* Instances of VideoWorker for TLC.                                       *)
EXTENDS VideoWorker, TLC
=============================================================================
