---------------------------- MODULE MCAudioPool ----------------------------
(* Instances of AudioPool for TLC.                                         *)
EXTENDS AudioPool, TLC
=============================================================================
