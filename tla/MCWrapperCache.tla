--------------------------- MODULE MCWrapperCache ---------------------------
(* Instances of WrapperCache for TLC.                                      *)
EXTENDS WrapperCache, TLC

(* Nothing tells one wrapper, or one machine, from another.                *)
Symmetry == Permutations(Wrappers) \cup Permutations(Machines)
=============================================================================
