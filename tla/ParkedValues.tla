---------------------------- MODULE ParkedValues ----------------------------
(***************************************************************************)
(* What parking promises the engine's objects: each keeps the L^ value it  *)
(* was last given, whatever the others do with theirs, until it lets go of *)
(* it or its machine is taken away.  ParkingLot implements this.           *)
(***************************************************************************)
CONSTANTS Owners, Values, Nil

VARIABLE kept   \* the value each owner would get back now

Init == kept = [o \in Owners |-> Nil]

(* One owner is given a value, or lets its own go.                         *)
Keep(o, v) == kept' = [kept EXCEPT ![o] = v]

(* A machine goes: all that was parked on it reads nil from now on.        *)
Lose(S) == kept' = [o \in Owners |-> IF o \in S THEN Nil ELSE kept[o]]

Next ==
  \/ \E o \in Owners, v \in Values \cup {Nil} : Keep(o, v)
  \/ \E S \in SUBSET Owners : Lose(S)

Spec == Init /\ [][Next]_kept
=============================================================================
