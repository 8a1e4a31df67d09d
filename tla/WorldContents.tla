--------------------------- MODULE WorldContents ---------------------------
(***************************************************************************)
(* What destruction promises in a physics world: nothing disappears while  *)
(* a step runs, whatever its callbacks ask; what they asked is gone when   *)
(* update() returns, together with what depended on it; and nothing else   *)
(* is.  Outside a step destruction takes place at once.                    *)
(* PhysicsWorld implements this specification.                             *)
(***************************************************************************)
CONSTANTS
  Things,          \* bodies, shapes and joints
  DependsOn(_)     \* the things one cannot exist without

VARIABLES
  there,     \* is there a world?
  alive,     \* what is in it
  stepping,  \* is it inside a step?
  doomed,    \* what the step's callbacks asked to destroy
  ending     \* did they ask to destroy the world itself?

vars == <<there, alive, stepping, doomed, ending>>

(* S with everything that cannot stay without it.                          *)
WithDependents(S) == {t \in Things : t \in S \/ DependsOn(t) \cap S # {}}

Init == there = FALSE /\ alive = {} /\ stepping = FALSE /\ doomed = {} /\ ending = FALSE

Found ==
  /\ ~there /\ there' = TRUE
  /\ UNCHANGED <<alive, stepping, doomed, ending>>

Create(t) ==
  /\ there /\ ~stepping /\ DependsOn(t) \subseteq alive
  /\ alive' = alive \cup {t}
  /\ UNCHANGED <<there, stepping, doomed, ending>>

DestroyNow(t) ==
  /\ ~stepping /\ t \in alive
  /\ alive' = alive \ WithDependents({t})
  /\ UNCHANGED <<there, stepping, doomed, ending>>

DestroyLater(t) ==
  /\ stepping /\ t \in alive
  /\ doomed' = doomed \cup {t}
  /\ UNCHANGED <<there, alive, stepping, ending>>

EndNow ==
  /\ there /\ ~stepping
  /\ there' = FALSE /\ alive' = {}
  /\ UNCHANGED <<stepping, doomed, ending>>

EndLater ==
  /\ stepping /\ ending' = TRUE
  /\ UNCHANGED <<there, alive, stepping, doomed>>

StepBegins ==
  /\ there /\ ~stepping /\ stepping' = TRUE
  /\ UNCHANGED <<there, alive, doomed, ending>>

StepEnds ==
  /\ stepping /\ stepping' = FALSE
  /\ there' = (there /\ ~ending)
  /\ alive' = IF ending THEN {} ELSE alive \ WithDependents(doomed)
  /\ doomed' = {} /\ ending' = FALSE

Next ==
  \/ Found \/ EndNow \/ EndLater \/ StepBegins \/ StepEnds
  \/ \E t \in Things : Create(t) \/ DestroyNow(t) \/ DestroyLater(t)

Spec == Init /\ [][Next]_vars
=============================================================================
