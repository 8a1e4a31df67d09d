--------------------------- MODULE MCPhysicsWorld ---------------------------
(* Instances of PhysicsWorld for TLC: two bodies with a joint between them *)
(* and a shape each.                                                       *)
EXTENDS PhysicsWorld, TLC

CONSTANTS b, c, s, t, j

BodyOfShape == [x \in {s, t} |-> IF x = s THEN b ELSE c]
EndsOfJoint == [x \in {j} |-> {b, c}]
CanTouch    == {{s, t}}
=============================================================================
