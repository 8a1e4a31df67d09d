---------------------------- MODULE PhysicsWorld ----------------------------
(***************************************************************************)
(* Who owns what in a physics world (modules/physics/box2d).  Every Body,  *)
(* Shape and Joint stands for an object of Box2D's: Box2D holds a          *)
(* reference to it, it holds a pointer into Box2D.  Destroying one makes   *)
(* Box2D destroy what depends on it, with a farewell call for each.        *)
(*                                                                         *)
(* Box2D's world is locked while a step runs.  The step calls the program  *)
(* back about its contacts, and what the program destroys there is kept in *)
(* lists, each entry with a reference, until the step is over.  A Contact  *)
(* is made when the program is first shown a contact of Box2D's; the       *)
(* world's map finds it again by the address.                              *)
(*                                                                         *)
(* The program's callbacks may do anything but two things: they do not     *)
(* call update(), and those that run on an unlocked world (the contacts    *)
(* that end because something is destroyed, the filter of new pairs) do    *)
(* not destroy anything themselves.                                        *)
(***************************************************************************)
EXTENDS Integers

CONSTANTS
  Bodies, Shapes, Joints,
  BodyOf,        \* the body of each shape
  Ends,          \* the two bodies of each joint
  Pairs,         \* the sets of two shapes that can be in contact
  Contacts,      \* the Contact objects: bounds how many there are at a time
  Addresses,     \* where Box2D keeps its contacts
  NoAddress, NoContact, NoPair,
  MaxDeferred,   \* bounds how often one object is put in a destruct list
  ListsApart     \* does the program list contacts that do not touch?

Things == Bodies \cup Shapes \cup Joints

(* What a thing cannot exist without.                                      *)
DependsOn(t) ==
  IF t \in Shapes THEN {BodyOf[t]} ELSE IF t \in Joints THEN Ends[t] ELSE {}

ASSUME PhysicsAssumption ==
  /\ Bodies \cap Shapes = {} /\ Bodies \cap Joints = {} /\ Shapes \cap Joints = {}
  /\ BodyOf \in [Shapes -> Bodies] /\ Ends \in [Joints -> SUBSET Bodies]
  /\ Pairs \subseteq SUBSET Shapes
  /\ NoPair \notin Pairs /\ NoAddress \notin Addresses /\ NoContact \notin Contacts
  /\ MaxDeferred \in Nat /\ ListsApart \in BOOLEAN

VARIABLES
  up,        \* World::world is not null
  worldHeld, \* the program has the World
  phase,     \* "idle", "step" (Box2D is locked) or "after" (update()'s loops)
  ending,    \* destructWorld
  b2,        \* Box2D's bodies, fixtures and joints
  ptr,       \* the objects whose pointer into Box2D is not null
  refs,      \* Object::count of each
  held,      \* the objects the program has a wrapper of
  deferred,  \* destructBodies, destructShapes, destructJoints: entries of each object
  at,        \* the address of each b2Contact, or NoAddress
  touching,  \* the pairs that touch
  known,     \* box2dObjectMap
  con,       \* each Contact's b2Contact, and the pair it was made for
  conHeld,   \* the Contacts the program has a wrapper of
  call       \* the contact callback that runs

contactVars == <<at, touching, known, con>>
vars == <<up, worldHeld, phase, ending, b2, ptr, refs, held, deferred, contactVars, conHeld, call>>

NoCall  == [obj |-> NoContact, pair |-> NoPair, ends |-> FALSE, frees |-> FALSE]
Invalid == [ptr |-> NoAddress, pair |-> NoPair]

Bit(b) == IF b THEN 1 ELSE 0

(* The program runs: between calls, or in a callback.                      *)
Running == phase = "idle" \/ call # NoCall

-----------------------------------------------------------------------------
(* Contacts.                                                               *)

Existing == {p \in Pairs : at[p] # NoAddress}

(* The Contacts that are gone: neither the program nor a callback has them. *)
Unused == {c \in Contacts : c \notin conHeld /\ c # call.obj}

(* Contact::invalidate for the Contacts of C: each erases what the map has *)
(* at its address, whoever that is.                                        *)
KnownWithout(C) ==
  [a \in Addresses |-> IF \E c \in C : con[c].ptr = a THEN NoContact ELSE known[a]]
Invalidated(C) == [c \in Contacts |-> IF c \in C THEN Invalid ELSE con[c]]
Invalidate(C) == known' = KnownWithout(C) /\ con' = Invalidated(C)

(* The Contacts EndContact finds for the contacts of P.                    *)
MutFoundFor(P) == {}
FoundFor(P) == {known[at[p]] : p \in P} \ {NoContact}

-----------------------------------------------------------------------------
Init ==
  /\ up = FALSE /\ worldHeld = FALSE /\ phase = "idle" /\ ending = FALSE
  /\ b2 = {} /\ ptr = {} /\ held = {}
  /\ refs = [t \in Things |-> 0] /\ deferred = [t \in Things |-> 0]
  /\ at = [p \in Pairs |-> NoAddress] /\ touching = {}
  /\ known = [a \in Addresses |-> NoContact]
  /\ con = [c \in Contacts |-> Invalid] /\ conHeld = {}
  /\ call = NoCall

(* newWorld(), once the last one is gone.                                  *)
NewWorld ==
  /\ phase = "idle" /\ ~up /\ ~worldHeld
  /\ up' = TRUE /\ worldHeld' = TRUE /\ ending' = FALSE
  /\ UNCHANGED <<phase, b2, ptr, refs, held, deferred, contactVars, conHeld, call>>

(* newBody(), newCircleShape(), newWeldJoint(): one reference for Box2D,   *)
(* one for the wrapper.  A locked world refuses to create anything.        *)
MutBorn == 1
Born == 2
New(t) ==
  /\ phase = "idle" /\ up /\ worldHeld
  /\ refs[t] = 0 /\ t \notin b2
  /\ DependsOn(t) \subseteq ptr \cap held
  /\ b2' = b2 \cup {t} /\ ptr' = ptr \cup {t} /\ held' = held \cup {t}
  /\ refs' = [refs EXCEPT ![t] = Born]
  /\ UNCHANGED <<up, worldHeld, phase, ending, deferred, contactVars, conHeld, call>>

(* getBodies(), getShapes(), getJoints(): the program gets a wrapper again. *)
Get(t) ==
  /\ Running /\ up /\ worldHeld
  /\ t \in b2 \ held
  /\ held' = held \cup {t} /\ refs' = [refs EXCEPT ![t] = @ + 1]
  /\ UNCHANGED <<up, worldHeld, phase, ending, b2, ptr, deferred, contactVars, conHeld, call>>

(* A wrapper is collected, or disposed of.                                 *)
Drop(t) ==
  /\ Running /\ t \in held
  /\ held' = held \ {t} /\ refs' = [refs EXCEPT ![t] = @ - 1]
  /\ UNCHANGED <<up, worldHeld, phase, ending, b2, ptr, deferred, contactVars, conHeld, call>>

-----------------------------------------------------------------------------
(* Destruction.                                                            *)

(* What b2World::DestroyBody destroys with a body, saying goodbye to each. *)
MutSayGoodbye(t) == {u \in b2 \cap Shapes : t \in DependsOn(u)}
SayGoodbye(t) == {u \in b2 : t \in DependsOn(u)}

(* Body::destroy, Shape::destroy or Joint::destroyJoint on an unlocked     *)
(* world.  The touching contacts of what goes end on the way: the program  *)
(* hears of those in heard, and is shown their shapes.  entry says whether *)
(* update() does this for an entry of its lists, which holds a reference.  *)
Destroyed(t, entry, heard) ==
  LET gone  == {t} \cup {u \in b2 : t \in DependsOn(u)}
      bye   == {t} \cup SayGoodbye(t)
      over  == {p \in Existing : p \cap gone # {}}
      shown == UNION heard
  IN  /\ heard \subseteq over \cap touching
      /\ b2' = b2 \ gone
      /\ ptr' = ptr \ bye
      /\ held' = held \cup shown
      /\ refs' = [u \in Things |-> refs[u] + Bit(u \in shown \ held) - Bit(u \in bye) - Bit(entry /\ u = t)]
      /\ at' = [p \in Pairs |-> IF p \in over THEN NoAddress ELSE at[p]]
      /\ touching' = touching \ over
      /\ Invalidate(FoundFor(over \cap touching))

DestroyNow(t) ==
  /\ phase = "idle" /\ t \in held \cap ptr
  /\ \E heard \in SUBSET Pairs : Destroyed(t, FALSE, heard)
  /\ UNCHANGED <<up, worldHeld, phase, ending, deferred, conHeld, call>>

(* The same from a callback of the step: remembered, with a reference.     *)
MutDestroyLater(t) ==
  /\ phase = "step" /\ call # NoCall /\ t \in held \cap ptr
  /\ Destroyed(t, FALSE, {})
  /\ UNCHANGED <<up, worldHeld, phase, ending, deferred, conHeld, call>>
DestroyLater(t) ==
  /\ phase = "step" /\ call # NoCall /\ t \in held \cap ptr
  /\ deferred[t] < MaxDeferred
  /\ deferred' = [deferred EXCEPT ![t] = @ + 1]
  /\ refs' = [refs EXCEPT ![t] = @ + 1]
  /\ UNCHANGED <<up, worldHeld, phase, ending, b2, ptr, held, contactVars, conHeld, call>>

(* World::destroy on an unlocked world: every body, without a listener.    *)
Collapse ==
  /\ up' = FALSE
  /\ b2' = {} /\ ptr' = ptr \ b2
  /\ refs' = [t \in Things |-> refs[t] - Bit(t \in b2)]
  /\ at' = [p \in Pairs |-> NoAddress] /\ touching' = {}
  /\ Invalidate(FoundFor(touching))

DestroyWorld ==
  /\ Running /\ worldHeld /\ up
  /\ IF phase = "step"
     THEN /\ ending' = TRUE
          /\ UNCHANGED <<up, b2, ptr, refs, contactVars>>
     ELSE Collapse /\ UNCHANGED ending
  /\ UNCHANGED <<worldHeld, phase, held, deferred, conHeld, call>>

(* The World itself is collected.                                          *)
DropWorld ==
  /\ phase = "idle" /\ worldHeld
  /\ worldHeld' = FALSE
  /\ IF up THEN Collapse ELSE UNCHANGED <<up, b2, ptr, refs, contactVars>>
  /\ UNCHANGED <<phase, ending, held, deferred, conHeld, call>>

-----------------------------------------------------------------------------
(* update(): the step, in which Box2D decides what meets and parts.        *)

Update ==
  /\ phase = "idle" /\ up /\ worldHeld
  /\ phase' = "step"
  /\ UNCHANGED <<up, worldHeld, ending, b2, ptr, refs, held, deferred, contactVars, conHeld, call>>

Stepping == phase = "step" /\ call = NoCall

(* A callback for the contact of pair p: the program is shown both shapes  *)
(* and the Contact, which is made if the map knows none.                   *)
ContactFor(p) == IF known[at[p]] # NoContact THEN {known[at[p]]} ELSE Unused
CallBack(p, ends, frees) ==
  \E c \in ContactFor(p) :
    /\ call' = [obj |-> c, pair |-> p, ends |-> ends, frees |-> frees]
    /\ known' = [known EXCEPT ![at[p]] = c]
    /\ con' = [con EXCEPT ![c] = [ptr |-> at[p], pair |-> p]]
    /\ conHeld' = conHeld \cup {c}
    /\ held' = held \cup p
    /\ refs' = [t \in Things |-> refs[t] + Bit(t \in p \ held)]

Silent == UNCHANGED <<refs, held, known, con, conHeld, call>>

(* Two shapes come near, or leave again without having touched.            *)
Near(p) ==
  /\ Stepping /\ p \in Pairs \ Existing /\ p \subseteq b2
  /\ \E a \in Addresses \ {at[q] : q \in Pairs} : at' = [at EXCEPT ![p] = a]
  /\ UNCHANGED <<up, worldHeld, phase, ending, b2, ptr, refs, held, deferred, touching, known, con, conHeld, call>>

Far(p) ==
  /\ Stepping /\ p \in Existing \ touching
  /\ at' = [at EXCEPT ![p] = NoAddress]
  /\ UNCHANGED <<up, worldHeld, phase, ending, b2, ptr, refs, held, deferred, touching, known, con, conHeld, call>>

BeginContact(p) ==
  /\ Stepping /\ p \in Existing \ touching
  /\ touching' = touching \cup {p}
  /\ CallBack(p, FALSE, FALSE) \/ Silent
  /\ UNCHANGED <<up, worldHeld, phase, ending, b2, ptr, deferred, at>>

(* PreSolve and PostSolve.                                                 *)
SolveContact(p) ==
  /\ Stepping /\ p \in touching
  /\ CallBack(p, FALSE, FALSE)
  /\ UNCHANGED <<up, worldHeld, phase, ending, b2, ptr, deferred, at, touching>>

(* World::EndContact, once the listener has returned.  Box2D goes on to    *)
(* free the contact, or keeps it for shapes that are still near.           *)
Ended(p, frees) ==
  /\ touching' = touching \ {p}
  /\ at' = IF frees THEN [at EXCEPT ![p] = NoAddress] ELSE at

EndContact(p) ==
  /\ Stepping /\ p \in touching
  /\ \E frees \in BOOLEAN :
       \/ /\ CallBack(p, TRUE, frees)
          /\ UNCHANGED <<at, touching>>
       \/ /\ Ended(p, frees) /\ Invalidate(FoundFor({p}))
          /\ UNCHANGED <<refs, held, conHeld, call>>
  /\ UNCHANGED <<up, worldHeld, phase, ending, b2, ptr, deferred>>

(* The callback returns: a Contact the program did not keep goes.          *)
Return ==
  /\ call # NoCall
  /\ call' = NoCall
  /\ Invalidate(({call.obj} \ conHeld) \cup (IF call.ends THEN FoundFor({call.pair}) ELSE {}))
  /\ IF call.ends THEN Ended(call.pair, call.frees) ELSE UNCHANGED <<at, touching>>
  /\ UNCHANGED <<up, worldHeld, phase, ending, b2, ptr, refs, held, deferred, conHeld>>

(* World::getContacts: a Contact for each of Box2D's, touching or not.     *)
GetContacts ==
  /\ Running /\ up /\ worldHeld
  /\ ListsApart \/ Existing \subseteq touching
  /\ LET new == {p \in Existing : known[at[p]] = NoContact}
     IN  \E f \in [new -> Unused] :
           /\ \A p, q \in new : f[p] = f[q] => p = q
           /\ known' = [a \in Addresses |->
                         IF \E p \in new : at[p] = a
                         THEN f[CHOOSE p \in new : at[p] = a] ELSE known[a]]
           /\ con' = [c \in Contacts |->
                       IF \E p \in new : f[p] = c
                       THEN LET p == CHOOSE q \in new : f[q] = c IN [ptr |-> at[p], pair |-> p]
                       ELSE con[c]]
           /\ conHeld' = conHeld \cup {known'[at[p]] : p \in Existing}
  /\ UNCHANGED <<up, worldHeld, phase, ending, b2, ptr, refs, held, deferred, at, touching, call>>

(* A Contact's wrapper is collected.                                       *)
DropContact(c) ==
  /\ Running /\ c \in conHeld
  /\ conHeld' = conHeld \ {c}
  /\ IF c = call.obj THEN UNCHANGED <<known, con>> ELSE Invalidate({c})
  /\ UNCHANGED <<up, worldHeld, phase, ending, b2, ptr, refs, held, deferred, at, touching, call>>

StepEnds ==
  /\ Stepping
  /\ phase' = "after"
  /\ UNCHANGED <<up, worldHeld, ending, b2, ptr, refs, held, deferred, contactVars, conHeld, call>>

-----------------------------------------------------------------------------
(* The loops after the step: bodies, then shapes, then joints.  (Among     *)
(* the entries of one list the order is left open.)                        *)
Before(t) == IF t \in Bodies THEN {} ELSE IF t \in Shapes THEN Bodies ELSE Bodies \cup Shapes
MutStillThere(t) == TRUE
StillThere(t) == t \in ptr

CarryOut(t) ==
  /\ phase = "after" /\ deferred[t] > 0
  /\ \A u \in Before(t) : deferred[u] = 0
  /\ deferred' = [deferred EXCEPT ![t] = @ - 1]
  /\ IF StillThere(t)
     THEN \E heard \in SUBSET Pairs : Destroyed(t, TRUE, heard)
     ELSE /\ refs' = [refs EXCEPT ![t] = @ - 1]
          /\ UNCHANGED <<b2, ptr, held, contactVars>>
  /\ UNCHANGED <<up, worldHeld, phase, ending, conHeld, call>>

UpdateEnds ==
  /\ phase = "after" /\ \A t \in Things : deferred[t] = 0
  /\ phase' = "idle"
  /\ IF ending THEN Collapse ELSE UNCHANGED <<up, b2, ptr, refs, contactVars>>
  /\ UNCHANGED <<worldHeld, ending, held, deferred, conHeld, call>>

-----------------------------------------------------------------------------
Next ==
  \/ NewWorld \/ DestroyWorld \/ DropWorld
  \/ Update \/ Return \/ GetContacts \/ StepEnds \/ UpdateEnds
  \/ \E t \in Things :
       New(t) \/ Get(t) \/ Drop(t) \/ DestroyNow(t) \/ DestroyLater(t) \/ CarryOut(t)
  \/ \E p \in Pairs :
       Near(p) \/ Far(p) \/ BeginContact(p) \/ SolveContact(p) \/ EndContact(p)
  \/ \E c \in Contacts : DropContact(c)

Spec == Init /\ [][Next]_vars

-----------------------------------------------------------------------------
TypeOK ==
  /\ up \in BOOLEAN /\ worldHeld \in BOOLEAN /\ ending \in BOOLEAN
  /\ phase \in {"idle", "step", "after"}
  /\ b2 \subseteq Things /\ ptr \subseteq Things /\ held \subseteq Things
  /\ refs \in [Things -> Nat] /\ deferred \in [Things -> 0..MaxDeferred]
  /\ at \in [Pairs -> Addresses \cup {NoAddress}] /\ touching \subseteq Pairs
  /\ known \in [Addresses -> Contacts \cup {NoContact}]
  /\ con \in [Contacts -> [ptr : Addresses \cup {NoAddress}, pair : Pairs \cup {NoPair}]]
  /\ conHeld \subseteq Contacts
  /\ call \in [obj : Contacts \cup {NoContact}, pair : Pairs \cup {NoPair}, ends : BOOLEAN, frees : BOOLEAN]

(* Every reference has an owner: the program's wrapper, Box2D as long as   *)
(* its object exists, and each entry of a destruct list.  So what Box2D's  *)
(* user data names is never deleted, and what Box2D let go of is.          *)
RefsBalanced ==
  \A t \in Things : refs[t] = Bit(t \in held) + Bit(t \in b2) + deferred[t]

(* A pointer into Box2D is not null just as long as what it points to      *)
(* exists, with all it depends on, in a world that does: the guards of the *)
(* bindings, which test the pointer, keep the program off freed memory.    *)
PointersTell ==
  /\ ptr = b2
  /\ \A t \in b2 : up /\ DependsOn(t) \subseteq b2

(* A Contact is valid only while its b2Contact exists and touches, and the *)
(* map leads from the address to it and to nobody else.                    *)
ContactsKnow ==
  /\ \A c \in Contacts : con[c] # Invalid =>
       /\ con[c].pair \in touching /\ at[con[c].pair] = con[c].ptr
       /\ known[con[c].ptr] = c
  /\ \A a \in Addresses : known[a] # NoContact => con[known[a]].ptr = a

(* "True if the contact is still valid or false if it has been destroyed"  *)
(* (Contact.h:72): a valid Contact's b2Contact exists.                     *)
ContactsExist ==
  \A c \in Contacts : con[c] # Invalid => \E p \in Pairs : at[p] = con[c].ptr

(* What is asked of update() is put off until the step is over and done    *)
(* when it returns; nothing else goes.                                     *)
Asked == {t \in Things : deferred[t] > 0}
Contents == INSTANCE WorldContents WITH
  there    <- (up /\ ~(phase = "after" /\ ending)),
  alive    <- (IF phase # "after" THEN b2
               ELSE IF ending THEN {}
               ELSE b2 \ {t \in Things : t \in Asked \/ DependsOn(t) \cap Asked # {}}),
  stepping <- (phase = "step"),
  doomed   <- (IF phase = "step" THEN Asked ELSE {}),
  ending   <- (phase = "step" /\ ending)
ContentsSpec == Contents!Spec
=============================================================================
