------------------------- MODULE PhysicsWorldProofs -------------------------
(***************************************************************************)
(* Theorems about PhysicsWorld for any bodies, shapes, joints and pairs.   *)
(* One inductive invariant, WorldInv, adds to the properties where in      *)
(* update() the world is and what a callback in progress names.            *)
(***************************************************************************)
EXTENDS PhysicsWorld, TLAPS

(* A callback runs only inside a step and is about a contact that touches; *)
(* the destruct lists are empty between updates, and a world that was to   *)
(* end has ended.                                                          *)
PhaseOK ==
  /\ touching \subseteq Existing
  /\ phase # "step" => call = NoCall
  /\ call # NoCall => call.obj \in Contacts /\ call.pair \in touching
  /\ phase # "idle" => up /\ worldHeld
  /\ phase = "idle" => (\A t \in Things : deferred[t] = 0) /\ (up => ~ending)

WorldInv == TypeOK /\ RefsBalanced /\ PointersTell /\ PhaseOK

-----------------------------------------------------------------------------
(* Everything depends on bodies alone, and bodies on nothing.              *)
LEMMA DependsOnBodies ==
  ASSUME NEW t \in Things
  PROVE  /\ DependsOn(t) \subseteq Bodies
         /\ t \in Bodies => DependsOn(t) = {}
  BY PhysicsAssumption DEF DependsOn, Things

(* The shapes of a pair are things.                                        *)
LEMMA PairsAreThings ==
  ASSUME NEW p \in Pairs
  PROVE  p \subseteq Shapes /\ p \subseteq Things
  BY PhysicsAssumption DEF Things

LEMMA BitIsNat == ASSUME NEW b \in BOOLEAN PROVE Bit(b) \in 0..1
  BY DEF Bit

(* Invalidating Contacts leaves the map and the Contacts well typed.       *)
LEMMA InvalidateType ==
  ASSUME TypeOK, NEW C, Invalidate(C)
  PROVE  /\ known' \in [Addresses -> Contacts \cup {NoContact}]
         /\ con' \in [Contacts -> [ptr : Addresses \cup {NoAddress}, pair : Pairs \cup {NoPair}]]
  BY DEF TypeOK, Invalidate, KnownWithout, Invalidated, Invalid

(* So does a callback, which shows the program things and one Contact.     *)
LEMMA CallBackType ==
  ASSUME TypeOK, RefsBalanced, UNCHANGED <<b2, deferred>>,
         NEW p \in Existing, NEW ends \in BOOLEAN, NEW frees \in BOOLEAN, CallBack(p, ends, frees)
  PROVE  /\ held' \subseteq Things /\ refs' \in [Things -> Nat] /\ RefsBalanced'
         /\ known' \in [Addresses -> Contacts \cup {NoContact}]
         /\ con' \in [Contacts -> [ptr : Addresses \cup {NoAddress}, pair : Pairs \cup {NoPair}]]
         /\ conHeld' \subseteq Contacts
         /\ call' \in [obj : Contacts \cup {NoContact}, pair : Pairs \cup {NoPair}, ends : BOOLEAN, frees : BOOLEAN]
         /\ call'.obj \in Contacts /\ call'.pair = p /\ call' # NoCall
<1>1. p \in Pairs /\ at[p] \in Addresses
  BY DEF Existing, TypeOK
<1>2. PICK c \in ContactFor(p) :
        /\ call' = [obj |-> c, pair |-> p, ends |-> ends, frees |-> frees]
        /\ known' = [known EXCEPT ![at[p]] = c]
        /\ con' = [con EXCEPT ![c] = [ptr |-> at[p], pair |-> p]]
        /\ conHeld' = conHeld \cup {c}
        /\ held' = held \cup p
        /\ refs' = [t \in Things |-> refs[t] + Bit(t \in p \ held)]
  BY DEF CallBack
<1>3. c \in Contacts /\ c # NoContact
  BY <1>1, PhysicsAssumption DEF ContactFor, Unused, TypeOK
<1>4. p \subseteq Things
  BY <1>1, PairsAreThings
<1>5. held' \subseteq Things /\ refs' \in [Things -> Nat] /\ RefsBalanced'
  <2>1. held' \subseteq Things
    BY <1>2, <1>4 DEF TypeOK
  <2>2. \A t \in Things : refs'[t] = refs[t] + Bit(t \in p \ held)
    BY <1>2
  <2>3. refs' \in [Things -> Nat]
    BY <1>2 DEF TypeOK, Bit
  <2>4. \A t \in Things : refs'[t] = Bit(t \in held') + Bit(t \in b2') + deferred'[t]
    BY <1>2, <2>2 DEF TypeOK, RefsBalanced, Bit
  <2> QED BY <2>1, <2>3, <2>4 DEF RefsBalanced
<1>6. /\ known' \in [Addresses -> Contacts \cup {NoContact}]
      /\ con' \in [Contacts -> [ptr : Addresses \cup {NoAddress}, pair : Pairs \cup {NoPair}]]
      /\ conHeld' \subseteq Contacts
  BY <1>1, <1>2, <1>3 DEF TypeOK
<1>7. /\ call' \in [obj : Contacts \cup {NoContact}, pair : Pairs \cup {NoPair}, ends : BOOLEAN, frees : BOOLEAN]
      /\ call'.obj \in Contacts /\ call'.pair = p /\ call' # NoCall
  BY <1>1, <1>2, <1>3 DEF NoCall
<1> QED BY <1>5, <1>6, <1>7

(* What destroying one thing leaves: the thing and its dependents are      *)
(* gone on both sides, and what stays keeps what it depends on.            *)
LEMMA DestroyedLeaves ==
  ASSUME TypeOK, RefsBalanced, PointersTell, touching \subseteq Existing,
         NEW t \in ptr, NEW entry \in BOOLEAN, NEW heard \in SUBSET Pairs,
         Destroyed(t, entry, heard)
  PROVE  /\ b2' = b2 \ {u \in Things : u = t \/ t \in DependsOn(u)}
         /\ b2' \subseteq Things /\ ptr' = b2' /\ held' \subseteq Things
         /\ \A u \in b2' : DependsOn(u) \subseteq b2'
         /\ refs' = [u \in Things |-> refs[u] + Bit(u \in held' \ held) - Bit(u \in b2 \ b2') - Bit(entry /\ u = t)]
         /\ held \subseteq held'
         /\ at' \in [Pairs -> Addresses \cup {NoAddress}]
         /\ touching' \subseteq Pairs
         /\ touching' \subseteq {p \in Pairs : at'[p] # NoAddress}
         /\ known' \in [Addresses -> Contacts \cup {NoContact}]
         /\ con' \in [Contacts -> [ptr : Addresses \cup {NoAddress}, pair : Pairs \cup {NoPair}]]
<1> DEFINE gone == {t} \cup {u \in b2 : t \in DependsOn(u)}
           over == {p \in Existing : p \cap gone # {}}
<1>1. /\ b2' = b2 \ gone /\ ptr' = ptr \ gone
      /\ held' = held \cup UNION heard
      /\ refs' = [u \in Things |-> refs[u] + Bit(u \in (UNION heard) \ held) - Bit(u \in gone) - Bit(entry /\ u = t)]
      /\ at' = [p \in Pairs |-> IF p \in over THEN NoAddress ELSE at[p]]
      /\ touching' = touching \ over
      /\ Invalidate(FoundFor(over \cap touching))
  BY DEF Destroyed, SayGoodbye
<1>2. t \in b2 /\ ptr = b2 /\ b2 \subseteq Things
  BY DEF PointersTell, TypeOK
<1>3. b2' = b2 \ {u \in Things : u = t \/ t \in DependsOn(u)}
  BY <1>1, <1>2
<1>4. b2' \subseteq Things /\ ptr' = b2'
  BY <1>1, <1>2
<1>5. held' \subseteq Things /\ held \subseteq held'
  BY <1>1, PairsAreThings DEF TypeOK
<1>6. \A u \in b2' : DependsOn(u) \subseteq b2'
  <2> SUFFICES ASSUME NEW u \in b2', NEW v \in DependsOn(u) PROVE v \in b2'
    OBVIOUS
  <2>1. u \in b2 /\ u \in Things /\ v # t /\ v \in b2
    BY <1>1, <1>2 DEF PointersTell
  <2>2. v \in Bodies /\ v \in Things
    BY <2>1, DependsOnBodies DEF Things
  <2>3. v \notin gone
    BY <2>1, <2>2, DependsOnBodies
  <2> QED BY <2>1, <2>3, <1>1
<1>7. refs' = [u \in Things |-> refs[u] + Bit(u \in held' \ held) - Bit(u \in b2 \ b2') - Bit(entry /\ u = t)]
  <2>1. held' \ held = (UNION heard) \ held
    BY <1>1
  <2>2. b2 \ b2' = gone
    BY <1>1, <1>2
  <2> QED BY <1>1, <2>1, <2>2
<1>8. at' \in [Pairs -> Addresses \cup {NoAddress}] /\ touching' \subseteq Pairs
  BY <1>1 DEF TypeOK
<1>9. touching' \subseteq {p \in Pairs : at'[p] # NoAddress}
  BY <1>1 DEF Existing, TypeOK
<1>10. /\ known' \in [Addresses -> Contacts \cup {NoContact}]
       /\ con' \in [Contacts -> [ptr : Addresses \cup {NoAddress}, pair : Pairs \cup {NoPair}]]
  BY <1>1, InvalidateType
<1> QED BY <1>3, <1>4, <1>5, <1>6, <1>7, <1>8, <1>9, <1>10

(* What the end of the world leaves: nothing of Box2D's.                   *)
LEMMA CollapseLeaves ==
  ASSUME TypeOK, RefsBalanced, PointersTell, Collapse, UNCHANGED <<held, deferred>>
  PROVE  /\ ~up' /\ b2' = {} /\ ptr' = {} /\ touching' = {}
         /\ refs' \in [Things -> Nat] /\ RefsBalanced'
         /\ at' = [p \in Pairs |-> NoAddress]
         /\ known' \in [Addresses -> Contacts \cup {NoContact}]
         /\ con' \in [Contacts -> [ptr : Addresses \cup {NoAddress}, pair : Pairs \cup {NoPair}]]
<1>1. /\ known' \in [Addresses -> Contacts \cup {NoContact}]
      /\ con' \in [Contacts -> [ptr : Addresses \cup {NoAddress}, pair : Pairs \cup {NoPair}]]
  BY InvalidateType DEF Collapse
<1>2. \A t \in Things : refs'[t] = Bit(t \in held') + Bit(t \in b2') + deferred'[t] /\ refs'[t] \in Nat
  BY DEF Collapse, RefsBalanced, TypeOK, Bit
<1>3. refs' \in [Things -> Nat]
  BY <1>2 DEF Collapse
<1> QED BY <1>1, <1>2, <1>3 DEF Collapse, PointersTell, RefsBalanced

-----------------------------------------------------------------------------
(* The counts after a destruction: the entry update() worked on is given   *)
(* back with the reference it held.                                        *)
LEMMA DestroyedCounts ==
  ASSUME TypeOK, RefsBalanced, PointersTell, touching \subseteq Existing,
         NEW t \in ptr, NEW entry \in BOOLEAN, NEW heard \in SUBSET Pairs,
         Destroyed(t, entry, heard),
         entry => deferred[t] > 0,
         deferred' = [deferred EXCEPT ![t] = @ - Bit(entry)]
  PROVE  refs' \in [Things -> Nat] /\ RefsBalanced' /\ deferred' \in [Things -> 0..MaxDeferred]
<1>1. /\ b2' \subseteq b2 /\ held \subseteq held' /\ t \in Things
      /\ refs' = [u \in Things |-> refs[u] + Bit(u \in held' \ held) - Bit(u \in b2 \ b2') - Bit(entry /\ u = t)]
  BY DestroyedLeaves DEF TypeOK
<1>2. deferred' \in [Things -> 0..MaxDeferred]
  BY <1>1, PhysicsAssumption DEF TypeOK, Bit
<1>3. ASSUME NEW u \in Things
      PROVE  refs'[u] = Bit(u \in held') + Bit(u \in b2') + deferred'[u] /\ refs'[u] \in Nat
  <2>1. refs[u] = Bit(u \in held) + Bit(u \in b2) + deferred[u] /\ deferred[u] \in Nat
    BY DEF RefsBalanced, TypeOK
  <2>2. refs'[u] = refs[u] + Bit(u \in held' \ held) - Bit(u \in b2 \ b2') - Bit(entry /\ u = t)
    BY <1>1
  <2>3. deferred'[u] = deferred[u] - Bit(entry /\ u = t) /\ deferred'[u] \in Nat
    BY <1>2, <2>1 DEF TypeOK, Bit
  <2> QED BY <1>1, <2>1, <2>2, <2>3 DEF Bit
<1>4. refs' \in [Things -> Nat]
  BY <1>1, <1>3
<1> QED BY <1>2, <1>3, <1>4 DEF RefsBalanced

LEMMA InitWorldInv == Init => WorldInv
<1> SUFFICES ASSUME Init PROVE WorldInv
  OBVIOUS
<1>1. TypeOK
  <2>1. refs \in [Things -> Nat] /\ deferred \in [Things -> 0..MaxDeferred]
    BY PhysicsAssumption DEF Init
  <2>2. /\ con \in [Contacts -> [ptr : Addresses \cup {NoAddress}, pair : Pairs \cup {NoPair}]]
        /\ call \in [obj : Contacts \cup {NoContact}, pair : Pairs \cup {NoPair}, ends : BOOLEAN, frees : BOOLEAN]
    BY DEF Init, Invalid, NoCall
  <2> QED BY <2>1, <2>2 DEF Init, TypeOK
<1>2. RefsBalanced
  BY DEF Init, RefsBalanced, Bit
<1>3. PointersTell /\ PhaseOK
  BY DEF Init, PointersTell, PhaseOK
<1> QED BY <1>1, <1>2, <1>3 DEF WorldInv

LEMMA NextWorldInv == WorldInv /\ [Next]_vars => WorldInv'
<1> SUFFICES ASSUME WorldInv, [Next]_vars PROVE WorldInv'
  OBVIOUS
<1> USE DEF WorldInv
<1>1. CASE NewWorld
  BY <1>1 DEF NewWorld, contactVars, TypeOK, RefsBalanced, PointersTell, PhaseOK, Existing
<1>2. CASE DestroyWorld
  <2>1. CASE phase = "step"
    BY <1>2, <2>1 DEF DestroyWorld, contactVars, TypeOK, RefsBalanced, PointersTell, PhaseOK, Existing
  <2>2. CASE phase # "step"
    <3>1. Collapse /\ phase = "idle" /\ UNCHANGED <<worldHeld, phase, ending, held, deferred, conHeld, call>>
      BY <1>2, <2>2 DEF DestroyWorld, Running, PhaseOK
    <3> QED BY <3>1, CollapseLeaves DEF Collapse, TypeOK, PointersTell, PhaseOK
  <2> QED BY <2>1, <2>2
<1>3. CASE DropWorld
  <2>1. CASE up
    <3>1. Collapse /\ phase = "idle" /\ worldHeld' = FALSE /\ UNCHANGED <<phase, ending, held, deferred, conHeld, call>>
      BY <1>3, <2>1 DEF DropWorld
    <3> QED BY <3>1, CollapseLeaves DEF Collapse, TypeOK, PointersTell, PhaseOK
  <2>2. CASE ~up
    BY <1>3, <2>2 DEF DropWorld, contactVars, TypeOK, RefsBalanced, PointersTell, PhaseOK, Existing
  <2> QED BY <2>1, <2>2
<1>4. CASE Update
  BY <1>4 DEF Update, contactVars, TypeOK, RefsBalanced, PointersTell, PhaseOK, Existing
<1>5. CASE Return
  <2>1. /\ call' = NoCall /\ at' \in [Pairs -> Addresses \cup {NoAddress}]
        /\ touching' \subseteq Pairs /\ touching' \subseteq {p \in Pairs : at'[p] # NoAddress}
    BY <1>5 DEF Return, Ended, TypeOK, PhaseOK, Existing
  <2>2. /\ known' \in [Addresses -> Contacts \cup {NoContact}]
        /\ con' \in [Contacts -> [ptr : Addresses \cup {NoAddress}, pair : Pairs \cup {NoPair}]]
    BY <1>5, InvalidateType DEF Return
  <2>3. NoCall \in [obj : Contacts \cup {NoContact}, pair : Pairs \cup {NoPair}, ends : BOOLEAN, frees : BOOLEAN]
    BY DEF NoCall
  <2> QED BY <1>5, <2>1, <2>2, <2>3 DEF Return, TypeOK, RefsBalanced, PointersTell, PhaseOK, Existing
<1>6. CASE GetContacts
  <2>1. /\ known' \in [Addresses -> Contacts \cup {NoContact}]
        /\ con' \in [Contacts -> [ptr : Addresses \cup {NoAddress}, pair : Pairs \cup {NoPair}]]
        /\ conHeld' \subseteq Contacts
    <3> DEFINE new == {p \in Existing : known[at[p]] = NoContact}
    <3>1. PICK f \in [new -> Unused] :
            /\ known' = [a \in Addresses |->
                         IF \E p \in new : at[p] = a
                         THEN f[CHOOSE p \in new : at[p] = a] ELSE known[a]]
            /\ con' = [c \in Contacts |->
                       IF \E p \in new : f[p] = c
                       THEN LET p == CHOOSE q \in new : f[q] = c IN [ptr |-> at[p], pair |-> p]
                       ELSE con[c]]
            /\ conHeld' = conHeld \cup {known'[at[p]] : p \in Existing}
      BY <1>6 DEF GetContacts
    <3>2. \A p \in new : f[p] \in Contacts /\ at[p] \in Addresses /\ p \in Pairs
      BY DEF Unused, Existing, TypeOK
    <3>3. known' \in [Addresses -> Contacts \cup {NoContact}]
      BY <3>1, <3>2 DEF TypeOK
    <3>4. con' \in [Contacts -> [ptr : Addresses \cup {NoAddress}, pair : Pairs \cup {NoPair}]]
      BY <3>1, <3>2 DEF TypeOK
    <3>5. ASSUME NEW p \in Existing PROVE known'[at[p]] \in Contacts
      <4>1. p \in Pairs /\ at[p] \in Addresses
        BY DEF Existing, TypeOK
      <4>2. CASE p \in new
        BY <3>1, <3>2, <4>1, <4>2
      <4>3. CASE p \notin new
        BY <3>1, <3>2, <4>1, <4>3 DEF TypeOK
      <4> QED BY <4>2, <4>3
    <3>6. conHeld' \subseteq Contacts
      <4>1. conHeld' = conHeld \cup {known'[at[p]] : p \in Existing}
        BY <3>1
      <4> QED BY <3>5, <4>1 DEF TypeOK
    <3> QED BY <3>3, <3>4, <3>6
  <2> QED BY <1>6, <2>1 DEF GetContacts, TypeOK, RefsBalanced, PointersTell, PhaseOK, Existing
<1>7. CASE StepEnds
  BY <1>7 DEF StepEnds, Stepping, contactVars, TypeOK, RefsBalanced, PointersTell, PhaseOK, Existing
<1>8. CASE UpdateEnds
  <2>1. CASE ending
    <3>1. Collapse /\ phase' = "idle" /\ UNCHANGED <<worldHeld, ending, held, deferred, conHeld, call>>
      BY <1>8, <2>1 DEF UpdateEnds
    <3> QED BY <1>8, <3>1, CollapseLeaves DEF UpdateEnds, Collapse, TypeOK, PointersTell, PhaseOK
  <2>2. CASE ~ending
    BY <1>8, <2>2 DEF UpdateEnds, contactVars, TypeOK, RefsBalanced, PointersTell, PhaseOK, Existing
  <2> QED BY <2>1, <2>2
<1>9. ASSUME NEW t \in Things, New(t) PROVE WorldInv'
  <2>1. /\ DependsOn(t) \subseteq b2 /\ t \notin b2 /\ deferred[t] = 0 /\ refs[t] = 0
    BY <1>9 DEF New, PointersTell, PhaseOK
  <2>2. t \notin held
    BY <2>1 DEF RefsBalanced, Bit
  <2>3. RefsBalanced'
    <3>1. /\ b2' = b2 \cup {t} /\ held' = held \cup {t} /\ deferred' = deferred
          /\ refs' = [refs EXCEPT ![t] = 2]
      BY <1>9 DEF New, Born
    <3>2. ASSUME NEW u \in Things PROVE refs'[u] = Bit(u \in held') + Bit(u \in b2') + deferred'[u]
      <4>1. refs[u] = Bit(u \in held) + Bit(u \in b2) + deferred[u]
        BY DEF RefsBalanced
      <4> QED BY <2>1, <3>1, <4>1 DEF TypeOK, Bit
    <3> QED BY <3>2 DEF RefsBalanced
  <2>4. TypeOK'
    BY <1>9 DEF New, Born, contactVars, TypeOK
  <2> QED BY <1>9, <2>1, <2>3, <2>4 DEF New, contactVars, PointersTell, PhaseOK, Existing
<1>10. ASSUME NEW t \in Things, Get(t) PROVE WorldInv'
  BY <1>10 DEF Get, contactVars, TypeOK, RefsBalanced, PointersTell, PhaseOK, Existing, Bit
<1>11. ASSUME NEW t \in Things, Drop(t) PROVE WorldInv'
  BY <1>11 DEF Drop, contactVars, TypeOK, RefsBalanced, PointersTell, PhaseOK, Existing, Bit
<1>12. ASSUME NEW t \in Things, DestroyNow(t) PROVE WorldInv'
  <2>1. /\ t \in ptr /\ phase = "idle" /\ call = NoCall
        /\ UNCHANGED <<up, worldHeld, phase, ending, deferred, conHeld, call>>
    BY <1>12 DEF DestroyNow, PhaseOK
  <2>2. PICK heard \in SUBSET Pairs : Destroyed(t, FALSE, heard)
    BY <1>12 DEF DestroyNow
  <2>3. deferred' = [deferred EXCEPT ![t] = @ - Bit(FALSE)]
    BY <2>1 DEF TypeOK, Bit
  <2>4. refs' \in [Things -> Nat] /\ RefsBalanced'
    BY <2>1, <2>2, <2>3, DestroyedCounts DEF PhaseOK
  <2> HIDE DEF WorldInv
  <2>5. TypeOK /\ RefsBalanced /\ PointersTell /\ touching \subseteq Existing
    BY DEF WorldInv, PhaseOK
  <2>6. PointersTell' /\ TypeOK' /\ PhaseOK'
    BY <2>1, <2>2, <2>4, <2>5, DestroyedLeaves DEF WorldInv, PointersTell, TypeOK, PhaseOK, Existing
  <2> QED BY <2>4, <2>6 DEF WorldInv
<1>13. ASSUME NEW t \in Things, DestroyLater(t) PROVE WorldInv'
  BY <1>13, PhysicsAssumption DEF DestroyLater, contactVars, TypeOK, RefsBalanced, PointersTell, PhaseOK, Existing, Bit
<1>14. ASSUME NEW t \in Things, CarryOut(t) PROVE WorldInv'
  <2>1. /\ phase = "after" /\ deferred[t] > 0 /\ call = NoCall
        /\ deferred' = [deferred EXCEPT ![t] = @ - 1]
        /\ UNCHANGED <<up, worldHeld, phase, ending, conHeld, call>>
    BY <1>14 DEF CarryOut, PhaseOK
  <2>2. CASE t \in ptr
    <3>1. PICK heard \in SUBSET Pairs : Destroyed(t, TRUE, heard)
      BY <1>14, <2>2 DEF CarryOut, StillThere
    <3>2. deferred' = [deferred EXCEPT ![t] = @ - Bit(TRUE)]
      BY <2>1 DEF Bit
    <3>3. refs' \in [Things -> Nat] /\ RefsBalanced' /\ deferred' \in [Things -> 0..MaxDeferred]
      BY <2>1, <2>2, <3>1, <3>2, DestroyedCounts DEF PhaseOK
    <3> HIDE DEF WorldInv
    <3>4. TypeOK /\ RefsBalanced /\ PointersTell /\ touching \subseteq Existing
      BY DEF WorldInv, PhaseOK
    <3>5. PointersTell' /\ TypeOK' /\ PhaseOK'
      BY <2>1, <2>2, <3>1, <3>3, <3>4, DestroyedLeaves DEF WorldInv, PointersTell, TypeOK, PhaseOK, Existing
    <3> QED BY <3>3, <3>5 DEF WorldInv
  <2>3. CASE t \notin ptr
    <3>1. refs' = [refs EXCEPT ![t] = @ - 1] /\ UNCHANGED <<b2, ptr, held, contactVars>>
      BY <1>14, <2>3 DEF CarryOut, StillThere
    <3> QED BY <2>1, <3>1, PhysicsAssumption DEF contactVars, TypeOK, RefsBalanced, PointersTell, PhaseOK, Existing, Bit
  <2> QED BY <2>2, <2>3
<1>15. ASSUME NEW p \in Pairs, Near(p) PROVE WorldInv'
  BY <1>15 DEF Near, Stepping, TypeOK, RefsBalanced, PointersTell, PhaseOK, Existing
<1>16. ASSUME NEW p \in Pairs, Far(p) PROVE WorldInv'
  BY <1>16 DEF Far, Stepping, TypeOK, RefsBalanced, PointersTell, PhaseOK, Existing
<1>17. ASSUME NEW p \in Pairs, BeginContact(p) PROVE WorldInv'
  <2>1. CASE CallBack(p, FALSE, FALSE)
    BY <1>17, <2>1, CallBackType DEF BeginContact, Stepping, TypeOK, PointersTell, PhaseOK, Existing
  <2>2. CASE Silent
    BY <1>17, <2>2 DEF BeginContact, Stepping, Silent, TypeOK, RefsBalanced, PointersTell, PhaseOK, Existing
  <2> QED BY <1>17, <2>1, <2>2 DEF BeginContact
<1>18. ASSUME NEW p \in Pairs, SolveContact(p) PROVE WorldInv'
  BY <1>18, CallBackType DEF SolveContact, Stepping, TypeOK, PointersTell, PhaseOK, Existing
<1>19. ASSUME NEW p \in Pairs, EndContact(p) PROVE WorldInv'
  <2>1. PICK frees \in BOOLEAN :
          \/ CallBack(p, TRUE, frees) /\ UNCHANGED <<at, touching>>
          \/ Ended(p, frees) /\ Invalidate(FoundFor({p})) /\ UNCHANGED <<refs, held, conHeld, call>>
    BY <1>19 DEF EndContact
  <2>2. Stepping /\ p \in touching /\ UNCHANGED <<up, worldHeld, phase, ending, b2, ptr, deferred>>
    BY <1>19 DEF EndContact
  <2>3. CASE CallBack(p, TRUE, frees) /\ UNCHANGED <<at, touching>>
    <3>1. p \in Existing /\ UNCHANGED <<b2, deferred>>
      BY <2>2 DEF PhaseOK
    <3>2. /\ held' \subseteq Things /\ refs' \in [Things -> Nat] /\ RefsBalanced'
          /\ known' \in [Addresses -> Contacts \cup {NoContact}]
          /\ con' \in [Contacts -> [ptr : Addresses \cup {NoAddress}, pair : Pairs \cup {NoPair}]]
          /\ conHeld' \subseteq Contacts
          /\ call' \in [obj : Contacts \cup {NoContact}, pair : Pairs \cup {NoPair}, ends : BOOLEAN, frees : BOOLEAN]
          /\ call'.obj \in Contacts /\ call'.pair = p
      BY <2>3, <3>1, CallBackType
    <3> QED BY <2>2, <2>3, <3>2 DEF Stepping, TypeOK, PointersTell, PhaseOK, Existing
  <2>4. CASE Ended(p, frees) /\ Invalidate(FoundFor({p})) /\ UNCHANGED <<refs, held, conHeld, call>>
    BY <2>2, <2>4, InvalidateType DEF Stepping, Ended, TypeOK, RefsBalanced, PointersTell, PhaseOK, Existing
  <2> QED BY <2>1, <2>3, <2>4
<1>20. ASSUME NEW c \in Contacts, DropContact(c) PROVE WorldInv'
  <2>1. /\ known' \in [Addresses -> Contacts \cup {NoContact}]
        /\ con' \in [Contacts -> [ptr : Addresses \cup {NoAddress}, pair : Pairs \cup {NoPair}]]
    BY <1>20, InvalidateType DEF DropContact, TypeOK
  <2> QED BY <1>20, <2>1 DEF DropContact, TypeOK, RefsBalanced, PointersTell, PhaseOK, Existing
<1>21. CASE UNCHANGED vars
  BY <1>21 DEF vars, contactVars, TypeOK, RefsBalanced, PointersTell, PhaseOK, Existing
<1> QED
  BY <1>1, <1>2, <1>3, <1>4, <1>5, <1>6, <1>7, <1>8, <1>9, <1>10, <1>11, <1>12, <1>13, <1>14,
     <1>15, <1>16, <1>17, <1>18, <1>19, <1>20, <1>21 DEF Next

(* WorldInv holds in every reachable state.                                *)
THEOREM WorldInvHolds == Spec => []WorldInv
<1> QED BY InitWorldInv, NextWorldInv, PTL DEF Spec

(* The count of every object is the number of its owners: the program's    *)
(* wrapper, Box2D, and the entries of the destruct lists.                  *)
THEOREM RefsBalancedHolds == Spec => []RefsBalanced
<1>1. WorldInv => RefsBalanced
  BY DEF WorldInv
<1> QED BY <1>1, WorldInvHolds, PTL

(* A pointer into Box2D is not null just while what it points to exists,   *)
(* so the bindings' guards are enough.                                     *)
THEOREM PointersTellHolds == Spec => []PointersTell
<1>1. WorldInv => PointersTell
  BY DEF WorldInv
<1> QED BY <1>1, WorldInvHolds, PTL

(* The model's type invariant.                                             *)
THEOREM TypeOKHolds == Spec => []TypeOK
<1>1. WorldInv => TypeOK
  BY DEF WorldInv
<1> QED BY <1>1, WorldInvHolds, PTL

-----------------------------------------------------------------------------
(* The refinement.                                                         *)

LEMMA InitContents == Init => Contents!Init
  BY DEF Init, Contents!Init

LEMMA NextContents ==
  ASSUME WorldInv, [Next]_vars
  PROVE  [Contents!Next]_(Contents!vars)
<1> DEFINE D(S) == {t \in Things : t \in S \/ DependsOn(t) \cap S # {}}
<1>0. TypeOK /\ PointersTell /\ PhaseOK
  BY DEF WorldInv
<1>a. ASSUME UNCHANGED <<up, phase, ending, b2, deferred>> PROVE UNCHANGED Contents!vars
  BY <1>a DEF Contents!vars, Asked
<1>1. CASE NewWorld
  <2>1. Contents!Found
    BY <1>0, <1>1 DEF NewWorld, Contents!Found, PhaseOK, Asked
  <2> QED BY <2>1 DEF Contents!Next
<1>2. CASE DestroyWorld
  <2>1. CASE phase = "step"
    <3>1. Contents!EndLater
      BY <1>0, <1>2, <2>1 DEF DestroyWorld, Contents!EndLater, Asked
    <3> QED BY <3>1 DEF Contents!Next
  <2>2. CASE phase # "step"
    <3>1. Contents!EndNow
      BY <1>0, <1>2, <2>2 DEF DestroyWorld, Collapse, Running, PhaseOK, Contents!EndNow, Asked
    <3> QED BY <3>1 DEF Contents!Next
  <2> QED BY <2>1, <2>2
<1>3. CASE DropWorld
  <2>1. CASE up
    <3>1. Contents!EndNow
      BY <1>0, <1>3, <2>1 DEF DropWorld, Collapse, PhaseOK, Contents!EndNow, Asked
    <3> QED BY <3>1 DEF Contents!Next
  <2>2. CASE ~up
    BY <1>3, <2>2, <1>a DEF DropWorld
  <2> QED BY <2>1, <2>2
<1>4. CASE Update
  <2>1. Contents!StepBegins
    BY <1>0, <1>4 DEF Update, PhaseOK, TypeOK, Contents!StepBegins, Asked
  <2> QED BY <2>1 DEF Contents!Next
<1>5. CASE Return
  BY <1>5, <1>a DEF Return
<1>6. CASE GetContacts
  BY <1>6, <1>a DEF GetContacts
<1>7. CASE StepEnds
  <2>1. Contents!StepEnds
    BY <1>0, <1>7 DEF StepEnds, Stepping, PhaseOK, Contents!StepEnds, Contents!WithDependents, Asked
  <2> QED BY <2>1 DEF Contents!Next
<1>8. CASE UpdateEnds
  <2>1. Asked = {} /\ Asked' = {}
    BY <1>0, <1>8 DEF UpdateEnds, Asked
  <2>2. CASE ending
    BY <1>0, <1>8, <2>1, <2>2 DEF UpdateEnds, Collapse, Contents!vars
  <2>3. CASE ~ending
    BY <1>0, <1>8, <2>1, <2>3 DEF UpdateEnds, Contents!vars, TypeOK
  <2> QED BY <2>2, <2>3
<1>9. ASSUME NEW t \in Things, New(t) PROVE Contents!Next
  <2>1. Contents!Create(t)
    BY <1>0, <1>9 DEF New, PointersTell, Contents!Create, Asked
  <2> QED BY <2>1 DEF Contents!Next
<1>10. ASSUME NEW t \in Things, Get(t) PROVE UNCHANGED Contents!vars
  BY <1>10, <1>a DEF Get
<1>11. ASSUME NEW t \in Things, Drop(t) PROVE UNCHANGED Contents!vars
  BY <1>11, <1>a DEF Drop
<1>12. ASSUME NEW t \in Things, DestroyNow(t) PROVE Contents!Next
  <2>1. /\ t \in ptr /\ phase = "idle"
        /\ UNCHANGED <<up, worldHeld, phase, ending, deferred, conHeld, call>>
    BY <1>12 DEF DestroyNow
  <2>2. b2' = b2 \ D({t})
    <3>1. PICK heard \in SUBSET Pairs : Destroyed(t, FALSE, heard)
      BY <1>12 DEF DestroyNow
    <3>2. b2' = b2 \ {u \in Things : u = t \/ t \in DependsOn(u)}
      BY <2>1, <3>1, DestroyedLeaves DEF WorldInv, PhaseOK
    <3> QED BY <3>2
  <2>3. Contents!DestroyNow(t)
    BY <1>0, <2>1, <2>2 DEF PointersTell, Contents!DestroyNow, Contents!WithDependents, Asked
  <2> QED BY <2>3 DEF Contents!Next
<1>13. ASSUME NEW t \in Things, DestroyLater(t) PROVE Contents!Next
  <2>1. Asked' = Asked \cup {t}
    BY <1>0, <1>13 DEF DestroyLater, Asked, TypeOK
  <2>2. Contents!DestroyLater(t)
    BY <1>0, <1>13, <2>1 DEF DestroyLater, PointersTell, Contents!DestroyLater
  <2> QED BY <2>2 DEF Contents!Next
<1>14. ASSUME NEW t \in Things, CarryOut(t) PROVE UNCHANGED Contents!vars
  <2>1. /\ phase = "after" /\ t \in Asked
        /\ deferred' = [deferred EXCEPT ![t] = @ - 1]
        /\ UNCHANGED <<up, phase, ending>>
    BY <1>14 DEF CarryOut, Asked
  <2>2. Asked' \cup {t} = Asked
    BY <1>0, <2>1 DEF Asked, TypeOK
  <2>3. b2' = b2 \ D({t})
    <3>1. CASE t \in ptr
      <4>1. PICK heard \in SUBSET Pairs : Destroyed(t, TRUE, heard)
        BY <1>14, <3>1 DEF CarryOut, StillThere
      <4>2. b2' = b2 \ {u \in Things : u = t \/ t \in DependsOn(u)}
        BY <3>1, <4>1, DestroyedLeaves DEF WorldInv, PhaseOK
      <4> QED BY <4>2
    <3>2. CASE t \notin ptr
      <4>1. b2' = b2 /\ t \notin b2
        BY <1>0, <1>14, <3>2 DEF CarryOut, StillThere, PointersTell
      <4>2. \A u \in b2 : t \notin DependsOn(u)
        BY <1>0, <4>1 DEF PointersTell
      <4> QED BY <4>1, <4>2
    <3> QED BY <3>1, <3>2
  <2>4. b2 \ D(Asked) = b2' \ D(Asked')
    <3>1. D(Asked) = D(Asked') \cup D({t})
      BY <2>2
    <3> QED BY <2>3, <3>1
  <2> QED BY <2>1, <2>4 DEF Contents!vars
<1>15. ASSUME NEW p \in Pairs, Near(p) \/ Far(p) \/ BeginContact(p) \/ SolveContact(p) \/ EndContact(p)
       PROVE  UNCHANGED Contents!vars
  BY <1>15, <1>a DEF Near, Far, BeginContact, SolveContact, EndContact
<1>16. ASSUME NEW c \in Contacts, DropContact(c) PROVE UNCHANGED Contents!vars
  BY <1>16, <1>a DEF DropContact
<1>17. CASE UNCHANGED vars
  BY <1>17, <1>a DEF vars
<1> QED
  BY <1>1, <1>2, <1>3, <1>4, <1>5, <1>6, <1>7, <1>8, <1>9, <1>10, <1>11, <1>12, <1>13, <1>14,
     <1>15, <1>16, <1>17 DEF Next

(* Every behaviour of the world with its lists and its Contacts is one of  *)
(* WorldContents: destruction is put off inside a step, complete after it. *)
THEOREM WorldImplementsContents == Spec => ContentsSpec
<1>1. WorldInv /\ [Next]_vars => [Contents!Next]_(Contents!vars)
  BY NextContents
<1> QED BY <1>1, InitContents, WorldInvHolds, PTL DEF Spec, ContentsSpec, Contents!Spec

-----------------------------------------------------------------------------
(* Contacts, for programs that never list one that does not touch.         *)

(* Two contacts have two addresses, and a valid Contact is held by the     *)
(* program or by the callback it is shown to.                              *)
ContactInv ==
  /\ ContactsKnow
  /\ \A p, q \in Existing : at[p] = at[q] => p = q
  /\ \A c \in Contacts : con[c] # Invalid => c \notin Unused

(* A valid Contact's address is one, and the map leads back from it.       *)
LEMMA ValidContact ==
  ASSUME TypeOK, ContactsKnow, touching \subseteq Existing,
         NEW c \in Contacts, con[c] # Invalid
  PROVE  /\ con[c].ptr \in Addresses /\ con[c].pair \in touching
         /\ at[con[c].pair] = con[c].ptr /\ known[con[c].ptr] = c
<1>1. con[c].pair \in touching /\ at[con[c].pair] = con[c].ptr /\ known[con[c].ptr] = c
  BY DEF ContactsKnow
<1>2. con[c].pair \in Pairs /\ at[con[c].pair] # NoAddress
  BY <1>1 DEF Existing
<1> QED BY <1>1, <1>2 DEF TypeOK

(* Contacts are invalidated; the other valid ones keep their b2Contact.    *)
LEMMA InvalidateKeeps ==
  ASSUME TypeOK, ContactsKnow, touching \subseteq Existing,
         NEW C \in SUBSET Contacts, Invalidate(C),
         \A c \in Contacts : con[c] # Invalid /\ c \notin C =>
            con[c].pair \in touching' /\ at'[con[c].pair] = at[con[c].pair]
  PROVE  /\ ContactsKnow'
         /\ \A c \in Contacts : con'[c] # Invalid => con[c] # Invalid /\ c \notin C
<1>1. /\ known' = [a \in Addresses |-> IF \E c \in C : con[c].ptr = a THEN NoContact ELSE known[a]]
      /\ con' = [c \in Contacts |-> IF c \in C THEN Invalid ELSE con[c]]
  BY DEF Invalidate, KnownWithout, Invalidated
<1>2. ASSUME NEW c \in Contacts, con'[c] # Invalid
      PROVE  /\ con[c] # Invalid /\ c \notin C /\ con'[c] = con[c]
  BY <1>1, <1>2
<1>3. ASSUME NEW c \in Contacts, con'[c] # Invalid
      PROVE  /\ con'[c].pair \in touching' /\ at'[con'[c].pair] = con'[c].ptr
             /\ known'[con'[c].ptr] = c
  <2>1. /\ con[c] # Invalid /\ c \notin C /\ con'[c] = con[c]
        /\ con[c].ptr \in Addresses /\ at[con[c].pair] = con[c].ptr /\ known[con[c].ptr] = c
    BY <1>2, <1>3, ValidContact
  <2>2. ASSUME NEW d \in C, con[d].ptr = con[c].ptr PROVE FALSE
    <3>1. con[d] # Invalid
      BY <2>1, <2>2, PhysicsAssumption DEF Invalid
    <3>2. known[con[d].ptr] = d
      BY <3>1, ValidContact
    <3> QED BY <2>1, <2>2, <3>2
  <2>3. known'[con[c].ptr] = c
    BY <1>1, <2>1, <2>2
  <2> QED BY <2>1, <2>3
<1>4. ASSUME NEW a \in Addresses, known'[a] # NoContact PROVE con'[known'[a]].ptr = a
  <2>1. known'[a] = known[a] /\ ~\E c \in C : con[c].ptr = a
    BY <1>1, <1>4
  <2>2. known[a] \in Contacts /\ con[known[a]].ptr = a
    BY <1>4, <2>1 DEF TypeOK, ContactsKnow
  <2>3. con'[known[a]] = con[known[a]]
    BY <1>1, <2>1, <2>2
  <2> QED BY <2>1, <2>2, <2>3
<1> QED BY <1>2, <1>3, <1>4 DEF ContactsKnow

(* Every valid Contact of the contacts in P is found for them.             *)
LEMMA FoundAll ==
  ASSUME TypeOK, ContactsKnow, touching \subseteq Existing, NEW P \in SUBSET touching
  PROVE  /\ FoundFor(P) \subseteq Contacts
         /\ \A c \in Contacts : con[c] # Invalid /\ c \notin FoundFor(P) => con[c].pair \in touching \ P
<1>1. FoundFor(P) \subseteq Contacts
  BY DEF FoundFor, TypeOK, Existing
<1>2. ASSUME NEW c \in Contacts, con[c] # Invalid, con[c].pair \in P PROVE c \in FoundFor(P)
  <2>1. known[at[con[c].pair]] = c
    BY <1>2, ValidContact
  <2>2. c # NoContact
    BY PhysicsAssumption
  <2> QED BY <1>2, <2>1, <2>2 DEF FoundFor
<1> QED BY <1>1, <1>2, ValidContact

(* A callback shows a Contact of its own pair.                             *)
LEMMA CallBackKnows ==
  ASSUME WorldInv, ContactInv, call = NoCall, UNCHANGED at,
         NEW p \in Existing, NEW ends \in BOOLEAN, NEW frees \in BOOLEAN, CallBack(p, ends, frees),
         touching \subseteq touching', p \in touching'
  PROVE  ContactInv'
<1>1. p \in Pairs /\ at[p] \in Addresses /\ TypeOK /\ ContactsKnow /\ touching \subseteq Existing
  BY DEF Existing, WorldInv, TypeOK, ContactInv, PhaseOK
<1>2. PICK c \in ContactFor(p) :
        /\ call' = [obj |-> c, pair |-> p, ends |-> ends, frees |-> frees]
        /\ known' = [known EXCEPT ![at[p]] = c]
        /\ con' = [con EXCEPT ![c] = [ptr |-> at[p], pair |-> p]]
        /\ conHeld' = conHeld \cup {c}
  BY DEF CallBack
<1>3. c \in Contacts /\ c # NoContact
  BY <1>1, PhysicsAssumption DEF ContactFor, Unused, TypeOK
<1>4. \A d \in Contacts : con[d] # Invalid /\ con[d].ptr = at[p] => d = c
  <2> SUFFICES ASSUME NEW d \in Contacts, con[d] # Invalid, con[d].ptr = at[p] PROVE d = c
    OBVIOUS
  <2>1. known[at[p]] = d /\ d # NoContact
    BY <1>1, ValidContact, PhysicsAssumption
  <2> QED BY <2>1 DEF ContactFor
<1>5. \A a \in Addresses : known[a] = c => a = at[p]
  <2> SUFFICES ASSUME NEW a \in Addresses, known[a] = c PROVE a = at[p]
    OBVIOUS
  <2>1. con[c].ptr = a /\ con[c] # Invalid
    BY <1>1, <1>3, PhysicsAssumption DEF ContactsKnow, Invalid
  <2>2. c \notin Unused
    BY <1>3, <2>1 DEF ContactInv
  <2>3. c = known[at[p]]
    BY <1>2, <2>2 DEF ContactFor
  <2>4. con[c].ptr = at[p]
    BY <1>1, <1>3, <2>3 DEF ContactsKnow
  <2> QED BY <2>1, <2>4
<1>6. ContactsKnow'
  <2>1. ASSUME NEW d \in Contacts, con'[d] # Invalid
        PROVE  con'[d].pair \in touching' /\ at'[con'[d].pair] = con'[d].ptr /\ known'[con'[d].ptr] = d
    <3>1. CASE d = c
      BY <1>1, <1>2, <1>3, <3>1 DEF TypeOK
    <3>2. CASE d # c
      <4>1. con'[d] = con[d] /\ con[d] # Invalid
        BY <1>2, <2>1, <3>2 DEF TypeOK
      <4>2. /\ con[d].ptr \in Addresses /\ con[d].pair \in touching
            /\ at[con[d].pair] = con[d].ptr /\ known[con[d].ptr] = d
        BY <1>1, <4>1, ValidContact
      <4>3. con[d].ptr # at[p]
        BY <1>4, <3>2, <4>1
      <4> QED BY <1>2, <4>1, <4>2, <4>3 DEF TypeOK
    <3> QED BY <3>1, <3>2
  <2>2. ASSUME NEW a \in Addresses, known'[a] # NoContact PROVE con'[known'[a]].ptr = a
    <3>1. CASE a = at[p]
      BY <1>1, <1>2, <1>3, <3>1 DEF TypeOK
    <3>2. CASE a # at[p]
      <4>1. known'[a] = known[a] /\ known[a] \in Contacts /\ known[a] # c
        BY <1>1, <1>2, <1>5, <2>2, <3>2 DEF TypeOK
      <4> QED BY <1>1, <1>2, <2>2, <4>1 DEF TypeOK, ContactsKnow
    <3> QED BY <3>1, <3>2
  <2> QED BY <2>1, <2>2 DEF ContactsKnow
<1>7. ASSUME NEW d \in Contacts, con'[d] # Invalid PROVE d \in conHeld'
  <2>1. CASE d = c
    BY <1>2, <2>1
  <2>2. CASE d # c
    <3>1. con[d] # Invalid
      BY <1>1, <1>2, <1>7, <2>2 DEF TypeOK
    <3>2. d \in conHeld
      BY <3>1, PhysicsAssumption DEF ContactInv, Unused, NoCall
    <3> QED BY <1>2, <3>2
  <2> QED BY <2>1, <2>2
<1>8. \A d \in Contacts : con'[d] # Invalid => d \notin Unused'
  BY <1>7 DEF Unused
<1> QED BY <1>6, <1>8 DEF ContactInv, Existing

(* Where contacts only go and Contacts are invalidated, for them at least. *)
LEMMA ContactsGo ==
  ASSUME WorldInv, ContactInv, NEW C \in SUBSET Contacts, Invalidate(C),
         Existing' \subseteq Existing, \A p \in Existing' : at'[p] = at[p],
         \A c \in Contacts : con[c] # Invalid /\ c \notin C =>
            /\ con[c].pair \in touching' /\ at'[con[c].pair] = at[con[c].pair]
            /\ c \notin Unused'
  PROVE  ContactInv'
<1>1. TypeOK /\ ContactsKnow /\ touching \subseteq Existing
  BY DEF WorldInv, ContactInv, PhaseOK
<1>2. /\ ContactsKnow'
      /\ \A c \in Contacts : con'[c] # Invalid => con[c] # Invalid /\ c \notin C
  BY <1>1, InvalidateKeeps
<1>3. \A p, q \in Existing' : at'[p] = at'[q] => p = q
  BY DEF ContactInv
<1> QED BY <1>2, <1>3 DEF ContactInv

LEMMA InitContactInv == Init => ContactInv
<1> SUFFICES ASSUME Init PROVE ContactInv
  OBVIOUS
<1> QED BY DEF Init, ContactInv, ContactsKnow, Existing

LEMMA CollapseKnows ==
  ASSUME WorldInv, ContactInv, Collapse, UNCHANGED <<conHeld, call>>
  PROVE  ContactInv'
<1>1. TypeOK /\ ContactsKnow /\ touching \subseteq Existing /\ Invalidate(FoundFor(touching))
  BY DEF WorldInv, ContactInv, PhaseOK, Collapse
<1>2. /\ FoundFor(touching) \subseteq Contacts
      /\ \A c \in Contacts : con[c] # Invalid => c \in FoundFor(touching)
  BY <1>1, FoundAll
<1>3. Existing' = {}
  BY DEF Collapse, Existing
<1> QED BY <1>1, <1>2, <1>3, ContactsGo

LEMMA DestroyedKnows ==
  ASSUME WorldInv, ContactInv, NEW t, NEW entry, NEW heard, Destroyed(t, entry, heard),
         UNCHANGED <<conHeld, call>>
  PROVE  ContactInv'
<1> DEFINE over == {p \in Existing : p \cap ({t} \cup {u \in b2 : t \in DependsOn(u)}) # {}}
<1>1. TypeOK /\ ContactsKnow /\ touching \subseteq Existing
  BY DEF WorldInv, ContactInv, PhaseOK
<1>2. /\ at' = [p \in Pairs |-> IF p \in over THEN NoAddress ELSE at[p]]
      /\ touching' = touching \ over
      /\ Invalidate(FoundFor(over \cap touching))
  BY DEF Destroyed
<1>3. /\ FoundFor(over \cap touching) \subseteq Contacts
      /\ \A c \in Contacts : con[c] # Invalid /\ c \notin FoundFor(over \cap touching) =>
            con[c].pair \in touching \ (over \cap touching)
  BY <1>1, FoundAll
<1>4. Existing' \subseteq Existing /\ \A p \in Existing' : at'[p] = at[p]
  BY <1>2 DEF Existing
<1>5. \A c \in Contacts : con[c] # Invalid /\ c \notin FoundFor(over \cap touching) =>
        /\ con[c].pair \in touching' /\ at'[con[c].pair] = at[con[c].pair]
        /\ c \notin Unused'
  BY <1>1, <1>2, <1>3 DEF ContactInv, Unused, TypeOK
<1> QED BY <1>2, <1>3, <1>4, <1>5, ContactsGo

LEMMA NextContactInv ==
  ASSUME ~ListsApart, WorldInv, ContactInv, [Next]_vars
  PROVE  ContactInv'
<1>0. /\ TypeOK /\ ContactsKnow /\ touching \subseteq Existing
      /\ phase # "step" => call = NoCall
      /\ call # NoCall => call.obj \in Contacts /\ call.pair \in touching
  BY DEF WorldInv, ContactInv, PhaseOK
<1>a. ASSUME UNCHANGED <<at, touching, known, con, conHeld, call>> PROVE ContactInv'
  BY <1>a DEF ContactInv, ContactsKnow, Existing, Unused
<1>1. CASE NewWorld \/ Update \/ StepEnds
  BY <1>1, <1>a DEF NewWorld, Update, StepEnds, contactVars
<1>2. CASE DestroyWorld
  <2>1. CASE phase = "step"
    BY <1>2, <2>1, <1>a DEF DestroyWorld, contactVars
  <2>2. CASE phase # "step"
    BY <1>2, <2>2, CollapseKnows DEF DestroyWorld
  <2> QED BY <2>1, <2>2
<1>3. CASE DropWorld
  <2>1. CASE up
    BY <1>3, <2>1, CollapseKnows DEF DropWorld
  <2>2. CASE ~up
    BY <1>3, <2>2, <1>a DEF DropWorld, contactVars
  <2> QED BY <2>1, <2>2
<1>4. CASE UpdateEnds
  <2>1. CASE ending
    BY <1>4, <2>1, CollapseKnows DEF UpdateEnds
  <2>2. CASE ~ending
    BY <1>4, <2>2, <1>a DEF UpdateEnds, contactVars
  <2> QED BY <2>1, <2>2
<1>5. CASE Return
  <2> DEFINE F == IF call.ends THEN FoundFor({call.pair}) ELSE {}
             C == ({call.obj} \ conHeld) \cup F
  <2>1. /\ call.obj \in Contacts /\ call.pair \in touching /\ call' = NoCall /\ conHeld' = conHeld
        /\ Invalidate(C)
        /\ IF call.ends THEN Ended(call.pair, call.frees) ELSE UNCHANGED <<at, touching>>
    BY <1>0, <1>5 DEF Return
  <2>2. /\ FoundFor({call.pair}) \subseteq Contacts
        /\ \A c \in Contacts : con[c] # Invalid /\ c \notin FoundFor({call.pair}) =>
              con[c].pair \in touching \ {call.pair}
    BY <1>0, <2>1, FoundAll
  <2>3. C \subseteq Contacts
    BY <2>1, <2>2
  <2>4. Existing' \subseteq Existing /\ \A p \in Existing' : at'[p] = at[p]
    BY <1>0, <2>1 DEF Ended, Existing, TypeOK
  <2>5. ASSUME NEW c \in Contacts, con[c] # Invalid, c \notin C
        PROVE  /\ con[c].pair \in touching' /\ at'[con[c].pair] = at[con[c].pair]
               /\ c \notin Unused'
    <3>1. c \in conHeld
      BY <2>1, <2>5 DEF ContactInv, Unused
    <3>2. con[c].pair \in touching
      BY <1>0, <2>5, ValidContact
    <3>3. call.ends => con[c].pair # call.pair
      BY <2>2, <2>5
    <3>4. con[c].pair \in touching' /\ at'[con[c].pair] = at[con[c].pair]
      BY <1>0, <2>1, <3>2, <3>3 DEF Ended, TypeOK
    <3> QED BY <2>1, <3>1, <3>4 DEF Unused
  <2> QED BY <2>1, <2>3, <2>4, <2>5, ContactsGo
<1>6. CASE GetContacts
  <2> DEFINE new == {p \in Existing : known[at[p]] = NoContact}
  <2>1. UNCHANGED <<at, touching, call>> /\ Existing \subseteq touching
    BY <1>6 DEF GetContacts
  <2>2. PICK f \in [new -> Unused] :
          /\ \A p, q \in new : f[p] = f[q] => p = q
          /\ known' = [a \in Addresses |->
                       IF \E p \in new : at[p] = a
                       THEN f[CHOOSE p \in new : at[p] = a] ELSE known[a]]
          /\ con' = [c \in Contacts |->
                     IF \E p \in new : f[p] = c
                     THEN LET p == CHOOSE q \in new : f[q] = c IN [ptr |-> at[p], pair |-> p]
                     ELSE con[c]]
          /\ conHeld' = conHeld \cup {known'[at[p]] : p \in Existing}
    BY <1>6 DEF GetContacts
  <2>3. ASSUME NEW p \in new
        PROVE  /\ p \in Existing /\ p \in Pairs /\ at[p] \in Addresses /\ f[p] \in Contacts /\ f[p] \in Unused
               /\ f[p] # NoContact /\ con[f[p]] = Invalid /\ known[at[p]] = NoContact
    BY <1>0, PhysicsAssumption DEF Existing, Unused, TypeOK, ContactInv
  <2>4. ASSUME NEW p \in new PROVE known'[at[p]] = f[p] /\ con'[f[p]] = [ptr |-> at[p], pair |-> p]
    <3>1. \A q \in new : at[q] = at[p] => q = p
      BY <2>3 DEF ContactInv
    <3>2. (CHOOSE q \in new : at[q] = at[p]) = p
      BY <3>1
    <3>3. (CHOOSE q \in new : f[q] = f[p]) = p
      BY <2>2
    <3>4. known'[at[p]] = f[p]
      BY <2>2, <2>3, <3>2
    <3>5. con'[f[p]] = [ptr |-> at[p], pair |-> p]
      BY <2>2, <2>3, <3>3
    <3> QED BY <3>4, <3>5
  <2>5. ASSUME NEW c \in Contacts, con'[c] # Invalid
        PROVE  /\ con'[c].pair \in touching' /\ at'[con'[c].pair] = con'[c].ptr
               /\ known'[con'[c].ptr] = c /\ c \in conHeld' \cup {call'.obj}
    <3>1. CASE \E p \in new : f[p] = c
      <4>1. PICK p \in new : f[p] = c
        BY <3>1
      <4>2. con'[c] = [ptr |-> at[p], pair |-> p] /\ known'[at[p]] = c /\ p \in Existing
        BY <2>3, <2>4, <4>1
      <4>3. conHeld' = conHeld \cup {known'[at[q]] : q \in Existing}
        BY <2>2
      <4>4. c \in conHeld'
        BY <4>2, <4>3
      <4> QED BY <2>1, <4>2, <4>4
    <3>2. CASE ~\E p \in new : f[p] = c
      <4>1. con'[c] = con[c]
        BY <2>2, <3>2
      <4>2. /\ con[c].ptr \in Addresses /\ con[c].pair \in touching
            /\ at[con[c].pair] = con[c].ptr /\ known[con[c].ptr] = c
        BY <1>0, <2>5, <4>1, ValidContact
      <4>3. ~\E p \in new : at[p] = con[c].ptr
        BY <2>3, <4>2, PhysicsAssumption
      <4>4. known'[con[c].ptr] = c
        BY <2>2, <4>2, <4>3
      <4>5. c \in conHeld \/ c = call.obj
        BY <2>5, <4>1 DEF ContactInv, Unused
      <4>6. conHeld \subseteq conHeld'
        BY <2>2
      <4> QED BY <2>1, <4>1, <4>2, <4>4, <4>5, <4>6
    <3> QED BY <3>1, <3>2
  <2>6. ASSUME NEW a \in Addresses, known'[a] # NoContact PROVE con'[known'[a]].ptr = a
    <3>1. CASE \E p \in new : at[p] = a
      <4>1. PICK p \in new : at[p] = a
        BY <3>1
      <4>2. known'[a] = f[p] /\ con'[f[p]] = [ptr |-> a, pair |-> p]
        BY <2>4, <4>1
      <4>3. [ptr |-> a, pair |-> p].ptr = a
        OBVIOUS
      <4> QED BY <4>2, <4>3
    <3>2. CASE ~\E p \in new : at[p] = a
      <4>1. known'[a] = known[a] /\ known[a] \in Contacts /\ con[known[a]].ptr = a
        BY <1>0, <2>2, <2>6, <3>2 DEF TypeOK, ContactsKnow
      <4>2. con[known[a]] # Invalid
        BY <4>1, PhysicsAssumption DEF Invalid
      <4>3. ~\E p \in new : f[p] = known[a]
        BY <2>3, <4>2
      <4> QED BY <2>2, <4>1, <4>3
    <3> QED BY <3>1, <3>2
  <2>7. ContactsKnow'
    BY <2>5, <2>6 DEF ContactsKnow
  <2>8. \A c \in Contacts : con'[c] # Invalid => c \notin Unused'
    BY <2>5 DEF Unused
  <2> QED BY <2>1, <2>7, <2>8 DEF ContactInv, Existing
<1>7. ASSUME NEW t \in Things, New(t) \/ Get(t) \/ Drop(t) \/ DestroyLater(t) PROVE ContactInv'
  BY <1>7, <1>a DEF New, Get, Drop, DestroyLater, contactVars
<1>8. ASSUME NEW t \in Things, DestroyNow(t) PROVE ContactInv'
  BY <1>8, DestroyedKnows DEF DestroyNow
<1>9. ASSUME NEW t \in Things, CarryOut(t) PROVE ContactInv'
  <2>1. CASE StillThere(t)
    BY <1>9, <2>1, DestroyedKnows DEF CarryOut
  <2>2. CASE ~StillThere(t)
    BY <1>9, <2>2, <1>a DEF CarryOut, contactVars
  <2> QED BY <2>1, <2>2
<1>10. ASSUME NEW p \in Pairs, Near(p) PROVE ContactInv'
  <2>1. PICK a \in Addresses \ {at[q] : q \in Pairs} : at' = [at EXCEPT ![p] = a]
    BY <1>10 DEF Near
  <2>2. p \notin Existing /\ UNCHANGED <<touching, known, con, conHeld, call>>
    BY <1>10 DEF Near
  <2>3. \A q \in Pairs : q # p => at'[q] = at[q]
    BY <1>0, <2>1 DEF TypeOK
  <2>4. ContactsKnow'
    BY <1>0, <2>2, <2>3 DEF ContactsKnow, TypeOK
  <2>5. \A q, r \in Existing' : at'[q] = at'[r] => q = r
    BY <1>0, <2>1, <2>3 DEF ContactInv, Existing, TypeOK
  <2>6. \A c \in Contacts : con'[c] # Invalid => c \notin Unused'
    BY <2>2 DEF ContactInv, Unused
  <2> QED BY <2>4, <2>5, <2>6 DEF ContactInv
<1>11. ASSUME NEW p \in Pairs, Far(p) PROVE ContactInv'
  <2>1. /\ at' = [at EXCEPT ![p] = NoAddress] /\ p \notin touching
        /\ UNCHANGED <<touching, known, con, conHeld, call>>
    BY <1>11 DEF Far
  <2>2. \A q \in Pairs : q # p => at'[q] = at[q]
    BY <1>0, <2>1 DEF TypeOK
  <2>3. ContactsKnow'
    BY <1>0, <2>1, <2>2 DEF ContactsKnow, TypeOK
  <2>4. \A q, r \in Existing' : at'[q] = at'[r] => q = r
    BY <1>0, <2>1, <2>2 DEF ContactInv, Existing, TypeOK
  <2>5. \A c \in Contacts : con'[c] # Invalid => c \notin Unused'
    BY <2>1 DEF ContactInv, Unused
  <2> QED BY <2>3, <2>4, <2>5 DEF ContactInv
<1>12. ASSUME NEW p \in Pairs, BeginContact(p) PROVE ContactInv'
  <2>1. p \in Existing /\ call = NoCall /\ touching' = touching \cup {p} /\ UNCHANGED at
    BY <1>12 DEF BeginContact, Stepping
  <2>2. CASE CallBack(p, FALSE, FALSE)
    BY <2>1, <2>2, CallBackKnows
  <2>3. CASE Silent
    BY <2>1, <2>3 DEF Silent, ContactInv, ContactsKnow, Existing, Unused
  <2> QED BY <1>12, <2>2, <2>3 DEF BeginContact
<1>13. ASSUME NEW p \in Pairs, SolveContact(p) PROVE ContactInv'
  <2>1. /\ p \in touching /\ p \in Existing /\ call = NoCall /\ CallBack(p, FALSE, FALSE)
        /\ UNCHANGED <<at, touching>>
    BY <1>0, <1>13 DEF SolveContact, Stepping
  <2> QED BY <2>1, CallBackKnows
<1>14. ASSUME NEW p \in Pairs, EndContact(p) PROVE ContactInv'
  <2>1. PICK frees \in BOOLEAN :
          \/ CallBack(p, TRUE, frees) /\ UNCHANGED <<at, touching>>
          \/ Ended(p, frees) /\ Invalidate(FoundFor({p})) /\ UNCHANGED <<refs, held, conHeld, call>>
    BY <1>14 DEF EndContact
  <2>2. p \in touching /\ p \in Existing /\ call = NoCall
    BY <1>0, <1>14 DEF EndContact, Stepping
  <2>3. CASE CallBack(p, TRUE, frees) /\ UNCHANGED <<at, touching>>
    BY <2>2, <2>3, CallBackKnows
  <2>4. CASE Ended(p, frees) /\ Invalidate(FoundFor({p})) /\ UNCHANGED <<refs, held, conHeld, call>>
    <3>1. /\ FoundFor({p}) \subseteq Contacts
          /\ \A c \in Contacts : con[c] # Invalid /\ c \notin FoundFor({p}) => con[c].pair \in touching \ {p}
      BY <1>0, <2>2, FoundAll
    <3>2. Existing' \subseteq Existing /\ \A q \in Existing' : at'[q] = at[q]
      BY <1>0, <2>4 DEF Ended, Existing, TypeOK
    <3>3. \A c \in Contacts : con[c] # Invalid /\ c \notin FoundFor({p}) =>
            /\ con[c].pair \in touching' /\ at'[con[c].pair] = at[con[c].pair]
            /\ c \notin Unused'
      BY <1>0, <2>4, <3>1 DEF Ended, ContactInv, Unused, TypeOK
    <3> QED BY <2>4, <3>1, <3>2, <3>3, ContactsGo
  <2> QED BY <2>1, <2>3, <2>4
<1>15. ASSUME NEW c \in Contacts, DropContact(c) PROVE ContactInv'
  <2>1. conHeld' = conHeld \ {c} /\ UNCHANGED <<at, touching, call>>
    BY <1>15 DEF DropContact
  <2>2. CASE c = call.obj
    BY <1>15, <2>1, <2>2 DEF DropContact, ContactInv, ContactsKnow, Existing, Unused
  <2>3. CASE c # call.obj
    <3>1. Invalidate({c})
      BY <1>15, <2>3 DEF DropContact
    <3>2. \A d \in Contacts : con[d] # Invalid /\ d \notin {c} =>
            /\ con[d].pair \in touching' /\ at'[con[d].pair] = at[con[d].pair]
            /\ d \notin Unused'
      BY <1>0, <2>1, ValidContact DEF ContactInv, Unused
    <3>3. Existing' \subseteq Existing /\ \A q \in Existing' : at'[q] = at[q]
      BY <2>1 DEF Existing
    <3> QED BY <3>1, <3>2, <3>3, ContactsGo
  <2> QED BY <2>2, <2>3
<1>16. CASE UNCHANGED vars
  BY <1>16, <1>a DEF vars, contactVars
<1> QED
  BY <1>1, <1>2, <1>3, <1>4, <1>5, <1>6, <1>7, <1>8, <1>9, <1>10, <1>11, <1>12, <1>13, <1>14,
     <1>15, <1>16 DEF Next

(* If the program lists no contact that does not touch, a Contact is valid *)
(* exactly while its b2Contact lives and touches, and the map finds it.    *)
THEOREM ContactsKnowHolds == ~ListsApart => (Spec => []ContactsKnow)
<1> SUFFICES ASSUME ~ListsApart PROVE Spec => []ContactsKnow
  OBVIOUS
<1>1. WorldInv /\ ContactInv /\ [Next]_vars => ContactInv'
  BY NextContactInv
<1>2. ContactInv => ContactsKnow
  BY DEF ContactInv
<1> QED BY <1>1, <1>2, InitContactInv, WorldInvHolds, PTL DEF Spec

-----------------------------------------------------------------------------
(* The map and the Contacts agree even when a Contact outlives its         *)
(* b2Contact, and what the map leads to is an object that exists.          *)
Led(c) == con[c].ptr \in Addresses /\ known[con[c].ptr] = c /\ c \notin Unused

MapInv ==
  /\ \A c \in Contacts : con[c] # Invalid => Led(c)
  /\ \A a \in Addresses : known[a] # NoContact => con[known[a]].ptr = a
  /\ \A p, q \in Existing : at[p] = at[q] => p = q

(* Contacts are invalidated: the others keep their entries.                *)
LEMMA InvalidateMap ==
  ASSUME TypeOK, MapInv, NEW C \in SUBSET Contacts, Invalidate(C),
         Existing' \subseteq Existing, \A p \in Existing' : at'[p] = at[p],
         \A c \in Contacts : con[c] # Invalid /\ c \notin C => c \notin Unused'
  PROVE  MapInv'
<1>1. /\ known' = [a \in Addresses |-> IF \E c \in C : con[c].ptr = a THEN NoContact ELSE known[a]]
      /\ con' = [c \in Contacts |-> IF c \in C THEN Invalid ELSE con[c]]
  BY DEF Invalidate, KnownWithout, Invalidated
<1>2. ASSUME NEW c \in Contacts, con'[c] # Invalid PROVE Led(c)'
  <2>1. con[c] # Invalid /\ c \notin C /\ con'[c] = con[c]
    BY <1>1, <1>2
  <2>2. con[c].ptr \in Addresses /\ known[con[c].ptr] = c
    BY <2>1 DEF MapInv, Led
  <2>3. ASSUME NEW d \in C, con[d].ptr = con[c].ptr PROVE FALSE
    <3>1. con[d] # Invalid
      BY <2>2, <2>3, PhysicsAssumption DEF Invalid
    <3>2. known[con[d].ptr] = d
      BY <3>1 DEF MapInv, Led
    <3> QED BY <2>1, <2>2, <2>3, <3>2
  <2>4. known'[con[c].ptr] = c
    BY <1>1, <2>2, <2>3
  <2> QED BY <2>1, <2>2, <2>4 DEF Led
<1>3. ASSUME NEW a \in Addresses, known'[a] # NoContact PROVE con'[known'[a]].ptr = a
  <2>1. known'[a] = known[a] /\ ~\E c \in C : con[c].ptr = a
    BY <1>1, <1>3
  <2>2. known[a] \in Contacts /\ con[known[a]].ptr = a
    BY <1>3, <2>1 DEF TypeOK, MapInv
  <2> QED BY <1>1, <2>1, <2>2
<1>4. \A p, q \in Existing' : at'[p] = at'[q] => p = q
  BY DEF MapInv
<1> QED BY <1>2, <1>3, <1>4 DEF MapInv

LEMMA FoundTypes ==
  ASSUME TypeOK, NEW P \in SUBSET Existing
  PROVE  FoundFor(P) \subseteq Contacts
  BY DEF FoundFor, TypeOK, Existing

LEMMA CollapseMap ==
  ASSUME WorldInv, MapInv, Collapse, UNCHANGED <<conHeld, call>>
  PROVE  MapInv'
<1>1. TypeOK /\ FoundFor(touching) \subseteq Contacts /\ Invalidate(FoundFor(touching))
  BY FoundTypes DEF WorldInv, PhaseOK, Collapse
<1>2. Existing' = {}
  BY DEF Collapse, Existing
<1>3. \A c \in Contacts : con[c] # Invalid => c \notin Unused'
  BY DEF MapInv, Led, Unused
<1> QED BY <1>1, <1>2, <1>3, InvalidateMap

LEMMA DestroyedMap ==
  ASSUME WorldInv, MapInv, NEW t, NEW entry, NEW heard, Destroyed(t, entry, heard),
         UNCHANGED <<conHeld, call>>
  PROVE  MapInv'
<1> DEFINE over == {p \in Existing : p \cap ({t} \cup {u \in b2 : t \in DependsOn(u)}) # {}}
<1>1. /\ at' = [p \in Pairs |-> IF p \in over THEN NoAddress ELSE at[p]]
      /\ Invalidate(FoundFor(over \cap touching))
  BY DEF Destroyed
<1>2. TypeOK /\ FoundFor(over \cap touching) \subseteq Contacts
  BY FoundTypes DEF WorldInv
<1>3. Existing' \subseteq Existing /\ \A p \in Existing' : at'[p] = at[p]
  BY <1>1 DEF Existing
<1>4. \A c \in Contacts : con[c] # Invalid => c \notin Unused'
  BY DEF MapInv, Led, Unused
<1> QED BY <1>1, <1>2, <1>3, <1>4, InvalidateMap

LEMMA CallBackMap ==
  ASSUME WorldInv, MapInv, call = NoCall, UNCHANGED at,
         NEW p \in Existing, NEW ends \in BOOLEAN, NEW frees \in BOOLEAN, CallBack(p, ends, frees)
  PROVE  MapInv'
<1>1. p \in Pairs /\ at[p] \in Addresses /\ TypeOK
  BY DEF Existing, WorldInv, TypeOK
<1>2. PICK c \in ContactFor(p) :
        /\ call' = [obj |-> c, pair |-> p, ends |-> ends, frees |-> frees]
        /\ known' = [known EXCEPT ![at[p]] = c]
        /\ con' = [con EXCEPT ![c] = [ptr |-> at[p], pair |-> p]]
        /\ conHeld' = conHeld \cup {c}
  BY DEF CallBack
<1>3. c \in Contacts /\ c # NoContact
  BY <1>1, PhysicsAssumption DEF ContactFor, Unused, TypeOK
<1>4. con[c] # Invalid => con[c].ptr = at[p]
  <2> SUFFICES ASSUME con[c] # Invalid PROVE con[c].ptr = at[p]
    OBVIOUS
  <2>1. c \notin Unused
    BY <1>3 DEF MapInv, Led
  <2>2. c = known[at[p]]
    BY <1>2, <2>1 DEF ContactFor
  <2> QED BY <1>1, <1>3, <2>2 DEF MapInv
<1>5. \A d \in Contacts : con[d] # Invalid /\ con[d].ptr = at[p] => d = c
  <2> SUFFICES ASSUME NEW d \in Contacts, con[d] # Invalid, con[d].ptr = at[p] PROVE d = c
    OBVIOUS
  <2>1. known[at[p]] = d /\ d # NoContact
    BY PhysicsAssumption DEF MapInv, Led
  <2> QED BY <1>2, <2>1 DEF ContactFor
<1>6. ASSUME NEW d \in Contacts, con'[d] # Invalid PROVE Led(d)'
  <2>1. CASE d = c
    <3>1. con'[c] = [ptr |-> at[p], pair |-> p] /\ known'[at[p]] = c /\ c \in conHeld'
      BY <1>1, <1>2, <1>3 DEF TypeOK
    <3> QED BY <1>1, <2>1, <3>1 DEF Led, Unused
  <2>2. CASE d # c
    <3>1. con'[d] = con[d] /\ con[d] # Invalid
      BY <1>1, <1>2, <1>6, <2>2 DEF TypeOK
    <3>2. con[d].ptr \in Addresses /\ known[con[d].ptr] = d /\ d \notin Unused
      BY <3>1 DEF MapInv, Led
    <3>3. con[d].ptr # at[p]
      BY <1>5, <2>2, <3>1
    <3>4. known'[con[d].ptr] = d
      BY <1>1, <1>2, <3>2, <3>3 DEF TypeOK
    <3>5. d \in conHeld
      BY <3>2, PhysicsAssumption DEF Unused, NoCall
    <3> QED BY <1>2, <3>1, <3>2, <3>4, <3>5 DEF Led, Unused
  <2> QED BY <2>1, <2>2
<1>7. ASSUME NEW a \in Addresses, known'[a] # NoContact PROVE con'[known'[a]].ptr = a
  <2>1. CASE a = at[p]
    <3>1. known'[a] = c /\ con'[c] = [ptr |-> at[p], pair |-> p]
      BY <1>1, <1>2, <1>3, <2>1 DEF TypeOK
    <3> QED BY <2>1, <3>1
  <2>2. CASE a # at[p]
    <3>1. known'[a] = known[a] /\ known[a] \in Contacts /\ con[known[a]].ptr = a
      BY <1>1, <1>2, <1>7, <2>2 DEF TypeOK, MapInv
    <3>2. con[known[a]] # Invalid
      BY <3>1, PhysicsAssumption DEF Invalid
    <3>3. known[a] # c
      BY <1>4, <2>2, <3>1, <3>2
    <3> QED BY <1>1, <1>2, <3>1, <3>3 DEF TypeOK
  <2> QED BY <2>1, <2>2
<1> QED BY <1>6, <1>7 DEF MapInv, Existing

LEMMA GetContactsMap ==
  ASSUME WorldInv, MapInv, GetContacts
  PROVE  MapInv'
<1> DEFINE new == {p \in Existing : known[at[p]] = NoContact}
<1>1. UNCHANGED <<at, touching, call>> /\ TypeOK
  BY DEF GetContacts, WorldInv
<1>2. PICK f \in [new -> Unused] :
        /\ \A p, q \in new : f[p] = f[q] => p = q
        /\ known' = [a \in Addresses |->
                     IF \E p \in new : at[p] = a
                     THEN f[CHOOSE p \in new : at[p] = a] ELSE known[a]]
        /\ con' = [c \in Contacts |->
                   IF \E p \in new : f[p] = c
                   THEN LET p == CHOOSE q \in new : f[q] = c IN [ptr |-> at[p], pair |-> p]
                   ELSE con[c]]
        /\ conHeld' = conHeld \cup {known'[at[p]] : p \in Existing}
  BY DEF GetContacts
<1>3. ASSUME NEW p \in new
      PROVE  /\ p \in Existing /\ p \in Pairs /\ at[p] \in Addresses /\ f[p] \in Contacts
             /\ f[p] # NoContact /\ con[f[p]] = Invalid /\ known[at[p]] = NoContact
  <2>1. p \in Existing /\ p \in Pairs /\ at[p] \in Addresses /\ f[p] \in Unused /\ known[at[p]] = NoContact
    BY <1>1 DEF Existing, TypeOK
  <2> QED BY <2>1, PhysicsAssumption DEF Unused, MapInv, Led
<1>4. ASSUME NEW p \in new PROVE known'[at[p]] = f[p] /\ con'[f[p]] = [ptr |-> at[p], pair |-> p]
  <2>1. \A q \in new : at[q] = at[p] => q = p
    BY <1>3 DEF MapInv
  <2>2. (CHOOSE q \in new : at[q] = at[p]) = p
    BY <2>1
  <2>3. (CHOOSE q \in new : f[q] = f[p]) = p
    BY <1>2
  <2>4. known'[at[p]] = f[p]
    BY <1>2, <1>3, <2>2
  <2>5. con'[f[p]] = [ptr |-> at[p], pair |-> p]
    BY <1>2, <1>3, <2>3
  <2> QED BY <2>4, <2>5
<1>5. ASSUME NEW c \in Contacts, con'[c] # Invalid PROVE Led(c)'
  <2>1. CASE \E p \in new : f[p] = c
    <3>1. PICK p \in new : f[p] = c
      BY <2>1
    <3>2. con'[c] = [ptr |-> at[p], pair |-> p] /\ known'[at[p]] = c /\ p \in Existing /\ at[p] \in Addresses
      BY <1>3, <1>4, <3>1
    <3>3. conHeld' = conHeld \cup {known'[at[q]] : q \in Existing}
      BY <1>2
    <3>4. c \in conHeld'
      BY <3>2, <3>3
    <3> QED BY <3>2, <3>4 DEF Led, Unused
  <2>2. CASE ~\E p \in new : f[p] = c
    <3>1. con'[c] = con[c]
      BY <1>2, <2>2
    <3>2. con[c].ptr \in Addresses /\ known[con[c].ptr] = c /\ c \notin Unused
      BY <1>5, <3>1 DEF MapInv, Led
    <3>3. ~\E p \in new : at[p] = con[c].ptr
      BY <1>3, <3>2, PhysicsAssumption
    <3>4. known'[con[c].ptr] = c
      BY <1>2, <3>2, <3>3
    <3>5. conHeld \subseteq conHeld'
      BY <1>2
    <3> QED BY <1>1, <3>1, <3>2, <3>4, <3>5 DEF Led, Unused
  <2> QED BY <2>1, <2>2
<1>6. ASSUME NEW a \in Addresses, known'[a] # NoContact PROVE con'[known'[a]].ptr = a
  <2>1. CASE \E p \in new : at[p] = a
    <3>1. PICK p \in new : at[p] = a
      BY <2>1
    <3>2. known'[a] = f[p] /\ con'[f[p]] = [ptr |-> a, pair |-> p]
      BY <1>4, <3>1
    <3>3. [ptr |-> a, pair |-> p].ptr = a
      OBVIOUS
    <3> QED BY <3>2, <3>3
  <2>2. CASE ~\E p \in new : at[p] = a
    <3>1. known'[a] = known[a] /\ known[a] \in Contacts /\ con[known[a]].ptr = a
      BY <1>1, <1>2, <1>6, <2>2 DEF TypeOK, MapInv
    <3>2. con[known[a]] # Invalid
      BY <3>1, PhysicsAssumption DEF Invalid
    <3>3. ~\E p \in new : f[p] = known[a]
      BY <1>3, <3>2
    <3> QED BY <1>2, <3>1, <3>3
  <2> QED BY <2>1, <2>2
<1> QED BY <1>1, <1>5, <1>6 DEF MapInv, Existing

LEMMA NextMapInv ==
  ASSUME WorldInv, MapInv, [Next]_vars
  PROVE  MapInv'
<1>0. /\ TypeOK /\ touching \subseteq Existing
      /\ call # NoCall => call.obj \in Contacts /\ call.pair \in touching
  BY DEF WorldInv, PhaseOK
<1>a. ASSUME UNCHANGED <<at, known, con, conHeld, call>> PROVE MapInv'
  BY <1>a DEF MapInv, Led, Existing, Unused
<1>1. CASE NewWorld \/ Update \/ StepEnds \/ UNCHANGED vars
  BY <1>1, <1>a DEF NewWorld, Update, StepEnds, vars, contactVars
<1>2. CASE DestroyWorld \/ DropWorld \/ UpdateEnds
  <2>1. CASE Collapse /\ UNCHANGED <<conHeld, call>>
    BY <2>1, CollapseMap
  <2>2. CASE UNCHANGED <<contactVars, conHeld, call>>
    BY <2>2, <1>a DEF contactVars
  <2> QED BY <1>2, <2>1, <2>2 DEF DestroyWorld, DropWorld, UpdateEnds
<1>3. CASE Return
  <2> DEFINE F == IF call.ends THEN FoundFor({call.pair}) ELSE {}
             C == ({call.obj} \ conHeld) \cup F
  <2>1. /\ call.obj \in Contacts /\ call.pair \in touching /\ call' = NoCall /\ conHeld' = conHeld
        /\ Invalidate(C)
        /\ IF call.ends THEN Ended(call.pair, call.frees) ELSE UNCHANGED <<at, touching>>
    BY <1>0, <1>3 DEF Return
  <2>2. FoundFor({call.pair}) \subseteq Contacts
    BY <1>0, <2>1, FoundTypes
  <2>3. C \subseteq Contacts
    BY <2>1, <2>2
  <2>4. Existing' \subseteq Existing /\ \A p \in Existing' : at'[p] = at[p]
    BY <1>0, <2>1 DEF Ended, Existing, TypeOK
  <2>5. ASSUME NEW c \in Contacts, con[c] # Invalid, c \notin C PROVE c \notin Unused'
    BY <2>1, <2>5 DEF MapInv, Led, Unused
  <2> QED BY <1>0, <2>1, <2>3, <2>4, <2>5, InvalidateMap
<1>4. CASE GetContacts
  BY <1>4, GetContactsMap
<1>5. ASSUME NEW t \in Things, New(t) \/ Get(t) \/ Drop(t) \/ DestroyLater(t) PROVE MapInv'
  BY <1>5, <1>a DEF New, Get, Drop, DestroyLater, contactVars
<1>6. ASSUME NEW t \in Things, DestroyNow(t) PROVE MapInv'
  BY <1>6, DestroyedMap DEF DestroyNow
<1>7. ASSUME NEW t \in Things, CarryOut(t) PROVE MapInv'
  <2>1. CASE StillThere(t)
    BY <1>7, <2>1, DestroyedMap DEF CarryOut
  <2>2. CASE ~StillThere(t)
    BY <1>7, <2>2, <1>a DEF CarryOut, contactVars
  <2> QED BY <2>1, <2>2
<1>8. ASSUME NEW p \in Pairs, Near(p) PROVE MapInv'
  <2>1. PICK a \in Addresses \ {at[q] : q \in Pairs} : at' = [at EXCEPT ![p] = a]
    BY <1>8 DEF Near
  <2>2. UNCHANGED <<known, con, conHeld, call>>
    BY <1>8 DEF Near
  <2>3. \A q, r \in Existing' : at'[q] = at'[r] => q = r
    BY <1>0, <2>1 DEF MapInv, Existing, TypeOK
  <2> QED BY <2>2, <2>3 DEF MapInv, Led, Unused
<1>9. ASSUME NEW p \in Pairs, Far(p) PROVE MapInv'
  <2>1. at' = [at EXCEPT ![p] = NoAddress] /\ UNCHANGED <<known, con, conHeld, call>>
    BY <1>9 DEF Far
  <2>2. \A q, r \in Existing' : at'[q] = at'[r] => q = r
    BY <1>0, <2>1 DEF MapInv, Existing, TypeOK
  <2> QED BY <2>1, <2>2 DEF MapInv, Led, Unused
<1>10. ASSUME NEW p \in Pairs, BeginContact(p) \/ SolveContact(p) PROVE MapInv'
  <2>1. p \in Existing /\ call = NoCall /\ UNCHANGED at
    BY <1>0, <1>10 DEF BeginContact, SolveContact, Stepping
  <2>2. CASE CallBack(p, FALSE, FALSE)
    BY <2>1, <2>2, CallBackMap
  <2>3. CASE Silent
    BY <2>1, <2>3, <1>a DEF Silent
  <2> QED BY <1>10, <2>2, <2>3 DEF BeginContact, SolveContact
<1>11. ASSUME NEW p \in Pairs, EndContact(p) PROVE MapInv'
  <2>1. PICK frees \in BOOLEAN :
          \/ CallBack(p, TRUE, frees) /\ UNCHANGED <<at, touching>>
          \/ Ended(p, frees) /\ Invalidate(FoundFor({p})) /\ UNCHANGED <<refs, held, conHeld, call>>
    BY <1>11 DEF EndContact
  <2>2. p \in Existing /\ call = NoCall
    BY <1>0, <1>11 DEF EndContact, Stepping
  <2>3. CASE CallBack(p, TRUE, frees) /\ UNCHANGED <<at, touching>>
    BY <2>2, <2>3, CallBackMap
  <2>4. CASE Ended(p, frees) /\ Invalidate(FoundFor({p})) /\ UNCHANGED <<refs, held, conHeld, call>>
    <3>1. FoundFor({p}) \subseteq Contacts
      BY <1>0, <2>2, FoundTypes
    <3>2. Existing' \subseteq Existing /\ \A q \in Existing' : at'[q] = at[q]
      BY <1>0, <2>4 DEF Ended, Existing, TypeOK
    <3>3. \A c \in Contacts : con[c] # Invalid => c \notin Unused'
      BY <2>4 DEF MapInv, Led, Unused
    <3> QED BY <1>0, <2>4, <3>1, <3>2, <3>3, InvalidateMap
  <2> QED BY <2>1, <2>3, <2>4
<1>12. ASSUME NEW c \in Contacts, DropContact(c) PROVE MapInv'
  <2>1. conHeld' = conHeld \ {c} /\ UNCHANGED <<at, call>>
    BY <1>12 DEF DropContact
  <2>2. CASE c = call.obj
    BY <1>12, <2>1, <2>2 DEF DropContact, MapInv, Led, Existing, Unused
  <2>3. CASE c # call.obj
    <3>1. Invalidate({c})
      BY <1>12, <2>3 DEF DropContact
    <3>2. \A d \in Contacts : con[d] # Invalid /\ d \notin {c} => d \notin Unused'
      BY <2>1 DEF MapInv, Led, Unused
    <3>3. Existing' \subseteq Existing /\ \A q \in Existing' : at'[q] = at[q]
      BY <2>1 DEF Existing
    <3> QED BY <1>0, <3>1, <3>2, <3>3, InvalidateMap
  <2> QED BY <2>2, <2>3
<1> QED
  BY <1>1, <1>2, <1>3, <1>4, <1>5, <1>6, <1>7, <1>8, <1>9, <1>10, <1>11, <1>12 DEF Next

(* What box2dObjectMap leads to is a Contact that exists and stands for    *)
(* that address, and every Contact that stands for one is found by it:     *)
(* the callbacks and getContacts never hand out a deleted Contact, nor two *)
(* for one address, also when Box2D has freed it and used it again.        *)
MapIsLive ==
  /\ \A a \in Addresses : known[a] # NoContact =>
       known[a] \notin Unused /\ con[known[a]].ptr = a
  /\ \A c \in Contacts : con[c] # Invalid => known[con[c].ptr] = c

THEOREM MapIsLiveHolds == Spec => []MapIsLive
<1>1. Init => MapInv
  BY DEF Init, MapInv, Existing
<1>2. WorldInv /\ MapInv /\ [Next]_vars => MapInv'
  BY NextMapInv
<1>3. WorldInv /\ MapInv => MapIsLive
  <2> SUFFICES ASSUME WorldInv, MapInv PROVE MapIsLive
    OBVIOUS
  <2>1. ASSUME NEW a \in Addresses, known[a] # NoContact
        PROVE  known[a] \notin Unused /\ con[known[a]].ptr = a
    <3>1. known[a] \in Contacts /\ con[known[a]].ptr = a
      BY <2>1 DEF WorldInv, TypeOK, MapInv
    <3>2. con[known[a]] # Invalid
      BY <3>1, PhysicsAssumption DEF Invalid
    <3> QED BY <3>1, <3>2 DEF MapInv, Led
  <2> QED BY <2>1 DEF MapIsLive, MapInv, Led
<1> QED BY <1>1, <1>2, <1>3, WorldInvHolds, PTL DEF Spec

(* "True if the contact is still valid or false if it has been destroyed"  *)
(* (Contact.h:72): so it is for a program that lists no contact that does  *)
(* not touch.                                                              *)
THEOREM ContactsExistHolds == ~ListsApart => (Spec => []ContactsExist)
<1> SUFFICES ASSUME ~ListsApart PROVE Spec => []ContactsExist
  OBVIOUS
<1>1. TypeOK /\ ContactsKnow => ContactsExist
  BY DEF TypeOK, ContactsKnow, ContactsExist
<1> QED BY <1>1, TypeOKHolds, ContactsKnowHolds, PTL
=============================================================================
