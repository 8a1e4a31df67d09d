------------------------- MODULE WrapperCacheProofs -------------------------
(***************************************************************************)
(* Theorems about WrapperCache, for all machines, objects, addresses and   *)
(* wrappers.                                                               *)
(*                                                                         *)
(* The invariant is what the runs check plus two facts: no two objects     *)
(* live at one address, and a wrapper that is on no machine is nobody's.   *)
(* The first part counts wrappers; the second says once what giving back a *)
(* reference and disposing of a wrapper do; then comes a lemma for each    *)
(* action.                                                                 *)
(***************************************************************************)
EXTENDS WrapperCache, FiniteSetTheorems, TLAPS

Placed == \A o, p \in Objects : address[o] # None /\ address[o] = address[p] => o = p
Settled == \A w \in Wrappers : on[w] = None => of[w] = None /\ w \notin rooted /\ w \notin doomed

IInv == TypeOK /\ CountsOwners /\ CacheTrue /\ NeverSweptAlive /\ Placed /\ Settled

-----------------------------------------------------------------------------
(* Counting the wrappers of an object.                                     *)

LEMMA WrappersCounted ==
  ASSUME NEW o \in Objects
  PROVE  /\ IsFiniteSet(WrappersOf(o)) /\ Cardinality(WrappersOf(o)) \in Nat
         /\ (\E w \in Wrappers : of[w] = o) => Cardinality(WrappersOf(o)) > 0
<1>1. WrappersOf(o) \in SUBSET Wrappers /\ IsFiniteSet(Wrappers)
  BY CacheAssumption DEF WrappersOf
<1>2. IsFiniteSet(WrappersOf(o))
  BY <1>1, FS_Subset
<1>3. Cardinality(WrappersOf(o)) \in Nat
  BY <1>2, FS_CardinalityType
<1>4. Cardinality(WrappersOf(o)) = 0 <=> WrappersOf(o) = {}
  BY <1>2, FS_EmptySet
<1>5. (\E w \in Wrappers : of[w] = o) => WrappersOf(o) # {}
  BY DEF WrappersOf
<1> QED
  BY <1>2, <1>3, <1>4, <1>5

(* A wrapper made for o is one more of o's, and of nobody else's.          *)
LEMMA WrapperAdded ==
  ASSUME of \in [Wrappers -> Objects \cup {None}],
         NEW w \in Wrappers, of[w] = None, NEW o \in Objects,
         of' = [of EXCEPT ![w] = o], NEW p \in Objects
  PROVE  Cardinality(WrappersOf(p))' = Cardinality(WrappersOf(p)) + Bit(p = o)
<1>0. None \notin Objects
  BY CacheAssumption
<1>1. CASE p = o
  <2>1. WrappersOf(p)' = WrappersOf(p) \cup {w} /\ w \notin WrappersOf(p)
    BY <1>0, <1>1 DEF WrappersOf
  <2>2. Cardinality(WrappersOf(p) \cup {w}) = Cardinality(WrappersOf(p)) + 1
    BY <2>1, WrappersCounted, FS_AddElement
  <2> QED
    BY <1>1, <2>1, <2>2 DEF Bit
<1>2. CASE p # o
  <2>1. WrappersOf(p)' = WrappersOf(p)
    BY <1>0, <1>2 DEF WrappersOf
  <2> QED
    BY <1>2, <2>1, WrappersCounted DEF Bit
<1> QED
  BY <1>1, <1>2

(* A wrapper disposed of is one fewer.                                     *)
LEMMA WrapperRemoved ==
  ASSUME of \in [Wrappers -> Objects \cup {None}],
         NEW w \in Wrappers, NEW o \in Objects, of[w] = o,
         of' = [of EXCEPT ![w] = None], NEW p \in Objects
  PROVE  Cardinality(WrappersOf(p))' = Cardinality(WrappersOf(p)) - Bit(p = o)
<1>0. None \notin Objects
  BY CacheAssumption
<1>1. CASE p = o
  <2>1. WrappersOf(p)' = WrappersOf(p) \ {w} /\ w \in WrappersOf(p)
    BY <1>0, <1>1 DEF WrappersOf
  <2>2. Cardinality(WrappersOf(p) \ {w}) = Cardinality(WrappersOf(p)) - 1
    BY <2>1, WrappersCounted, FS_RemoveElement
  <2> QED
    BY <1>1, <2>1, <2>2 DEF Bit
<1>2. CASE p # o
  <2>1. WrappersOf(p)' = WrappersOf(p)
    BY <1>0, <1>2 DEF WrappersOf
  <2> QED
    BY <1>2, <2>1, WrappersCounted DEF Bit
<1> QED
  BY <1>1, <1>2

(* As long as no wrapper changes hands, their numbers stay.                *)
LEMMA WrappersStay ==
  ASSUME of' = of, NEW p \in Objects
  PROVE  Cardinality(WrappersOf(p))' = Cardinality(WrappersOf(p))
<1>1. WrappersOf(p)' = WrappersOf(p)
  BY DEF WrappersOf
<1> QED
  BY <1>1

-----------------------------------------------------------------------------
(* Giving back a reference.                                                *)

(* What Dropped(o, 1) leaves, when somebody had a reference to give.       *)
DropFacts(o) ==
  /\ count' \in [Objects -> Nat] /\ address' \in [Objects -> Addresses \cup {None}]
  /\ count'[o] = count[o] - 1
  /\ \A p \in Objects : p # o => count'[p] = count[p] /\ address'[p] = address[p]
  /\ address'[o] # None <=> count'[o] > 0
  /\ address'[o] # None => address'[o] = address[o]

LEMMA DropStep ==
  ASSUME IInv, NEW o \in Objects, count[o] > 0, Dropped(o, 1)
  PROVE  DropFacts(o) /\ Placed'
<1>1. /\ count \in [Objects -> Nat] /\ address \in [Objects -> Addresses \cup {None}]
      /\ address[o] # None
  BY DEF IInv, TypeOK, CountsOwners, Alive
<1>2. DropFacts(o)
  BY <1>1 DEF Dropped, DropFacts
<1>3. Placed'
  BY <1>2 DEF DropFacts, IInv, Placed
<1> QED
  BY <1>2, <1>3

(* CountsOwners, an object at a time.                                      *)
Counted(o) ==
  /\ count[o] = Bit(o \in engine) + carried[o] + Cardinality(WrappersOf(o))
  /\ address[o] # None <=> count[o] > 0

LEMMA CountedSuffices ==
  (\A o \in Objects : Counted(o)) <=> CountsOwners
BY DEF Counted, CountsOwners, Alive

LEMMA CountedPrimed ==
  (\A o \in Objects : Counted(o)') => CountsOwners'
BY DEF Counted, CountsOwners, Alive

(* An object the engine, a copy or a wrapper has is referred to; one whose *)
(* only reference is not a wrapper's has no wrapper.                       *)
LEMMA Referred ==
  ASSUME IInv, NEW o \in Objects
  PROVE  /\ o \in engine \/ carried[o] > 0 => count[o] > 0
         /\ \A w \in Wrappers : of[w] = o => count[o] > 0 /\ address[o] # None
         /\ (o \in engine \/ carried[o] > 0) /\ count[o] = 1 => \A w \in Wrappers : of[w] # o
         /\ \A v, w \in Wrappers : of[v] = o /\ of[w] = o /\ count[o] = 1 => v = w
<1>1. Counted(o) /\ carried[o] \in Nat /\ count[o] \in Nat
  BY CacheAssumption, CountedSuffices DEF IInv, TypeOK
<1>2. Cardinality(WrappersOf(o)) \in Nat /\ IsFiniteSet(WrappersOf(o))
  BY WrappersCounted
<1>3. \A w \in Wrappers : of[w] = o => Cardinality(WrappersOf(o)) > 0
  BY WrappersCounted
<1>4. /\ o \in engine \/ carried[o] > 0 => count[o] > 0
      /\ \A w \in Wrappers : of[w] = o => count[o] > 0 /\ address[o] # None
      /\ (o \in engine \/ carried[o] > 0) /\ count[o] = 1 => \A w \in Wrappers : of[w] # o
  BY <1>1, <1>2, <1>3 DEF Counted, Bit
<1>5. ASSUME NEW v \in Wrappers, NEW w \in Wrappers, of[v] = o, of[w] = o, count[o] = 1
      PROVE  v = w
  <2>1. Cardinality(WrappersOf(o)) = 1
    BY <1>1, <1>2, <1>3, <1>5 DEF Counted, Bit
  <2>2. PICK x : WrappersOf(o) = {x}
    BY <1>2, <2>1, FS_Singleton
  <2>3. v \in WrappersOf(o) /\ w \in WrappersOf(o)
    BY <1>5 DEF WrappersOf
  <2> QED
    BY <2>2, <2>3
<1> QED
  BY <1>4, <1>5

(* Dispose of a wrapper: no entry of a cache leads to it any more, and     *)
(* every other wrapper's object stays where it is.                         *)
DisposeFacts(w) ==
  /\ count' \in [Objects -> Nat] /\ address' \in [Objects -> Addresses \cup {None}]
  /\ of' \in [Wrappers -> Objects \cup {None}]
  /\ cache' \in [Machines -> [Addresses -> Wrappers \cup {None}]]
  /\ of'[w] = None
  /\ \A v \in Wrappers : v # w => of'[v] = of[v]
  /\ \A v \in Wrappers : v # w /\ of[v] # None => address'[of[v]] = address[of[v]]
  /\ \A m \in Machines, a \in Addresses :
       cache'[m][a] # None => cache'[m][a] = cache[m][a] /\ cache[m][a] # w
  /\ CountsOwners' /\ Placed'

LEMMA DisposeStep ==
  ASSUME IInv, NEW w \in Wrappers, Disposed(w), UNCHANGED <<engine, carried>>
  PROVE  DisposeFacts(w)
<1>0. /\ None \notin Objects /\ None \notin Wrappers
      /\ of \in [Wrappers -> Objects \cup {None}]
      /\ cache \in [Machines -> [Addresses -> Wrappers \cup {None}]]
      /\ on \in [Wrappers -> Machines \cup {None}]
      /\ count \in [Objects -> Nat] /\ address \in [Objects -> Addresses \cup {None}]
      /\ \A o \in Objects : carried[o] \in Nat
  BY CacheAssumption DEF IInv, TypeOK
<1>1. CASE of[w] = None
  <2>1. UNCHANGED <<address, count, cache, of>>
    BY <1>1 DEF Disposed
  <2>2. \A m \in Machines, a \in Addresses : cache[m][a] # w
    BY <1>0, <1>1 DEF IInv, CacheTrue
  <2>3. CountsOwners' /\ Placed'
    BY <2>1 DEF IInv, CountsOwners, Placed, Alive, WrappersOf
  <2> QED
    BY <1>0, <1>1, <2>1, <2>2, <2>3 DEF DisposeFacts
<1>2. CASE of[w] # None
  <2>1. PICK o \in Objects : o = of[w]
    BY <1>0, <1>2
  <2>2. /\ cache' = Forgotten(on[w], o) /\ Dropped(o, 1)
        /\ of' = [of EXCEPT ![w] = None]
    BY <1>2, <2>1 DEF Disposed
  <2>3. count[o] > 0 /\ address[o] # None
    BY <2>1, Referred
  <2>4. DropFacts(o) /\ Placed'
    BY <2>2, <2>3, DropStep
  <2>5. /\ of' \in [Wrappers -> Objects \cup {None}]
        /\ of'[w] = None /\ \A v \in Wrappers : v # w => of'[v] = of[v]
    BY <1>0, <2>2
  <2>6. ASSUME NEW v \in Wrappers, v # w, of[v] # None
        PROVE  address'[of[v]] = address[of[v]]
    <3>1. of[v] \in Objects
      BY <1>0, <2>6
    <3>2. CASE of[v] # o
      BY <3>1, <3>2, <2>4 DEF DropFacts
    <3>3. CASE of[v] = o
      <4>1. count[o] # 1
        BY <2>1, <2>6, <3>3, Referred
      <4> QED
        BY <1>0, <2>3, <2>4, <3>3, <4>1 DEF DropFacts
    <3> QED
      BY <3>2, <3>3
  <2>7. on[w] \in Machines
    BY <1>0, <2>1 DEF IInv, Settled
  <2>8. /\ cache' \in [Machines -> [Addresses -> Wrappers \cup {None}]]
        /\ \A m \in Machines, a \in Addresses :
             cache'[m][a] = IF m = on[w] /\ a = address[o] THEN None ELSE cache[m][a]
    BY <1>0, <2>2, <2>7 DEF Forgotten
  <2>9. \A m \in Machines, a \in Addresses :
          cache'[m][a] # None => cache'[m][a] = cache[m][a] /\ cache[m][a] # w
    BY <2>1, <2>8 DEF IInv, CacheTrue
  <2>10. ASSUME NEW p \in Objects PROVE Counted(p)'
    <3>0. of[w] = o /\ of \in [Wrappers -> Objects \cup {None}] /\ of' = [of EXCEPT ![w] = None]
      BY <1>0, <2>1, <2>2
    <3>1. Cardinality(WrappersOf(p))' = Cardinality(WrappersOf(p)) - Bit(p = o)
      BY <3>0, WrapperRemoved
    <3>2. Counted(p) /\ Cardinality(WrappersOf(p)) \in Nat
      BY CountedSuffices, WrappersCounted DEF IInv
    <3>3. count'[p] = count[p] - Bit(p = o)
      BY <1>0, <2>4 DEF DropFacts, Bit
    <3>4. address'[p] # None <=> count'[p] > 0
      <4>1. address[p] # None <=> count[p] > 0
        BY <3>2 DEF Counted
      <4>2. CASE p = o
        BY <2>4, <4>2 DEF DropFacts
      <4>3. CASE p # o
        BY <2>4, <4>1, <4>3 DEF DropFacts
      <4> QED
        BY <4>2, <4>3
    <3>5. Bit(p \in engine)' = Bit(p \in engine) /\ carried'[p] = carried[p] /\ Bit(p \in engine) \in Nat
      BY DEF Bit
    <3>6. Bit(p = o) \in Nat /\ count[p] \in Nat /\ carried[p] \in Nat
      BY <1>0 DEF Bit
    <3>7. count'[p] = Bit(p \in engine)' + carried'[p] + Cardinality(WrappersOf(p))'
      BY <3>1, <3>2, <3>3, <3>5, <3>6 DEF Counted
    <3> QED
      BY <3>4, <3>7 DEF Counted
  <2>11. CountsOwners'
    BY <2>10, CountedPrimed
  <2> QED
    BY <2>4, <2>5, <2>6, <2>8, <2>9, <2>11 DEF DisposeFacts, DropFacts
<1> QED
  BY <1>1, <1>2

-----------------------------------------------------------------------------
(* A reference is given back by the engine or with a carried copy: o had   *)
(* it, and the wrappers do not change.                                     *)
LEMMA GiveBackStep ==
  ASSUME IInv, NEW o \in Objects, o \in engine \/ carried[o] > 0, Dropped(o, 1),
         engine' \subseteq Objects, carried' \in [Objects -> 0..MaxCarried],
         \A p \in Objects : Bit(p \in engine)' + carried'[p] =
                            Bit(p \in engine) + carried[p] - Bit(p = o),
         UNCHANGED <<on, of, rooted, doomed, cache>>
  PROVE  IInv'
<1>0. /\ of \in [Wrappers -> Objects \cup {None}] /\ None \notin Objects
      /\ count \in [Objects -> Nat] /\ carried \in [Objects -> 0..MaxCarried] /\ MaxCarried \in Nat
  BY CacheAssumption DEF IInv, TypeOK
<1>1. count[o] > 0
  BY Referred
<1>2. DropFacts(o) /\ Placed'
  BY <1>1, DropStep
<1>3. TypeOK'
  BY <1>2 DEF IInv, TypeOK, DropFacts
<1>4. ASSUME NEW w \in Wrappers, of[w] # None PROVE address'[of[w]] = address[of[w]]
  <2>1. of[w] \in Objects
    BY <1>0, <1>4
  <2>2. of[w] = o => count[o] # 1
    BY <1>4, Referred
  <2>3. of[w] = o => count'[o] > 0
    BY <1>0, <1>1, <1>2, <2>2 DEF DropFacts
  <2> QED
    BY <1>2, <2>1, <2>3 DEF DropFacts
<1>5. CacheTrue'
  BY <1>0, <1>4 DEF IInv, TypeOK, CacheTrue
<1>6. ASSUME NEW p \in Objects PROVE Counted(p)'
  <2>1. Cardinality(WrappersOf(p))' = Cardinality(WrappersOf(p))
    BY WrappersStay
  <2>2. Counted(p) /\ Cardinality(WrappersOf(p)) \in Nat
    BY CountedSuffices, WrappersCounted DEF IInv
  <2>3. count'[p] = count[p] - Bit(p = o)
    BY <1>0, <1>2 DEF DropFacts, Bit
  <2>4. address'[p] # None <=> count'[p] > 0
    <3>1. address[p] # None <=> count[p] > 0
      BY <2>2 DEF Counted
    <3>2. CASE p = o
      BY <1>2, <3>2 DEF DropFacts
    <3>3. CASE p # o
      BY <1>2, <3>1, <3>3 DEF DropFacts
    <3> QED
      BY <3>2, <3>3
  <2>5. Bit(p = o) \in Nat /\ Bit(p \in engine) \in Nat /\ carried[p] \in Nat /\ count[p] \in Nat
    BY <1>0 DEF Bit
  <2>6. Bit(p \in engine)' + carried'[p] = Bit(p \in engine) + carried[p] - Bit(p = o)
    OBVIOUS
  <2>7. count'[p] = Bit(p \in engine)' + carried'[p] + Cardinality(WrappersOf(p))'
    BY <2>1, <2>2, <2>3, <2>5, <2>6 DEF Counted
  <2> QED
    BY <2>4, <2>7 DEF Counted
<1>7. CountsOwners'
  BY <1>6, CountedPrimed
<1>8. NeverSweptAlive' /\ Settled'
  BY DEF IInv, NeverSweptAlive, Settled
<1> QED
  BY <1>2, <1>3, <1>5, <1>7, <1>8 DEF IInv

(* One more owner of an object that lives: nothing moves.                  *)
LEMMA RetainStep ==
  ASSUME IInv, NEW o \in Objects, address[o] # None, Retained(o),
         engine' \subseteq Objects, carried' \in [Objects -> 0..MaxCarried],
         of' \in [Wrappers -> Objects \cup {None}],
         \A p \in Objects :
           Bit(p \in engine)' + carried'[p] + Cardinality(WrappersOf(p))' =
             Bit(p \in engine) + carried[p] + Cardinality(WrappersOf(p)) + Bit(p = o),
         address' = address
  PROVE  CountsOwners' /\ count' \in [Objects -> Nat] /\ Placed'
<1>0. count \in [Objects -> Nat] /\ carried \in [Objects -> 0..MaxCarried] /\ MaxCarried \in Nat
  BY CacheAssumption DEF IInv, TypeOK
<1>1. /\ count' \in [Objects -> Nat]
      /\ \A p \in Objects : count'[p] = count[p] + Bit(p = o)
  BY <1>0 DEF Retained, Bit
<1>2. ASSUME NEW p \in Objects PROVE Counted(p)'
  <2>1. Counted(p)
    BY CountedSuffices DEF IInv
  <2>2. count'[p] = Bit(p \in engine)' + carried'[p] + Cardinality(WrappersOf(p))'
    BY <1>1, <2>1 DEF Counted
  <2>3. address'[p] # None <=> count'[p] > 0
    BY <1>0, <1>1, <2>1 DEF Counted, Bit
  <2> QED
    BY <2>2, <2>3 DEF Counted
<1>3. CountsOwners'
  BY <1>2, CountedPrimed
<1>4. Placed'
  BY DEF IInv, Placed
<1> QED
  BY <1>1, <1>3, <1>4

(* A wrapper made on machine m for an object that lives, in the cache or   *)
(* not.                                                                    *)
LEMMA MadeStep ==
  ASSUME IInv, NEW w \in Wrappers, NEW m \in Machines, NEW o \in Objects,
         address[o] # None, Made(w, m, o), Retained(o),
         UNCHANGED <<address, engine, carried, doomed>>,
         cache' \in [Machines -> [Addresses -> Wrappers \cup {None}]],
         \A n \in Machines, a \in Addresses :
           cache'[n][a] = cache[n][a] \/ (n = m /\ a = address[o] /\ cache'[n][a] = w)
  PROVE  IInv'
<1>0. /\ of \in [Wrappers -> Objects \cup {None}] /\ on \in [Wrappers -> Machines \cup {None}]
      /\ None \notin Objects /\ None \notin Machines /\ None \notin Wrappers
      /\ carried \in [Objects -> 0..MaxCarried] /\ MaxCarried \in Nat
      /\ cache \in [Machines -> [Addresses -> Wrappers \cup {None}]]
  BY CacheAssumption DEF IInv, TypeOK
<1>1. on[w] = None /\ of[w] = None /\ w \notin rooted /\ w \notin doomed
  BY DEF Made, IInv, Settled
<1>2. /\ of' = [of EXCEPT ![w] = o] /\ on' = [on EXCEPT ![w] = m] /\ rooted' = rooted \cup {w}
      /\ of' \in [Wrappers -> Objects \cup {None}]
      /\ on' \in [Wrappers -> Machines \cup {None}]
      /\ of'[w] = o /\ on'[w] = m
      /\ \A v \in Wrappers : v # w => of'[v] = of[v] /\ on'[v] = on[v]
  BY <1>0 DEF Made
<1>3. \A p \in Objects :
        Bit(p \in engine)' + carried'[p] + Cardinality(WrappersOf(p))' =
          Bit(p \in engine) + carried[p] + Cardinality(WrappersOf(p)) + Bit(p = o)
  <2> SUFFICES ASSUME NEW p \in Objects
               PROVE  Bit(p \in engine)' + carried'[p] + Cardinality(WrappersOf(p))' =
                        Bit(p \in engine) + carried[p] + Cardinality(WrappersOf(p)) + Bit(p = o)
    OBVIOUS
  <2>1. Cardinality(WrappersOf(p))' = Cardinality(WrappersOf(p)) + Bit(p = o)
    BY <1>0, <1>1, <1>2, WrapperAdded
  <2>2. Cardinality(WrappersOf(p)) \in Nat
    BY WrappersCounted
  <2>3. Bit(p \in engine)' = Bit(p \in engine) /\ carried'[p] = carried[p]
    BY DEF Bit
  <2>4. Bit(p = o) \in Nat /\ Bit(p \in engine) \in Nat /\ carried[p] \in Nat
    BY <1>0 DEF Bit
  <2> QED
    BY <2>1, <2>2, <2>3, <2>4
<1>4. CountsOwners' /\ count' \in [Objects -> Nat] /\ Placed'
  <2>1. engine' \subseteq Objects /\ carried' \in [Objects -> 0..MaxCarried]
    BY DEF IInv, TypeOK
  <2> QED
    BY <1>2, <1>3, <2>1, RetainStep
<1>5. TypeOK'
  BY <1>0, <1>2, <1>4 DEF IInv, TypeOK
<1>6. NeverSweptAlive' /\ Settled'
  BY <1>0, <1>1, <1>2 DEF IInv, NeverSweptAlive, Settled
<1>7. CacheTrue'
  <2> SUFFICES ASSUME NEW n \in Machines, NEW a \in Addresses, cache'[n][a] # None
               PROVE  /\ cache'[n][a] \notin doomed /\ on'[cache'[n][a]] = n
                      /\ of'[cache'[n][a]] # None /\ address[of'[cache'[n][a]]] = a
    BY DEF CacheTrue
  <2>1. CASE cache'[n][a] = cache[n][a] /\ cache[n][a] # w
    BY <1>0, <1>2, <2>1 DEF IInv, CacheTrue
  <2>2. CASE cache'[n][a] = cache[n][a] /\ cache[n][a] = w
    <3>1. of[w] # None
      BY <2>2, <1>0 DEF IInv, CacheTrue
    <3> QED
      BY <1>1, <3>1
  <2>3. CASE n = m /\ a = address[o] /\ cache'[n][a] = w
    BY <1>0, <1>1, <1>2, <2>3
  <2> QED
    BY <2>1, <2>2, <2>3
<1> QED
  BY <1>4, <1>5, <1>6, <1>7 DEF IInv

-----------------------------------------------------------------------------
(* The actions.                                                            *)

LEMMA InitIInv == Init => IInv
<1> SUFFICES ASSUME Init PROVE IInv
  OBVIOUS
<1>1. /\ None \notin Objects /\ None \notin Wrappers /\ 0 \in 0..MaxCarried
  BY CacheAssumption
<1>2. TypeOK
  BY <1>1 DEF Init, TypeOK
<1>3. ASSUME NEW o \in Objects PROVE Counted(o)
  <2>1. WrappersOf(o) = {}
    BY <1>1 DEF Init, WrappersOf
  <2>2. Cardinality(WrappersOf(o)) = 0
    BY <2>1, FS_EmptySet
  <2> QED
    BY <2>2 DEF Init, Counted, Bit
<1>4. CountsOwners
  BY <1>3, CountedSuffices
<1>5. CacheTrue /\ NeverSweptAlive /\ Placed /\ Settled
  BY DEF Init, CacheTrue, NeverSweptAlive, Placed, Settled
<1> QED
  BY <1>2, <1>4, <1>5 DEF IInv

(* A new object is referred to by nobody but the engine, and what a cache  *)
(* still has at its address would be a wrapper of an object living there.  *)
LEMMA NewStep ==
  ASSUME IInv, NEW o \in Objects, New(o)
  PROVE  IInv'
<1>0. /\ of \in [Wrappers -> Objects \cup {None}] /\ None \notin Objects /\ None \notin Addresses
      /\ count \in [Objects -> Nat] /\ carried \in [Objects -> 0..MaxCarried] /\ MaxCarried \in Nat
      /\ address \in [Objects -> Addresses \cup {None}]
  BY CacheAssumption DEF IInv, TypeOK
<1>1. PICK a \in Addresses : /\ address' = [address EXCEPT ![o] = a]
                             /\ \A p \in Objects : address[p] # a
  BY DEF New
<1>2. /\ count' = [count EXCEPT ![o] = 1] /\ engine' = engine \cup {o}
      /\ UNCHANGED <<carried, on, of, rooted, doomed, cache>> /\ address[o] = None
  BY DEF New, Alive
<1>3. TypeOK'
  BY <1>1, <1>2 DEF IInv, TypeOK
<1>4. Placed'
  BY <1>0, <1>1 DEF IInv, Placed
<1>5. Counted(o) /\ Cardinality(WrappersOf(o)) \in Nat
  BY CountedSuffices, WrappersCounted DEF IInv
<1>6. count[o] = 0 /\ o \notin engine /\ carried[o] = 0 /\ Cardinality(WrappersOf(o)) = 0
  BY <1>0, <1>2, <1>5 DEF Counted, Bit
<1>7. ASSUME NEW p \in Objects PROVE Counted(p)'
  <2>1. Cardinality(WrappersOf(p))' = Cardinality(WrappersOf(p))
    BY <1>2, WrappersStay
  <2>2. CASE p = o
    BY <1>0, <1>1, <1>2, <1>6, <2>1, <2>2 DEF Counted, Bit
  <2>3. CASE p # o
    <3>1. Counted(p)
      BY CountedSuffices DEF IInv
    <3>2. /\ count'[p] = count[p] /\ address'[p] = address[p] /\ carried'[p] = carried[p]
          /\ Bit(p \in engine)' = Bit(p \in engine)
      BY <1>1, <1>2, <2>3 DEF Bit
    <3> QED
      BY <2>1, <3>1, <3>2 DEF Counted
  <2> QED
    BY <2>2, <2>3
<1>8. CountsOwners'
  BY <1>7, CountedPrimed
<1>9. ASSUME NEW w \in Wrappers, of[w] # None PROVE address'[of[w]] = address[of[w]]
  <2>1. of[w] \in Objects /\ of[w] # o
    BY <1>0, <1>2, <1>9, Referred
  <2> QED
    BY <1>0, <1>1, <2>1
<1>10. CacheTrue'
  BY <1>2, <1>9 DEF IInv, TypeOK, CacheTrue
<1>11. NeverSweptAlive' /\ Settled'
  BY <1>2 DEF IInv, NeverSweptAlive, Settled
<1> QED
  BY <1>3, <1>4, <1>8, <1>10, <1>11 DEF IInv

LEMMA KeepStep ==
  ASSUME IInv, NEW w \in Wrappers, Keep(w)
  PROVE  IInv'
<1>0. /\ of \in [Wrappers -> Objects \cup {None}]
      /\ carried \in [Objects -> 0..MaxCarried] /\ MaxCarried \in Nat
  BY CacheAssumption DEF IInv, TypeOK
<1>1. PICK o \in Objects : o = of[w]
  BY <1>0 DEF Keep, Live
<1>2. /\ o \notin engine /\ engine' = engine \cup {o} /\ Retained(o)
      /\ UNCHANGED <<address, carried, on, of, rooted, doomed, cache>>
  BY <1>1 DEF Keep
<1>3. address[o] # None
  BY <1>1, Referred
<1>4. ASSUME NEW p \in Objects
      PROVE  Bit(p \in engine)' + carried'[p] + Cardinality(WrappersOf(p))' =
               Bit(p \in engine) + carried[p] + Cardinality(WrappersOf(p)) + Bit(p = o)
  <2>1. Cardinality(WrappersOf(p))' = Cardinality(WrappersOf(p)) /\ Cardinality(WrappersOf(p)) \in Nat
    BY <1>2, WrappersStay, WrappersCounted
  <2>2. Bit(p \in engine)' = Bit(p \in engine) + Bit(p = o) /\ carried'[p] = carried[p]
    BY <1>2 DEF Bit
  <2>3. Bit(p = o) \in Nat /\ Bit(p \in engine) \in Nat /\ carried[p] \in Nat
    BY <1>0 DEF Bit
  <2> QED
    BY <2>1, <2>2, <2>3
<1>5. /\ engine' \subseteq Objects /\ carried' \in [Objects -> 0..MaxCarried]
      /\ of' \in [Wrappers -> Objects \cup {None}] /\ address' = address
  BY <1>2 DEF IInv, TypeOK
<1>6. CountsOwners' /\ count' \in [Objects -> Nat] /\ Placed'
  BY <1>2, <1>3, <1>4, <1>5, RetainStep
<1>7. TypeOK' /\ CacheTrue' /\ NeverSweptAlive' /\ Settled'
  BY <1>2, <1>5, <1>6 DEF IInv, TypeOK, CacheTrue, NeverSweptAlive, Settled
<1> QED
  BY <1>6, <1>7 DEF IInv

LEMMA CarryStep ==
  ASSUME IInv, NEW w \in Wrappers, Carry(w)
  PROVE  IInv'
<1>0. /\ of \in [Wrappers -> Objects \cup {None}]
      /\ carried \in [Objects -> 0..MaxCarried] /\ MaxCarried \in Nat
  BY CacheAssumption DEF IInv, TypeOK
<1>1. PICK o \in Objects : o = of[w]
  BY <1>0 DEF Carry, Live
<1>2. /\ carried[o] < MaxCarried /\ carried' = [carried EXCEPT ![o] = @ + 1] /\ Retained(o)
      /\ UNCHANGED <<address, engine, on, of, rooted, doomed, cache>>
  BY <1>1 DEF Carry
<1>3. address[o] # None
  BY <1>1, Referred
<1>4. ASSUME NEW p \in Objects
      PROVE  Bit(p \in engine)' + carried'[p] + Cardinality(WrappersOf(p))' =
               Bit(p \in engine) + carried[p] + Cardinality(WrappersOf(p)) + Bit(p = o)
  <2>1. Cardinality(WrappersOf(p))' = Cardinality(WrappersOf(p)) /\ Cardinality(WrappersOf(p)) \in Nat
    BY <1>2, WrappersStay, WrappersCounted
  <2>2. Bit(p \in engine)' = Bit(p \in engine) /\ carried'[p] = carried[p] + Bit(p = o)
    BY <1>0, <1>2 DEF Bit
  <2>3. Bit(p = o) \in Nat /\ Bit(p \in engine) \in Nat /\ carried[p] \in Nat
    BY <1>0 DEF Bit
  <2> QED
    BY <2>1, <2>2, <2>3
<1>5. /\ engine' \subseteq Objects /\ carried' \in [Objects -> 0..MaxCarried]
      /\ of' \in [Wrappers -> Objects \cup {None}] /\ address' = address
  BY <1>0, <1>2 DEF IInv, TypeOK
<1>6. CountsOwners' /\ count' \in [Objects -> Nat] /\ Placed'
  BY <1>2, <1>3, <1>4, <1>5, RetainStep
<1>7. TypeOK' /\ CacheTrue' /\ NeverSweptAlive' /\ Settled'
  BY <1>2, <1>5, <1>6 DEF IInv, TypeOK, CacheTrue, NeverSweptAlive, Settled
<1> QED
  BY <1>6, <1>7 DEF IInv

LEMMA LetGoStep ==
  ASSUME IInv, NEW o \in Objects, LetGo(o)
  PROVE  IInv'
<1>0. engine \subseteq Objects /\ carried \in [Objects -> 0..MaxCarried] /\ MaxCarried \in Nat
  BY CacheAssumption DEF IInv, TypeOK
<1>1. /\ o \in engine /\ engine' = engine \ {o} /\ Dropped(o, 1)
      /\ UNCHANGED <<carried, on, of, rooted, doomed, cache>>
  BY DEF LetGo
<1>2. ASSUME NEW p \in Objects
      PROVE  Bit(p \in engine)' + carried'[p] = Bit(p \in engine) + carried[p] - Bit(p = o)
  BY <1>0, <1>1 DEF Bit
<1> QED
  BY <1>0, <1>1, <1>2, GiveBackStep

LEMMA FreeCarriedStep ==
  ASSUME IInv, NEW o \in Objects, FreeCarried(o)
  PROVE  IInv'
<1>0. engine \subseteq Objects /\ carried \in [Objects -> 0..MaxCarried] /\ MaxCarried \in Nat
  BY CacheAssumption DEF IInv, TypeOK
<1>1. /\ carried[o] > 0 /\ carried' = [carried EXCEPT ![o] = @ - 1] /\ Dropped(o, 1)
      /\ UNCHANGED <<engine, on, of, rooted, doomed, cache>>
  BY DEF FreeCarried
<1>2. ASSUME NEW p \in Objects
      PROVE  Bit(p \in engine)' + carried'[p] = Bit(p \in engine) + carried[p] - Bit(p = o)
  BY <1>0, <1>1 DEF Bit
<1>3. engine' \subseteq Objects /\ carried' \in [Objects -> 0..MaxCarried]
  BY <1>0, <1>1
<1> QED
  BY <1>1, <1>2, <1>3, GiveBackStep

(* The cached wrapper is handed out again, or a new one is made.           *)
LEMMA PushObjectStep ==
  ASSUME IInv, NEW m \in Machines, NEW o \in Objects, PushObject(m, o)
  PROVE  IInv'
<1>0. /\ address \in [Objects -> Addresses \cup {None}] /\ None \notin Machines
      /\ cache \in [Machines -> [Addresses -> Wrappers \cup {None}]]
      /\ on \in [Wrappers -> Machines \cup {None}]
  BY CacheAssumption DEF IInv, TypeOK
<1>1. o \in engine /\ UNCHANGED <<address, engine, carried, doomed>>
  BY DEF PushObject
<1>2. address[o] # None /\ address[o] \in Addresses
  BY <1>0, <1>1, Referred DEF IInv, CountsOwners, Alive
<1>3. CASE cache[m][address[o]] # None
  <2>1. PICK w \in Wrappers : w = cache[m][address[o]]
    BY <1>0, <1>2, <1>3
  <2>2. rooted' = rooted \cup {w} /\ UNCHANGED <<count, on, of, cache>>
    BY <1>3, <2>1 DEF PushObject
  <2>3. w \notin doomed /\ on[w] = m
    BY <1>2, <1>3, <2>1 DEF IInv, CacheTrue
  <2>4. TypeOK' /\ NeverSweptAlive' /\ Settled'
    BY <1>0, <1>1, <2>2, <2>3 DEF IInv, TypeOK, NeverSweptAlive, Settled
  <2>5. CountsOwners' /\ CacheTrue' /\ Placed'
    BY <1>1, <2>2 DEF IInv, CountsOwners, CacheTrue, Placed, Alive, WrappersOf
  <2> QED
    BY <2>4, <2>5 DEF IInv
<1>4. CASE cache[m][address[o]] = None
  <2>1. PICK w \in Wrappers :
          /\ Made(w, m, o) /\ Retained(o)
          /\ \/ cache' = [cache EXCEPT ![m][address[o]] = w]
             \/ cache' = cache
    BY <1>4 DEF PushObject
  <2>2. /\ cache' \in [Machines -> [Addresses -> Wrappers \cup {None}]]
        /\ \A n \in Machines, a \in Addresses :
             cache'[n][a] = cache[n][a] \/ (n = m /\ a = address[o] /\ cache'[n][a] = w)
    BY <1>0, <1>2, <2>1
  <2> QED
    BY <1>1, <1>2, <2>1, <2>2, MadeStep
<1> QED
  BY <1>3, <1>4

LEMMA UncarryStep ==
  ASSUME IInv, NEW m \in Machines, NEW o \in Objects, Uncarry(m, o)
  PROVE  IInv'
<1>1. carried[o] > 0 /\ Retained(o) /\ UNCHANGED <<address, engine, carried, doomed, cache>>
  BY DEF Uncarry
<1>2. address[o] # None
  BY <1>1, Referred DEF IInv, CountsOwners, Alive
<1>3. PICK w \in Wrappers : Made(w, m, o)
  BY DEF Uncarry
<1>4. /\ cache' \in [Machines -> [Addresses -> Wrappers \cup {None}]]
      /\ \A n \in Machines, a \in Addresses : cache'[n][a] = cache[n][a]
  BY <1>1 DEF IInv, TypeOK
<1> QED
  BY <1>1, <1>2, <1>3, <1>4, MadeStep

LEMMA LoseStep ==
  ASSUME IInv, NEW w \in Wrappers, Lose(w)
  PROVE  IInv'
<1>1. TypeOK' /\ NeverSweptAlive' /\ Settled'
  BY DEF IInv, TypeOK, NeverSweptAlive, Settled, Lose
<1>2. CountsOwners' /\ CacheTrue' /\ Placed'
  BY DEF IInv, CountsOwners, CacheTrue, Placed, Alive, WrappersOf, Lose
<1> QED
  BY <1>1, <1>2 DEF IInv

(* After a wrapper has been disposed of, what the caches still answer are  *)
(* other wrappers, whose objects have not moved.                           *)
LEMMA DisposeByNameStep ==
  ASSUME IInv, NEW w \in Wrappers, DisposeByName(w)
  PROVE  IInv'
<1>0. /\ None \notin Wrappers
      /\ cache \in [Machines -> [Addresses -> Wrappers \cup {None}]]
  BY CacheAssumption DEF IInv, TypeOK
<1>1. Disposed(w) /\ UNCHANGED <<engine, carried, on, rooted, doomed>>
  BY DEF DisposeByName
<1>2. DisposeFacts(w)
  BY <1>1, DisposeStep
<1>3. TypeOK'
  BY <1>1, <1>2 DEF IInv, TypeOK, DisposeFacts
<1>4. CacheTrue'
  BY <1>0, <1>1, <1>2 DEF IInv, CacheTrue, DisposeFacts
<1>5. NeverSweptAlive' /\ Settled'
  BY <1>1, <1>2 DEF IInv, NeverSweptAlive, Settled, DisposeFacts
<1> QED
  BY <1>2, <1>3, <1>4, <1>5 DEF IInv, DisposeFacts

LEMMA SweepStep ==
  ASSUME IInv, NEW w \in Wrappers, Sweep(w)
  PROVE  IInv'
<1>0. /\ None \notin Wrappers
      /\ cache \in [Machines -> [Addresses -> Wrappers \cup {None}]]
      /\ on \in [Wrappers -> Machines \cup {None}]
  BY CacheAssumption DEF IInv, TypeOK
<1>1. /\ w \in doomed /\ Disposed(w) /\ on' = [on EXCEPT ![w] = None] /\ doomed' = doomed \ {w}
      /\ UNCHANGED <<engine, carried, rooted>>
  BY DEF Sweep
<1>2. DisposeFacts(w)
  BY <1>1, DisposeStep
<1>3. TypeOK'
  BY <1>0, <1>1, <1>2 DEF IInv, TypeOK, DisposeFacts
<1>4. CacheTrue'
  BY <1>0, <1>1, <1>2 DEF IInv, CacheTrue, DisposeFacts
<1>5. w \notin rooted
  BY <1>1 DEF IInv, NeverSweptAlive
<1>6. NeverSweptAlive' /\ Settled'
  BY <1>0, <1>1, <1>2, <1>5 DEF IInv, NeverSweptAlive, Settled, DisposeFacts
<1> QED
  BY <1>2, <1>3, <1>4, <1>6 DEF IInv, DisposeFacts

(* What the sweep will free is out of the cache before the program runs.   *)
LEMMA EndOfMarkingStep ==
  ASSUME IInv, NEW m \in Machines, EndOfMarking(m)
  PROVE  IInv'
<1>0. /\ None \notin Wrappers /\ None \notin Machines
      /\ cache \in [Machines -> [Addresses -> Wrappers \cup {None}]]
      /\ on \in [Wrappers -> Machines \cup {None}]
  BY CacheAssumption DEF IInv, TypeOK
<1>1. PICK dead \in SUBSET (On(m) \ rooted) :
        doomed' = doomed \cup dead /\ cache' = Uncached(m, dead)
  BY DEF EndOfMarking
<1>2. UNCHANGED <<address, count, engine, carried, on, of, rooted>>
  BY DEF EndOfMarking
<1>3. /\ cache' \in [Machines -> [Addresses -> Wrappers \cup {None}]]
      /\ \A n \in Machines, a \in Addresses :
           cache'[n][a] # None => cache'[n][a] = cache[n][a] /\ (n = m => cache[n][a] \notin dead)
  BY <1>0, <1>1 DEF Uncached
<1>4. TypeOK' /\ NeverSweptAlive' /\ Settled'
  BY <1>0, <1>1, <1>2, <1>3 DEF IInv, TypeOK, NeverSweptAlive, Settled, On
<1>5. CountsOwners' /\ Placed'
  BY <1>2 DEF IInv, CountsOwners, Placed, Alive, WrappersOf
<1>6. CacheTrue'
  BY <1>0, <1>1, <1>2, <1>3 DEF IInv, CacheTrue, On
<1> QED
  BY <1>4, <1>5, <1>6 DEF IInv

LEMMA MachineEndsStep ==
  ASSUME IInv, NEW m \in Machines, MachineEnds(m)
  PROVE  IInv'
<1>0. /\ None \notin Wrappers /\ None \notin Machines
      /\ cache \in [Machines -> [Addresses -> Wrappers \cup {None}]]
      /\ on \in [Wrappers -> Machines \cup {None}]
  BY CacheAssumption DEF IInv, TypeOK
<1>1. /\ rooted' = rooted \ On(m) /\ doomed' = doomed \cup On(m)
      /\ cache' = [cache EXCEPT ![m] = [a \in Addresses |-> None]]
      /\ UNCHANGED <<address, count, engine, carried, on, of>>
  BY DEF MachineEnds
<1>2. /\ cache' \in [Machines -> [Addresses -> Wrappers \cup {None}]]
      /\ \A n \in Machines, a \in Addresses :
           cache'[n][a] # None => cache'[n][a] = cache[n][a] /\ n # m
  BY <1>0, <1>1
<1>3. TypeOK' /\ NeverSweptAlive' /\ Settled'
  BY <1>0, <1>1, <1>2 DEF IInv, TypeOK, NeverSweptAlive, Settled, On
<1>4. CountsOwners' /\ Placed'
  BY <1>1 DEF IInv, CountsOwners, Placed, Alive, WrappersOf
<1>5. CacheTrue'
  BY <1>0, <1>1, <1>2 DEF IInv, CacheTrue, On
<1> QED
  BY <1>3, <1>4, <1>5 DEF IInv

LEMMA NextIInv == IInv /\ [Next]_vars => IInv'
<1> SUFFICES ASSUME IInv, [Next]_vars PROVE IInv'
  OBVIOUS
<1>1. ASSUME NEW o \in Objects, New(o) \/ LetGo(o) \/ FreeCarried(o) PROVE IInv'
  BY <1>1, NewStep, LetGoStep, FreeCarriedStep
<1>2. ASSUME NEW m \in Machines, EndOfMarking(m) \/ MachineEnds(m) PROVE IInv'
  BY <1>2, EndOfMarkingStep, MachineEndsStep
<1>3. ASSUME NEW m \in Machines, NEW o \in Objects, PushObject(m, o) \/ Uncarry(m, o) PROVE IInv'
  BY <1>3, PushObjectStep, UncarryStep
<1>4. ASSUME NEW w \in Wrappers,
             Keep(w) \/ Lose(w) \/ DisposeByName(w) \/ Sweep(w) \/ Carry(w)
      PROVE  IInv'
  BY <1>4, KeepStep, LoseStep, DisposeByNameStep, SweepStep, CarryStep
<1>5. CASE UNCHANGED vars
  <2>1. UNCHANGED <<address, count, engine, carried, on, of, rooted, doomed, cache>>
    BY <1>5 DEF vars
  <2>2. TypeOK' /\ NeverSweptAlive' /\ Settled'
    BY <2>1 DEF IInv, TypeOK, NeverSweptAlive, Settled
  <2>3. CountsOwners' /\ CacheTrue' /\ Placed'
    BY <2>1 DEF IInv, CountsOwners, CacheTrue, Placed, Alive, WrappersOf
  <2> QED
    BY <2>2, <2>3 DEF IInv
<1>6. CASE \E o \in Objects : New(o) \/ LetGo(o) \/ FreeCarried(o)
  BY <1>1, <1>6
<1>7. CASE \E m \in Machines : EndOfMarking(m) \/ MachineEnds(m)
                                \/ \E o \in Objects : PushObject(m, o) \/ Uncarry(m, o)
  BY <1>2, <1>3, <1>7
<1>8. CASE \E w \in Wrappers : Keep(w) \/ Lose(w) \/ DisposeByName(w) \/ Sweep(w) \/ Carry(w)
  BY <1>4, <1>8
<1> QED
  BY <1>5, <1>6, <1>7, <1>8 DEF Next

-----------------------------------------------------------------------------
(* The strengthened invariant: what the runs check, the places of the      *)
(* objects, and nothing left of a wrapper that is on no machine.           *)
THEOREM CacheInvHolds == Spec => []IInv
<1> QED
  BY InitIInv, NextIInv, PTL DEF Spec

(* Object::count is the number of the object's owners, the engine, the     *)
(* carried copies and the wrappers, and the object is deleted with its     *)
(* last one: retain and release (Object.cpp) are called in pairs by        *)
(* pushObject, dispose and carry, in whatever order.                       *)
THEOREM CountsOwnersHolds == Spec => []CountsOwners
<1>1. IInv => CountsOwners
  BY DEF IInv
<1> QED
  BY <1>1, CacheInvHolds, PTL

(* pushObject never answers a wrapper that was disposed of or will be      *)
(* swept, nor one of an object that lived at the address before:           *)
(* lh_object_dispose forgets before it gives back, and the collector takes *)
(* out what it decides on.                                                 *)
THEOREM CacheTrueHolds == Spec => []CacheTrue
<1>1. IInv => CacheTrue
  BY DEF IInv
<1> QED
  BY <1>1, CacheInvHolds, PTL

(* Nothing the program reaches, through the cache or otherwise, is a       *)
(* wrapper the sweep in progress will free.                                *)
THEOREM NeverSweptAliveHolds == Spec => []NeverSweptAlive
<1>1. IInv => NeverSweptAlive
  BY DEF IInv
<1> QED
  BY <1>1, CacheInvHolds, PTL

(* The variables of the wrappers keep their types; a count never goes      *)
(* below zero.                                                             *)
THEOREM WrapperTypes == Spec => []TypeOK
<1>1. IInv => TypeOK
  BY DEF IInv
<1> QED
  BY <1>1, CacheInvHolds, PTL
=============================================================================
