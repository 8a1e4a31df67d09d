---------------------------- MODULE WrapperCache ----------------------------
(***************************************************************************)
(* The wrappers through which programs hold love::Objects (lh.cpp:         *)
(* pushObject, lh_object_dispose, the holds of carry).  A wrapper counts   *)
(* as one reference from when it is made until it is disposed of, by the   *)
(* program or by the collector's sweep.  Each machine caches its wrappers  *)
(* under the address of the object, in a weak table of lhat's: the         *)
(* collector takes out at the end of its marking what it will sweep, while *)
(* the program runs on between the marking and the sweep.  Addresses are   *)
(* handed out again as soon as an object is deleted.                       *)
(*                                                                         *)
(* lhat's collector and carry are external: they are modelled from what    *)
(* lh.cpp and the comment at lh.h:240 rely on.                             *)
(***************************************************************************)
EXTENDS Integers, FiniteSets

CONSTANTS
  Machines,    \* the main machine and the workers
  Objects,     \* the love::Objects
  Addresses,   \* where an object can be allocated
  Wrappers,    \* bounds how many wrappers there are at a time
  MaxCarried,  \* bounds how many carried copies hold one object
  None

ASSUME CacheAssumption ==
  /\ MaxCarried \in Nat /\ IsFiniteSet(Wrappers)
  /\ None \notin Machines \cup Objects \cup Addresses \cup Wrappers

VARIABLES
  address,  \* where each object lives, or None
  count,    \* Object::count
  engine,   \* the objects the engine itself holds a reference to
  carried,  \* how many carried copies hold each object
  on,       \* the machine each wrapper is on, or None: there is no such wrapper
  of,       \* LhatHostData::pointer: the object of each wrapper, or None
  rooted,   \* the wrappers the program can reach
  doomed,   \* what the sweep in progress will free
  cache     \* each machine's weak cache

vars == <<address, count, engine, carried, on, of, rooted, doomed, cache>>

Bit(b) == IF b THEN 1 ELSE 0
Alive == {o \in Objects : address[o] # None}
Live  == {w \in Wrappers : of[w] # None}
On(m) == {w \in Wrappers : on[w] = m}

-----------------------------------------------------------------------------
(* Object::release n times: the last one deletes the object.               *)
Dropped(o, n) ==
  /\ count' = [count EXCEPT ![o] = @ - n]
  /\ address' = IF count[o] = n THEN [address EXCEPT ![o] = None] ELSE address
MutRetained(o) == UNCHANGED count
Retained(o) == count' = [count EXCEPT ![o] = @ + 1]

(* lhat_machine_weak_cache_forget                                          *)
MutForgotten(m, o) == cache
Forgotten(m, o) == [cache EXCEPT ![m][address[o]] = None]

(* lh_object_dispose: forget the wrapper first, then give the object back. *)
MutDisposed(w) ==
  IF of[w] = None THEN UNCHANGED <<address, count, cache, of>>
  ELSE cache' = Forgotten(on[w], of[w]) /\ Dropped(of[w], 1) /\ of' = of
Disposed(w) ==
  IF of[w] = None THEN UNCHANGED <<address, count, cache, of>>
  ELSE /\ cache' = Forgotten(on[w], of[w])
       /\ Dropped(of[w], 1)
       /\ of' = [of EXCEPT ![w] = None]

(* lhat_machine_make_hostdata                                              *)
Made(w, m, o) ==
  /\ on[w] = None
  /\ on' = [on EXCEPT ![w] = m] /\ of' = [of EXCEPT ![w] = o]
  /\ rooted' = rooted \cup {w}

-----------------------------------------------------------------------------
Init ==
  /\ address = [o \in Objects |-> None] /\ count = [o \in Objects |-> 0]
  /\ engine = {} /\ carried = [o \in Objects |-> 0]
  /\ on = [w \in Wrappers |-> None] /\ of = [w \in Wrappers |-> None]
  /\ rooted = {} /\ doomed = {}
  /\ cache = [m \in Machines |-> [a \in Addresses |-> None]]

(* The engine makes an object, at an address nobody has.                   *)
New(o) ==
  /\ o \notin Alive
  /\ \E a \in Addresses \ {address[p] : p \in Objects} : address' = [address EXCEPT ![o] = a]
  /\ count' = [count EXCEPT ![o] = 1] /\ engine' = engine \cup {o}
  /\ UNCHANGED <<carried, on, of, rooted, doomed, cache>>

(* The engine keeps what a program passed it (checkObject), or lets go.    *)
Keep(w) ==
  /\ w \in rooted \cap Live /\ of[w] \notin engine
  /\ engine' = engine \cup {of[w]} /\ Retained(of[w])
  /\ UNCHANGED <<address, carried, on, of, rooted, doomed, cache>>

LetGo(o) ==
  /\ o \in engine
  /\ engine' = engine \ {o} /\ Dropped(o, 1)
  /\ UNCHANGED <<carried, on, of, rooted, doomed, cache>>

(* pushObject: the wrapper the machine has, or a new one.  The table may   *)
(* refuse the entry.                                                       *)
PushObject(m, o) ==
  /\ o \in engine
  /\ IF cache[m][address[o]] # None
     THEN /\ rooted' = rooted \cup {cache[m][address[o]]}
          /\ UNCHANGED <<count, on, of, cache>>
     ELSE \E w \in Wrappers :
            /\ Made(w, m, o) /\ Retained(o)
            /\ \/ cache' = [cache EXCEPT ![m][address[o]] = w]
               \/ UNCHANGED cache
  /\ UNCHANGED <<address, engine, carried, doomed>>

(* The program drops its last way to a wrapper, or disposes of it by name. *)
Lose(w) ==
  /\ w \in rooted /\ rooted' = rooted \ {w}
  /\ UNCHANGED <<address, count, engine, carried, on, of, doomed, cache>>

DisposeByName(w) ==
  /\ w \in rooted /\ Disposed(w)
  /\ UNCHANGED <<engine, carried, on, rooted, doomed>>

(* The marking ends: some of what the program cannot reach is decided on,  *)
(* and its entries are out of the cache before the program runs again.     *)
MutUncached(m, dead) == cache
Uncached(m, dead) == [cache EXCEPT ![m] = [a \in Addresses |-> IF @[a] \in dead THEN None ELSE @[a]]]
EndOfMarking(m) ==
  /\ doomed \cap On(m) = {}
  /\ \E dead \in SUBSET (On(m) \ rooted) :
       doomed' = doomed \cup dead /\ cache' = Uncached(m, dead)
  /\ UNCHANGED <<address, count, engine, carried, on, of, rooted>>

Sweep(w) ==
  /\ w \in doomed /\ Disposed(w)
  /\ on' = [on EXCEPT ![w] = None] /\ doomed' = doomed \ {w}
  /\ UNCHANGED <<engine, carried, rooted>>

(* carry: one hold for the copy no machine owns (lh_object_retain), one    *)
(* for each wrapper rebuilt from it; the copy's is given back with it.     *)
Carry(w) ==
  /\ w \in rooted \cap Live /\ carried[of[w]] < MaxCarried
  /\ carried' = [carried EXCEPT ![of[w]] = @ + 1] /\ Retained(of[w])
  /\ UNCHANGED <<address, engine, on, of, rooted, doomed, cache>>

Uncarry(m, o) ==
  /\ carried[o] > 0
  /\ \E w \in Wrappers : Made(w, m, o)
  /\ Retained(o)
  /\ UNCHANGED <<address, engine, carried, doomed, cache>>

FreeCarried(o) ==
  /\ carried[o] > 0
  /\ carried' = [carried EXCEPT ![o] = @ - 1] /\ Dropped(o, 1)
  /\ UNCHANGED <<engine, on, of, rooted, doomed, cache>>

(* lhat_machine_dispose: the heap's last sweep takes every wrapper.  (What *)
(* starts at the machine's address next may overlap it here, to no harm.)  *)
MachineEnds(m) ==
  /\ On(m) # {} /\ rooted' = rooted \ On(m) /\ doomed' = doomed \cup On(m)
  /\ cache' = [cache EXCEPT ![m] = [a \in Addresses |-> None]]
  /\ UNCHANGED <<address, count, engine, carried, on, of>>

-----------------------------------------------------------------------------
Next ==
  \/ \E o \in Objects : New(o) \/ LetGo(o) \/ FreeCarried(o)
  \/ \E m \in Machines : EndOfMarking(m) \/ MachineEnds(m)
                         \/ \E o \in Objects : PushObject(m, o) \/ Uncarry(m, o)
  \/ \E w \in Wrappers : Keep(w) \/ Lose(w) \/ DisposeByName(w) \/ Sweep(w) \/ Carry(w)

Spec == Init /\ [][Next]_vars

-----------------------------------------------------------------------------
TypeOK ==
  /\ address \in [Objects -> Addresses \cup {None}] /\ count \in [Objects -> Nat]
  /\ engine \subseteq Objects /\ carried \in [Objects -> 0..MaxCarried]
  /\ on \in [Wrappers -> Machines \cup {None}] /\ of \in [Wrappers -> Objects \cup {None}]
  /\ rooted \subseteq Wrappers /\ doomed \subseteq Wrappers
  /\ cache \in [Machines -> [Addresses -> Wrappers \cup {None}]]

(* Every reference to an object has an owner: the engine, a carried copy,  *)
(* or a wrapper nobody has disposed of yet.  And an object lives exactly   *)
(* as long as it is referred to, so no wrapper names a deleted one.        *)
WrappersOf(o) == {w \in Wrappers : of[w] = o}
CountsOwners ==
  \A o \in Objects :
    /\ count[o] = Bit(o \in engine) + carried[o] + Cardinality(WrappersOf(o))
    /\ o \in Alive <=> count[o] > 0

(* What a cache has at an address is a wrapper of its own machine, not     *)
(* disposed of, not awaiting the sweep, and of the object that lives there *)
(* now, not of one that lived there before.                                *)
CacheTrue ==
  \A m \in Machines, a \in Addresses :
    LET w == cache[m][a] IN
      w # None => /\ w \notin doomed /\ on[w] = m
                  /\ of[w] # None /\ address[of[w]] = a

(* No wrapper the program can reach is one the sweep will free: nothing    *)
(* decided on at the end of the marking is handed out after it.            *)
NeverSweptAlive == rooted \cap doomed = {}
=============================================================================
