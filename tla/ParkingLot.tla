----------------------------- MODULE ParkingLot -----------------------------
(***************************************************************************)
(* Where the engine keeps L^ values across calls (lh.cpp, ParkingLot and   *)
(* Parked).  A machine's lot numbers the slots of a table on that          *)
(* machine's heap; an engine object -- a Body's user data, a World's       *)
(* listener -- owns a slot through a Parked.  A slot given back is only    *)
(* put on a list, because the collector may be the one giving it back; the *)
(* table is written, and the slot free again, at the next park or sweep.   *)
(*                                                                         *)
(* Machines come and go: the Runtime's own is detached from its lot before *)
(* it is disposed of; a std.thread worker's lot is made at the first park  *)
(* and nobody detaches it.  A machine is known by its address, and the     *)
(* allocator may hand an address out again.                                *)
(*                                                                         *)
(* A lot is named by the heap it was made on: no heap gets a second one.   *)
(***************************************************************************)
EXTENDS Integers, Sequences

CONSTANTS
  Machines,      \* the addresses a machine can have
  Heaps,         \* one per machine ever started: bounds how many are
  Owners,        \* the engine objects that can hold a Parked
  Values,        \* what programs park
  MaxSlot,       \* bounds the slots a lot hands out
  None, Nil,
  Refusals,      \* may a machine refuse a table, or an entry of one?
  ReuseAddress,  \* may a machine get the address of one with a lot left over?
  ForeignRelease,\* may a thread give back a slot of another machine's lot?
  OutliveWorker  \* may an owner outlive the worker it parked a value for?

Slots == 1..MaxSlot

ASSUME ParkingAssumption ==
  /\ None \notin Machines \cup Heaps /\ Nil \notin Values
  /\ MaxSlot \in Nat \ {0}
  /\ Refusals \in BOOLEAN /\ ReuseAddress \in BOOLEAN /\ ForeignRelease \in BOOLEAN
  /\ OutliveWorker \in BOOLEAN

VARIABLES
  heapOf,   \* the heap of the machine at each address
  born,     \* the heaps that ever were
  runtime,  \* the address of Runtime::machine_
  lots,     \* lots(): which lot is attached to which machine
  lot,      \* each lot: attached to a machine?, next_, free_, pending_, and
            \* the slots whose push onto pending_ got lost (no variable of the code)
  registry, \* the table love.registry of each heap
  parked    \* what each owner holds: a lot and a slot, or nothing

vars == <<heapOf, born, runtime, lots, lot, registry, parked>>

NewLot  == [attached |-> FALSE, next |-> 1, free |-> <<>>, pending |-> <<>>, lost |-> {}]
Nothing == [lot |-> None, slot |-> 0]
Empty   == [s \in Slots |-> Nil]

Elements(q) == {q[i] : i \in 1..Len(q)}
Running(m) == heapOf[m] # None

(* ParkingLot::get through Parked::get.                                    *)
ValueOf(p) ==
  IF p.lot = None THEN Nil
  ELSE IF ~lot[p.lot].attached \/ p.slot = 0 THEN Nil
  ELSE registry[p.lot][p.slot]

-----------------------------------------------------------------------------
(* Operations on one lot l and its table t.                                *)

(* sweep(): what was given back is emptied and free again.                 *)
MutSwept(l) == [l EXCEPT !.free = @ \o l.pending]
MutSweptShort(l) ==
  IF l.pending = <<>> THEN l
  ELSE LET last == Len(l.pending)
       IN  [l EXCEPT !.free = @ \o SubSeq(l.pending, 1, last - 1), !.pending = <<l.pending[last]>>]
Swept(l) == [l EXCEPT !.free = @ \o l.pending, !.pending = <<>>]
MutSweptTable(l, t) == t
SweptTable(l, t) == [s \in Slots |-> IF s \in Elements(l.pending) THEN Nil ELSE t[s]]

(* The slot park() takes, and the lot once it is taken.                    *)
NextSlot(l) == IF l.free = <<>> THEN l.next ELSE l.free[Len(l.free)]
MutTakenFrom(l) ==
  IF l.free = <<>> THEN [l EXCEPT !.next = @ + 1] ELSE l
TakenFrom(l) ==
  IF l.free = <<>> THEN [l EXCEPT !.next = @ + 1]
  ELSE [l EXCEPT !.free = SubSeq(@, 1, Len(@) - 1)]

(* A slot whose table entry was refused.                                   *)
MutPutBack(l, s) == l
PutBack(l, s) == [l EXCEPT !.free = Append(@, s)]

(* releaseLater(), for slot 0 and a detached lot too.                      *)
MutGivenBack(l, s) ==
  IF ~l.attached THEN l ELSE [l EXCEPT !.pending = Append(@, s)]
GivenBack(l, s) ==
  IF ~l.attached \/ s = 0 THEN l ELSE [l EXCEPT !.pending = Append(@, s)]

-----------------------------------------------------------------------------
Init ==
  /\ heapOf = [m \in Machines |-> None]
  /\ born = {}
  /\ runtime = None
  /\ lots = [m \in Machines |-> None]
  /\ lot = [h \in Heaps |-> NewLot]
  /\ registry = [h \in Heaps |-> Empty]
  /\ parked = [o \in Owners |-> Nothing]

(* A machine starts at an address nobody has, with a heap of its own.      *)
Start(m, h) ==
  /\ ~Running(m) /\ h \notin born
  /\ ReuseAddress \/ lots[m] = None
  /\ heapOf' = [heapOf EXCEPT ![m] = h]
  /\ born' = born \cup {h}

(* Runtime::compile attaches the Runtime's lot to its new machine.         *)
StartRuntime(m, h) ==
  /\ runtime = None /\ runtime' = m
  /\ Start(m, h)
  /\ lots' = [lots EXCEPT ![m] = h]
  /\ lot' = [lot EXCEPT ![h].attached = TRUE]
  /\ UNCHANGED <<registry, parked>>

(* std.thread starts a machine; lhatove does not look on.                  *)
StartWorker(m, h) ==
  /\ runtime # None
  /\ Start(m, h)
  /\ UNCHANGED <<runtime, lots, lot, registry, parked>>

(* A worker ends.  Its entry in lots() stays.                              *)
EndWorker(m) ==
  /\ Running(m) /\ m # runtime
  /\ OutliveWorker \/ \A o \in Owners : parked[o].lot # heapOf[m]
  /\ heapOf' = [heapOf EXCEPT ![m] = None]
  /\ UNCHANGED <<born, runtime, lots, lot, registry, parked>>

(* ~Runtime: the workers are joined, the lot is detached, and only then    *)
(* the machine disposed of.                                                *)
MutDetach(h) == lot' = lot
Detach(h) == lot' = [lot EXCEPT ![h].attached = FALSE, ![h].pending = <<>>]
EndRuntime ==
  /\ runtime # None /\ \A m \in Machines : Running(m) => m = runtime
  /\ Detach(lots[runtime])
  /\ lots' = [lots EXCEPT ![runtime] = None]
  /\ heapOf' = [heapOf EXCEPT ![runtime] = None]
  /\ runtime' = None
  /\ UNCHANGED <<born, registry, parked>>

(* The lot of another machine's thread.                                    *)
Foreign(m, p) == p.lot # None /\ lots[m] # p.lot /\ lot[p.lot].attached
MayRelease(m, p) == Foreign(m, p) => ForeignRelease

(* The push of slot s onto pending_ that nobody will see.                  *)
PushLost(l, s) == [l EXCEPT !.lost = @ \cup ({s} \ {0})]

(* The thread of machine m gives back what an owner held, to the lots      *)
(* before; releaseLater() takes no lock, so a push that meets the lot's    *)
(* own thread at work may get lost.                                        *)
Released(m, p, before) ==
  IF p.lot = None THEN {before}
  ELSE LET given  == [before EXCEPT ![p.lot] = GivenBack(@, p.slot)]
           missed == [before EXCEPT ![p.lot] = PushLost(@, p.slot)]
       IN  IF Foreign(m, p) THEN {given, missed} ELSE {given}

(* setUserData(v), or a listener set: the machine's lot is found or made,  *)
(* swept, and asked for a slot; then the Parked the owner had dies.        *)
Park(m, o, v) ==
  LET made == lots[m] = None
      h    == IF made THEN heapOf[m] ELSE lots[m]
      now  == IF made THEN [lot EXCEPT ![h].attached = TRUE] ELSE lot
      swept == Swept(now[h])
      slot  == NextSlot(swept)
  IN
  /\ Running(m) /\ MayRelease(m, parked[o])
  /\ swept.free = <<>> => swept.next <= MaxSlot
  /\ lots' = [lots EXCEPT ![m] = h]
  /\ \E refused \in (IF Refusals THEN BOOLEAN ELSE {FALSE}) :
       LET after == IF refused THEN PutBack(TakenFrom(swept), slot) ELSE TakenFrom(swept)
           clean == SweptTable(now[h], registry[h])
       IN
       /\ registry' = [registry EXCEPT ![h] =
            IF refused THEN clean ELSE [clean EXCEPT ![slot] = v]]
       /\ parked' = [parked EXCEPT ![o] = [lot |-> h, slot |-> IF refused THEN 0 ELSE slot]]
       /\ lot' \in Released(m, parked[o], [now EXCEPT ![h] = after])
  /\ UNCHANGED <<heapOf, born, runtime>>

(* The machine refuses even the table: the owner gets a Parked of no lot.  *)
ParkWithoutLot(m, o) ==
  /\ Refusals
  /\ Running(m) /\ lots[m] = None /\ MayRelease(m, parked[o])
  /\ parked' = [parked EXCEPT ![o] = Nothing]
  /\ lot' \in Released(m, parked[o], lot)
  /\ UNCHANGED <<heapOf, born, runtime, lots, registry>>

(* setUserData(nil), or the owner itself dies: by name, by the collector   *)
(* of a machine, or as the heap of a machine is disposed of.               *)
Forget(m, o) ==
  /\ Running(m) /\ parked[o] # Nothing /\ MayRelease(m, parked[o])
  /\ parked' = [parked EXCEPT ![o] = Nothing]
  /\ lot' \in Released(m, parked[o], lot)
  /\ UNCHANGED <<heapOf, born, runtime, lots, registry>>

(* Boot's loop sweeps the Runtime's lot before each frame.                 *)
FrameSweep ==
  /\ runtime # None
  /\ LET h == lots[runtime] IN
     /\ lot' = [lot EXCEPT ![h] = Swept(@)]
     /\ registry' = [registry EXCEPT ![h] = SweptTable(lot[h], @)]
  /\ UNCHANGED <<heapOf, born, runtime, lots, parked>>

Next ==
  \/ \E m \in Machines : \/ EndWorker(m)
                         \/ \E h \in Heaps : StartRuntime(m, h) \/ StartWorker(m, h)
                         \/ \E o \in Owners : \/ ParkWithoutLot(m, o) \/ Forget(m, o)
                                              \/ \E v \in Values : Park(m, o, v)
  \/ EndRuntime \/ FrameSweep

Spec == Init /\ [][Next]_vars

(* The run loop comes round as long as the game's run yields.              *)
FairSpec == Spec /\ WF_vars(FrameSweep)

-----------------------------------------------------------------------------
(* Types of the variables.                                                 *)
TypeOK ==
  /\ heapOf \in [Machines -> Heaps \cup {None}] /\ born \subseteq Heaps
  /\ runtime \in Machines \cup {None}
  /\ lots \in [Machines -> Heaps \cup {None}]
  /\ lot \in [Heaps -> [attached : BOOLEAN, next : 1..(MaxSlot + 1),
                        free : Seq(Slots), pending : Seq(Slots), lost : SUBSET Slots]]
  /\ registry \in [Heaps -> [Slots -> Values \cup {Nil}]]
  /\ parked \in [Owners -> [lot : Heaps \cup {None}, slot : 0..MaxSlot]]

SlotsHeld(h) == {parked[o].slot : o \in {p \in Owners : parked[p].lot = h}} \ {0}
NoTwice(q) == \A i, j \in 1..Len(q) : q[i] = q[j] => i = j

(* A slot is in one place: an owner's, given back, or free -- never handed *)
(* to a second owner while the first one's value is in it (park, sweep).   *)
SlotExclusive ==
  \A h \in Heaps : LET l == lot[h] IN l.attached =>
    /\ NoTwice(l.free) /\ NoTwice(l.pending)
    /\ Elements(l.free) \cap Elements(l.pending) = {}
    /\ SlotsHeld(h) \cap (Elements(l.free) \cup Elements(l.pending)) = {}
    /\ \A o, p \in Owners :
         parked[o].lot = h /\ parked[p].lot = h /\ parked[o].slot = parked[p].slot =>
           o = p \/ parked[o].slot = 0

(* Every slot ever handed out is somewhere, refused entries included: only *)
(* a thread that gives back a slot of another machine's lot loses it.      *)
SlotsAccounted ==
  \A h \in Heaps : LET l == lot[h] IN l.attached =>
    1..(l.next - 1) = SlotsHeld(h) \cup Elements(l.free) \cup Elements(l.pending) \cup l.lost

(* A free slot keeps nothing alive: sweep() wrote nil into it.             *)
FreeSlotsEmpty ==
  \A h \in Heaps : lot[h].attached =>
    \A s \in Elements(lot[h].free) : registry[h][s] = Nil

(* A Parked answers nil once its machine is gone, rather than read a table *)
(* of a heap that was torn down (detach, before lhat_machine_dispose).     *)
NoDeadRead ==
  \A o \in Owners :
    ValueOf(parked[o]) # Nil => \E m \in Machines : heapOf[m] = parked[o].lot

(* lotOf(machine) answers a lot whose table is on that machine's heap.     *)
LotIsOwn ==
  \A m \in Machines : Running(m) /\ lots[m] # None => lots[m] = heapOf[m]

(* What a wrapper gives back inside the collector is written out by a      *)
(* later frame of the run loop.                                            *)
PendingIsSwept ==
  \A h \in Heaps, s \in Slots :
    (runtime # None /\ h \in {lots[m] : m \in {runtime}} /\ s \in Elements(lot[h].pending))
      ~> s \notin Elements(lot[h].pending)

(* What parking promises.                                                  *)
Kept == INSTANCE ParkedValues WITH kept <- [o \in Owners |-> ValueOf(parked[o])]
KeptSpec == Kept!Spec
=============================================================================
