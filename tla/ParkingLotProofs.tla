-------------------------- MODULE ParkingLotProofs --------------------------
(***************************************************************************)
(* Theorems about ParkingLot, for all machines, heaps, owners and values,  *)
(* with or without refusals, reused addresses and foreign releases.        *)
(*                                                                         *)
(* A lot is sound for a set of held slots when its free and its pending    *)
(* list name no slot twice, share none, and share none with the held ones, *)
(* and, with the lost ones, they are all of those below next_.  The first  *)
(* lemmas are about lists, the second about what each operation on a lot   *)
(* does to soundness; the invariant says that every attached lot is sound  *)
(* for the slots its owners hold, and that a machine without a lot has a   *)
(* heap no owner and no lot knows of.                                      *)
(***************************************************************************)
EXTENDS ParkingLot, SequenceTheorems, TLAPS

-----------------------------------------------------------------------------
(* Lists without repetition.                                               *)

LEMMA AppendElements ==
  ASSUME NEW S, NEW q \in Seq(S), NEW e \in S
  PROVE  /\ Append(q, e) \in Seq(S)
         /\ Elements(Append(q, e)) = Elements(q) \cup {e}
         /\ NoTwice(q) /\ e \notin Elements(q) => NoTwice(Append(q, e))
<1> DEFINE n == Len(q)
           r == Append(q, e)
<1>1. n \in Nat
  BY LenProperties
<1>2. /\ r \in Seq(S) /\ Len(r) = n + 1
      /\ \A i \in 1..n : r[i] = q[i]
      /\ r[n + 1] = e
  BY AppendProperties
<1> HIDE DEF r, n
<1>3. \A i \in 1..(n + 1) : i \in 1..n \/ i = n + 1
  BY <1>1
<1>4. \A i \in 1..n : i \in 1..(n + 1) /\ i # n + 1
  BY <1>1
<1>5. n + 1 \in 1..(n + 1)
  BY <1>1
<1>6. Elements(r) = Elements(q) \cup {e}
  BY <1>2, <1>3, <1>4, <1>5 DEF Elements, n
<1>7. ASSUME NoTwice(q), e \notin Elements(q)
      PROVE  NoTwice(r)
  <2> SUFFICES ASSUME NEW i \in 1..(n + 1), NEW j \in 1..(n + 1), r[i] = r[j]
               PROVE  i = j
    BY <1>2 DEF NoTwice
  <2>1. CASE i \in 1..n /\ j \in 1..n
    BY <2>1, <1>2, <1>7 DEF NoTwice, n
  <2>2. CASE i = n + 1 /\ j \in 1..n
    BY <2>2, <1>2, <1>7 DEF Elements, n
  <2>3. CASE i \in 1..n /\ j = n + 1
    BY <2>3, <1>2, <1>7 DEF Elements, n
  <2> QED
    BY <1>3, <2>1, <2>2, <2>3
<1> QED
  BY <1>2, <1>6, <1>7 DEF r

LEMMA FrontElements ==
  ASSUME NEW S, NEW q \in Seq(S), q # <<>>, NoTwice(q)
  PROVE  LET f == SubSeq(q, 1, Len(q) - 1) IN
         /\ f \in Seq(S) /\ NoTwice(f)
         /\ q[Len(q)] \in S /\ q[Len(q)] \in Elements(q)
         /\ Elements(f) = Elements(q) \ {q[Len(q)]}
<1> DEFINE n == Len(q)
           f == SubSeq(q, 1, n - 1)
<1>1. n \in Nat \ {0} /\ \A i \in 1..n : q[i] \in S
  BY EmptySeq, ElementOfSeq, LenProperties
<1>2. /\ f \in Seq(S)
      /\ Len(f) = n - 1
      /\ \A i \in 1..(n - 1) : f[i] = q[i]
  <2>1. /\ 1 \in Int /\ n - 1 \in Int
        /\ \A i \in 1..(n - 1) : q[i] \in S
    BY <1>1
  <2>2. /\ SubSeq(q, 1, n - 1) \in Seq(S)
        /\ Len(SubSeq(q, 1, n - 1)) = IF 1 <= n - 1 THEN (n - 1) - 1 + 1 ELSE 0
        /\ \A i \in 1..((n - 1) - 1 + 1) : SubSeq(q, 1, n - 1)[i] = q[1 + i - 1]
    BY <2>1, SubSeqProperties
  <2>3. \A k \in Nat \ {0} : /\ (k - 1) - 1 + 1 = k - 1
                              /\ (IF 1 <= k - 1 THEN (k - 1) - 1 + 1 ELSE 0) = k - 1
                              /\ \A i \in 1..(k - 1) : 1 + i - 1 = i
    OBVIOUS
  <2> HIDE DEF n
  <2>4. /\ Len(SubSeq(q, 1, n - 1)) = n - 1
        /\ \A i \in 1..(n - 1) : SubSeq(q, 1, n - 1)[i] = q[i]
    BY <1>1, <2>2, <2>3
  <2> QED
    BY <2>2, <2>4
<1> HIDE DEF f
<1>3. \A i \in 1..n : i \in 1..(n - 1) \/ i = n
  BY <1>1
<1>4. n \in 1..n /\ \A i \in 1..(n - 1) : i \in 1..n /\ i # n
  BY <1>1
<1>5. NoTwice(f)
  BY <1>2, <1>4 DEF NoTwice
<1>6. Elements(f) = Elements(q) \ {q[n]}
  <2>1. \A i \in 1..(n - 1) : q[i] # q[n]
    BY <1>4 DEF NoTwice
  <2> QED
    BY <1>2, <1>3, <1>4, <2>1 DEF Elements
<1> QED
  BY <1>1, <1>2, <1>4, <1>5, <1>6 DEF f, Elements

LEMMA ConcatElements ==
  ASSUME NEW S, NEW q \in Seq(S), NEW r \in Seq(S)
  PROVE  /\ q \o r \in Seq(S)
         /\ Elements(q \o r) = Elements(q) \cup Elements(r)
         /\ NoTwice(q) /\ NoTwice(r) /\ Elements(q) \cap Elements(r) = {}
              => NoTwice(q \o r)
<1> DEFINE n == Len(q)
           m == Len(r)
           c == q \o r
<1>1. n \in Nat /\ m \in Nat
  BY LenProperties
<1>2. /\ c \in Seq(S) /\ Len(c) = n + m
      /\ \A i \in 1..(n + m) : c[i] = IF i <= n THEN q[i] ELSE r[i - n]
  BY ConcatProperties
<1> HIDE DEF c
<1>3. \A i \in 1..(n + m) : IF i <= n THEN i \in 1..n ELSE i - n \in 1..m
  BY <1>1
<1>4. /\ \A i \in 1..n : i \in 1..(n + m) /\ i <= n
      /\ \A i \in 1..m : n + i \in 1..(n + m) /\ ~(n + i <= n) /\ (n + i) - n = i
  BY <1>1
<1>5. Elements(c) = Elements(q) \cup Elements(r)
  <2>1. \A x \in Elements(c) : x \in Elements(q) \cup Elements(r)
    BY <1>2, <1>3 DEF Elements
  <2>2. \A x \in Elements(q) : x \in Elements(c)
    BY <1>2, <1>4 DEF Elements
  <2>3. \A x \in Elements(r) : x \in Elements(c)
    <3> SUFFICES ASSUME NEW i \in 1..m PROVE r[i] \in Elements(c)
      BY DEF Elements
    <3>1. c[n + i] = r[i] /\ n + i \in 1..Len(c)
      BY <1>2, <1>4
    <3> QED
      BY <3>1 DEF Elements
  <2> QED
    BY <2>1, <2>2, <2>3
<1>6. ASSUME NoTwice(q), NoTwice(r), Elements(q) \cap Elements(r) = {}
      PROVE  NoTwice(c)
  <2> SUFFICES ASSUME NEW i \in 1..(n + m), NEW j \in 1..(n + m), c[i] = c[j]
               PROVE  i = j
    BY <1>2 DEF NoTwice
  <2>1. CASE i <= n /\ j <= n
    BY <2>1, <1>2, <1>3, <1>6 DEF NoTwice
  <2>2. CASE ~(i <= n) /\ ~(j <= n)
    <3>1. i - n = j - n
      BY <2>2, <1>2, <1>3, <1>6 DEF NoTwice
    <3> QED
      BY <3>1, <1>1
  <2>3. ASSUME NEW a \in 1..(n + m), NEW b \in 1..(n + m), a <= n, ~(b <= n), c[a] = c[b]
        PROVE  FALSE
    <3>1. c[a] \in Elements(q) /\ c[b] \in Elements(r)
      BY <2>3, <1>2, <1>3 DEF Elements
    <3> QED
      BY <2>3, <3>1, <1>6
  <2> QED
    BY <2>1, <2>2, <2>3
<1> QED
  BY <1>2, <1>5, <1>6 DEF c

-----------------------------------------------------------------------------
(* Operations on one lot.                                                  *)

LotType == [attached : BOOLEAN, next : 1..(MaxSlot + 1),
            free : Seq(Slots), pending : Seq(Slots), lost : SUBSET Slots]

(* What must hold of lot l while its owners hold the slots of H.           *)
Sound(l, H) ==
  /\ NoTwice(l.free) /\ NoTwice(l.pending)
  /\ Elements(l.free) \cap Elements(l.pending) = {}
  /\ H \cap (Elements(l.free) \cup Elements(l.pending)) = {}
  /\ H \cup Elements(l.free) \cup Elements(l.pending) \cup l.lost = 1..(l.next - 1)

(* sweep() moves what is pending to what is free.                          *)
LEMMA SweepKeepsSound ==
  ASSUME NEW l \in LotType, NEW H, Sound(l, H)
  PROVE  /\ Swept(l) \in LotType /\ Sound(Swept(l), H)
         /\ Swept(l).attached = l.attached
         /\ Elements(Swept(l).free) = Elements(l.free) \cup Elements(l.pending)
<1>1. l.free \in Seq(Slots) /\ l.pending \in Seq(Slots)
  BY DEF LotType
<1>2. /\ l.free \o l.pending \in Seq(Slots)
      /\ Elements(l.free \o l.pending) = Elements(l.free) \cup Elements(l.pending)
      /\ NoTwice(l.free \o l.pending)
  BY <1>1, ConcatElements DEF Sound
<1>3. Elements(<<>>) = {} /\ NoTwice(<<>>) /\ <<>> \in Seq(Slots)
  BY EmptySeq DEF Elements, NoTwice
<1>4. /\ Swept(l).free = l.free \o l.pending /\ Swept(l).pending = <<>>
      /\ Swept(l).next = l.next /\ Swept(l).attached = l.attached /\ Swept(l).lost = l.lost
      /\ Swept(l) \in LotType
  BY <1>2, <1>3 DEF Swept, LotType
<1> QED
  BY <1>2, <1>3, <1>4 DEF Sound

(* The slot park() takes was nobody's, and is the new owner's.             *)
LEMMA TakeKeepsSound ==
  ASSUME NEW l \in LotType, NEW H, Sound(l, H),
         l.free = <<>> => l.next <= MaxSlot
  PROVE  /\ NextSlot(l) \in Slots /\ NextSlot(l) \notin H
         /\ NextSlot(l) \notin Elements(l.pending)
         /\ TakenFrom(l) \in LotType /\ Sound(TakenFrom(l), H \cup {NextSlot(l)})
         /\ TakenFrom(l).attached = l.attached
<1> DEFINE s == NextSlot(l)
           t == TakenFrom(l)
<1>0. /\ l.free \in Seq(Slots) /\ l.next \in 1..(MaxSlot + 1) /\ MaxSlot \in Nat \ {0}
      /\ l.pending \in Seq(Slots) /\ l.attached \in BOOLEAN
  BY ParkingAssumption DEF LotType
<1>1. CASE l.free = <<>>
  <2>1. s = l.next /\ s \in Slots
    BY <1>0, <1>1 DEF NextSlot, Slots
  <2>2. /\ t.next = l.next + 1 /\ t.free = l.free /\ t.pending = l.pending
        /\ t.attached = l.attached /\ t.lost = l.lost /\ t \in LotType
    <3>1. t = [l EXCEPT !.next = @ + 1] /\ l.next + 1 \in 1..(MaxSlot + 1)
      BY <1>0, <1>1 DEF TakenFrom
    <3> QED
      BY <3>1 DEF LotType
  <2>3. s \notin 1..(l.next - 1) /\ 1..(l.next - 1) \cup {s} = 1..(t.next - 1)
    BY <1>0, <2>1, <2>2
  <2> QED
    BY <2>1, <2>2, <2>3 DEF Sound
<1>2. CASE l.free # <<>>
  <2> DEFINE f == SubSeq(l.free, 1, Len(l.free) - 1)
  <2>1. s = l.free[Len(l.free)] /\ t = [l EXCEPT !.free = f]
    BY <1>2 DEF NextSlot, TakenFrom
  <2>2. /\ f \in Seq(Slots) /\ NoTwice(f)
        /\ s \in Slots /\ s \in Elements(l.free)
        /\ Elements(f) = Elements(l.free) \ {s}
    <3> HIDE DEF s, t
    <3>1. NoTwice(l.free)
      BY DEF Sound
    <3>2. /\ f \in Seq(Slots) /\ NoTwice(f)
          /\ l.free[Len(l.free)] \in Slots /\ l.free[Len(l.free)] \in Elements(l.free)
          /\ Elements(f) = Elements(l.free) \ {l.free[Len(l.free)]}
      BY <1>0, <1>2, <3>1, FrontElements, Zenon
    <3> QED
      BY <2>1, <3>2, Zenon
  <2> HIDE DEF f
  <2>3. /\ t.free = f /\ t.pending = l.pending /\ t.next = l.next
        /\ t.attached = l.attached /\ t.lost = l.lost /\ t \in LotType
    BY <2>1, <2>2 DEF LotType
  <2> HIDE DEF s, t
  <2>4. Sound(t, H \cup {s})
    BY <2>2, <2>3 DEF Sound
  <2> QED
    BY <2>2, <2>3, <2>4 DEF Sound, s, t
<1> QED
  BY <1>1, <1>2

(* A slot nobody came to hold goes back to the free ones.                  *)
LEMMA PutBackKeepsSound ==
  ASSUME NEW l \in LotType, NEW H, NEW s \in Slots, s \notin H, Sound(l, H \cup {s})
  PROVE  /\ PutBack(l, s) \in LotType /\ Sound(PutBack(l, s), H)
         /\ PutBack(l, s).attached = l.attached
<1>1. l.free \in Seq(Slots)
  BY DEF LotType
<1>2. /\ Append(l.free, s) \in Seq(Slots)
      /\ Elements(Append(l.free, s)) = Elements(l.free) \cup {s}
      /\ NoTwice(Append(l.free, s))
  BY <1>1, AppendElements DEF Sound
<1>3. /\ PutBack(l, s).free = Append(l.free, s) /\ PutBack(l, s).pending = l.pending
      /\ PutBack(l, s).next = l.next /\ PutBack(l, s).attached = l.attached
      /\ PutBack(l, s).lost = l.lost
      /\ PutBack(l, s) \in LotType
  BY <1>2 DEF PutBack, LotType
<1> QED
  BY <1>2, <1>3 DEF Sound

(* A slot its owner gives back is pending, and no longer held.             *)
LEMMA GiveBackKeepsSound ==
  ASSUME NEW l \in LotType, l.attached, NEW H, NEW s \in H \cup {0}, H \subseteq Slots,
         Sound(l, H)
  PROVE  /\ GivenBack(l, s) \in LotType /\ Sound(GivenBack(l, s), H \ {s})
         /\ GivenBack(l, s).attached = l.attached
<1>0. 0 \notin Slots
  BY DEF Slots
<1>1. CASE s = 0
  <2>1. H \ {s} = H
    BY <1>0, <1>1
  <2> QED
    BY <1>1, <2>1 DEF GivenBack
<1>2. CASE s # 0
  <2>1. s \in H /\ s \in Slots /\ l.pending \in Seq(Slots)
    BY <1>2 DEF LotType
  <2>2. /\ Append(l.pending, s) \in Seq(Slots)
        /\ Elements(Append(l.pending, s)) = Elements(l.pending) \cup {s}
        /\ NoTwice(Append(l.pending, s))
    BY <2>1, AppendElements DEF Sound
  <2>3. /\ GivenBack(l, s).pending = Append(l.pending, s)
        /\ GivenBack(l, s).free = l.free /\ GivenBack(l, s).next = l.next
        /\ GivenBack(l, s).attached = l.attached /\ GivenBack(l, s).lost = l.lost
        /\ GivenBack(l, s) \in LotType
    BY <1>2, <2>2 DEF GivenBack, LotType
  <2> QED
    BY <2>1, <2>2, <2>3 DEF Sound
<1> QED
  BY <1>1, <1>2

(* A slot whose push got lost is not held, and accounted for as lost.      *)
LEMMA LostKeepsSound ==
  ASSUME NEW l \in LotType, NEW H, NEW s \in H \cup {0}, H \subseteq Slots, Sound(l, H)
  PROVE  /\ PushLost(l, s) \in LotType /\ Sound(PushLost(l, s), H \ {s})
         /\ PushLost(l, s).attached = l.attached
<1>1. {s} \ {0} \subseteq Slots
  OBVIOUS
<1>2. /\ PushLost(l, s).lost = l.lost \cup ({s} \ {0})
      /\ PushLost(l, s).free = l.free /\ PushLost(l, s).pending = l.pending
      /\ PushLost(l, s).next = l.next /\ PushLost(l, s).attached = l.attached
      /\ PushLost(l, s) \in LotType
  BY <1>1 DEF PushLost, LotType
<1>3. 0 \notin Slots
  BY DEF Slots
<1> QED
  BY <1>2, <1>3 DEF Sound

-----------------------------------------------------------------------------
(* What the table of a lot has in the slots nobody holds.                  *)

(* Free slots, and those never handed out, have nothing in the table.      *)
EmptyIn(l, t) == \A s \in Slots : s \in Elements(l.free) \/ l.next <= s => t[s] = Nil

LEMMA SweepEmpties ==
  ASSUME NEW l \in LotType, NEW H, Sound(l, H), NEW t, EmptyIn(l, t)
  PROVE  EmptyIn(Swept(l), SweptTable(l, t))
<1>1. Elements(Swept(l).free) = Elements(l.free) \cup Elements(l.pending)
  BY SweepKeepsSound
<1>2. Swept(l).next = l.next
  BY DEF Swept, LotType
<1> QED
  BY <1>1, <1>2 DEF EmptyIn, SweptTable

(* The slot park() takes was empty, and no other free slot is written.     *)
LEMMA TakeEmpty ==
  ASSUME NEW l \in LotType, NEW H, Sound(l, H), l.free = <<>> => l.next <= MaxSlot,
         NEW t \in [Slots -> Values \cup {Nil}], EmptyIn(l, t), NEW v
  PROVE  /\ EmptyIn(PutBack(TakenFrom(l), NextSlot(l)), t)
         /\ EmptyIn(TakenFrom(l), [t EXCEPT ![NextSlot(l)] = v])
<1>1. PICK s, k : s = NextSlot(l) /\ k = TakenFrom(l)
  OBVIOUS
<1>2. /\ s \in Slots /\ k \in LotType /\ Sound(k, H \cup {s})
  BY <1>1, TakeKeepsSound
<1>3. s \notin Elements(k.free) /\ s < k.next
  <2>1. s \in 1..(k.next - 1) /\ k.next \in Int
    BY <1>2 DEF Sound, LotType
  <2> QED
    BY <1>2, <2>1 DEF Sound
<1>4. /\ s \in Elements(l.free) \/ l.next <= s
      /\ Elements(k.free) \subseteq Elements(l.free) /\ l.next <= k.next
  <2>0. l.next \in Int /\ l.free \in Seq(Slots)
    BY DEF LotType
  <2>1. CASE l.free = <<>>
    <3>1. s = l.next /\ k.free = l.free /\ k.next = l.next + 1
      BY <1>1, <2>1 DEF NextSlot, TakenFrom, LotType
    <3> QED
      BY <2>0, <3>1
  <2>2. CASE l.free # <<>>
    <3> DEFINE f == SubSeq(l.free, 1, Len(l.free) - 1)
    <3>1. s = l.free[Len(l.free)] /\ k = [l EXCEPT !.free = f]
      BY <1>1, <2>2 DEF NextSlot, TakenFrom
    <3>2. NoTwice(l.free)
      BY DEF Sound
    <3>3. /\ l.free[Len(l.free)] \in Elements(l.free)
          /\ Elements(f) = Elements(l.free) \ {l.free[Len(l.free)]}
      BY <2>0, <2>2, <3>2, FrontElements, Zenon
    <3> HIDE DEF f
    <3>4. k.free = f /\ k.next = l.next
      BY <3>1 DEF LotType
    <3> QED
      BY <2>0, <3>1, <3>3, <3>4
  <2> QED
    BY <2>1, <2>2
<1>5. t[s] = Nil
  BY <1>2, <1>4 DEF EmptyIn
<1>6. EmptyIn(k, [t EXCEPT ![s] = v])
  <2> SUFFICES ASSUME NEW r \in Slots, r \in Elements(k.free) \/ k.next <= r
               PROVE  [t EXCEPT ![s] = v][r] = Nil
    BY DEF EmptyIn
  <2>1. r \in Int /\ s \in Int /\ k.next \in Int /\ l.next \in Int
    BY <1>2 DEF Slots, LotType
  <2>2. r # s
    BY <1>3, <2>1
  <2>3. t[r] = Nil
    BY <1>4, <2>1 DEF EmptyIn
  <2> QED
    BY <2>2, <2>3
<1>7. EmptyIn(PutBack(k, s), t)
  <2>1. /\ PutBack(k, s).next = k.next
        /\ Elements(PutBack(k, s).free) = Elements(k.free) \cup {s}
    <3>1. k.free \in Seq(Slots)
      BY <1>2 DEF LotType
    <3>2. Elements(Append(k.free, s)) = Elements(k.free) \cup {s}
      BY <1>2, <3>1, AppendElements
    <3> QED
      BY <1>2, <3>2 DEF PutBack, LotType
  <2> SUFFICES ASSUME NEW r \in Slots, r \in Elements(k.free) \/ r = s \/ k.next <= r
               PROVE  t[r] = Nil
    BY <2>1 DEF EmptyIn
  <2>2. r \in Int /\ k.next \in Int /\ l.next \in Int
    BY <1>2 DEF Slots, LotType
  <2> QED
    BY <1>4, <1>5, <2>2 DEF EmptyIn
<1> QED
  BY <1>1, <1>6, <1>7

(* Giving back frees no slot yet.                                          *)
LEMMA ReleaseFreesNothing ==
  ASSUME NEW m, NEW p, NEW before \in [Heaps -> LotType], NEW r \in Released(m, p, before),
         p.lot \in Heaps \cup {None}, NEW g \in Heaps
  PROVE  r[g].free = before[g].free /\ r[g].next = before[g].next
<1>1. CASE p.lot = None
  BY <1>1 DEF Released
<1>2. CASE p.lot # None
  <2>1. \/ r = [before EXCEPT ![p.lot] = GivenBack(@, p.slot)]
        \/ r = [before EXCEPT ![p.lot] = PushLost(@, p.slot)]
    BY <1>2 DEF Released
  <2>2. \A l \in LotType : /\ GivenBack(l, p.slot).free = l.free /\ GivenBack(l, p.slot).next = l.next
                           /\ PushLost(l, p.slot).free = l.free /\ PushLost(l, p.slot).next = l.next
    BY DEF GivenBack, PushLost, LotType
  <2> QED
    BY <2>1, <2>2
<1> QED
  BY <1>1, <1>2

-----------------------------------------------------------------------------
(* The invariant.                                                          *)

ParkedType == [lot : Heaps \cup {None}, slot : 0..MaxSlot]

(* The slots of lot h that the Parkeds of pk hold, each by one owner.      *)
Held(pk, h) == {pk[o].slot : o \in {p \in Owners : pk[p].lot = h}} \ {0}
Apart(pk) ==
  \A o, p \in Owners :
    pk[o].lot # None /\ pk[o].lot = pk[p].lot /\ pk[o].slot = pk[p].slot =>
      o = p \/ pk[o].slot = 0

(* Nothing has been parked on heap h, and no lot handed out for it.        *)
Fresh(h) ==
  /\ lot[h] = NewLot
  /\ \A m \in Machines : lots[m] # h
  /\ \A o \in Owners : parked[o].lot # h

LotsOfMachines ==
  /\ \A m, n \in Machines : Running(m) /\ heapOf[m] = heapOf[n] => m = n
  /\ \A m, n \in Machines : lots[m] # None /\ lots[m] = lots[n] => m = n
  /\ \A m \in Machines : lots[m] # None => lot[lots[m]].attached /\ lots[m] \in born
  /\ runtime # None => Running(runtime) /\ lots[runtime] # None

HeapsFresh ==
  /\ \A m \in Machines : Running(m) => heapOf[m] \in born
  /\ \A h \in Heaps : h \notin born => Fresh(h)
  /\ \A m \in Machines, h \in Heaps :
       Running(m) /\ heapOf[m] = h /\ lots[m] = None => Fresh(h)

SoundFor(lt, pk) == \A h \in Heaps : lt[h].attached => Sound(lt[h], Held(pk, h))
LotsSound == SoundFor(lot, parked)

IInv ==
  /\ TypeOK /\ LotsOfMachines /\ HeapsFresh
  /\ LotsSound /\ Apart(parked)

(* Of lots that were detached too: their tables are not written any more.  *)
Blank == \A h \in Heaps : EmptyIn(lot[h], registry[h])

(* SlotExclusive is what IInv says of the slots of the attached lots.      *)
LEMMA IInvExclusive == IInv => SlotExclusive
<1> SUFFICES ASSUME IInv, NEW h \in Heaps, lot[h].attached
             PROVE  /\ NoTwice(lot[h].free) /\ NoTwice(lot[h].pending)
                    /\ Elements(lot[h].free) \cap Elements(lot[h].pending) = {}
                    /\ SlotsHeld(h) \cap (Elements(lot[h].free) \cup Elements(lot[h].pending)) = {}
                    /\ \A o, p \in Owners :
                         parked[o].lot = h /\ parked[p].lot = h /\ parked[o].slot = parked[p].slot =>
                           o = p \/ parked[o].slot = 0
  BY DEF SlotExclusive
<1>1. h # None
  BY ParkingAssumption
<1>2. SlotsHeld(h) = Held(parked, h) /\ Sound(lot[h], Held(parked, h)) /\ Apart(parked)
  BY DEF IInv, LotsSound, SoundFor, SlotsHeld, Held
<1>3. /\ NoTwice(lot[h].free) /\ NoTwice(lot[h].pending)
      /\ Elements(lot[h].free) \cap Elements(lot[h].pending) = {}
      /\ SlotsHeld(h) \cap (Elements(lot[h].free) \cup Elements(lot[h].pending)) = {}
  BY <1>2 DEF Sound
<1>4. \A o, p \in Owners :
        parked[o].lot = h /\ parked[p].lot = h /\ parked[o].slot = parked[p].slot =>
          o = p \/ parked[o].slot = 0
  BY <1>1, <1>2 DEF Apart
<1> QED
  BY <1>3, <1>4

(* SlotsAccounted is what IInv says of the slots a lot has handed out.      *)
LEMMA IInvAccounted == IInv => SlotsAccounted
<1> SUFFICES ASSUME IInv, NEW h \in Heaps, lot[h].attached
             PROVE  1..(lot[h].next - 1) =
                      SlotsHeld(h) \cup Elements(lot[h].free) \cup Elements(lot[h].pending)
                        \cup lot[h].lost
  BY DEF SlotsAccounted
<1>1. SlotsHeld(h) = Held(parked, h) /\ Sound(lot[h], Held(parked, h))
  BY DEF IInv, LotsSound, SoundFor, SlotsHeld, Held
<1> QED
  BY <1>1 DEF Sound

(* One owner comes to hold q: the held slots of each lot afterwards.       *)
Left(H, p, h) == IF p.lot = h THEN H \ {p.slot} ELSE H
Taken(q, h) == IF q.lot = h /\ q.slot # 0 THEN {q.slot} ELSE {}

Unheld(pk, q) == q.lot # None => q.slot \notin Held(pk, q.lot)
Changed(pk, o, q, pk2) == pk2[o] = q /\ \A p \in Owners : p # o => pk2[p] = pk[p]
HeldThen(pk, o, q, h) == Left(Held(pk, h), pk[o], h) \cup Taken(q, h)

LEMMA HeldAfter ==
  ASSUME NEW pk \in [Owners -> ParkedType], Apart(pk), NEW o \in Owners,
         NEW q \in ParkedType, Unheld(pk, q),
         NEW pk2 \in [Owners -> ParkedType], Changed(pk, o, q, pk2)
  PROVE  /\ Apart(pk2)
         /\ \A h \in Heaps : Held(pk2, h) = HeldThen(pk, o, q, h)
<1>1. /\ pk2 \in [Owners -> ParkedType]
      /\ pk2[o] = q /\ \A p \in Owners : p # o => pk2[p] = pk[p]
      /\ q.lot # None => q.slot \notin Held(pk, q.lot)
  BY DEF Unheld, Changed
<1>0. /\ \A p \in Owners : pk[p].lot \in Heaps \cup {None} /\ pk[p].slot \in 0..MaxSlot
      /\ q.lot \in Heaps \cup {None} /\ q.slot \in 0..MaxSlot
  BY DEF ParkedType
<1>2. Apart(pk2)
  <2> SUFFICES ASSUME NEW a \in Owners, NEW b \in Owners, a # b,
                      pk2[a].lot # None, pk2[a].lot = pk2[b].lot, pk2[a].slot = pk2[b].slot,
                      pk2[a].slot # 0
               PROVE  FALSE
    BY DEF Apart
  <2>1. ASSUME NEW p \in Owners, p # o, q.lot # None, pk[p].lot = q.lot, pk[p].slot = q.slot, q.slot # 0
        PROVE  FALSE
    BY <2>1, <1>1 DEF Held
  <2>2. CASE a = o
    BY <2>2, <2>1, <1>1
  <2>3. CASE b = o
    BY <2>3, <2>1, <1>1
  <2>4. CASE a # o /\ b # o
    BY <2>4, <1>1 DEF Apart
  <2> QED
    BY <2>2, <2>3, <2>4
<1>3. ASSUME NEW h \in Heaps
      PROVE  Held(pk2, h) = Left(Held(pk, h), pk[o], h) \cup Taken(q, h)
  <2>1. h # None
    BY ParkingAssumption
  <2>2. \A s \in Held(pk2, h) : s \in Left(Held(pk, h), pk[o], h) \cup Taken(q, h)
    <3> SUFFICES ASSUME NEW p \in Owners, pk2[p].lot = h, pk2[p].slot # 0
                 PROVE  pk2[p].slot \in Left(Held(pk, h), pk[o], h) \cup Taken(q, h)
      BY DEF Held
    <3>1. CASE p = o
      BY <3>1, <1>1 DEF Taken
    <3>2. CASE p # o
      <4>1. pk[p].lot = h /\ pk[p].slot # 0 /\ pk2[p].slot = pk[p].slot
        BY <3>2, <1>1
      <4>2. pk[o].lot = h => pk[o].slot # pk[p].slot
        BY <2>1, <3>2, <4>1 DEF Apart
      <4>3. pk[p].slot \in Held(pk, h)
        BY <4>1 DEF Held
      <4> QED
        BY <4>1, <4>2, <4>3 DEF Left
    <3> QED
      BY <3>1, <3>2
  <2>3. \A s \in Left(Held(pk, h), pk[o], h) : s \in Held(pk2, h)
    <3> SUFFICES ASSUME NEW s \in Left(Held(pk, h), pk[o], h) PROVE s \in Held(pk2, h)
      OBVIOUS
    <3>1. PICK p \in Owners : pk[p].lot = h /\ pk[p].slot = s /\ s # 0
      BY DEF Held, Left
    <3>2. p # o
      BY <3>1 DEF Left
    <3> QED
      BY <3>1, <3>2, <1>1 DEF Held
  <2>4. \A s \in Taken(q, h) : s \in Held(pk2, h)
    BY <1>1 DEF Taken, Held
  <2> QED
    BY <2>2, <2>3, <2>4
<1> QED
  BY <1>2, <1>3 DEF HeldThen

(* What the thread of m gives back, lost or not, leaves every lot sound.   *)
LEMMA ReleaseKeepsSound ==
  ASSUME NEW m \in Machines, NEW p \in ParkedType,
         NEW before \in [Heaps -> LotType], NEW H \in [Heaps -> SUBSET Slots],
         \A h \in Heaps : before[h].attached => Sound(before[h], H[h]),
         p.lot # None /\ before[p.lot].attached => p.slot \in H[p.lot] \cup {0},
         \A h \in Heaps : lot[h].attached => before[h].attached,
         NEW r \in Released(m, p, before)
  PROVE  /\ r \in [Heaps -> LotType]
         /\ \A h \in Heaps : r[h].attached <=> before[h].attached
         /\ \A h \in Heaps : h # p.lot => r[h] = before[h]
         /\ \A h \in Heaps : r[h].attached => Sound(r[h], Left(H[h], p, h))
<1>0. /\ p.lot \in Heaps \cup {None} /\ None \notin Heaps
      /\ p.slot \in 0..MaxSlot
  BY ParkingAssumption DEF ParkedType
<1>1. CASE p.lot = None /\ r = before
  BY <1>0, <1>1 DEF Left
<1>3. CASE /\ p.lot # None /\ before[p.lot].attached
           /\ r = [before EXCEPT ![p.lot] = PushLost(@, p.slot)]
  <2>1. p.lot \in Heaps
    BY <1>0, <1>3
  <2> DEFINE g == p.lot
             l == before[g]
  <2>2. /\ PushLost(l, p.slot) \in LotType
        /\ PushLost(l, p.slot).attached = l.attached
        /\ Sound(PushLost(l, p.slot), H[g] \ {p.slot})
    BY <1>3, <2>1, LostKeepsSound
  <2>3. r[g] = PushLost(l, p.slot) /\ \A h \in Heaps : h # g => r[h] = before[h]
    BY <1>3, <2>1
  <2>4. r \in [Heaps -> LotType]
    BY <1>3, <2>1, <2>2
  <2> HIDE DEF l, g
  <2> QED
    BY <2>2, <2>3, <2>4 DEF Left, l, g
<1>2. CASE p.lot # None /\ r = [before EXCEPT ![p.lot] = GivenBack(@, p.slot)]
  <2>1. p.lot \in Heaps
    BY <1>0, <1>2
  <2> DEFINE g == p.lot
             l == before[g]
  <2>2. /\ GivenBack(l, p.slot) \in LotType
        /\ GivenBack(l, p.slot).attached = l.attached
        /\ l.attached => Sound(GivenBack(l, p.slot), H[g] \ {p.slot})
    <3>1. CASE ~l.attached
      BY <3>1, <2>1 DEF GivenBack
    <3>2. CASE l.attached
      BY <3>2, <1>2, <2>1, GiveBackKeepsSound
    <3> QED
      BY <3>1, <3>2
  <2>3. r[g] = GivenBack(l, p.slot) /\ \A h \in Heaps : h # g => r[h] = before[h]
    BY <1>2, <2>1
  <2>4. r \in [Heaps -> LotType]
    BY <1>2, <2>1, <2>2
  <2> HIDE DEF l, g
  <2> QED
    BY <2>2, <2>3, <2>4 DEF Left, l, g
<1> QED
  BY <1>0, <1>1, <1>2, <1>3 DEF Released, Foreign

-----------------------------------------------------------------------------
(* What each action does, in the terms of the invariant.                   *)

(* The lots before a release are sound for what the owners hold, and for   *)
(* the new Parked q of o: so are the lots after it.                        *)
SoundWith(lt, pk, q) ==
  \A h \in Heaps : lt[h].attached => Sound(lt[h], Held(pk, h) \cup Taken(q, h))

LEMMA ChangeOfParked ==
  ASSUME IInv, NEW m \in Machines, NEW o \in Owners,
         NEW q \in ParkedType, Unheld(parked, q),
         NEW before \in [Heaps -> LotType], SoundWith(before, parked, q),
         \A h \in Heaps : lot[h].attached => before[h].attached,
         NEW r \in Released(m, parked[o], before),
         NEW pk \in [Owners -> ParkedType], Changed(parked, o, q, pk)
  PROVE  /\ Apart(pk)
         /\ r \in [Heaps -> LotType]
         /\ \A h \in Heaps : r[h].attached <=> before[h].attached
         /\ \A h \in Heaps : h # parked[o].lot => r[h] = before[h]
         /\ SoundFor(r, pk)
<1>1. /\ parked \in [Owners -> ParkedType] /\ parked[o] \in ParkedType /\ Apart(parked)
      /\ q.lot \in Heaps \cup {None} /\ q.slot \in 0..MaxSlot
  BY DEF IInv, TypeOK, ParkedType
<1>0. \A p \in Owners : parked[p].slot \in 0..MaxSlot
  BY <1>1 DEF ParkedType
<1> DEFINE H == [h \in Heaps |-> Held(parked, h) \cup Taken(q, h)]
<1>2. H \in [Heaps -> SUBSET Slots]
  <2>1. \A h \in Heaps : Held(parked, h) \subseteq Slots
    BY <1>0, ParkingAssumption DEF Held, Slots
  <2>2. \A h \in Heaps : Taken(q, h) \subseteq Slots
    BY <1>1, ParkingAssumption DEF Taken, Slots
  <2> QED
    BY <2>1, <2>2
<1>3. \A h \in Heaps : before[h].attached => Sound(before[h], H[h])
  BY DEF SoundWith
<1>4. parked[o].lot # None /\ before[parked[o].lot].attached =>
        parked[o].slot \in H[parked[o].lot] \cup {0}
  <2>1. parked[o].lot # None => parked[o].lot \in Heaps
    BY <1>1 DEF ParkedType
  <2> QED
    BY <2>1 DEF Held
<1> HIDE DEF H
<1>5. /\ r \in [Heaps -> LotType]
      /\ \A h \in Heaps : r[h].attached <=> before[h].attached
      /\ \A h \in Heaps : h # parked[o].lot => r[h] = before[h]
      /\ \A h \in Heaps : r[h].attached => Sound(r[h], Left(H[h], parked[o], h))
  BY <1>1, <1>2, <1>3, <1>4, ReleaseKeepsSound
<1>6. /\ pk \in [Owners -> ParkedType]
      /\ Apart(pk)
      /\ \A h \in Heaps :
           Held(pk, h) = Left(Held(parked, h), parked[o], h) \cup Taken(q, h)
  <2>1. PICK old \in [Owners -> ParkedType] : old = parked
    BY <1>1
  <2>2. Apart(old) /\ Unheld(old, q)
    BY <1>1, <2>1 DEF Unheld
  <2>4. pk \in [Owners -> ParkedType] /\ Changed(old, o, q, pk)
    BY <2>1
  <2>3. /\ Apart(pk)
        /\ \A h \in Heaps : Held(pk, h) = HeldThen(old, o, q, h)
    BY <2>2, <2>4, HeldAfter
  <2> QED
    BY <2>1, <2>3, <2>4 DEF HeldThen
<1>7. ASSUME NEW h \in Heaps
      PROVE  Left(H[h], parked[o], h) = Left(Held(parked, h), parked[o], h) \cup Taken(q, h)
  <2>1. parked[o].lot = h /\ q.lot = h /\ q.slot # 0 => parked[o].slot # q.slot
    <3>1. h # None
      BY ParkingAssumption
    <3> QED
      BY <3>1 DEF Held, Unheld
  <2> QED
    BY <2>1 DEF H, Left, Taken
<1>8. SoundFor(r, pk)
  BY <1>5, <1>6, <1>7 DEF SoundFor
<1> QED
  BY <1>5, <1>6, <1>8

(* A lot nobody knows of, once it is attached.                             *)
LEMMA FreshSound ==
  ASSUME NEW h \in Heaps, Fresh(h), lot[h] \in LotType
  PROVE  /\ [lot[h] EXCEPT !.attached = TRUE] \in LotType
         /\ [lot[h] EXCEPT !.attached = TRUE].attached
         /\ Held(parked, h) = {}
         /\ Sound([lot[h] EXCEPT !.attached = TRUE], {})
<1> DEFINE l == [lot[h] EXCEPT !.attached = TRUE]
<1>1. /\ l \in LotType /\ l.attached
      /\ l.free = lot[h].free /\ l.pending = lot[h].pending /\ l.next = lot[h].next
      /\ l.lost = lot[h].lost
  BY DEF LotType
<1>2. lot[h].free = <<>> /\ lot[h].pending = <<>> /\ lot[h].next = 1 /\ lot[h].lost = {}
  BY DEF Fresh, NewLot
<1>3. Elements(<<>>) = {} /\ NoTwice(<<>>)
  BY DEF Elements, NoTwice
<1>4. Held(parked, h) = {}
  BY DEF Fresh, Held
<1> HIDE DEF l
<1>5. Sound(l, {})
  BY <1>1, <1>2, <1>3 DEF Sound
<1> QED
  BY <1>1, <1>4, <1>5 DEF l

(* What is known after machine m parked v for o, in a slot of lot h.        *)
ParkFacts(m, o, v, h, slot) ==
  /\ Running(m) /\ h \in born
  /\ lots' = [lots EXCEPT ![m] = h]
  /\ lots[m] # None => h = lots[m] /\ lot[h].attached
  /\ lots[m] = None => h = heapOf[m] /\ Fresh(h)
  /\ parked' = [parked EXCEPT ![o] = [lot |-> h, slot |-> slot]]
  /\ parked' \in [Owners -> ParkedType] /\ Apart(parked')
  /\ slot \notin Held(parked, h)
  /\ lot' \in [Heaps -> LotType]
  /\ \A g \in Heaps : lot'[g].attached <=> (g = h \/ lot[g].attached)
  /\ \A g \in Heaps : g # h /\ g # parked[o].lot => lot'[g] = lot[g]
  /\ LotsSound'
  /\ registry' \in [Heaps -> [Slots -> Values \cup {Nil}]]
  /\ \A g \in Heaps : g # h => registry'[g] = registry[g]
  /\ \A s \in Held(parked, h) : registry'[h][s] = registry[h][s]
  /\ slot # 0 => registry'[h][slot] = v
  /\ Blank => Blank'

(* park(): a slot of the machine's own lot, nobody's until now.            *)
LEMMA ParkStep ==
  ASSUME IInv, NEW m \in Machines, NEW o \in Owners, NEW v \in Values, Park(m, o, v)
  PROVE  \E h \in Heaps, slot \in 0..MaxSlot : ParkFacts(m, o, v, h, slot)
<1>0. /\ None \notin Heaps /\ MaxSlot \in Nat \ {0} /\ 0 \notin Slots
      /\ lots \in [Machines -> Heaps \cup {None}] /\ heapOf \in [Machines -> Heaps \cup {None}]
      /\ lot \in [Heaps -> LotType] /\ registry \in [Heaps -> [Slots -> Values \cup {Nil}]]
      /\ parked \in [Owners -> ParkedType]
      /\ \A p \in Owners : parked[p].slot \in 0..MaxSlot
  BY ParkingAssumption DEF IInv, TypeOK, LotType, ParkedType, Slots
<1>h. PICK h : h = IF lots[m] = None THEN heapOf[m] ELSE lots[m]
  OBVIOUS
<1>n. PICK now : now = IF lots[m] = None THEN [lot EXCEPT ![h].attached = TRUE] ELSE lot
  OBVIOUS
<1>l. PICK l : l = Swept(now[h])
  OBVIOUS
<1>s. PICK slot : slot = NextSlot(l)
  OBVIOUS
<1>c. PICK clean : clean = SweptTable(now[h], registry[h])
  OBVIOUS
<1>1. PICK refused \in BOOLEAN :
        /\ Running(m)
        /\ l.free = <<>> => l.next <= MaxSlot
        /\ lots' = [lots EXCEPT ![m] = h]
        /\ registry' = [registry EXCEPT ![h] =
              IF refused THEN clean ELSE [clean EXCEPT ![slot] = v]]
        /\ parked' = [parked EXCEPT ![o] = [lot |-> h, slot |-> IF refused THEN 0 ELSE slot]]
        /\ lot' \in Released(m, parked[o],
              [now EXCEPT ![h] = IF refused THEN PutBack(TakenFrom(l), slot) ELSE TakenFrom(l)])
  BY <1>h, <1>n, <1>l, <1>s, <1>c DEF Park
<1>a. PICK after : after = IF refused THEN PutBack(TakenFrom(l), slot) ELSE TakenFrom(l)
  OBVIOUS
<1>2. /\ h \in Heaps /\ h \in born
      /\ lots[m] # None => h = lots[m] /\ lot[h].attached
      /\ lots[m] = None => h = heapOf[m] /\ Fresh(h)
  BY <1>0, <1>h, <1>1 DEF IInv, LotsOfMachines, HeapsFresh, Running
<1>3. /\ now \in [Heaps -> LotType] /\ now[h].attached
      /\ \A g \in Heaps : g # h => now[g] = lot[g]
      /\ Sound(now[h], Held(parked, h))
  <2>1. CASE lots[m] = None
    <3>1. now = [lot EXCEPT ![h] = [lot[h] EXCEPT !.attached = TRUE]]
      BY <2>1, <1>0, <1>n, <1>2
    <3>2. /\ [lot[h] EXCEPT !.attached = TRUE] \in LotType
          /\ [lot[h] EXCEPT !.attached = TRUE].attached
          /\ Held(parked, h) = {}
          /\ Sound([lot[h] EXCEPT !.attached = TRUE], {})
      BY <2>1, <1>0, <1>2, FreshSound
    <3>3. PICK fresh : fresh = [lot[h] EXCEPT !.attached = TRUE]
      OBVIOUS
    <3>4. now[h] = fresh /\ now \in [Heaps -> LotType] /\ \A g \in Heaps : g # h => now[g] = lot[g]
      BY <3>1, <3>2, <3>3, <1>0, <1>2
    <3> QED
      BY <3>2, <3>3, <3>4
  <2>2. CASE lots[m] # None
    BY <2>2, <1>0, <1>n, <1>2 DEF IInv, LotsSound, SoundFor
  <2> QED
    BY <2>1, <2>2
<1>4. /\ l \in LotType /\ Sound(l, Held(parked, h)) /\ l.attached
  BY <1>l, <1>2, <1>3, SweepKeepsSound
<1>5. /\ slot \in Slots /\ slot \notin Held(parked, h)
      /\ TakenFrom(l) \in LotType /\ TakenFrom(l).attached
      /\ Sound(TakenFrom(l), Held(parked, h) \cup {slot})
  <2>1. PICK H : H = Held(parked, h)
    OBVIOUS
  <2>2. Sound(l, H) /\ (l.free = <<>> => l.next <= MaxSlot)
    BY <2>1, <1>1, <1>4
  <2>3. /\ NextSlot(l) \in Slots /\ NextSlot(l) \notin H
        /\ TakenFrom(l) \in LotType /\ TakenFrom(l).attached = l.attached
        /\ Sound(TakenFrom(l), H \cup {NextSlot(l)})
    BY <2>2, <1>4, TakeKeepsSound
  <2> QED
    BY <2>1, <2>3, <1>s, <1>4
<1>6. PICK q \in ParkedType : q = [lot |-> h, slot |-> IF refused THEN 0 ELSE slot]
  <2>1. PICK n \in 0..MaxSlot : n = IF refused THEN 0 ELSE slot
    BY <1>0, <1>5 DEF Slots
  <2>2. [lot |-> h, slot |-> n] \in ParkedType
    BY <1>2 DEF ParkedType
  <2> QED
    BY <2>1, <2>2
<1>7. /\ after \in LotType /\ after.attached
      /\ Sound(after, Held(parked, h) \cup Taken(q, h))
  <2>1. CASE refused
    <3>1. /\ after = PutBack(TakenFrom(l), slot) /\ Taken(q, h) = {}
          /\ PutBack(TakenFrom(l), slot) \in LotType /\ PutBack(TakenFrom(l), slot).attached
          /\ Sound(PutBack(TakenFrom(l), slot), Held(parked, h))
      BY <2>1, <1>a, <1>5, <1>6, PutBackKeepsSound DEF Taken
    <3>2. Held(parked, h) \cup {} = Held(parked, h)
      OBVIOUS
    <3> QED
      BY <3>1, <3>2
  <2>2. CASE ~refused
    <3>1. after = TakenFrom(l) /\ Taken(q, h) = {slot}
      BY <2>2, <1>0, <1>a, <1>5, <1>6 DEF Taken
    <3> QED
      BY <3>1, <1>5
  <2> QED
    BY <2>1, <2>2
<1>8. q.lot = h /\ q.slot \in 0..MaxSlot /\ q.slot \notin Held(parked, h)
  BY <1>0, <1>5, <1>6 DEF Held, ParkedType
<1>9. PICK before \in [Heaps -> LotType] : before = [now EXCEPT ![h] = after]
  <2>1. [now EXCEPT ![h] = after] \in [Heaps -> LotType]
    BY <1>2, <1>3, <1>7
  <2> QED
    BY <2>1
<1>10. /\ \A g \in Heaps : before[g].attached <=> (g = h \/ lot[g].attached)
       /\ \A g \in Heaps : g # h => before[g] = lot[g]
  BY <1>2, <1>3, <1>7, <1>9
<1>11. SoundWith(before, parked, q)
  <2> SUFFICES ASSUME NEW g \in Heaps, before[g].attached
               PROVE  Sound(before[g], Held(parked, g) \cup Taken(q, g))
    BY DEF SoundWith
  <2>1. CASE g = h
    BY <2>1, <1>2, <1>3, <1>7, <1>9
  <2>2. CASE g # h
    <3>1. Taken(q, g) = {}
      BY <2>2, <1>8 DEF Taken
    <3>2. Sound(before[g], Held(parked, g))
      BY <2>2, <1>10 DEF IInv, LotsSound, SoundFor
    <3>3. Held(parked, g) \cup {} = Held(parked, g)
      OBVIOUS
    <3> QED
      BY <3>1, <3>2, <3>3
  <2> QED
    BY <2>1, <2>2
<1>12. Unheld(parked, q)
  BY <1>8 DEF Unheld
<1>13. /\ parked' = [parked EXCEPT ![o] = q]
       /\ lot' \in Released(m, parked[o], before)
  BY <1>a, <1>1, <1>6, <1>9
<1>14. /\ parked' \in [Owners -> ParkedType] /\ Apart(parked')
       /\ lot' \in [Heaps -> LotType]
       /\ \A g \in Heaps : lot'[g].attached <=> before[g].attached
       /\ \A g \in Heaps : g # parked[o].lot => lot'[g] = before[g]
       /\ SoundFor(lot', parked')
  <2>1. PICK r, pk : r = lot' /\ pk = parked'
    OBVIOUS
  <2>2. /\ r \in Released(m, parked[o], before)
        /\ pk \in [Owners -> ParkedType] /\ Changed(parked, o, q, pk)
    BY <2>1, <1>0, <1>13 DEF Changed
  <2>3. /\ Apart(pk)
        /\ r \in [Heaps -> LotType]
        /\ \A g \in Heaps : r[g].attached <=> before[g].attached
        /\ \A g \in Heaps : g # parked[o].lot => r[g] = before[g]
        /\ SoundFor(r, pk)
    BY <1>10, <1>11, <1>12, <2>2, ChangeOfParked
  <2> QED
    BY <2>1, <2>2, <2>3
<1>15. clean \in [Slots -> Values \cup {Nil}]
       /\ \A s \in Held(parked, h) : s \in Slots /\ clean[s] = registry[h][s]
  <2>1. \A s \in Held(parked, h) : s \in Slots
    BY <1>0 DEF Held, Slots
  <2>2. \A s \in Held(parked, h) : s \notin Elements(now[h].pending)
    BY <1>3 DEF Sound
  <2> QED
    BY <1>0, <1>c, <1>2, <2>1, <2>2 DEF SweptTable
<1>16. /\ registry' \in [Heaps -> [Slots -> Values \cup {Nil}]]
       /\ \A g \in Heaps : g # h => registry'[g] = registry[g]
       /\ \A s \in Held(parked, h) : registry'[h][s] = registry[h][s]
       /\ q.slot # 0 => registry'[h][q.slot] = v
  BY <1>0, <1>1, <1>2, <1>5, <1>6, <1>15
<1>17. q = [lot |-> h, slot |-> q.slot]
  BY <1>6
<1>18. /\ \A g \in Heaps : lot'[g].attached <=> (g = h \/ lot[g].attached)
       /\ \A g \in Heaps : g # h /\ g # parked[o].lot => lot'[g] = lot[g]
  BY <1>10, <1>14
<1>23. LotsSound'
  BY <1>14 DEF LotsSound
<1>19. PICK slot2 \in 0..MaxSlot : q.slot = slot2
  BY <1>8
<1>20. q = [lot |-> h, slot |-> slot2] /\ parked' = [parked EXCEPT ![o] = [lot |-> h, slot |-> slot2]]
  BY <1>13, <1>17, <1>19
<1>21. slot2 \notin Held(parked, h) /\ (slot2 # 0 => registry'[h][slot2] = v)
  BY <1>8, <1>16, <1>19
<1>22. h \in Heaps /\ slot2 \in 0..MaxSlot
  BY <1>2, <1>19
<1>24. ASSUME Blank PROVE Blank'
  <2>1. EmptyIn(now[h], registry[h])
    <3>1. EmptyIn(lot[h], registry[h]) /\ now[h].free = lot[h].free /\ now[h].next = lot[h].next
      BY <1>0, <1>2, <1>24, <1>n DEF Blank, LotType
    <3> QED
      BY <3>1 DEF EmptyIn
  <2>2. EmptyIn(l, clean)
    BY <1>c, <1>l, <1>2, <1>3, <2>1, SweepEmpties
  <2>3. /\ EmptyIn(PutBack(TakenFrom(l), slot), clean)
        /\ EmptyIn(TakenFrom(l), [clean EXCEPT ![slot] = v])
    BY <1>s, <1>1, <1>4, <1>15, <2>2, TakeEmpty
  <2>4. EmptyIn(after, registry'[h])
    <3>1. registry'[h] = IF refused THEN clean ELSE [clean EXCEPT ![slot] = v]
      BY <1>0, <1>1, <1>2
    <3> QED
      BY <1>a, <2>3, <3>1
  <2>5. ASSUME NEW g \in Heaps PROVE EmptyIn(lot'[g], registry'[g])
    <3>1. EmptyIn(before[g], registry'[g])
      <4>1. CASE g = h
        BY <4>1, <1>2, <1>3, <1>9, <2>4
      <4>2. CASE g # h
        BY <4>2, <1>10, <1>16, <1>24 DEF Blank
      <4> QED
        BY <4>1, <4>2
    <3>2. parked[o].lot \in Heaps \cup {None}
      BY <1>0 DEF ParkedType
    <3>3. lot'[g].free = before[g].free /\ lot'[g].next = before[g].next
      BY <1>13, <3>2, ReleaseFreesNothing
    <3> QED
      BY <3>1, <3>3 DEF EmptyIn
  <2> QED
    BY <2>5 DEF Blank
<1> USE <1>22
<1> WITNESS h \in Heaps, slot2 \in 0..MaxSlot
<1> QED
  BY <1>1, <1>2, <1>14, <1>16, <1>18, <1>20, <1>21, <1>23, <1>24 DEF ParkFacts

(* An owner lets go: only its slot, and only in the lot it is in.          *)
LEMMA ForgetStep ==
  ASSUME IInv, NEW m \in Machines, NEW o \in Owners,
         parked' = [parked EXCEPT ![o] = Nothing], lot' \in Released(m, parked[o], lot)
  PROVE  /\ parked' \in [Owners -> ParkedType] /\ Apart(parked')
         /\ lot' \in [Heaps -> LotType]
         /\ \A g \in Heaps : lot'[g].attached <=> lot[g].attached
         /\ \A g \in Heaps : g # parked[o].lot => lot'[g] = lot[g]
         /\ LotsSound'
<1>0. parked \in [Owners -> ParkedType]
  BY DEF IInv, TypeOK, ParkedType
<1>1. PICK q \in ParkedType : q = Nothing
  <2>1. None \in Heaps \cup {None} /\ 0 \in 0..MaxSlot
    BY ParkingAssumption
  <2> QED
    BY <2>1 DEF ParkedType, Nothing
<1>2. q.lot = None /\ parked' = [parked EXCEPT ![o] = q]
  BY <1>1 DEF Nothing
<1>3. PICK before \in [Heaps -> LotType] : before = lot
  BY DEF IInv, TypeOK, LotType
<1>4. SoundWith(before, parked, q)
  <2> SUFFICES ASSUME NEW h \in Heaps, before[h].attached
               PROVE  Sound(before[h], Held(parked, h) \cup Taken(q, h))
    BY DEF SoundWith
  <2>1. Taken(q, h) = {}
    BY <1>2, ParkingAssumption DEF Taken
  <2>2. Held(parked, h) \cup {} = Held(parked, h)
    OBVIOUS
  <2> QED
    BY <1>3, <2>1, <2>2 DEF IInv, LotsSound, SoundFor
<1>5. /\ lot' \in Released(m, parked[o], before)
      /\ Unheld(parked, q)
  BY <1>2, <1>3 DEF Unheld
<1>6. /\ parked' \in [Owners -> ParkedType] /\ Apart(parked')
      /\ lot' \in [Heaps -> LotType]
      /\ \A h \in Heaps : lot'[h].attached <=> before[h].attached
      /\ \A h \in Heaps : h # parked[o].lot => lot'[h] = before[h]
      /\ SoundFor(lot', parked')
  <2>1. PICK r, pk : r = lot' /\ pk = parked'
    OBVIOUS
  <2>2. /\ r \in Released(m, parked[o], before)
        /\ pk \in [Owners -> ParkedType] /\ Changed(parked, o, q, pk)
    BY <2>1, <1>0, <1>2, <1>5 DEF Changed
  <2>3. /\ Apart(pk)
        /\ r \in [Heaps -> LotType]
        /\ \A g \in Heaps : r[g].attached <=> before[g].attached
        /\ \A g \in Heaps : g # parked[o].lot => r[g] = before[g]
        /\ SoundFor(r, pk)
    BY <1>3, <1>4, <1>5, <2>2, ChangeOfParked
  <2> QED
    BY <2>1, <2>2, <2>3
<1>7. LotsSound'
  BY <1>6 DEF LotsSound
<1> QED
  BY <1>3, <1>6, <1>7

(* A heap stays unknown as long as nobody takes it up.                     *)
LEMMA FreshStays ==
  ASSUME NEW g \in Heaps, Fresh(g), lot'[g] = lot[g],
         \A n \in Machines : lots'[n] = lots[n] \/ lots'[n] # g,
         \A p \in Owners : parked'[p] = parked[p] \/ parked'[p].lot # g
  PROVE  Fresh(g)'
BY DEF Fresh

-----------------------------------------------------------------------------
(* The invariant holds at the start and is kept by every action.           *)

LEMMA InitIInv == Init => IInv
<1> SUFFICES ASSUME Init PROVE IInv
  OBVIOUS
<1>0. None \notin Heaps /\ None \notin Machines /\ MaxSlot \in Nat \ {0}
  BY ParkingAssumption
<1>1. NewLot \in LotType /\ NewLot.attached = FALSE
  BY <1>0, EmptySeq DEF NewLot, LotType
<1>2. Nothing \in ParkedType /\ Nothing.lot = None
  BY <1>0 DEF Nothing, ParkedType
<1>3. TypeOK
  <2>1. lot \in [Heaps -> LotType] /\ parked \in [Owners -> ParkedType]
    BY <1>1, <1>2 DEF Init
  <2>2. /\ heapOf \in [Machines -> Heaps \cup {None}] /\ born \subseteq Heaps
        /\ runtime \in Machines \cup {None} /\ lots \in [Machines -> Heaps \cup {None}]
        /\ registry \in [Heaps -> [Slots -> Values \cup {Nil}]]
    BY DEF Init, Empty
  <2> QED
    BY <2>1, <2>2 DEF TypeOK, LotType, ParkedType
<1>4. LotsOfMachines /\ Apart(parked)
  BY <1>0, <1>2 DEF Init, LotsOfMachines, Apart, Running
<1>5. HeapsFresh
  BY <1>0, <1>2 DEF Init, HeapsFresh, Fresh, Running
<1>6. LotsSound
  BY <1>1 DEF Init, LotsSound, SoundFor
<1> QED
  BY <1>3, <1>4, <1>5, <1>6 DEF IInv

LEMMA ParkIInv ==
  ASSUME IInv, NEW m \in Machines, NEW o \in Owners, NEW v \in Values, Park(m, o, v)
  PROVE  IInv'
<1>0. UNCHANGED <<heapOf, born, runtime>>
  BY DEF Park
<1>p. PICK h \in Heaps, slot \in 0..MaxSlot : ParkFacts(m, o, v, h, slot)
  BY ParkStep
<1>1. /\ Running(m) /\ h \in born
      /\ lots' = [lots EXCEPT ![m] = h]
      /\ lots[m] # None => h = lots[m] /\ lot[h].attached
      /\ lots[m] = None => h = heapOf[m] /\ Fresh(h)
      /\ parked' = [parked EXCEPT ![o] = [lot |-> h, slot |-> slot]]
      /\ parked' \in [Owners -> ParkedType] /\ Apart(parked')
      /\ lot' \in [Heaps -> LotType]
      /\ \A g \in Heaps : lot'[g].attached <=> (g = h \/ lot[g].attached)
      /\ \A g \in Heaps : g # h /\ g # parked[o].lot => lot'[g] = lot[g]
      /\ LotsSound'
      /\ registry' \in [Heaps -> [Slots -> Values \cup {Nil}]]
  BY <1>p DEF ParkFacts
<1>2. /\ lots \in [Machines -> Heaps \cup {None}] /\ lots'[m] = h
      /\ \A n \in Machines : n # m => lots'[n] = lots[n]
      /\ \A p \in Owners : parked'[p] = parked[p] \/ parked'[p].lot = h
      /\ None \notin Heaps /\ heapOf \in [Machines -> Heaps \cup {None}]
  BY <1>1, ParkingAssumption DEF IInv, TypeOK
<1>3. TypeOK'
  <2>1. lots' \in [Machines -> Heaps \cup {None}]
    BY <1>1, <1>2
  <2> QED
    BY <1>0, <1>1, <2>1 DEF IInv, TypeOK, LotType, ParkedType
<1>4. ASSUME NEW n \in Machines, n # m, lots[n] # None
      PROVE  lots[n] # h
  <2>1. CASE lots[m] = None
    BY <2>1, <1>1 DEF Fresh
  <2>2. CASE lots[m] # None
    BY <2>2, <1>4, <1>1 DEF IInv, LotsOfMachines
  <2> QED
    BY <2>1, <2>2
<1>5. LotsOfMachines'
  <2>1. \A n, k \in Machines : lots'[n] # None /\ lots'[n] = lots'[k] => n = k
    BY <1>2, <1>4 DEF IInv, LotsOfMachines
  <2>2. \A n \in Machines : lots'[n] # None => lot'[lots'[n]].attached /\ lots'[n] \in born'
    BY <1>0, <1>1, <1>2 DEF IInv, LotsOfMachines
  <2>3. runtime' # None => Running(runtime)' /\ lots'[runtime'] # None
    BY <1>0, <1>1, <1>2 DEF IInv, LotsOfMachines, Running, TypeOK
  <2>4. \A n, k \in Machines : Running(n)' /\ heapOf'[n] = heapOf'[k] => n = k
    BY <1>0 DEF IInv, LotsOfMachines, Running
  <2> QED
    BY <2>1, <2>2, <2>3, <2>4 DEF LotsOfMachines, Running
<1>6. ASSUME NEW g \in Heaps, g # h, Fresh(g) PROVE Fresh(g)'
  <2>1. lot'[g] = lot[g]
    BY <1>6, <1>1 DEF Fresh
  <2> QED
    BY <1>6, <1>2, <2>1, FreshStays
<1>7. HeapsFresh'
  <2>1. \A n \in Machines : Running(n)' => heapOf'[n] \in born'
    BY <1>0 DEF IInv, HeapsFresh, Running
  <2>2. \A g \in Heaps : g \notin born' => Fresh(g)'
    BY <1>0, <1>1, <1>6 DEF IInv, HeapsFresh
  <2>3. ASSUME NEW n \in Machines, NEW g \in Heaps,
               Running(n)', heapOf'[n] = g, lots'[n] = None
        PROVE  Fresh(g)'
    <3>1. n # m /\ lots[n] = None /\ Running(n) /\ heapOf[n] = g
      BY <2>3, <1>0, <1>2 DEF Running
    <3>2. Fresh(g)
      BY <3>1 DEF IInv, HeapsFresh
    <3>3. g # h
      <4>1. lots[m] = None => heapOf[m] # g
        BY <3>1, <1>1 DEF IInv, LotsOfMachines
      <4>2. lots[m] # None => lots[m] # g
        BY <3>2 DEF Fresh
      <4> QED
        BY <4>1, <4>2, <1>1
    <3> QED
      BY <3>2, <3>3, <1>6
  <2> QED
    BY <2>1, <2>2, <2>3 DEF HeapsFresh, Running
<1> QED
  BY <1>1, <1>3, <1>5, <1>7 DEF IInv

LEMMA ForgetIInv ==
  ASSUME IInv, NEW m \in Machines, NEW o \in Owners, ParkWithoutLot(m, o) \/ Forget(m, o)
  PROVE  IInv'
<1>0. /\ UNCHANGED <<heapOf, born, runtime, lots, registry>>
      /\ parked' = [parked EXCEPT ![o] = Nothing]
      /\ lot' \in Released(m, parked[o], lot)
  BY DEF ParkWithoutLot, Forget
<1>1. /\ parked' \in [Owners -> ParkedType] /\ Apart(parked')
      /\ lot' \in [Heaps -> LotType]
      /\ \A g \in Heaps : lot'[g].attached <=> lot[g].attached
      /\ \A g \in Heaps : g # parked[o].lot => lot'[g] = lot[g]
      /\ LotsSound'
  BY <1>0, ForgetStep
<1>2. /\ None \notin Heaps /\ heapOf \in [Machines -> Heaps \cup {None}]
      /\ lots \in [Machines -> Heaps \cup {None}]
      /\ \A p \in Owners : parked'[p] = parked[p] \/ parked'[p].lot = None
  BY <1>0, ParkingAssumption DEF IInv, TypeOK, Nothing
<1>3. TypeOK'
  BY <1>0, <1>1 DEF IInv, TypeOK, LotType, ParkedType
<1>4. LotsOfMachines'
  <2>1. ASSUME NEW n \in Machines, lots'[n] # None
        PROVE  lot'[lots'[n]].attached /\ lots'[n] \in born'
    <3>1. lots[n] \in Heaps /\ lots'[n] = lots[n] /\ lot[lots[n]].attached /\ lots[n] \in born
      BY <2>1, <1>0, <1>2 DEF IInv, LotsOfMachines
    <3> QED
      BY <3>1, <1>0, <1>1
  <2>2. /\ \A n, k \in Machines : Running(n)' /\ heapOf'[n] = heapOf'[k] => n = k
        /\ \A n, k \in Machines : lots'[n] # None /\ lots'[n] = lots'[k] => n = k
        /\ runtime' # None => Running(runtime)' /\ lots'[runtime'] # None
    BY <1>0 DEF IInv, LotsOfMachines, Running
  <2> QED
    BY <2>1, <2>2 DEF LotsOfMachines, Running
<1>5. ASSUME NEW g \in Heaps, Fresh(g) PROVE Fresh(g)'
  <2>1. lot'[g] = lot[g]
    BY <1>5, <1>1 DEF Fresh
  <2>2. \A p \in Owners : parked'[p] = parked[p] \/ parked'[p].lot # g
    BY <1>2
  <2> QED
    BY <1>5, <1>0, <2>1, <2>2, FreshStays
<1>6. HeapsFresh'
  <2>1. \A g \in Heaps : g \notin born' => Fresh(g)'
    BY <1>0, <1>5 DEF IInv, HeapsFresh
  <2>2. ASSUME NEW n \in Machines, NEW g \in Heaps,
               Running(n)', heapOf'[n] = g, lots'[n] = None
        PROVE  Fresh(g)'
    <3>1. Running(n) /\ heapOf[n] = g /\ lots[n] = None
      BY <2>2, <1>0 DEF Running
    <3> QED
      BY <3>1, <1>5 DEF IInv, HeapsFresh
  <2>3. \A n \in Machines : Running(n)' => heapOf'[n] \in born'
    BY <1>0 DEF IInv, HeapsFresh, Running
  <2> QED
    BY <2>1, <2>2, <2>3 DEF HeapsFresh, Running
<1> QED
  BY <1>1, <1>3, <1>4, <1>6 DEF IInv

LEMMA StartIInv ==
  ASSUME IInv, NEW m \in Machines, NEW h \in Heaps, StartRuntime(m, h) \/ StartWorker(m, h)
  PROVE  IInv'
<1>0. /\ ~Running(m) /\ h \notin born /\ Fresh(h)
      /\ heapOf' = [heapOf EXCEPT ![m] = h] /\ born' = born \cup {h}
      /\ UNCHANGED <<registry, parked>>
  BY DEF StartRuntime, StartWorker, Start, IInv, HeapsFresh
<1>1. /\ None \notin Heaps /\ None \notin Machines
      /\ heapOf \in [Machines -> Heaps \cup {None}] /\ lots \in [Machines -> Heaps \cup {None}]
      /\ lot \in [Heaps -> LotType] /\ born \subseteq Heaps /\ runtime \in Machines \cup {None}
  BY ParkingAssumption DEF IInv, TypeOK, LotType
<1>2. /\ heapOf' \in [Machines -> Heaps \cup {None}] /\ heapOf'[m] = h
      /\ \A n \in Machines : n # m => heapOf'[n] = heapOf[n]
      /\ \A n \in Machines : Running(n) => heapOf[n] \in born /\ heapOf[n] # h /\ n # m
  BY <1>0, <1>1 DEF IInv, HeapsFresh, Running
<1>3. \A n, k \in Machines : Running(n)' /\ heapOf'[n] = heapOf'[k] => n = k
  BY <1>1, <1>2 DEF IInv, LotsOfMachines, Running
<1>4. \A n \in Machines : Running(n)' => heapOf'[n] \in born'
  BY <1>0, <1>2 DEF Running
<1>5. CASE StartWorker(m, h)
  <2>0. UNCHANGED <<runtime, lots, lot>>
    BY <1>5 DEF StartWorker
  <2>1. TypeOK'
    BY <1>0, <1>1, <1>2, <2>0 DEF IInv, TypeOK
  <2>2. LotsOfMachines'
    BY <1>0, <1>1, <1>2, <1>3, <2>0 DEF IInv, LotsOfMachines, Running
  <2>3. ASSUME NEW g \in Heaps, Fresh(g) PROVE Fresh(g)'
    BY <2>3, <2>0, <1>0 DEF Fresh
  <2>4. ASSUME NEW n \in Machines, NEW g \in Heaps,
               Running(n)', heapOf'[n] = g, lots'[n] = None
        PROVE  Fresh(g)'
    BY <2>4, <2>0, <2>3, <1>0, <1>2 DEF IInv, HeapsFresh, Running
  <2>5. \A g \in Heaps : g \notin born' => Fresh(g)'
    BY <2>3, <1>0 DEF IInv, HeapsFresh
  <2>6. HeapsFresh'
    BY <1>4, <2>4, <2>5 DEF HeapsFresh, Running
  <2> QED
    BY <1>0, <2>0, <2>1, <2>2, <2>6 DEF IInv, LotsSound
<1>6. CASE StartRuntime(m, h)
  <2>0. /\ runtime' = m /\ lots' = [lots EXCEPT ![m] = h]
        /\ lot' = [lot EXCEPT ![h].attached = TRUE]
    BY <1>6 DEF StartRuntime
  <2>1. /\ lots' \in [Machines -> Heaps \cup {None}] /\ lots'[m] = h
        /\ \A n \in Machines : n # m => lots'[n] = lots[n]
        /\ \A n \in Machines : lots[n] # h
    BY <1>0, <1>1, <2>0 DEF Fresh
  <2>2. /\ lot'[h] = [lot[h] EXCEPT !.attached = TRUE]
        /\ lot' \in [Heaps -> LotType] /\ lot'[h].attached
        /\ \A g \in Heaps : g # h => lot'[g] = lot[g]
        /\ Sound(lot'[h], {}) /\ Held(parked, h) = {}
    <3>1. lot[h] \in LotType
      BY <1>1
    <3>2. PICK l : l = [lot[h] EXCEPT !.attached = TRUE]
      OBVIOUS
    <3>3. l \in LotType /\ l.attached /\ Held(parked, h) = {} /\ Sound(l, {})
      BY <3>1, <3>2, <1>0, FreshSound
    <3>4. lot' = [lot EXCEPT ![h] = l]
      BY <2>0, <3>2
    <3>5. lot'[h] = l /\ lot' \in [Heaps -> LotType] /\ \A g \in Heaps : g # h => lot'[g] = lot[g]
      BY <3>3, <3>4, <1>1
    <3> QED
      BY <3>2, <3>3, <3>5
  <2>3. TypeOK'
    BY <1>0, <1>2, <2>0, <2>1, <2>2 DEF IInv, TypeOK, LotType
  <2>4. LotsOfMachines'
    <3>1. \A n, k \in Machines : lots'[n] # None /\ lots'[n] = lots'[k] => n = k
      BY <2>1 DEF IInv, LotsOfMachines
    <3>2. ASSUME NEW n \in Machines, lots'[n] # None
          PROVE  lot'[lots'[n]].attached /\ lots'[n] \in born'
      <4>1. CASE n = m
        BY <4>1, <2>1, <2>2, <1>0
      <4>2. CASE n # m
        <5>1. lots'[n] = lots[n] /\ lots[n] \in Heaps /\ lots[n] # h
          BY <4>2, <3>2, <2>1, <1>1
        <5>2. lot[lots[n]].attached /\ lots[n] \in born
          BY <3>2, <5>1 DEF IInv, LotsOfMachines
        <5> QED
          BY <5>1, <5>2, <2>2, <1>0
      <4> QED
        BY <4>1, <4>2
    <3>3. runtime' # None => Running(runtime)' /\ lots'[runtime'] # None
      BY <1>1, <1>2, <2>0, <2>1 DEF Running
    <3> QED
      BY <1>3, <3>1, <3>2, <3>3 DEF LotsOfMachines, Running
  <2>5. ASSUME NEW g \in Heaps, g # h, Fresh(g) PROVE Fresh(g)'
    <3>1. \A n \in Machines : lots'[n] = lots[n] \/ lots'[n] # g
      BY <2>1, <2>5
    <3> QED
      BY <2>5, <2>2, <1>0, <3>1, FreshStays
  <2>6. ASSUME NEW n \in Machines, NEW g \in Heaps,
               Running(n)', heapOf'[n] = g, lots'[n] = None
        PROVE  Fresh(g)'
    <3>1. n # m /\ Running(n) /\ heapOf[n] = g /\ lots[n] = None /\ g # h
      BY <2>6, <2>1, <1>1, <1>2 DEF Running
    <3> QED
      BY <3>1, <2>5 DEF IInv, HeapsFresh
  <2>7. \A g \in Heaps : g \notin born' => Fresh(g)'
    BY <2>5, <1>0 DEF IInv, HeapsFresh
  <2>8. HeapsFresh'
    BY <1>4, <2>6, <2>7 DEF HeapsFresh, Running
  <2>9. LotsSound'
    <3>1. \A g \in Heaps : lot'[g].attached => Sound(lot'[g], Held(parked, g))
      BY <2>2 DEF IInv, LotsSound, SoundFor
    <3>2. SoundFor(lot', parked)
      BY <3>1 DEF SoundFor
    <3> QED
      BY <3>2, <1>0 DEF LotsSound
  <2> QED
    BY <1>0, <2>3, <2>4, <2>8, <2>9 DEF IInv
<1> QED
  BY <1>5, <1>6

LEMMA EndWorkerIInv ==
  ASSUME IInv, NEW m \in Machines, EndWorker(m)
  PROVE  IInv'
<1>0. /\ m # runtime /\ heapOf' = [heapOf EXCEPT ![m] = None]
      /\ UNCHANGED <<born, runtime, lots, lot, registry, parked>>
  BY DEF EndWorker
<1>1. /\ heapOf' \in [Machines -> Heaps \cup {None}] /\ None \notin Heaps
      /\ \A n \in Machines : Running(n)' => Running(n) /\ n # m /\ heapOf'[n] = heapOf[n]
      /\ \A n \in Machines : n # m => heapOf'[n] = heapOf[n]
      /\ heapOf'[m] = None
  BY <1>0, ParkingAssumption DEF IInv, TypeOK, Running
<1>2. TypeOK' /\ LotsSound' /\ Apart(parked')
  BY <1>0, <1>1 DEF IInv, TypeOK, LotsSound
<1>3. LotsOfMachines'
  <2>1. \A n, k \in Machines : Running(n)' /\ heapOf'[n] = heapOf'[k] => n = k
    BY <1>1 DEF IInv, LotsOfMachines, Running
  <2>2. runtime' # None => Running(runtime)' /\ lots'[runtime'] # None
    BY <1>0, <1>1 DEF IInv, TypeOK, LotsOfMachines, Running
  <2> QED
    BY <1>0, <2>1, <2>2 DEF IInv, LotsOfMachines, Running
<1>4. ASSUME NEW g \in Heaps, Fresh(g) PROVE Fresh(g)'
  BY <1>4, <1>0 DEF Fresh
<1>5. HeapsFresh'
  <2>1. ASSUME NEW n \in Machines, NEW g \in Heaps,
               Running(n)', heapOf'[n] = g, lots'[n] = None
        PROVE  Fresh(g)'
    BY <2>1, <1>0, <1>1, <1>4 DEF IInv, HeapsFresh
  <2>2. \A g \in Heaps : g \notin born' => Fresh(g)'
    BY <1>0, <1>4 DEF IInv, HeapsFresh
  <2>3. \A n \in Machines : Running(n)' => heapOf'[n] \in born'
    BY <1>0, <1>1 DEF IInv, HeapsFresh
  <2> QED
    BY <2>1, <2>2, <2>3 DEF HeapsFresh, Running
<1> QED
  BY <1>2, <1>3, <1>5 DEF IInv

LEMMA EndRuntimeIInv ==
  ASSUME IInv, EndRuntime
  PROVE  IInv'
<1>1. /\ None \notin Heaps /\ None \notin Machines
      /\ heapOf \in [Machines -> Heaps \cup {None}] /\ lots \in [Machines -> Heaps \cup {None}]
      /\ lot \in [Heaps -> LotType] /\ runtime \in Machines
      /\ lots[runtime] # None
  BY ParkingAssumption DEF EndRuntime, IInv, TypeOK, LotType, LotsOfMachines
<1>2. PICK m \in Machines, h \in Heaps : m = runtime /\ h = lots[m]
  BY <1>1
<1>0. /\ lot' = [lot EXCEPT ![h].attached = FALSE, ![h].pending = <<>>]
      /\ lots' = [lots EXCEPT ![m] = None] /\ heapOf' = [heapOf EXCEPT ![m] = None]
      /\ runtime' = None /\ UNCHANGED <<born, registry, parked>>
  BY <1>2 DEF EndRuntime, Detach
<1>3. /\ lot' \in [Heaps -> LotType] /\ ~lot'[h].attached
      /\ \A g \in Heaps : g # h => lot'[g] = lot[g]
  <2>1. [[lot[h] EXCEPT !.attached = FALSE] EXCEPT !.pending = <<>>] \in LotType
    BY <1>1, EmptySeq DEF LotType
  <2> QED
    BY <1>0, <1>1, <2>1 DEF LotType
<1>4. /\ heapOf' \in [Machines -> Heaps \cup {None}] /\ lots' \in [Machines -> Heaps \cup {None}]
      /\ \A n \in Machines : lots'[n] # None => n # m /\ lots'[n] = lots[n]
      /\ \A n \in Machines : Running(n)' => n # m /\ Running(n) /\ heapOf'[n] = heapOf[n]
      /\ \A n \in Machines : n # m => lots'[n] = lots[n] /\ heapOf'[n] = heapOf[n]
      /\ heapOf'[m] = None /\ lots'[m] = None
  BY <1>0, <1>1 DEF Running
<1>5. TypeOK' /\ Apart(parked')
  BY <1>0, <1>3, <1>4 DEF IInv, TypeOK, LotType
<1>6. LotsOfMachines'
  <2>1. ASSUME NEW n \in Machines, lots'[n] # None
        PROVE  lot'[lots'[n]].attached /\ lots'[n] \in born'
    <3>1. n # m /\ lots'[n] = lots[n] /\ lots[n] \in Heaps
      BY <2>1, <1>1, <1>4
    <3>2. lots[n] # h /\ lot[lots[n]].attached /\ lots[n] \in born
      BY <2>1, <3>1, <1>1, <1>2 DEF IInv, LotsOfMachines
    <3> QED
      BY <3>1, <3>2, <1>0, <1>3
  <2>2. \A n, k \in Machines : Running(n)' /\ heapOf'[n] = heapOf'[k] => n = k
    BY <1>4 DEF IInv, LotsOfMachines, Running
  <2>3. \A n, k \in Machines : lots'[n] # None /\ lots'[n] = lots'[k] => n = k
    BY <1>4 DEF IInv, LotsOfMachines
  <2> QED
    BY <1>0, <2>1, <2>2, <2>3 DEF LotsOfMachines, Running
<1>7. ASSUME NEW g \in Heaps, Fresh(g) PROVE Fresh(g)'
  <2>1. lot'[g] = lot[g]
    BY <1>7, <1>2, <1>3 DEF Fresh
  <2>2. \A n \in Machines : lots'[n] = lots[n] \/ lots'[n] # g
    BY <1>1, <1>4
  <2> QED
    BY <1>7, <1>0, <2>1, <2>2, FreshStays
<1>8. HeapsFresh'
  <2>1. ASSUME NEW n \in Machines, NEW g \in Heaps,
               Running(n)', heapOf'[n] = g, lots'[n] = None
        PROVE  Fresh(g)'
    <3>1. Running(n) /\ heapOf[n] = g /\ lots[n] = None
      BY <2>1, <1>4
    <3> QED
      BY <3>1, <1>7 DEF IInv, HeapsFresh
  <2>2. \A g \in Heaps : g \notin born' => Fresh(g)'
    BY <1>0, <1>7 DEF IInv, HeapsFresh
  <2>3. \A n \in Machines : Running(n)' => heapOf'[n] \in born'
    BY <1>0, <1>4 DEF IInv, HeapsFresh
  <2> QED
    BY <2>1, <2>2, <2>3 DEF HeapsFresh, Running
<1>9. LotsSound'
  <2>1. \A g \in Heaps : lot'[g].attached => Sound(lot'[g], Held(parked, g))
    BY <1>3 DEF IInv, LotsSound, SoundFor
  <2>2. SoundFor(lot', parked)
    BY <2>1 DEF SoundFor
  <2> QED
    BY <2>2, <1>0 DEF LotsSound
<1> QED
  BY <1>5, <1>6, <1>8, <1>9 DEF IInv

(* The sweep before a frame changes what is free, and no value held.       *)
LEMMA SweepStep ==
  ASSUME IInv, FrameSweep
  PROVE  \E h \in Heaps :
           /\ h = lots[runtime] /\ lot[h].attached
           /\ lot' \in [Heaps -> LotType] /\ lot'[h].attached
           /\ \A g \in Heaps : g # h => lot'[g] = lot[g]
           /\ LotsSound'
           /\ registry' \in [Heaps -> [Slots -> Values \cup {Nil}]]
           /\ \A g \in Heaps : g # h => registry'[g] = registry[g]
           /\ \A s \in Held(parked, h) : registry'[h][s] = registry[h][s]
           /\ UNCHANGED <<heapOf, born, runtime, lots, parked>>
<1>1. /\ lot \in [Heaps -> LotType] /\ registry \in [Heaps -> [Slots -> Values \cup {Nil}]]
      /\ runtime \in Machines /\ lots[runtime] \in Heaps /\ lot[lots[runtime]].attached
      /\ \A p \in Owners : parked[p].slot \in 0..MaxSlot
  BY ParkingAssumption DEF FrameSweep, IInv, TypeOK, LotType, LotsOfMachines
<1>2. PICK h \in Heaps : h = lots[runtime] /\ lot[h].attached
  BY <1>1
<1>0. /\ lot' = [lot EXCEPT ![h] = Swept(lot[h])]
      /\ registry' = [registry EXCEPT ![h] = SweptTable(lot[h], registry[h])]
      /\ UNCHANGED <<heapOf, born, runtime, lots, parked>>
  BY <1>2 DEF FrameSweep
<1>3. Sound(lot[h], Held(parked, h)) /\ lot[h] \in LotType
  BY <1>1, <1>2 DEF IInv, LotsSound, SoundFor
<1>4. Swept(lot[h]) \in LotType /\ Sound(Swept(lot[h]), Held(parked, h)) /\ Swept(lot[h]).attached
  BY <1>2, <1>3, SweepKeepsSound
<1>5. /\ lot' \in [Heaps -> LotType] /\ lot'[h] = Swept(lot[h])
      /\ \A g \in Heaps : g # h => lot'[g] = lot[g]
  BY <1>0, <1>1, <1>4
<1>6. LotsSound'
  <2>1. \A g \in Heaps : lot'[g].attached => Sound(lot'[g], Held(parked, g))
    BY <1>4, <1>5 DEF IInv, LotsSound, SoundFor
  <2>2. SoundFor(lot', parked)
    BY <2>1 DEF SoundFor
  <2> QED
    BY <2>2, <1>0 DEF LotsSound
<1>7. /\ registry' \in [Heaps -> [Slots -> Values \cup {Nil}]]
      /\ registry'[h] = SweptTable(lot[h], registry[h])
      /\ \A g \in Heaps : g # h => registry'[g] = registry[g]
  <2>1. SweptTable(lot[h], registry[h]) \in [Slots -> Values \cup {Nil}]
    BY <1>1 DEF SweptTable
  <2> QED
    BY <1>0, <1>1, <2>1
<1>8. \A s \in Held(parked, h) : registry'[h][s] = registry[h][s]
  <2>1. \A s \in Held(parked, h) : s \in Slots /\ s \notin Elements(lot[h].pending)
    BY <1>1, <1>3, ParkingAssumption DEF Held, Slots, Sound
  <2> QED
    BY <1>7, <2>1 DEF SweptTable
<1> QED
  BY <1>0, <1>2, <1>4, <1>5, <1>6, <1>7, <1>8

LEMMA FrameSweepIInv ==
  ASSUME IInv, FrameSweep
  PROVE  IInv'
<1>1. PICK h \in Heaps :
        /\ h = lots[runtime] /\ lot[h].attached
        /\ lot' \in [Heaps -> LotType] /\ lot'[h].attached
        /\ \A g \in Heaps : g # h => lot'[g] = lot[g]
        /\ LotsSound'
        /\ registry' \in [Heaps -> [Slots -> Values \cup {Nil}]]
        /\ UNCHANGED <<heapOf, born, runtime, lots, parked>>
  BY SweepStep
<1>2. runtime \in Machines /\ lots \in [Machines -> Heaps \cup {None}]
  BY ParkingAssumption DEF FrameSweep, IInv, TypeOK
<1>3. TypeOK' /\ Apart(parked')
  BY <1>1 DEF IInv, TypeOK, LotType
<1>4. LotsOfMachines'
  <2>1. ASSUME NEW n \in Machines, lots'[n] # None
        PROVE  lot'[lots'[n]].attached /\ lots'[n] \in born'
    <3>1. lots[n] \in Heaps /\ lots'[n] = lots[n] /\ lot[lots[n]].attached /\ lots[n] \in born
      BY <2>1, <1>1, <1>2 DEF IInv, LotsOfMachines
    <3> QED
      BY <3>1, <1>1
  <2> QED
    BY <1>1, <2>1 DEF IInv, LotsOfMachines, Running
<1>5. ASSUME NEW g \in Heaps, Fresh(g) PROVE Fresh(g)'
  BY <1>5, <1>1, <1>2 DEF Fresh
<1>6. HeapsFresh'
  <2>1. ASSUME NEW n \in Machines, NEW g \in Heaps,
               Running(n)', heapOf'[n] = g, lots'[n] = None
        PROVE  Fresh(g)'
    BY <2>1, <1>1, <1>5 DEF IInv, HeapsFresh, Running
  <2>2. \A g \in Heaps : g \notin born' => Fresh(g)'
    BY <1>1, <1>5 DEF IInv, HeapsFresh
  <2>3. \A n \in Machines : Running(n)' => heapOf'[n] \in born'
    BY <1>1 DEF IInv, HeapsFresh, Running
  <2> QED
    BY <2>1, <2>2, <2>3 DEF HeapsFresh, Running
<1> QED
  BY <1>1, <1>3, <1>4, <1>6 DEF IInv

LEMMA StutterIInv ==
  ASSUME IInv, UNCHANGED vars
  PROVE  IInv'
BY DEF vars, IInv, TypeOK, LotsOfMachines, HeapsFresh, Fresh, LotsSound, SoundFor, Apart, Running

LEMMA NextIInv == IInv /\ [Next]_vars => IInv'
<1> SUFFICES ASSUME IInv, [Next]_vars PROVE IInv'
  OBVIOUS
<1>1. ASSUME NEW m \in Machines, EndWorker(m) PROVE IInv'
  BY <1>1, EndWorkerIInv
<1>2. ASSUME NEW m \in Machines, NEW h \in Heaps, StartRuntime(m, h) \/ StartWorker(m, h)
      PROVE  IInv'
  BY <1>2, StartIInv
<1>3. ASSUME NEW m \in Machines, NEW o \in Owners, ParkWithoutLot(m, o) \/ Forget(m, o)
      PROVE  IInv'
  BY <1>3, ForgetIInv
<1>4. ASSUME NEW m \in Machines, NEW o \in Owners, NEW v \in Values, Park(m, o, v)
      PROVE  IInv'
  BY <1>4, ParkIInv
<1>5. CASE EndRuntime
  BY <1>5, EndRuntimeIInv
<1>6. CASE FrameSweep
  BY <1>6, FrameSweepIInv
<1>7. CASE UNCHANGED vars
  BY <1>7, StutterIInv
<1> QED
  BY <1>1, <1>2, <1>3, <1>4, <1>5, <1>6, <1>7 DEF Next

(* The strengthened invariant holds in every reachable state.              *)
THEOREM ParkingInvariant == Spec => []IInv
<1> QED
  BY InitIInv, NextIInv, PTL DEF Spec

(* Every variable keeps its type, whatever machines, owners and refusals.  *)
THEOREM ParkingTypes == Spec => []TypeOK
<1>1. IInv => TypeOK
  BY DEF IInv
<1> QED
  BY <1>1, ParkingInvariant, PTL

(* No slot is ever handed to two owners, nor free or pending while an      *)
(* owner's value is in it -- through park(), sweep() and releaseLater(),   *)
(* even if other threads' releases get lost and addresses are used again.  *)
THEOREM SlotsAreExclusive == Spec => []SlotExclusive
<1> QED
  BY ParkingInvariant, IInvExclusive, PTL

(* Every slot a lot has handed out is held, free, given back, or was lost  *)
(* by another machine's thread, whatever park() was refused.               *)
THEOREM SlotsAreAccounted == Spec => []SlotsAccounted
<1> QED
  BY ParkingInvariant, IInvAccounted, PTL

-----------------------------------------------------------------------------
(* Free slots keep nothing alive.                                          *)

LEMMA InitBlank == Init => Blank
BY DEF Init, Blank, EmptyIn, Empty

LEMMA NextBlank == IInv /\ Blank /\ [Next]_vars => Blank'
<1> SUFFICES ASSUME IInv, Blank, [Next]_vars PROVE Blank'
  OBVIOUS
<1>0. /\ lot \in [Heaps -> LotType] /\ registry \in [Heaps -> [Slots -> Values \cup {Nil}]]
      /\ \A p \in Owners : parked[p].lot \in Heaps \cup {None}
  BY DEF IInv, TypeOK, LotType
<1>1. ASSUME registry' = registry,
             \A g \in Heaps : lot'[g].free = lot[g].free /\ lot'[g].next = lot[g].next
      PROVE  Blank'
  BY <1>1 DEF Blank, EmptyIn
<1>2. CASE UNCHANGED vars \/ \E m \in Machines : EndWorker(m)
  BY <1>1, <1>2 DEF vars, EndWorker
<1>3. ASSUME NEW m \in Machines, NEW h \in Heaps, StartRuntime(m, h) \/ StartWorker(m, h)
      PROVE  Blank'
  <2>1. registry' = registry /\ (lot' = lot \/ lot' = [lot EXCEPT ![h].attached = TRUE])
    BY <1>3 DEF StartRuntime, StartWorker
  <2>2. \A g \in Heaps : lot'[g].free = lot[g].free /\ lot'[g].next = lot[g].next
    <3>1. lot' = [lot EXCEPT ![h].attached = TRUE] =>
            \A g \in Heaps : lot'[g].free = lot[g].free /\ lot'[g].next = lot[g].next
      BY <1>0 DEF LotType
    <3> QED
      BY <2>1, <3>1
  <2> QED
    BY <1>1, <2>1, <2>2
<1>4. ASSUME NEW m \in Machines, NEW o \in Owners, ParkWithoutLot(m, o) \/ Forget(m, o)
      PROVE  Blank'
  <2>1. registry' = registry /\ lot' \in Released(m, parked[o], lot)
    BY <1>4 DEF ParkWithoutLot, Forget
  <2>2. \A g \in Heaps : lot'[g].free = lot[g].free /\ lot'[g].next = lot[g].next
    BY <1>0, <2>1, ReleaseFreesNothing
  <2> QED
    BY <1>1, <2>1, <2>2
<1>5. ASSUME NEW m \in Machines, NEW o \in Owners, NEW v \in Values, Park(m, o, v)
      PROVE  Blank'
  BY <1>5, ParkStep DEF ParkFacts
<1>6. CASE EndRuntime
  <2>1. PICK h : lot' = [lot EXCEPT ![h].attached = FALSE, ![h].pending = <<>>]
    BY <1>6 DEF EndRuntime, Detach
  <2>2. \A g \in Heaps : lot'[g].free = lot[g].free /\ lot'[g].next = lot[g].next
    BY <1>0, <2>1 DEF LotType
  <2> QED
    BY <1>1, <1>6, <2>2 DEF EndRuntime
<1>7. CASE FrameSweep
  <2>1. PICK h \in Heaps :
          /\ lot[h].attached
          /\ lot' = [lot EXCEPT ![h] = Swept(@)]
          /\ registry' = [registry EXCEPT ![h] = SweptTable(lot[h], @)]
    <3>1. lots[runtime] \in Heaps /\ lot[lots[runtime]].attached
      BY <1>7, ParkingAssumption DEF FrameSweep, IInv, TypeOK, LotsOfMachines
    <3> QED
      BY <1>7, <3>1 DEF FrameSweep
  <2>2. EmptyIn(Swept(lot[h]), SweptTable(lot[h], registry[h]))
    <3>1. Sound(lot[h], Held(parked, h)) /\ lot[h] \in LotType /\ EmptyIn(lot[h], registry[h])
      BY <1>0, <2>1 DEF IInv, LotsSound, SoundFor, Blank
    <3> QED
      BY <3>1, SweepEmpties
  <2>3. ASSUME NEW g \in Heaps PROVE EmptyIn(lot'[g], registry'[g])
    <3>1. CASE g = h
      BY <1>0, <2>1, <2>2, <3>1
    <3>2. CASE g # h
      BY <1>0, <2>1, <3>2 DEF Blank
    <3> QED
      BY <3>1, <3>2
  <2> QED
    BY <2>3 DEF Blank
<1> QED
  BY <1>2, <1>3, <1>4, <1>5, <1>6, <1>7 DEF Next

(* What is free again keeps nothing of the program's alive: sweep() wrote  *)
(* nil into it before, a refused entry left it nil, and the table is not   *)
(* written where nobody holds a slot.                                      *)
THEOREM FreeSlotsAreEmpty == Spec => []FreeSlotsEmpty
<1>1. IInv /\ Blank => FreeSlotsEmpty
  <2> SUFFICES ASSUME IInv, Blank, NEW h \in Heaps, lot[h].attached,
                      NEW s \in Elements(lot[h].free)
               PROVE  registry[h][s] = Nil
    BY DEF FreeSlotsEmpty
  <2>1. lot[h].free \in Seq(Slots)
    BY DEF IInv, TypeOK
  <2>2. s \in Slots
    BY <2>1, ElementOfSeq, LenProperties DEF Elements
  <2> QED
    BY <2>2 DEF Blank, EmptyIn
<1> QED
  BY <1>1, InitBlank, NextBlank, ParkingInvariant, PTL DEF Spec

-----------------------------------------------------------------------------
(* No value is read from the table of a heap that is gone.                 *)

ReadersAlive ==
  \A o \in Owners :
    parked[o].lot # None /\ lot[parked[o].lot].attached =>
      \E m \in Machines : heapOf[m] = parked[o].lot

LEMMA NextReadersAlive ==
  ASSUME ~ReuseAddress, ~OutliveWorker, IInv, LotIsOwn, ReadersAlive, [Next]_vars
  PROVE  LotIsOwn' /\ ReadersAlive'
<1>0. /\ lot \in [Heaps -> LotType] /\ None \notin Heaps /\ None \notin Machines
      /\ heapOf \in [Machines -> Heaps \cup {None}] /\ lots \in [Machines -> Heaps \cup {None}]
      /\ parked \in [Owners -> ParkedType]
      /\ \A p \in Owners : parked[p].lot \in Heaps \cup {None}
  BY ParkingAssumption DEF IInv, TypeOK, LotType, ParkedType
<1>1. CASE UNCHANGED vars
  BY <1>1 DEF vars, LotIsOwn, ReadersAlive, Running
<1>2. ASSUME NEW m \in Machines, EndWorker(m) PROVE LotIsOwn' /\ ReadersAlive'
  <2>1. /\ heapOf' = [heapOf EXCEPT ![m] = None] /\ UNCHANGED <<lots, lot, parked>>
        /\ \A o \in Owners : parked[o].lot # heapOf[m]
    BY <1>2 DEF EndWorker
  <2>2. LotIsOwn'
    BY <1>0, <2>1 DEF LotIsOwn, Running
  <2>3. ReadersAlive'
    BY <1>0, <2>1 DEF ReadersAlive
  <2> QED
    BY <2>2, <2>3
<1>3. ASSUME NEW m \in Machines, NEW h \in Heaps, StartRuntime(m, h) \/ StartWorker(m, h)
      PROVE  LotIsOwn' /\ ReadersAlive'
  <2>1. /\ heapOf[m] = None /\ lots[m] = None /\ Fresh(h)
        /\ heapOf' = [heapOf EXCEPT ![m] = h] /\ parked' = parked
        /\ lots' = lots \/ lots' = [lots EXCEPT ![m] = h]
        /\ lot' = lot \/ lot' = [lot EXCEPT ![h].attached = TRUE]
    BY <1>3 DEF StartRuntime, StartWorker, Start, Running, IInv, HeapsFresh
  <2>2. LotIsOwn'
    BY <1>0, <2>1 DEF LotIsOwn, Running
  <2>3. ASSUME NEW o \in Owners, parked[o].lot # None, lot'[parked[o].lot].attached
        PROVE  \E n \in Machines : heapOf'[n] = parked[o].lot
    <3>1. parked[o].lot \in Heaps /\ parked[o].lot # h
      BY <1>0, <2>1, <2>3 DEF Fresh
    <3>2. lot[parked[o].lot].attached
      BY <1>0, <2>1, <2>3, <3>1
    <3>3. PICK n \in Machines : heapOf[n] = parked[o].lot
      BY <2>3, <3>2 DEF ReadersAlive
    <3>4. n # m
      BY <2>1, <2>3, <3>3
    <3> QED
      BY <1>0, <2>1, <3>3, <3>4
  <2> QED
    BY <2>1, <2>2, <2>3 DEF ReadersAlive
<1>4. ASSUME NEW m \in Machines, NEW o \in Owners, ParkWithoutLot(m, o) \/ Forget(m, o)
      PROVE  LotIsOwn' /\ ReadersAlive'
  <2>1. /\ parked' = [parked EXCEPT ![o] = Nothing] /\ UNCHANGED <<heapOf, lots>>
        /\ lot' \in Released(m, parked[o], lot)
    BY <1>4 DEF ParkWithoutLot, Forget
  <2>2. \A g \in Heaps : lot'[g].attached <=> lot[g].attached
    BY <2>1, ForgetStep
  <2>3. \A p \in Owners : parked'[p] = parked[p] \/ parked'[p].lot = None
    BY <1>0, <2>1 DEF Nothing
  <2>4. ReadersAlive'
    BY <1>0, <2>1, <2>2, <2>3 DEF ReadersAlive
  <2> QED
    BY <2>1, <2>4 DEF LotIsOwn, Running
<1>5. ASSUME NEW m \in Machines, NEW o \in Owners, NEW v \in Values, Park(m, o, v)
      PROVE  LotIsOwn' /\ ReadersAlive'
  <2>1. PICK h \in Heaps, slot \in 0..MaxSlot : ParkFacts(m, o, v, h, slot)
    BY <1>5, ParkStep
  <2>2. /\ Running(m) /\ lots' = [lots EXCEPT ![m] = h]
        /\ lots[m] # None => h = lots[m]
        /\ lots[m] = None => h = heapOf[m] /\ Fresh(h)
        /\ parked' = [parked EXCEPT ![o] = [lot |-> h, slot |-> slot]]
        /\ \A g \in Heaps : lot'[g].attached <=> (g = h \/ lot[g].attached)
    BY <2>1 DEF ParkFacts
  <2>3. heapOf' = heapOf
    BY <1>5 DEF Park
  <2>4. h = heapOf[m]
    BY <2>2 DEF LotIsOwn
  <2>5. LotIsOwn'
    BY <1>0, <2>2, <2>3, <2>4 DEF LotIsOwn, Running
  <2>6. ASSUME NEW p \in Owners, parked'[p].lot # None, lot'[parked'[p].lot].attached
        PROVE  \E n \in Machines : heapOf[n] = parked'[p].lot
    <3>1. CASE parked'[p].lot = h
      BY <2>4, <3>1
    <3>2. CASE parked'[p].lot # h
      <4>1. parked'[p] = parked[p]
        BY <1>0, <2>2, <3>2
      <4>2. lot[parked[p].lot].attached
        BY <1>0, <2>2, <2>6, <3>2, <4>1
      <4> QED
        BY <2>6, <4>1, <4>2 DEF ReadersAlive
    <3> QED
      BY <3>1, <3>2
  <2> QED
    BY <2>3, <2>5, <2>6 DEF ReadersAlive
<1>6. CASE EndRuntime
  <2>1. PICK h \in Heaps : h = lots[runtime]
    BY <1>0, <1>6 DEF EndRuntime, IInv, TypeOK, LotsOfMachines
  <2>2. /\ lot' = [lot EXCEPT ![h].attached = FALSE, ![h].pending = <<>>]
        /\ lots' = [lots EXCEPT ![runtime] = None] /\ heapOf' = [heapOf EXCEPT ![runtime] = None]
        /\ parked' = parked /\ \A m \in Machines : Running(m) => m = runtime
        /\ runtime \in Machines /\ heapOf[runtime] = h
    BY <1>6, <2>1 DEF EndRuntime, Detach, IInv, TypeOK, LotsOfMachines, LotIsOwn
  <2>3. LotIsOwn'
    BY <1>0, <2>2 DEF LotIsOwn, Running
  <2>4. ~lot'[h].attached /\ \A g \in Heaps : g # h => lot'[g] = lot[g]
    BY <1>0, <2>2 DEF LotType
  <2>5. \A p \in Owners : parked[p].lot # None /\ parked[p].lot # h => ~lot[parked[p].lot].attached
    BY <2>2 DEF ReadersAlive, Running
  <2>6. ReadersAlive'
    BY <1>0, <2>2, <2>4, <2>5 DEF ReadersAlive
  <2> QED
    BY <2>3, <2>6
<1>7. CASE FrameSweep
  <2>1. /\ UNCHANGED <<heapOf, lots, parked>>
        /\ \A g \in Heaps : lot'[g].attached <=> lot[g].attached
    BY <1>7, SweepStep
  <2> QED
    BY <1>0, <2>1 DEF ReadersAlive, LotIsOwn, Running
<1> QED
  BY <1>1, <1>2, <1>3, <1>4, <1>5, <1>6, <1>7 DEF Next

(* get() answers nil once the machine is gone: ~Runtime detaches the lot   *)
(* before lhat_machine_dispose.  For the std.thread workers' lots nobody   *)
(* detaches, this needs that no owner outlives its worker and that no      *)
(* machine starts at the address of one with a lot left over.              *)
THEOREM NoDeadReads == ~ReuseAddress /\ ~OutliveWorker => (Spec => []NoDeadRead)
<1> SUFFICES ASSUME ~ReuseAddress, ~OutliveWorker PROVE Spec => []NoDeadRead
  OBVIOUS
<1>1. Init => LotIsOwn /\ ReadersAlive
  BY DEF Init, LotIsOwn, ReadersAlive, Nothing
<1>2. IInv /\ LotIsOwn /\ ReadersAlive /\ [Next]_vars => LotIsOwn' /\ ReadersAlive'
  BY NextReadersAlive
<1>3. ReadersAlive => NoDeadRead
  BY DEF ReadersAlive, NoDeadRead, ValueOf
<1> QED
  BY <1>1, <1>2, <1>3, ParkingInvariant, PTL DEF Spec

-----------------------------------------------------------------------------
(* The lots implement ParkedValues.                                        *)

LEMMA SameValue ==
  ASSUME NEW p \in Owners, parked'[p] = parked[p],
         parked[p].lot # None =>
           /\ lot'[parked[p].lot].attached <=> lot[parked[p].lot].attached
           /\ lot[parked[p].lot].attached /\ parked[p].slot # 0 =>
                registry'[parked[p].lot][parked[p].slot] = registry[parked[p].lot][parked[p].slot]
  PROVE  ValueOf(parked[p])' = ValueOf(parked[p])
BY DEF ValueOf

LEMMA ParkValues ==
  ASSUME IInv, NEW m \in Machines, NEW o \in Owners, NEW v \in Values, Park(m, o, v)
  PROVE  /\ \A p \in Owners \ {o} : ValueOf(parked[p])' = ValueOf(parked[p])
         /\ ValueOf(parked[o])' \in {v, Nil}
<1>p. PICK h \in Heaps, slot \in 0..MaxSlot : ParkFacts(m, o, v, h, slot)
  BY ParkStep
<1>1. /\ lots[m] # None => h = lots[m] /\ lot[h].attached
      /\ lots[m] = None => h = heapOf[m] /\ Fresh(h)
      /\ parked' = [parked EXCEPT ![o] = [lot |-> h, slot |-> slot]]
      /\ \A g \in Heaps : lot'[g].attached <=> (g = h \/ lot[g].attached)
      /\ \A g \in Heaps : g # h => registry'[g] = registry[g]
      /\ \A s \in Held(parked, h) : registry'[h][s] = registry[h][s]
      /\ slot # 0 => registry'[h][slot] = v
  BY <1>p DEF ParkFacts
<1>2. /\ parked \in [Owners -> ParkedType] /\ None \notin Heaps
      /\ \A p \in Owners : parked[p].lot \in Heaps \cup {None}
  BY ParkingAssumption DEF IInv, TypeOK, ParkedType
<1>3. ASSUME NEW p \in Owners, p # o
      PROVE  ValueOf(parked[p])' = ValueOf(parked[p])
  <2>1. parked'[p] = parked[p]
    BY <1>1, <1>2, <1>3
  <2>2. CASE parked[p].lot = h
    <3>1. lot[h].attached /\ lot'[h].attached
      BY <2>2, <1>1 DEF Fresh
    <3>2. parked[p].slot # 0 => registry'[h][parked[p].slot] = registry[h][parked[p].slot]
      BY <2>2, <1>1 DEF Held
    <3> QED
      BY <2>1, <2>2, <3>1, <3>2, SameValue
  <2>3. CASE parked[p].lot # h
    BY <2>1, <2>3, <1>1, <1>2, SameValue
  <2> QED
    BY <2>2, <2>3
<1>4. ValueOf(parked[o])' \in {v, Nil}
  <2>1. parked'[o] = [lot |-> h, slot |-> slot] /\ lot'[h].attached
    BY <1>1, <1>2
  <2> QED
    BY <2>1, <1>1, <1>2 DEF ValueOf
<1> QED
  BY <1>3, <1>4

LEMMA ForgetValues ==
  ASSUME IInv, NEW m \in Machines, NEW o \in Owners, ParkWithoutLot(m, o) \/ Forget(m, o)
  PROVE  /\ \A p \in Owners \ {o} : ValueOf(parked[p])' = ValueOf(parked[p])
         /\ ValueOf(parked[o])' = Nil
<1>0. /\ parked' = [parked EXCEPT ![o] = Nothing] /\ registry' = registry
      /\ lot' \in Released(m, parked[o], lot)
  BY DEF ParkWithoutLot, Forget
<1>1. \A g \in Heaps : lot'[g].attached <=> lot[g].attached
  BY <1>0, ForgetStep
<1>2. /\ parked \in [Owners -> ParkedType]
      /\ \A p \in Owners : parked[p].lot \in Heaps \cup {None}
  BY DEF IInv, TypeOK, ParkedType
<1>3. ASSUME NEW p \in Owners, p # o
      PROVE  ValueOf(parked[p])' = ValueOf(parked[p])
  BY <1>0, <1>1, <1>2, <1>3, SameValue
<1>4. ValueOf(parked[o])' = Nil
  BY <1>0, <1>2 DEF ValueOf, Nothing
<1> QED
  BY <1>3, <1>4

LEMMA EndRuntimeValues ==
  ASSUME IInv, EndRuntime
  PROVE  \A p \in Owners :
           ValueOf(parked[p])' = IF parked[p].lot = lots[runtime] THEN Nil ELSE ValueOf(parked[p])
<1>1. /\ lot \in [Heaps -> LotType] /\ None \notin Heaps /\ lots[runtime] \in Heaps
      /\ \A p \in Owners : parked[p].lot \in Heaps \cup {None}
  BY ParkingAssumption DEF EndRuntime, IInv, TypeOK, LotType, LotsOfMachines
<1>2. PICK h \in Heaps : h = lots[runtime]
  BY <1>1
<1>3. /\ lot' = [lot EXCEPT ![h].attached = FALSE, ![h].pending = <<>>]
      /\ UNCHANGED <<registry, parked>>
  BY <1>2 DEF EndRuntime, Detach
<1>4. ~lot'[h].attached /\ \A g \in Heaps : g # h => lot'[g] = lot[g]
  BY <1>1, <1>3 DEF LotType
<1>5. ASSUME NEW p \in Owners, parked[p].lot = h
      PROVE  ValueOf(parked[p])' = Nil
  BY <1>3, <1>4, <1>5 DEF ValueOf
<1>6. ASSUME NEW p \in Owners, parked[p].lot # h
      PROVE  ValueOf(parked[p])' = ValueOf(parked[p])
  BY <1>1, <1>3, <1>4, <1>6, SameValue
<1> QED
  BY <1>2, <1>5, <1>6

LEMMA OtherValues ==
  ASSUME IInv,
         \/ FrameSweep \/ UNCHANGED vars
         \/ \E m \in Machines : EndWorker(m)
         \/ \E m \in Machines, h \in Heaps : StartRuntime(m, h) \/ StartWorker(m, h)
  PROVE  \A p \in Owners : ValueOf(parked[p])' = ValueOf(parked[p])
<1>0. /\ lot \in [Heaps -> LotType] /\ None \notin Heaps
      /\ \A p \in Owners : parked[p].lot \in Heaps \cup {None}
  BY ParkingAssumption DEF IInv, TypeOK, LotType
<1>1. CASE FrameSweep
  <2>1. PICK h \in Heaps :
          /\ lot[h].attached /\ lot'[h].attached
          /\ \A g \in Heaps : g # h => lot'[g] = lot[g]
          /\ \A g \in Heaps : g # h => registry'[g] = registry[g]
          /\ \A s \in Held(parked, h) : registry'[h][s] = registry[h][s]
          /\ parked' = parked
    BY <1>1, SweepStep
  <2>2. ASSUME NEW p \in Owners
        PROVE  ValueOf(parked[p])' = ValueOf(parked[p])
    <3>1. parked[p].lot = h /\ parked[p].slot # 0 => parked[p].slot \in Held(parked, h)
      BY DEF Held
    <3> QED
      BY <1>0, <2>1, <3>1, SameValue
  <2> QED
    BY <2>2
<1>2. CASE UNCHANGED vars \/ \E m \in Machines : EndWorker(m)
  <2>1. UNCHANGED <<lot, registry, parked>>
    BY <1>2 DEF vars, EndWorker
  <2> QED
    BY <2>1, SameValue
<1>3. ASSUME NEW m \in Machines, NEW h \in Heaps, StartRuntime(m, h) \/ StartWorker(m, h)
      PROVE  \A p \in Owners : ValueOf(parked[p])' = ValueOf(parked[p])
  <2>1. Fresh(h) /\ UNCHANGED <<registry, parked>>
        /\ (lot' = lot \/ lot' = [lot EXCEPT ![h].attached = TRUE])
    BY <1>3 DEF StartRuntime, StartWorker, Start, IInv, HeapsFresh
  <2>2. \A g \in Heaps : g # h => lot'[g] = lot[g]
    BY <2>1, <1>0
  <2>3. \A p \in Owners : parked[p].lot # h
    BY <2>1 DEF Fresh
  <2> QED
    BY <1>0, <2>1, <2>2, <2>3, SameValue
<1> QED
  BY <1>1, <1>2, <1>3

(* Every behaviour of the lots is one of ParkedValues: parking, sweeping,  *)
(* giving back and detaching never change what another owner gets back.    *)
THEOREM LotsKeepValues == Spec => KeptSpec
<1>1. Init => Kept!Init
  <2> SUFFICES ASSUME Init PROVE Kept!Init
    OBVIOUS
  <2>1. \A o \in Owners : ValueOf(parked[o]) = Nil
    BY DEF Init, ValueOf, Nothing
  <2> QED
    BY <2>1 DEF Kept!Init
<1>2. IInv /\ [Next]_vars => [Kept!Next]_([o \in Owners |-> ValueOf(parked[o])])
  <2> SUFFICES ASSUME IInv, [Next]_vars
               PROVE  [Kept!Next]_([o \in Owners |-> ValueOf(parked[o])])
    OBVIOUS
  <2>0. PICK old, new :
          /\ old = [o \in Owners |-> ValueOf(parked[o])]
          /\ new = [o \in Owners |-> ValueOf(parked[o])']
    OBVIOUS
  <2>1. ASSUME NEW o \in Owners, NEW v \in Values \cup {Nil}, new = [old EXCEPT ![o] = v]
        PROVE  Kept!Next
    <3>1. Kept!Keep(o, v)
      BY <2>0, <2>1 DEF Kept!Keep
    <3> QED
      BY <3>1 DEF Kept!Next
  <2>2. ASSUME NEW S \in SUBSET Owners, new = [o \in Owners |-> IF o \in S THEN Nil ELSE old[o]]
        PROVE  Kept!Next
    <3>1. Kept!Lose(S)
      BY <2>0, <2>2 DEF Kept!Lose
    <3> QED
      BY <3>1 DEF Kept!Next
  <2>3. ASSUME NEW m \in Machines, NEW o \in Owners, NEW v \in Values, Park(m, o, v)
        PROVE  Kept!Next
    <3>1. PICK w \in Values \cup {Nil} : w = ValueOf(parked[o])'
      BY <2>3, ParkValues
    <3>2. new = [old EXCEPT ![o] = w]
      BY <2>0, <2>3, <3>1, ParkValues
    <3> QED
      BY <2>1, <3>2
  <2>4. ASSUME NEW m \in Machines, NEW o \in Owners, ParkWithoutLot(m, o) \/ Forget(m, o)
        PROVE  Kept!Next
    <3>1. new = [old EXCEPT ![o] = Nil]
      BY <2>0, <2>4, ForgetValues
    <3> QED
      BY <2>1, <3>1
  <2>5. CASE EndRuntime
    <3>1. PICK S \in SUBSET Owners : S = {o \in Owners : parked[o].lot = lots[runtime]}
      OBVIOUS
    <3>2. new = [o \in Owners |-> IF o \in S THEN Nil ELSE old[o]]
      BY <2>0, <2>5, <3>1, EndRuntimeValues
    <3> QED
      BY <2>2, <3>2
  <2>6. CASE \/ FrameSweep \/ UNCHANGED vars
             \/ \E m \in Machines : EndWorker(m)
             \/ \E m \in Machines, h \in Heaps : StartRuntime(m, h) \/ StartWorker(m, h)
    <3>1. new = old
      BY <2>0, <2>6, OtherValues
    <3> QED
      BY <2>0, <3>1
  <2> QED
    BY <2>3, <2>4, <2>5, <2>6 DEF Next
<1> QED
  BY <1>1, <1>2, ParkingInvariant, PTL DEF Spec, KeptSpec, Kept!Spec

-----------------------------------------------------------------------------
(* Whose heap a lot is on.                                                 *)

RuntimeOwns == runtime # None => lots[runtime] = heapOf[runtime]

LEMMA NextOwns ==
  ASSUME IInv, RuntimeOwns, [Next]_vars
  PROVE  RuntimeOwns' /\ (~ReuseAddress /\ LotIsOwn => LotIsOwn')
<1>0. /\ None \notin Heaps /\ None \notin Machines
      /\ heapOf \in [Machines -> Heaps \cup {None}] /\ lots \in [Machines -> Heaps \cup {None}]
      /\ runtime \in Machines \cup {None}
      /\ runtime # None => Running(runtime) /\ lots[runtime] # None
  BY ParkingAssumption DEF IInv, TypeOK, LotsOfMachines
<1> USE DEF RuntimeOwns, LotIsOwn, Running
<1>1. ASSUME UNCHANGED <<heapOf, lots, runtime>>
      PROVE  RuntimeOwns' /\ (~ReuseAddress /\ LotIsOwn => LotIsOwn')
  BY <1>1
<1>2. ASSUME NEW m \in Machines, NEW h \in Heaps, StartRuntime(m, h) \/ StartWorker(m, h)
      PROVE  RuntimeOwns' /\ (~ReuseAddress /\ LotIsOwn => LotIsOwn')
  <2>1. heapOf[m] = None /\ heapOf' = [heapOf EXCEPT ![m] = h] /\ (ReuseAddress \/ lots[m] = None)
    BY <1>2 DEF StartRuntime, StartWorker, Start
  <2>2. CASE StartRuntime(m, h)
    BY <1>0, <2>1, <2>2 DEF StartRuntime
  <2>3. CASE StartWorker(m, h)
    <3>1. UNCHANGED <<runtime, lots>>
      BY <2>3 DEF StartWorker
    <3>2. runtime # None => runtime # m
      BY <1>0, <2>1
    <3> QED BY <1>0, <2>1, <3>1, <3>2
  <2> QED BY <1>2, <2>2, <2>3
<1>3. ASSUME NEW m \in Machines, EndWorker(m)
      PROVE  RuntimeOwns' /\ (~ReuseAddress /\ LotIsOwn => LotIsOwn')
  BY <1>0, <1>3 DEF EndWorker
<1>4. CASE EndRuntime
  <2>1. runtime \in Machines /\ runtime' = None
        /\ lots' = [lots EXCEPT ![runtime] = None] /\ heapOf' = [heapOf EXCEPT ![runtime] = None]
    BY <1>0, <1>4 DEF EndRuntime
  <2> QED BY <1>0, <2>1
<1>5. ASSUME NEW m \in Machines, NEW o \in Owners, NEW v \in Values, Park(m, o, v)
      PROVE  RuntimeOwns' /\ (~ReuseAddress /\ LotIsOwn => LotIsOwn')
  <2>1. /\ lots' = [lots EXCEPT ![m] = IF lots[m] = None THEN heapOf[m] ELSE lots[m]]
        /\ UNCHANGED <<heapOf, runtime>>
    BY <1>5 DEF Park
  <2>2. lots'[m] = IF lots[m] = None THEN heapOf[m] ELSE lots[m]
    BY <1>0, <2>1
  <2>3. \A n \in Machines : n # m => lots'[n] = lots[n]
    BY <1>0, <2>1
  <2> QED BY <1>0, <2>1, <2>2, <2>3
<1>6. ASSUME NEW m \in Machines, NEW o \in Owners, ParkWithoutLot(m, o) \/ Forget(m, o)
      PROVE  RuntimeOwns' /\ (~ReuseAddress /\ LotIsOwn => LotIsOwn')
  BY <1>1, <1>6 DEF ParkWithoutLot, Forget
<1>7. CASE FrameSweep \/ UNCHANGED vars
  BY <1>1, <1>7 DEF FrameSweep, vars
<1> QED
  BY <1>2, <1>3, <1>4, <1>5, <1>6, <1>7 DEF Next

(* The Runtime's lot is on the Runtime's heap, at whatever address it is   *)
(* and whoever was there before: attaching replaces an entry left over,    *)
(* and the frame's sweep and ~Runtime reach the lot they mean.             *)
THEOREM RuntimeLotIsOwn == Spec => [](runtime # None => lots[runtime] = heapOf[runtime])
<1>1. Init => RuntimeOwns
  BY DEF Init, RuntimeOwns
<1>2. IInv /\ RuntimeOwns /\ [Next]_vars => RuntimeOwns'
  BY NextOwns
<1>3. RuntimeOwns => (runtime # None => lots[runtime] = heapOf[runtime])
  BY DEF RuntimeOwns
<1> QED
  BY <1>1, <1>2, <1>3, ParkingInvariant, PTL DEF Spec

(* So is any machine's, as long as no address with an entry left over is   *)
(* handed out again.                                                       *)
THEOREM LotsAreOwn == ~ReuseAddress => (Spec => []LotIsOwn)
<1> SUFFICES ASSUME ~ReuseAddress PROVE Spec => []LotIsOwn
  OBVIOUS
<1>1. Init => RuntimeOwns /\ LotIsOwn
  BY DEF Init, RuntimeOwns, LotIsOwn
<1>2. IInv /\ RuntimeOwns /\ LotIsOwn /\ [Next]_vars => RuntimeOwns' /\ LotIsOwn'
  BY NextOwns
<1> QED
  BY <1>1, <1>2, ParkingInvariant, PTL DEF Spec
=============================================================================
