-------------------------- MODULE AudioPoolProofs --------------------------
(***************************************************************************)
(* Theorems about AudioPool, for every set of Sources and voices, every    *)
(* number of buffers and whatever OpenAL may refuse.                       *)
(*                                                                         *)
(* A step of the pool does one of four things to its queue and its map: it *)
(* leaves them alone, lends voices to a group (Assign), takes the voices   *)
(* of a group back (Release), or, when the first play of a Source fails,   *)
(* sends the voice at the front of the queue to its back (Rotate).  The    *)
(* lemmas on the pool show what each of the four preserves; one lemma      *)
(* classifies the actions; the invariants and the refinement follow.       *)
(***************************************************************************)
EXTENDS AudioPool, FiniteSetTheorems, SequenceTheorems, TLAPS

(* The types of the pool and of the owners' sets.                          *)
PoolType ==
  /\ available \in Seq(Voices)
  /\ playing \in [Sources -> Voices \cup {NoVoice}]

(* The types of the reference counts and of their owners.                  *)
OwnersType ==
  /\ refs \in [Sources -> Nat]
  /\ held \subseteq Sources /\ message \subseteq Sources

(* A call that is under way is about a Source the program holds.           *)
SubjectHeld == pc # "idle" => subject \in held

(* An event that still names Sources was announced, or the device is back. *)
MessageAnnounced == message # {} => notified \/ connected

(* What the program may not release while it plays, it holds.              *)
HeldWhilePlaying == \A s \in Sources \ MayRelease : InPool(s) => s \in held

(* The inductive invariant.  The partition needs the types and a subject   *)
(* that is a Source; the counts need that a disconnection meets no older   *)
(* event; the last two say who can be deleted under the pool's hands.      *)
IInv ==
  /\ PoolType /\ OwnersType
  /\ VoicePartition /\ RefsBalanced
  /\ SubjectHeld /\ MessageAnnounced
  /\ HeldWhilePlaying /\ dangling \subseteq MayRelease

(* A failed first play puts the voice it took back at the other end.       *)
Rotate ==
  /\ available # <<>>
  /\ available' = Append(Tail(available), Head(available))
  /\ UNCHANGED playing

(* The four things a step can do to the pool and to the counts.            *)
PoolMoves ==
  \/ UNCHANGED poolVars
  \/ \E S \in SUBSET held : (\A s \in S : ~InPool(s)) /\ Assign(S)
  \/ \E S \in SUBSET Sources : Release(S, {})
  \/ Rotate /\ UNCHANGED refs

-----------------------------------------------------------------------------
(* Orders.                                                                 *)

(* A list that orders a set of Sources is as long as the set and names     *)
(* each of its members at one position.                                    *)
LEMMA OrderPositions ==
  ASSUME NEW S, IsFiniteSet(S), NEW o \in Orders(S)
  PROVE  /\ Cardinality(S) \in Nat
         /\ o \in Seq(S) /\ Len(o) = Cardinality(S)
         /\ DOMAIN o = 1..Cardinality(S)
         /\ \A i \in 1..Cardinality(S) : o[i] \in S
         /\ \A i, j \in 1..Cardinality(S) : o[i] = o[j] => i = j
         /\ \A s \in S : \E i \in 1..Cardinality(S) : o[i] = s
<1> DEFINE k == Cardinality(S)
<1>1. k \in Nat
  BY FS_CardinalityType
<1>2. /\ o \in [1..k -> S]
      /\ \A i, j \in 1..k : o[i] = o[j] => i = j
      /\ \A s \in S : \E i \in 1..k : o[i] = s
  BY DEF Orders
<1>3. o \in Seq(S)
  BY <1>1, <1>2, SeqDef
<1>4. Len(o) = k
  BY <1>1, <1>2, <1>3, LenProperties
<1> QED
  BY <1>1, <1>2, <1>3, <1>4

(* Any group of Sources is finite.                                         *)
LEMMA GroupsAreFinite ==
  ASSUME NEW S \in SUBSET Sources
  PROVE  IsFiniteSet(S)
BY AudioAssumption, FS_Subset

-----------------------------------------------------------------------------
(* What the pool's operations do to the partition of the voices.           *)

(* Lending voices to Sources that have none keeps every voice in one       *)
(* place: the first voices of the queue go to the group, one each.         *)
LEMMA AssignKeepsPartition ==
  ASSUME PoolType, VoicePartition,
         NEW S \in SUBSET Sources, \A s \in S : ~InPool(s), Assign(S)
  PROVE  PoolType' /\ VoicePartition'
<1> DEFINE k == Cardinality(S)
<1>1. PICK o \in Orders(S) :
        /\ k <= Len(available)
        /\ playing' = [s \in Sources |->
             IF s \in S THEN available[CHOOSE i \in 1..k : o[i] = s] ELSE playing[s]]
        /\ available' = SubSeq(available, k + 1, Len(available))
  BY DEF Assign, AfterTaking
<1> DEFINE idx(s) == CHOOSE i \in 1..k : o[i] = s
<1>2. /\ k \in Nat
      /\ \A i \in 1..k : o[i] \in S
      /\ \A i, j \in 1..k : o[i] = o[j] => i = j
      /\ \A s \in S : \E i \in 1..k : o[i] = s
  BY OrderPositions, GroupsAreFinite
<1>3. \A s \in S : idx(s) \in 1..k /\ o[idx(s)] = s
  BY <1>2
<1>4. /\ Len(available) \in Nat
      /\ \A i \in 1..Len(available) : available[i] \in Voices
  BY ElementOfSeq, LenProperties DEF PoolType
<1>5. /\ available' \in Seq(Voices)
      /\ Len(available') = Len(available) - k
      /\ \A i \in 1..(Len(available) - k) : available'[i] = available[k + i]
  <2>1. \A i \in (k + 1)..Len(available) : available[i] \in Voices
    BY <1>2, <1>4
  <2>2. /\ k + 1 \in Int /\ Len(available) \in Int
    BY <1>2, <1>4
  <2>3. /\ available' \in Seq(Voices)
        /\ Len(available') = IF k + 1 <= Len(available) THEN Len(available) - (k + 1) + 1 ELSE 0
        /\ \A i \in 1..(Len(available) - (k + 1) + 1) : available'[i] = available[(k + 1) + i - 1]
    BY <1>1, <2>1, <2>2, SubSeqProperties
  <2> QED
    BY <1>1, <1>2, <1>4, <2>3
<1>6. \A s \in Sources :
        /\ s \in S => playing'[s] = available[idx(s)]
        /\ s \notin S => playing'[s] = playing[s]
  BY <1>1
<1> HIDE DEF idx, k
<1>7. \A s \in S : idx(s) \in 1..Len(available) /\ playing'[s] \in Voices
  BY <1>1, <1>2, <1>3, <1>4, <1>6
<1>8. PoolType'
  <2>1. \A s \in Sources : playing'[s] \in Voices \cup {NoVoice}
    BY <1>6, <1>7 DEF PoolType
  <2> QED
    BY <1>1, <1>5, <2>1 DEF PoolType
<1>9. \A i, j \in 1..Len(available') : available'[i] = available'[j] => i = j
  <2> SUFFICES ASSUME NEW i \in 1..Len(available'), NEW j \in 1..Len(available'),
                      available'[i] = available'[j]
               PROVE  i = j
    OBVIOUS
  <2>1. k + i \in 1..Len(available) /\ k + j \in 1..Len(available)
    BY <1>1, <1>2, <1>4, <1>5
  <2>2. available[k + i] = available[k + j]
    BY <1>5
  <2>3. k + i = k + j
    BY <2>1, <2>2 DEF VoicePartition
  <2> QED
    BY <1>2, <1>4, <1>5, <2>3
<1>10. \A s, t \in Sources : InPool(s)' /\ playing'[s] = playing'[t] => s = t
  <2> SUFFICES ASSUME NEW s \in Sources, NEW t \in Sources,
                      InPool(s)', playing'[s] = playing'[t]
               PROVE  s = t
    OBVIOUS
  <2>1. CASE s \in S /\ t \in S
    <3>1. available[idx(s)] = available[idx(t)]
      BY <2>1, <1>6
    <3>2. idx(s) = idx(t)
      BY <2>1, <3>1, <1>7 DEF VoicePartition
    <3> QED
      BY <2>1, <3>2, <1>3
  <2>2. CASE s \notin S /\ t \notin S
    BY <2>2, <1>6 DEF VoicePartition, InPool
  <2>3. ASSUME NEW a \in S, NEW b \in Sources \ S, playing'[a] = playing'[b]
        PROVE  FALSE
    <3>1. playing[b] = available[idx(a)] /\ available[idx(a)] \in Voices
      BY <2>3, <1>6, <1>7
    <3> QED
      BY <3>1, <1>7 DEF VoicePartition
  <2> QED
    BY <2>1, <2>2, <2>3
<1>11. ASSUME NEW v \in Voices
       PROVE  (\E i \in 1..Len(available') : available'[i] = v)
                <=> (\A s \in Sources : playing'[s] # v)
  <2>1. ASSUME NEW i \in 1..Len(available'), available'[i] = v, NEW s \in Sources
        PROVE  playing'[s] # v
    <3>1. k + i \in 1..Len(available) /\ available[k + i] = v
      BY <2>1, <1>1, <1>2, <1>4, <1>5
    <3>2. CASE s \in S
      <4>1. idx(s) # k + i
        BY <3>2, <1>2, <1>3, <1>4, <1>5, <2>1
      <4> QED
        BY <3>1, <3>2, <4>1, <1>6, <1>7 DEF VoicePartition
    <3>3. CASE s \notin S
      BY <3>1, <3>3, <1>6 DEF VoicePartition
    <3> QED
      BY <3>2, <3>3
  <2>2. ASSUME \A s \in Sources : playing'[s] # v
        PROVE  \E i \in 1..Len(available') : available'[i] = v
    <3>1. \A s \in Sources : playing[s] # v
      <4>1. NoVoice # v
        BY AudioAssumption
      <4> QED
        BY <2>2, <1>6, <4>1 DEF InPool
    <3>2. PICK j \in 1..Len(available) : available[j] = v
      BY <3>1 DEF VoicePartition
    <3>3. ~(j <= k)
      <4> SUFFICES ASSUME j <= k PROVE FALSE
        OBVIOUS
      <4>1. j \in 1..k
        BY <1>2, <1>4
      <4>2. o[j] \in S
        BY <4>1, <1>2
      <4>3. idx(o[j]) = j
        BY <4>1, <4>2, <1>2, <1>3
      <4>4. playing'[o[j]] = v
        BY <4>2, <4>3, <3>2, <1>6
      <4> QED
        BY <4>2, <4>4, <2>2
    <3>4. j - k \in 1..(Len(available) - k) /\ k + (j - k) = j
      BY <3>3, <1>1, <1>2, <1>4
    <3> QED
      BY <3>2, <3>4, <1>5
  <2> QED
    BY <2>1, <2>2
<1> QED
  BY <1>8, <1>9, <1>10, <1>11 DEF VoicePartition

(* Taking voices back keeps every voice in one place: those of the group   *)
(* join the back of the queue, one each.                                   *)
LEMMA ReleaseKeepsPartition ==
  ASSUME PoolType, VoicePartition,
         NEW S \in SUBSET Sources, NEW kept, Release(S, kept)
  PROVE  PoolType' /\ VoicePartition'
<1> DEFINE In == {s \in S : InPool(s)}
           n == Cardinality(In)
           len == Len(available)
<1>1. PICK o \in Orders(In) :
        /\ playing' = [s \in Sources |-> IF s \in In THEN NoVoice ELSE playing[s]]
        /\ available' = available \o [i \in 1..Len(o) |-> playing[o[i]]]
  BY DEF Release, AfterReturning
<1>2. /\ n \in Nat /\ Len(o) = n
      /\ \A i \in 1..n : o[i] \in In
      /\ \A i, j \in 1..n : o[i] = o[j] => i = j
      /\ \A s \in In : \E i \in 1..n : o[i] = s
  BY OrderPositions, GroupsAreFinite
<1> DEFINE back == [i \in 1..n |-> playing[o[i]]]
<1>3. \A i \in 1..n : playing[o[i]] \in Voices
  BY <1>2 DEF PoolType, InPool
<1>4. /\ back \in Seq(Voices) /\ Len(back) = n
  <2>1. back \in [1..n -> Voices]
    BY <1>3
  <2>2. back \in Seq(Voices)
    BY <1>2, <2>1, SeqDef
  <2> QED
    BY <1>2, <2>1, <2>2, LenProperties
<1>5. /\ len \in Nat
      /\ \A i \in 1..len : available[i] \in Voices
  BY ElementOfSeq, LenProperties DEF PoolType
<1>6. /\ available' \in Seq(Voices)
      /\ Len(available') = len + n
      /\ \A i \in 1..(len + n) : available'[i] =
           IF i <= len THEN available[i] ELSE playing[o[i - len]]
  <2>1. available' = available \o back
    BY <1>1, <1>2
  <2>2. /\ available' \in Seq(Voices)
        /\ Len(available') = len + n
        /\ \A i \in 1..(len + n) : available'[i] =
             IF i <= len THEN available[i] ELSE back[i - len]
    <3>1. available \in Seq(Voices)
      BY DEF PoolType
    <3> HIDE DEF back, n
    <3> QED
      BY <1>4, <2>1, <3>1, ConcatProperties
  <2>3. \A i \in 1..(len + n) : ~(i <= len) => i - len \in 1..n
    BY <1>2, <1>5
  <2> QED
    BY <2>2, <2>3
<1>7. \A s \in Sources :
        /\ s \in In => playing'[s] = NoVoice
        /\ s \notin In => playing'[s] = playing[s]
  BY <1>1
<1>8. \A s \in In : s \in Sources /\ InPool(s) /\ playing[s] \in Voices
  BY DEF PoolType, InPool
<1>9. PoolType'
  BY <1>1, <1>6 DEF PoolType
<1> HIDE DEF In, n, len, back
<1>10. \A i, j \in 1..Len(available') : available'[i] = available'[j] => i = j
  <2> SUFFICES ASSUME NEW i \in 1..Len(available'), NEW j \in 1..Len(available'),
                      available'[i] = available'[j]
               PROVE  i = j
    OBVIOUS
  <2>1. i \in 1..(len + n) /\ j \in 1..(len + n)
    BY <1>6
  <2>2. CASE i <= len /\ j <= len
    <3>1. available[i] = available[j] /\ i \in 1..Len(available) /\ j \in 1..Len(available)
      BY <2>1, <2>2, <1>6, <1>5 DEF len
    <3> QED
      BY <3>1 DEF VoicePartition
  <2>3. CASE ~(i <= len) /\ ~(j <= len)
    <3>1. i - len \in 1..n /\ j - len \in 1..n
      BY <2>1, <2>3, <1>2, <1>5
    <3>2. playing[o[i - len]] = playing[o[j - len]]
      BY <2>1, <2>3, <1>6
    <3>3. o[i - len] = o[j - len]
      BY <3>1, <3>2, <1>2, <1>8 DEF VoicePartition
    <3>4. i - len = j - len
      BY <3>1, <3>3, <1>2
    <3> QED
      BY <2>1, <3>4, <1>2, <1>5
  <2>4. ASSUME NEW a \in 1..(len + n), NEW b \in 1..(len + n),
               a <= len, ~(b <= len), available'[a] = available'[b]
        PROVE  FALSE
    <3>1. b - len \in 1..n /\ a \in 1..Len(available)
      BY <2>4, <1>2, <1>5 DEF len
    <3>2. available[a] = playing[o[b - len]]
      BY <2>4, <1>6
    <3> QED
      BY <3>1, <3>2, <1>2, <1>8 DEF VoicePartition
  <2> QED
    BY <2>1, <2>2, <2>3, <2>4
<1>11. \A s, t \in Sources : InPool(s)' /\ playing'[s] = playing'[t] => s = t
  BY <1>7 DEF VoicePartition, InPool
<1>12. ASSUME NEW v \in Voices
       PROVE  (\E i \in 1..Len(available') : available'[i] = v)
                <=> (\A s \in Sources : playing'[s] # v)
  <2>0. NoVoice # v
    BY AudioAssumption
  <2>1. ASSUME NEW i \in 1..Len(available'), available'[i] = v, NEW s \in Sources
        PROVE  playing'[s] # v
    <3>1. CASE i <= len
      <4>1. available[i] = v /\ i \in 1..Len(available)
        BY <2>1, <3>1, <1>5, <1>6 DEF len
      <4> QED
        BY <4>1, <2>0, <1>7 DEF VoicePartition
    <3>2. CASE ~(i <= len)
      <4>1. i - len \in 1..n /\ playing[o[i - len]] = v
        BY <2>1, <3>2, <1>2, <1>5, <1>6
      <4>2. o[i - len] \in In
        BY <4>1, <1>2
      <4> QED
        BY <4>1, <4>2, <2>0, <1>7, <1>8 DEF VoicePartition
    <3> QED
      BY <3>1, <3>2
  <2>2. ASSUME \A s \in Sources : playing'[s] # v
        PROVE  \E i \in 1..Len(available') : available'[i] = v
    <3>1. CASE \A s \in Sources : playing[s] # v
      <4>1. PICK i \in 1..Len(available) : available[i] = v
        BY <3>1 DEF VoicePartition
      <4>2. i \in 1..Len(available') /\ i <= len
        BY <1>2, <1>5, <1>6 DEF len
      <4> QED
        BY <4>1, <4>2, <1>6
    <3>2. CASE \E s \in Sources : playing[s] = v
      <4>1. PICK s \in Sources : playing[s] = v
        BY <3>2
      <4>2. s \in In
        BY <4>1, <2>2, <1>7
      <4>3. PICK i \in 1..n : o[i] = s
        BY <4>2, <1>2
      <4>4. /\ len + i \in 1..(len + n) /\ ~(len + i <= len)
            /\ (len + i) - len = i
        BY <1>2, <1>5
      <4>5. available'[len + i] = v
        BY <4>1, <4>3, <4>4, <1>6
      <4> QED
        BY <4>4, <4>5, <1>6
    <3> QED
      BY <3>1, <3>2
  <2> QED
    BY <2>1, <2>2
<1> QED
  BY <1>9, <1>10, <1>11, <1>12 DEF VoicePartition

(* A failed first play only turns the queue.                               *)
LEMMA RotateKeepsPartition ==
  ASSUME PoolType, VoicePartition, Rotate
  PROVE  PoolType' /\ VoicePartition'
<1> DEFINE n == Len(available)
<1>1. /\ n \in Nat \ {0}
      /\ \A i \in 1..n : available[i] \in Voices
  BY ElementOfSeq, LenProperties, EmptySeq DEF PoolType, Rotate
<1>2. /\ Head(available) = available[1] /\ Head(available) \in Voices
      /\ Tail(available) \in Seq(Voices) /\ Len(Tail(available)) = n - 1
      /\ \A i \in 1..(n - 1) : Tail(available)[i] = available[i + 1]
  BY HeadTailProperties DEF PoolType, Rotate
<1>3. /\ available' \in Seq(Voices)
      /\ Len(available') = n
      /\ \A i \in 1..n : available'[i] = IF i = n THEN available[1] ELSE available[i + 1]
  <2>1. /\ available' \in Seq(Voices)
        /\ Len(available') = (n - 1) + 1
        /\ \A i \in 1..(n - 1) : available'[i] = Tail(available)[i]
        /\ available'[(n - 1) + 1] = Head(available)
    BY <1>2, AppendProperties DEF Rotate
  <2> QED
    BY <1>1, <1>2, <2>1
<1>4. PoolType' /\ playing' = playing
  BY <1>3 DEF PoolType, Rotate
<1>5. \A i \in 1..n : 1 \in 1..n /\ (i # n => i + 1 \in 1..n)
  BY <1>1
<1>6. \A i, j \in 1..n : available[i] = available[j] => i = j
  BY DEF VoicePartition
<1>7. \A i, j \in 1..Len(available') : available'[i] = available'[j] => i = j
  <2> SUFFICES ASSUME NEW i \in 1..n, NEW j \in 1..n, available'[i] = available'[j]
               PROVE  i = j
    BY <1>3
  <2> HIDE DEF n
  <2>1. CASE i # n /\ j # n
    <3>1. i + 1 = j + 1
      BY <2>1, <1>3, <1>5, <1>6
    <3> QED
      BY <3>1, <1>1
  <2>2. CASE i = n /\ j # n
    <3>1. 1 = j + 1
      BY <2>2, <1>3, <1>5, <1>6
    <3> QED
      BY <3>1, <1>1
  <2>3. CASE i # n /\ j = n
    <3>1. i + 1 = 1
      BY <2>3, <1>3, <1>5, <1>6
    <3> QED
      BY <3>1, <1>1
  <2> QED
    BY <2>1, <2>2, <2>3
<1>8. \A v : (\E i \in 1..Len(available') : available'[i] = v)
               <=> (\E i \in 1..n : available[i] = v)
  <2> SUFFICES ASSUME NEW v
               PROVE  (\E i \in 1..n : available'[i] = v) <=> (\E i \in 1..n : available[i] = v)
    BY <1>3
  <2> HIDE DEF n
  <2>1. ASSUME NEW i \in 1..n, available'[i] = v PROVE \E j \in 1..n : available[j] = v
    BY <2>1, <1>3, <1>5
  <2>2. ASSUME NEW i \in 1..n, available[i] = v PROVE \E j \in 1..n : available'[j] = v
    <3>1. CASE i = 1
      BY <3>1, <2>2, <1>1, <1>3
    <3>2. CASE i # 1
      <4>1. i - 1 \in 1..n /\ i - 1 # n /\ (i - 1) + 1 = i
        BY <3>2, <1>1
      <4> QED
        BY <4>1, <2>2, <1>3
    <3> QED
      BY <3>1, <3>2
  <2> QED
    BY <2>1, <2>2
<1> QED
  BY <1>4, <1>7, <1>8 DEF VoicePartition, InPool

-----------------------------------------------------------------------------
(* What the pool's operations do to the reference counts.                  *)

(* Each Source of a group that is lent voices gets one from the queue; the *)
(* others keep what they have.                                             *)
LEMMA AssignLends ==
  ASSUME PoolType, NEW S \in SUBSET Sources, Assign(S)
  PROVE  /\ \A s \in S : \E i \in 1..Len(available) : playing'[s] = available[i]
         /\ \A s \in Sources \ S : playing'[s] = playing[s]
         /\ \A s \in S : playing'[s] \in Voices
         /\ refs' = Retained(S)
<1> DEFINE k == Cardinality(S)
<1>1. PICK o \in Orders(S) :
        /\ k <= Len(available)
        /\ playing' = [s \in Sources |->
             IF s \in S THEN available[CHOOSE i \in 1..k : o[i] = s] ELSE playing[s]]
        /\ refs' = Retained(S)
  BY DEF Assign
<1>2. k \in Nat /\ \A s \in S : \E i \in 1..k : o[i] = s
  BY OrderPositions, GroupsAreFinite
<1>3. /\ Len(available) \in Nat
      /\ \A i \in 1..Len(available) : available[i] \in Voices
  BY ElementOfSeq, LenProperties DEF PoolType
<1>4. \A s \in S : (CHOOSE i \in 1..k : o[i] = s) \in 1..Len(available)
  BY <1>1, <1>2, <1>3
<1> QED
  BY <1>1, <1>3, <1>4

(* A step that moves voices and no owner keeps the counts in balance.      *)
LEMMA MovesKeepCounts ==
  ASSUME IInv, PoolMoves, UNCHANGED <<held, message>>
  PROVE  PoolType' /\ OwnersType' /\ VoicePartition' /\ RefsBalanced' /\ HeldWhilePlaying'
<1> USE DEF IInv
<1>0. NoVoice \notin Voices
  BY AudioAssumption
<1>1. CASE UNCHANGED poolVars
  BY <1>1 DEF poolVars, PoolType, OwnersType, VoicePartition, RefsBalanced,
              HeldWhilePlaying, InPool
<1>2. CASE \E S \in SUBSET held : (\A s \in S : ~InPool(s)) /\ Assign(S)
  <2>1. PICK S \in SUBSET held : (\A s \in S : ~InPool(s)) /\ Assign(S)
    BY <1>2
  <2>2. S \in SUBSET Sources
    BY DEF OwnersType
  <2>3. PoolType' /\ VoicePartition'
    BY <2>1, <2>2, AssignKeepsPartition
  <2>4. /\ \A s \in Sources \ S : playing'[s] = playing[s]
        /\ \A s \in S : playing'[s] \in Voices
        /\ refs' = Retained(S)
    BY <2>1, <2>2, AssignLends
  <2>5. \A s \in S : InPool(s)' /\ ~InPool(s)
    BY <2>1, <2>4, <1>0 DEF InPool
  <2>6. \A s \in Sources \ S : InPool(s)' <=> InPool(s)
    BY <2>4 DEF InPool
  <2>7. \A s \in Sources : refs'[s] = IF s \in S THEN refs[s] + 1 ELSE refs[s]
    BY <2>4 DEF Retained
  <2>8. OwnersType' /\ RefsBalanced'
    BY <2>2, <2>4, <2>5, <2>6, <2>7 DEF OwnersType, RefsBalanced, Retained
  <2> QED
    BY <2>1, <2>3, <2>5, <2>6, <2>8 DEF HeldWhilePlaying
<1>3. CASE \E S \in SUBSET Sources : Release(S, {})
  <2>1. PICK S \in SUBSET Sources : Release(S, {})
    BY <1>3
  <2>2. PoolType' /\ VoicePartition'
    BY <2>1, ReleaseKeepsPartition
  <2>3. /\ playing' = [s \in Sources |->
             IF s \in {t \in S : InPool(t)} THEN NoVoice ELSE playing[s]]
        /\ refs' = Released({t \in S : InPool(t)} \ {})
    BY <2>1 DEF Release
  <2>4. \A s \in Sources : InPool(s)' <=> InPool(s) /\ s \notin S
    BY <2>3 DEF InPool
  <2>5. /\ DOMAIN refs' = Sources /\ refs' = [s \in Sources |-> refs'[s]]
        /\ \A s \in Sources : refs'[s] =
             IF s \in S /\ InPool(s) THEN refs[s] - 1 ELSE refs[s]
    BY <2>3 DEF Released
  <2>6. OwnersType' /\ RefsBalanced'
    <3>1. RefsBalanced'
      BY <2>4, <2>5 DEF OwnersType, RefsBalanced
    <3>2. \A s \in Sources : refs'[s] \in Nat
      BY <3>1 DEF RefsBalanced
    <3> QED
      BY <2>5, <3>1, <3>2 DEF OwnersType
  <2> QED
    BY <2>2, <2>4, <2>6 DEF HeldWhilePlaying
<1>4. CASE Rotate /\ UNCHANGED refs
  <2>1. PoolType' /\ VoicePartition'
    BY <1>4, RotateKeepsPartition
  <2> QED
    BY <1>4, <2>1 DEF Rotate, OwnersType, RefsBalanced, HeldWhilePlaying, InPool
<1> QED
  BY <1>1, <1>2, <1>3, <1>4 DEF PoolMoves

-----------------------------------------------------------------------------
(* The actions.                                                            *)

(* play() of a Source lends it a voice, takes back the one it could not    *)
(* resume, turns the queue, or leaves the pool alone.                      *)
LEMMA PlayMovesThePool ==
  ASSUME NEW s \in held, held \subseteq Sources, DoPlay(s)
  PROVE  PoolMoves
<1>1. CASE Resume(s)
  <2>1. UNCHANGED poolVars \/ Release({s}, {})
    BY <1>1 DEF Resume
  <2> QED
    BY <2>1 DEF PoolMoves
<1>2. CASE Start(s)
  <2>1. ~InPool(s) /\ available # <<>>
    BY <1>2 DEF Start
  <2>2. Assign({s}) \/ (/\ available' = Append(Tail(available), Head(available))
                        /\ UNCHANGED <<playing, refs>>)
    BY <1>2 DEF Start
  <2> QED
    BY <2>1, <2>2 DEF PoolMoves, Rotate
<1>3. CASE Refused(s)
  BY <1>3 DEF Refused, PoolMoves
<1> QED
  BY <1>1, <1>2, <1>3 DEF DoPlay

(* stop() takes the voice back or leaves the pool alone.                   *)
LEMMA StopMovesThePool ==
  ASSUME NEW s \in Sources, DoStopOne(s)
  PROVE  PoolMoves
BY DEF DoStopOne, PoolMoves

(* The steps that move no owner, and say nothing new of the device.        *)
PlainStep ==
  /\ PoolMoves
  /\ UNCHANGED <<held, message, dangling, connected, notified>>
  /\ SubjectHeld'

(* They preserve the invariant.                                            *)
LEMMA PlainStepsKeepInv ==
  ASSUME IInv, PlainStep
  PROVE  IInv'
<1>1. PoolType' /\ OwnersType' /\ VoicePartition' /\ RefsBalanced' /\ HeldWhilePlaying'
  BY MovesKeepCounts DEF PlainStep
<1> QED
  BY <1>1 DEF IInv, PlainStep, MessageAnnounced

(* Every call of the program but those that make or drop a reference.      *)
LEMMA CallsArePlain ==
  ASSUME IInv, NEW s \in Sources,
         \/ Play(s) \/ Stop(s) \/ Pause(s)
         \/ \E enable \in BOOLEAN : SetLooping(s, enable)
         \/ \E t \in SeekTargets : SeekStatic(s, t) \/ SeekStream(s, t)
  PROVE  PlainStep
<1> USE DEF Callable, ownerVars, linkVars, callVars, poolVars
<1>0. held \subseteq Sources /\ SubjectHeld
  BY DEF IInv, OwnersType
<1>1. CASE Play(s)
  <2>1. s \in held /\ DoPlay(s) /\ UNCHANGED <<ownerVars, linkVars, callVars>>
    BY <1>1 DEF Play
  <2> QED
    BY <2>1, <1>0, PlayMovesThePool DEF PlainStep, SubjectHeld
<1>2. CASE Stop(s)
  BY <1>2 DEF Stop, PlainStep, PoolMoves, SubjectHeld
<1>3. CASE Pause(s)
  BY <1>0, <1>3 DEF Pause, PauseVoices, PlainStep, PoolMoves, SubjectHeld
<1>4. CASE \E enable \in BOOLEAN : SetLooping(s, enable)
  BY <1>0, <1>4 DEF SetLooping, PlainStep, PoolMoves, SubjectHeld
<1>5. ASSUME NEW t \in SeekTargets, SeekStatic(s, t)
      PROVE  PlainStep
  <2>1. /\ s \in held
        /\ (pc' = "seekFailed" /\ subject' = s) \/ UNCHANGED callVars
        /\ UNCHANGED <<poolVars, ownerVars, linkVars>>
    BY <1>5 DEF SeekStatic
  <2> QED
    BY <2>1, <1>0 DEF PlainStep, PoolMoves, SubjectHeld
<1>6. ASSUME NEW t \in SeekTargets, SeekStream(s, t)
      PROVE  PlainStep
  <2>1. /\ s \in held
        /\ (pc' = "seekPlay" /\ subject' = s) \/ UNCHANGED callVars
        /\ Release({s}, {}) \/ UNCHANGED poolVars
        /\ UNCHANGED <<ownerVars, linkVars>>
    BY <1>6 DEF SeekStream
  <2> QED
    BY <2>1, <1>0 DEF PlainStep, PoolMoves, SubjectHeld
<1> QED
  BY <1>1, <1>2, <1>3, <1>4, <1>5, <1>6

(* The calls about groups of Sources.                                      *)
LEMMA GroupCallsArePlain ==
  ASSUME IInv,
         \/ \E S \in SUBSET Sources : PlayList(S) \/ StopList(S) \/ PauseList(S)
         \/ StopAll \/ PauseAll
  PROVE  PlainStep
<1> USE DEF Callable, ownerVars, linkVars, callVars, poolVars
<1>0. held \subseteq Sources /\ SubjectHeld
  BY DEF IInv, OwnersType
<1>1. ASSUME NEW S \in SUBSET Sources, PlayList(S)
      PROVE  PlainStep
  <2> DEFINE New == {s \in S : ~InPool(s)}
  <2>1. /\ New \in SUBSET held /\ \A s \in New : ~InPool(s)
        /\ Assign(New) /\ UNCHANGED <<ownerVars, linkVars, callVars>>
    BY <1>1 DEF PlayList
  <2> QED
    BY <2>1, <1>0 DEF PlainStep, PoolMoves, SubjectHeld
<1>2. ASSUME NEW S \in SUBSET Sources, StopList(S)
      PROVE  PlainStep
  BY <1>0, <1>2 DEF StopList, PlainStep, PoolMoves, SubjectHeld
<1>3. ASSUME NEW S \in SUBSET Sources, PauseList(S)
      PROVE  PlainStep
  BY <1>0, <1>3 DEF PauseList, PauseVoices, PlainStep, PoolMoves, SubjectHeld
<1>4. CASE StopAll
  <2> DEFINE S == {s \in Sources : InPool(s)}
  <2>1. Release(S, {}) /\ S \in SUBSET Sources /\ UNCHANGED <<ownerVars, linkVars, callVars>>
    BY <1>4 DEF StopAll
  <2> QED
    BY <2>1, <1>0 DEF PlainStep, PoolMoves, SubjectHeld
<1>5. CASE PauseAll
  BY <1>0, <1>5 DEF PauseAll, PauseVoices, PlainStep, PoolMoves, SubjectHeld
<1> QED
  BY <1>1, <1>2, <1>3, <1>4, <1>5

(* The steps inside stop() and seek().                                     *)
LEMMA InnerStepsArePlain ==
  ASSUME IInv, StopLocked \/ SeekPlay \/ SeekCheck \/ SeekFailed \/ SeekReplay
  PROVE  PlainStep
<1> USE DEF ownerVars, linkVars, callVars, poolVars
<1>0. held \subseteq Sources /\ (pc # "idle" => subject \in held)
  BY DEF IInv, OwnersType, SubjectHeld
<1>1. CASE StopLocked
  <2>1. subject \in held /\ DoStopOne(subject)
    BY <1>0, <1>1 DEF StopLocked
  <2> QED
    BY <2>1, <1>0, <1>1, StopMovesThePool DEF StopLocked, PlainStep, SubjectHeld
<1>2. CASE SeekPlay
  <2>1. subject \in held /\ DoPlay(subject)
    BY <1>0, <1>2 DEF SeekPlay
  <2> QED
    BY <2>1, <1>0, <1>2, PlayMovesThePool DEF SeekPlay, PlainStep, SubjectHeld
<1>3. CASE SeekCheck
  <2>1. /\ subject \in held
        /\ UNCHANGED subject \/ pc' = "idle"
        /\ UNCHANGED <<poolVars, ownerVars, linkVars>>
    BY <1>0, <1>3 DEF SeekCheck
  <2> QED
    BY <2>1 DEF PlainStep, PoolMoves, SubjectHeld
<1>4. CASE SeekFailed
  <2>1. /\ subject \in held
        /\ DoStopOne(subject) \/ UNCHANGED poolVars
        /\ UNCHANGED subject \/ pc' = "idle"
        /\ UNCHANGED <<ownerVars, linkVars>>
    BY <1>0, <1>4 DEF SeekFailed
  <2>2. PoolMoves
    BY <2>1, <1>0, StopMovesThePool DEF PoolMoves
  <2> QED
    BY <2>1, <2>2 DEF PlainStep, SubjectHeld
<1>5. CASE SeekReplay
  <2>1. subject \in held /\ DoPlay(subject)
    BY <1>0, <1>5 DEF SeekReplay
  <2> QED
    BY <2>1, <1>0, <1>5, PlayMovesThePool DEF SeekReplay, PlainStep, SubjectHeld
<1> QED
  BY <1>1, <1>2, <1>3, <1>4, <1>5

(* The steps that make and drop references.                                *)
Births == \E s \in Sources : NewSource(s) \/ \E t \in Sources : Clone(s, t)

LEMMA OwnersKeepInv ==
  ASSUME IInv, Births \/ (\E s \in Sources : Drop(s)) \/ PollMessage
  PROVE  IInv'
<1> USE DEF IInv, linkVars, callVars
<1>1. ASSUME NEW s \in Sources, NEW n, NEW loops, Constructed(s, n, loops)
      PROVE  IInv'
  <2>1. /\ refs' = [refs EXCEPT ![s] = 1] /\ held' = held \cup {s} /\ refs[s] = 0
        /\ UNCHANGED <<available, playing, message, dangling, connected, notified, pc, subject>>
    BY <1>1 DEF Constructed
  <2>2. s \notin held /\ ~InPool(s) /\ s \notin message
    BY <2>1 DEF RefsBalanced
  <2>3. PoolType' /\ VoicePartition' /\ MessageAnnounced' /\ dangling' \subseteq MayRelease
    BY <2>1 DEF PoolType, VoicePartition, MessageAnnounced, InPool
  <2>4. OwnersType' /\ SubjectHeld'
    BY <2>1 DEF OwnersType, SubjectHeld
  <2>5. RefsBalanced' /\ HeldWhilePlaying'
    BY <2>1, <2>2 DEF RefsBalanced, HeldWhilePlaying, InPool, OwnersType
  <2> QED
    BY <2>3, <2>4, <2>5
<1>2. ASSUME NEW s \in Sources, Drop(s)
      PROVE  IInv'
  <2>1. /\ refs' = Released({s}) /\ held' = held \ {s} /\ s \in held
        /\ InPool(s) => s \in MayRelease
        /\ UNCHANGED <<available, playing, message, dangling, connected, notified, pc, subject>>
        /\ pc = "idle"
    BY <1>2 DEF Drop, Callable
  <2>2. PoolType' /\ VoicePartition' /\ MessageAnnounced' /\ dangling' \subseteq MayRelease
    BY <2>1 DEF PoolType, VoicePartition, MessageAnnounced, InPool
  <2>3. \A t \in Sources : refs'[t] = IF t = s THEN refs[t] - 1 ELSE refs[t]
    BY <2>1 DEF Released
  <2>4. RefsBalanced'
    <3>1. \A t \in Sources : InPool(t)' <=> InPool(t)
      BY <2>1 DEF InPool
    <3>2. ASSUME NEW t \in Sources
          PROVE  refs'[t] = (IF t \in held' THEN 1 ELSE 0) + (IF InPool(t) THEN 1 ELSE 0)
                          + (IF t \in message' THEN 1 ELSE 0)
      <4>1. refs[t] = (IF t \in held THEN 1 ELSE 0) + (IF InPool(t) THEN 1 ELSE 0)
                    + (IF t \in message THEN 1 ELSE 0)
        BY DEF RefsBalanced
      <4>2. t \in message' <=> t \in message
        BY <2>1
      <4>3. CASE t = s
        <5>1. t \in held /\ t \notin held' /\ refs'[t] = refs[t] - 1
          BY <4>3, <2>1, <2>3
        <5> QED
          BY <4>1, <4>2, <5>1
      <4>4. CASE t # s
        BY <4>1, <4>2, <4>4, <2>1, <2>3
      <4> QED
        BY <4>3, <4>4
    <3> QED
      BY <3>1, <3>2 DEF RefsBalanced
  <2>5. OwnersType'
    <3>1. \A t \in Sources : refs'[t] \in Nat
      BY <2>4 DEF RefsBalanced
    <3> QED
      BY <2>1, <3>1 DEF OwnersType, Released
  <2>6. SubjectHeld' /\ HeldWhilePlaying'
    BY <2>1 DEF SubjectHeld, HeldWhilePlaying, InPool
  <2> QED
    BY <2>2, <2>4, <2>5, <2>6
<1>3. CASE PollMessage
  <2>1. /\ refs' = Released(message \cap held) /\ held' = held \cup message /\ message' = {}
        /\ UNCHANGED <<available, playing, dangling, connected, notified, pc, subject>>
    BY <1>3 DEF PollMessage
  <2>2. PoolType' /\ VoicePartition' /\ MessageAnnounced' /\ dangling' \subseteq MayRelease
    BY <2>1 DEF PoolType, VoicePartition, MessageAnnounced, InPool
  <2>3. \A t \in Sources :
          refs'[t] = IF t \in message /\ t \in held THEN refs[t] - 1 ELSE refs[t]
    BY <2>1 DEF Released
  <2>4. RefsBalanced'
    <3>1. \A t \in Sources : InPool(t)' <=> InPool(t)
      BY <2>1 DEF InPool
    <3>2. ASSUME NEW t \in Sources
          PROVE  refs'[t] = (IF t \in held' THEN 1 ELSE 0) + (IF InPool(t) THEN 1 ELSE 0)
                          + (IF t \in message' THEN 1 ELSE 0)
      <4>1. refs[t] = (IF t \in held THEN 1 ELSE 0) + (IF InPool(t) THEN 1 ELSE 0)
                    + (IF t \in message THEN 1 ELSE 0)
        BY DEF RefsBalanced
      <4>2. t \in held' <=> t \in held \/ t \in message
        BY <2>1
      <4>3. t \notin message'
        BY <2>1
      <4>4. CASE t \in message /\ t \in held
        BY <4>1, <4>2, <4>3, <4>4, <2>3
      <4>5. CASE ~(t \in message /\ t \in held)
        BY <4>1, <4>2, <4>3, <4>5, <2>3
      <4> QED
        BY <4>4, <4>5
    <3> QED
      BY <3>1, <3>2 DEF RefsBalanced
  <2>5. OwnersType'
    <3>1. \A t \in Sources : refs'[t] \in Nat
      BY <2>4 DEF RefsBalanced
    <3> QED
      BY <2>1, <3>1 DEF OwnersType, Released
  <2>6. SubjectHeld' /\ HeldWhilePlaying'
    BY <2>1 DEF SubjectHeld, HeldWhilePlaying, InPool
  <2> QED
    BY <2>2, <2>4, <2>5, <2>6
<1>4. CASE Births
  <2>1. PICK s \in Sources, n \in {Buffers} \cup {bufs[u] : u \in Sources},
             loops \in {FALSE} \cup {looping[u] : u \in Sources} : Constructed(s, n, loops)
    BY <1>4, Zenon DEF Births, NewSource, Clone
  <2> QED
    BY <2>1, <1>1
<1> QED
  BY <1>2, <1>3, <1>4

(* The disconnection step: no older event is pending, so each Source of    *)
(* the pool either survives in the new event or had no other owner.        *)
LEMMA DisconnectionKeepsInv ==
  ASSUME IInv, Disconnected
  PROVE  IInv'
<1> USE DEF IInv
<1> DEFINE S    == {s \in Sources : InPool(s)}
           kept == {s \in S : refs[s] > 1}
<1>1. /\ Release(S, kept) /\ message' = kept /\ dangling' = dangling \cup (S \ kept)
      /\ notified' = TRUE /\ UNCHANGED <<held, pc, subject>>
      /\ ~connected /\ ~notified
  BY DEF Disconnected, NoticesLoss, callVars
<1>2. message = {}
  BY <1>1 DEF MessageAnnounced
<1>3. PoolType' /\ VoicePartition'
  BY <1>1, ReleaseKeepsPartition
<1>4. /\ playing' = [s \in Sources |-> IF s \in {t \in S : InPool(t)} THEN NoVoice ELSE playing[s]]
      /\ refs' = Released({t \in S : InPool(t)} \ kept)
  BY <1>1 DEF Release
<1>5. \A s \in Sources : ~InPool(s)'
  BY <1>4 DEF InPool
<1>6. \A s \in Sources : refs'[s] = IF s \in S /\ s \notin kept THEN refs[s] - 1 ELSE refs[s]
  BY <1>4 DEF Released
<1>7. ASSUME NEW s \in Sources
      PROVE  refs'[s] = (IF s \in held THEN 1 ELSE 0) + (IF s \in kept THEN 1 ELSE 0)
  <2>1. refs[s] = (IF s \in held THEN 1 ELSE 0) + (IF s \in S THEN 1 ELSE 0)
    BY <1>2 DEF RefsBalanced
  <2> QED
    BY <2>1, <1>6
<1>8. RefsBalanced'
  BY <1>1, <1>5, <1>7 DEF RefsBalanced
<1>9. OwnersType'
  <2>1. \A t \in Sources : refs'[t] \in Nat
    BY <1>7
  <2> QED
    BY <1>1, <1>4, <2>1 DEF OwnersType, Released
<1>10. dangling' \subseteq MayRelease
  <2>1. \A s \in S \ kept : s \notin held
    BY <1>2 DEF RefsBalanced
  <2> QED
    BY <1>1, <2>1 DEF HeldWhilePlaying
<1> QED
  BY <1>1, <1>3, <1>5, <1>8, <1>9, <1>10 DEF SubjectHeld, MessageAnnounced, HeldWhilePlaying

(* The pool thread, the end of the module and the world outside.           *)
LEMMA OtherStepsKeepInv ==
  ASSUME IInv,
         \/ Update \/ ThreadEnds \/ SetFinish \/ DeletePool
         \/ Environment \/ UNCHANGED vars
  PROVE  IInv'
<1> USE DEF ownerVars, linkVars, callVars, poolVars
<1>0. SubjectHeld /\ MessageAnnounced /\ dangling \subseteq MayRelease
  BY DEF IInv
<1>1. CASE Update
  <2> DEFINE Done == {s \in Sources : InPool(s) /\ ~StillPlaying(s)}
  <2>1. /\ Release(Done, {}) /\ Done \in SUBSET Sources
        /\ UNCHANGED <<held, message, dangling, connected, pc, subject>>
        /\ notified' = (notified /\ ~(DisconnectExt /\ connected))
    BY <1>1 DEF Update
  <2>2. PoolType' /\ OwnersType' /\ VoicePartition' /\ RefsBalanced' /\ HeldWhilePlaying'
    BY <2>1, MovesKeepCounts DEF PoolMoves
  <2>3. MessageAnnounced'
    BY <2>1, <1>0, Zenon DEF MessageAnnounced
  <2> QED
    BY <1>0, <2>1, <2>2, <2>3 DEF IInv, SubjectHeld
<1>2. CASE ThreadEnds \/ SetFinish
  <2>1. PlainStep
    BY <1>0, <1>2 DEF ThreadEnds, SetFinish, PlainStep, PoolMoves, SubjectHeld
  <2> QED
    BY <2>1, PlainStepsKeepInv
<1>3. CASE DeletePool
  <2> DEFINE S == {s \in Sources : InPool(s)}
  <2>1. /\ Release(S, {}) /\ S \in SUBSET Sources
        /\ UNCHANGED <<ownerVars, connected, notified, callVars>>
    BY <1>3 DEF DeletePool
  <2>2. PlainStep
    BY <1>0, <2>1 DEF PlainStep, PoolMoves, SubjectHeld
  <2> QED
    BY <2>2, PlainStepsKeepInv
<1>4. CASE Environment
  <2>1. UNCHANGED <<poolVars, ownerVars, callVars>>
    BY <1>4 DEF Environment, Mix, LoseDevice, RegainDevice
  <2>2. MessageAnnounced'
    BY <1>0, <1>4 DEF Environment, Mix, LoseDevice, RegainDevice, MessageAnnounced
  <2>3. PoolType' /\ OwnersType' /\ VoicePartition' /\ RefsBalanced' /\ HeldWhilePlaying'
    BY <2>1, MovesKeepCounts DEF PoolMoves
  <2> QED
    BY <1>0, <2>1, <2>2, <2>3 DEF IInv, SubjectHeld
<1>5. CASE UNCHANGED vars
  <2>1. PlainStep
    BY <1>0, <1>5 DEF vars, PlainStep, PoolMoves, SubjectHeld
  <2> QED
    BY <2>1, PlainStepsKeepInv
<1> QED
  BY <1>1, <1>2, <1>3, <1>4, <1>5

-----------------------------------------------------------------------------
(* The theorems.                                                           *)

LEMMA InitInv == Init => IInv
<1> SUFFICES ASSUME Init PROVE IInv
  OBVIOUS
<1>1. /\ Cardinality(Voices) \in Nat
      /\ available \in Seq(Voices) /\ Len(available) = Cardinality(Voices)
      /\ \A i, j \in 1..Cardinality(Voices) : available[i] = available[j] => i = j
      /\ \A v \in Voices : \E i \in 1..Cardinality(Voices) : available[i] = v
  BY AudioAssumption, OrderPositions DEF Init
<1>2. \A s \in Sources : playing[s] = NoVoice
  BY DEF Init
<1>3. VoicePartition
  BY <1>1, <1>2, AudioAssumption DEF VoicePartition, InPool
<1>4. PoolType /\ OwnersType /\ RefsBalanced
  BY <1>1, <1>2 DEF Init, PoolType, OwnersType, RefsBalanced, InPool
<1> QED
  BY <1>2, <1>3, <1>4 DEF Init, IInv, SubjectHeld, MessageAnnounced, HeldWhilePlaying, InPool

LEMMA NextKeepsInv == IInv /\ [Next]_vars => IInv'
<1> SUFFICES ASSUME IInv, [Next]_vars PROVE IInv'
  OBVIOUS
<1>1. CASE \E s \in Sources : \/ Play(s) \/ Stop(s) \/ Pause(s)
                              \/ \E enable \in BOOLEAN : SetLooping(s, enable)
                              \/ \E t \in SeekTargets : SeekStatic(s, t) \/ SeekStream(s, t)
  BY <1>1, CallsArePlain, PlainStepsKeepInv
<1>2. CASE \/ \E S \in SUBSET Sources : PlayList(S) \/ StopList(S) \/ PauseList(S)
           \/ StopAll \/ PauseAll
  BY <1>2, GroupCallsArePlain, PlainStepsKeepInv
<1>3. CASE StopLocked \/ SeekPlay \/ SeekCheck \/ SeekFailed \/ SeekReplay
  BY <1>3, InnerStepsArePlain, PlainStepsKeepInv
<1>4. CASE Births \/ (\E s \in Sources : Drop(s)) \/ PollMessage
  BY <1>4, OwnersKeepInv
<1>5. CASE Disconnected
  BY <1>5, DisconnectionKeepsInv
<1>6. CASE \/ Update \/ ThreadEnds \/ SetFinish \/ DeletePool
           \/ Environment \/ UNCHANGED vars
  BY <1>6, OtherStepsKeepInv
<1> QED
  BY <1>1, <1>2, <1>3, <1>4, <1>5, <1>6 DEF Next, Program, PoolThread, Down, Births

LEMMA AlwaysInv == Spec => []IInv
BY InitInv, NextKeepsInv, PTL DEF Spec

(* Pool::assignSource, releaseSource and every caller of them, on success  *)
(* and on failure: a voice is in the queue once, or lent to one Source.    *)
THEOREM VoicePartitionHolds == Spec => []VoicePartition
<1>1. IInv => VoicePartition
  BY DEF IInv
<1> QED
  BY <1>1, AlwaysInv, PTL

(* Object::retain and release around the pool and the event queue: the     *)
(* count of a Source is the number of its owners, at all times.            *)
THEOREM RefsBalancedHolds == Spec => []RefsBalanced
<1>1. IInv => RefsBalanced
  BY DEF IInv
<1> QED
  BY <1>1, AlwaysInv, PTL

(* Pool::update on a lost device: only a Source whose last wrapper may go  *)
(* while the pool plays it can be named in the event after it was deleted. *)
THEOREM OnlyForgottenSourcesDangle == Spec => []OnlyForgottenDangle
<1>1. IInv => OnlyForgottenDangle
  BY DEF IInv, OnlyForgottenDangle
<1> QED
  BY <1>1, AlwaysInv, PTL

(* ... so a program that keeps what it plays never meets one.              *)
THEOREM KeepingSourcesIsSafe ==
  ASSUME MayRelease = {}
  PROVE  Spec => [](dangling = {})
<1>1. IInv => dangling = {}
  BY DEF IInv
<1> QED
  BY <1>1, AlwaysInv, PTL

-----------------------------------------------------------------------------
(* The end of the module.                                                  *)

Closing ==
  /\ phase # "running" => pc = "idle" /\ held = {}
  /\ phase = "down" => \A s \in Sources : ~InPool(s)

(* Once the thread is told to finish the program calls nothing any more,   *)
(* and once ~Pool has run the thread does not move.                        *)
LEMMA NextKeepsClosing == Closing /\ [Next]_vars => Closing'
<1> SUFFICES ASSUME Closing, [Next]_vars PROVE Closing'
  OBVIOUS
<1> USE DEF Closing, linkVars, callVars, ownerVars, poolVars, InPool
<1>1. ASSUME phase' = "running" PROVE Closing'
  BY <1>1
<1>2. CASE phase' = phase /\ phase # "running"
  <2>1. CASE \E s \in Sources :
               \/ NewSource(s) \/ Drop(s) \/ Play(s) \/ Stop(s) \/ Pause(s)
               \/ \E enable \in BOOLEAN : SetLooping(s, enable)
               \/ \E t \in SeekTargets : SeekStatic(s, t) \/ SeekStream(s, t)
               \/ \E t \in Sources : Clone(s, t)
    BY <1>2, <2>1 DEF NewSource, Drop, Play, Stop, Pause, SetLooping, SeekStatic, SeekStream,
                      Clone, Callable
  <2>2. CASE \E S \in SUBSET Sources : PlayList(S) \/ StopList(S) \/ PauseList(S)
    BY <1>2, <2>2 DEF PlayList, StopList, PauseList, Callable
  <2>3. CASE StopAll \/ PauseAll \/ PollMessage \/ SetFinish
    BY <1>2, <2>3 DEF StopAll, PauseAll, PollMessage, SetFinish
  <2>4. CASE StopLocked \/ SeekPlay \/ SeekCheck \/ SeekFailed \/ SeekReplay
    BY <1>2, <2>4 DEF StopLocked, SeekPlay, SeekCheck, SeekFailed, SeekReplay
  <2>5. CASE DeletePool
    BY <1>2, <2>5 DEF DeletePool
  <2>6. CASE Disconnected \/ Update
    BY <1>2, <2>6 DEF Disconnected, Update, ThreadRuns
  <2>7. CASE ThreadEnds \/ Environment \/ Down \/ UNCHANGED vars
    BY <2>7 DEF ThreadEnds, Environment, Mix, LoseDevice, RegainDevice, Down, vars
  <2> QED
    BY <2>1, <2>2, <2>3, <2>4, <2>5, <2>6, <2>7 DEF Next, Program, PoolThread
<1>3. CASE SetFinish \/ ThreadEnds
  BY <1>3 DEF SetFinish, ThreadEnds
<1>4. CASE DeletePool
  <2>1. /\ phase = "ended" /\ UNCHANGED <<held, callVars>>
        /\ Release({s \in Sources : InPool(s)}, {})
    BY <1>4 DEF DeletePool
  <2>2. \A s \in Sources : playing'[s] = NoVoice
    BY <2>1 DEF Release
  <2> QED
    BY <2>1, <2>2
<1>5. UNCHANGED phase \/ SetFinish \/ ThreadEnds \/ DeletePool
  <2>1. CASE \E s \in Sources :
               \/ NewSource(s) \/ Drop(s) \/ Play(s) \/ Stop(s) \/ Pause(s)
               \/ \E enable \in BOOLEAN : SetLooping(s, enable)
               \/ \E t \in SeekTargets : SeekStatic(s, t) \/ SeekStream(s, t)
               \/ \E t \in Sources : Clone(s, t)
    BY <2>1 DEF NewSource, Drop, Play, Stop, Pause, PauseVoices, SetLooping, SeekStatic,
                SeekStream, Clone, Constructed
  <2>2. CASE \E S \in SUBSET Sources : PlayList(S) \/ StopList(S) \/ PauseList(S)
    BY <2>2 DEF PlayList, StopList, PauseList, PauseVoices
  <2>3. CASE StopAll \/ PauseAll \/ PollMessage
    BY <2>3 DEF StopAll, PauseAll, PauseVoices, PollMessage
  <2>4. CASE StopLocked \/ SeekPlay \/ SeekCheck \/ SeekFailed \/ SeekReplay
    BY <2>4 DEF StopLocked, SeekPlay, SeekCheck, SeekFailed, SeekReplay
  <2>5. CASE Disconnected \/ Update \/ Environment \/ Down \/ UNCHANGED vars
    BY <2>5 DEF Disconnected, Update, Environment, Mix, LoseDevice, RegainDevice, Down, vars
  <2> QED
    BY <2>1, <2>2, <2>3, <2>4, <2>5 DEF Next, Program, PoolThread
<1> QED
  BY <1>1, <1>2, <1>3, <1>4, <1>5

(* ~Audio: while the thread is being stopped and the pool torn down the    *)
(* program is in no call and holds no Source, so the thread's last update  *)
(* and ~Pool meet nobody; afterwards every voice is back in the queue, and *)
(* a Source still exists only if an event nobody polled names it.          *)
THEOREM ShutdownIsClean ==
  Spec => [](/\ phase # "running" => pc = "idle" /\ held = {}
             /\ phase = "down" =>
                  /\ \A v \in Voices : \E i \in 1..Len(available) : available[i] = v
                  /\ \A s \in Sources : refs[s] = IF s \in message THEN 1 ELSE 0)
<1>1. Init => Closing
  BY DEF Init, Closing
<1>2. IInv /\ Closing =>
        /\ phase # "running" => pc = "idle" /\ held = {}
        /\ phase = "down" =>
             /\ \A v \in Voices : \E i \in 1..Len(available) : available[i] = v
             /\ \A s \in Sources : refs[s] = IF s \in message THEN 1 ELSE 0
  <2> SUFFICES ASSUME IInv, Closing, phase = "down"
               PROVE  /\ \A v \in Voices : \E i \in 1..Len(available) : available[i] = v
                      /\ \A s \in Sources : refs[s] = IF s \in message THEN 1 ELSE 0
    BY DEF Closing
  <2>1. \A s \in Sources : ~InPool(s) /\ s \notin held
    BY DEF Closing
  <2>2. \A v \in Voices : \E i \in 1..Len(available) : available[i] = v
    BY <2>1, AudioAssumption DEF IInv, VoicePartition, InPool
  <2>3. \A s \in Sources : refs[s] = IF s \in message THEN 1 ELSE 0
    BY <2>1 DEF IInv, RefsBalanced
  <2> QED
    BY <2>2, <2>3
<1> QED
  BY <1>1, <1>2, NextKeepsClosing, AlwaysInv, PTL DEF Spec

-----------------------------------------------------------------------------
(* The pool implements VoiceLedger.                                        *)

FreeVoices == {available[i] : i \in 1..Len(available)}

(* The queue holds exactly the voices no Source has.                       *)
LEMMA FreeIsUnlent ==
  ASSUME PoolType, VoicePartition
  PROVE  FreeVoices = {v \in Voices : \A s \in Sources : playing[s] # v}
<1>1. \A i \in 1..Len(available) : available[i] \in Voices
  BY ElementOfSeq DEF PoolType
<1> QED
  BY <1>1 DEF FreeVoices, VoicePartition

LEMMA FreeIsUnlentAfter ==
  ASSUME PoolType', VoicePartition'
  PROVE  FreeVoices' = {v \in Voices : \A s \in Sources : playing'[s] # v}
<1>1. \A i \in 1..Len(available') : available'[i] \in Voices
  BY ElementOfSeq DEF PoolType
<1> QED
  BY <1>1 DEF FreeVoices, VoicePartition

(* Lending voices to a group is the ledger's Take.                         *)
LEMMA AssignTakes ==
  ASSUME PoolType, VoicePartition,
         NEW S \in SUBSET Sources, \A s \in S : ~InPool(s), Assign(S)
  PROVE  Ledger!Take(S)
<1> DEFINE grant == [s \in S |-> playing'[s]]
<1>1. PoolType' /\ VoicePartition'
  BY AssignKeepsPartition
<1>2. /\ \A s \in S : \E i \in 1..Len(available) : playing'[s] = available[i]
      /\ \A s \in Sources \ S : playing'[s] = playing[s]
      /\ \A s \in S : playing'[s] \in Voices
  BY AssignLends
<1>3. FreeVoices' = {v \in Voices : \A s \in Sources : playing'[s] # v}
  BY <1>1, FreeIsUnlentAfter
<1>4. grant \in [S -> FreeVoices]
  BY <1>2 DEF FreeVoices
<1>5. \A s, t \in S : grant[s] = grant[t] => s = t
  BY <1>1, <1>2, AudioAssumption DEF VoicePartition, InPool
<1>6. \A s \in S : playing[s] = NoVoice
  BY DEF InPool
<1>7. playing' = [s \in Sources |-> IF s \in S THEN grant[s] ELSE playing[s]]
  <2>1. playing' \in [Sources -> Voices \cup {NoVoice}]
    BY <1>1 DEF PoolType
  <2> QED
    BY <2>1, <1>2
<1>8. FreeVoices' = FreeVoices \ {grant[s] : s \in S}
  <2>1. FreeVoices = {v \in Voices : \A s \in Sources : playing[s] # v}
    BY FreeIsUnlent
  <2>2. \A v \in Voices : (\A s \in Sources : playing'[s] # v)
          <=> (\A s \in Sources : playing[s] # v) /\ (\A s \in S : playing'[s] # v)
    BY <1>2, <1>6, AudioAssumption
  <2> QED
    BY <1>3, <2>1, <2>2
<1> QED
  BY <1>4, <1>5, <1>6, <1>7, <1>8 DEF Ledger!Take, FreeVoices

(* Taking voices back is the ledger's Give.                                *)
LEMMA ReleaseGives ==
  ASSUME PoolType, VoicePartition,
         NEW S \in SUBSET Sources, NEW kept, Release(S, kept)
  PROVE  \E T \in SUBSET Sources : Ledger!Give(T)
<1>0. PICK In \in SUBSET Sources : In = {s \in S : InPool(s)}
  OBVIOUS
<1>1. PoolType' /\ VoicePartition'
  BY ReleaseKeepsPartition
<1>2. playing' = [s \in Sources |-> IF s \in In THEN NoVoice ELSE playing[s]]
  BY <1>0 DEF Release
<1>3. FreeVoices' = {v \in Voices : \A s \in Sources : playing'[s] # v}
  BY <1>1, FreeIsUnlentAfter
<1>4. \A s \in In : playing[s] # NoVoice /\ playing[s] \in Voices
  BY <1>0 DEF InPool, PoolType
<1>5. FreeVoices' = FreeVoices \cup {playing[s] : s \in In}
  <2>1. FreeVoices = {v \in Voices : \A s \in Sources : playing[s] # v}
    BY FreeIsUnlent
  <2>2. ASSUME NEW v \in Voices
        PROVE  (\A s \in Sources : playing'[s] # v)
                 <=> (\A s \in Sources : playing[s] # v) \/ (\E s \in In : playing[s] = v)
    <3>1. \A s, t \in Sources : playing[s] = v /\ playing[t] = v => s = t
      BY AudioAssumption DEF VoicePartition, InPool
    <3>2. \A s \in Sources : playing'[s] = v <=> playing[s] = v /\ s \notin In
      BY <1>2, AudioAssumption
    <3> QED
      BY <3>1, <3>2
  <2> QED
    BY <1>3, <1>4, <2>1, <2>2
<1>6. Ledger!Give(In)
  BY <1>2, <1>4, <1>5 DEF Ledger!Give, FreeVoices
<1> QED
  BY <1>6

(* Every step of the pool maps to a step of the ledger or to none.         *)
LEMMA MovesAreLedgerSteps ==
  ASSUME IInv, PoolMoves
  PROVE  [Ledger!Next]_(Ledger!vars)
<1>0. PoolType /\ VoicePartition /\ held \subseteq Sources
  BY DEF IInv, OwnersType
<1>1. CASE UNCHANGED poolVars
  BY <1>1 DEF poolVars, Ledger!vars
<1>2. ASSUME NEW S \in SUBSET held, \A s \in S : ~InPool(s), Assign(S)
      PROVE  Ledger!Next
  <2>1. Ledger!Take(S) /\ S \in SUBSET Sources
    BY <1>0, <1>2, AssignTakes
  <2> QED
    BY <2>1 DEF Ledger!Next
<1>3. ASSUME NEW S \in SUBSET Sources, Release(S, {})
      PROVE  Ledger!Next
  BY <1>0, <1>3, ReleaseGives DEF Ledger!Next
<1>4. CASE Rotate
  <2>1. PoolType' /\ VoicePartition' /\ playing' = playing
    BY <1>0, <1>4, RotateKeepsPartition DEF Rotate
  <2>2. FreeVoices' = {v \in Voices : \A s \in Sources : playing'[s] # v}
    BY <2>1, FreeIsUnlentAfter
  <2>3. FreeVoices' = FreeVoices
    BY <1>0, <2>1, <2>2, FreeIsUnlent
  <2> QED
    BY <2>1, <2>3 DEF Ledger!vars, FreeVoices
<1> QED
  BY <1>1, <1>2, <1>3, <1>4 DEF PoolMoves

(* Detailed steps: the program's calls, the thread's passes, the device.   *)
LEMMA NextIsALedgerStep ==
  IInv /\ [Next]_vars => [Ledger!Next]_(Ledger!vars)
<1> SUFFICES ASSUME IInv, [Next]_vars PROVE [Ledger!Next]_(Ledger!vars)
  OBVIOUS
<1> USE DEF poolVars, ownerVars, linkVars, callVars
<1>1. CASE \/ \E s \in Sources : \/ Play(s) \/ Stop(s) \/ Pause(s)
                                 \/ \E enable \in BOOLEAN : SetLooping(s, enable)
                                 \/ \E t \in SeekTargets : SeekStatic(s, t) \/ SeekStream(s, t)
           \/ \E S \in SUBSET Sources : PlayList(S) \/ StopList(S) \/ PauseList(S)
           \/ StopAll \/ PauseAll
           \/ StopLocked \/ SeekPlay \/ SeekCheck \/ SeekFailed \/ SeekReplay
  <2>1. PlainStep
    BY <1>1, CallsArePlain, GroupCallsArePlain, InnerStepsArePlain
  <2> QED
    BY <2>1, MovesAreLedgerSteps DEF PlainStep
<1>2. CASE \/ Births \/ (\E s \in Sources : Drop(s)) \/ PollMessage
           \/ ThreadEnds \/ SetFinish \/ Environment \/ UNCHANGED vars
  <2>1. UNCHANGED <<available, playing>>
    BY <1>2 DEF Births, NewSource, Clone, Constructed, Drop, PollMessage, ThreadEnds, SetFinish, Environment,
                Mix, LoseDevice, RegainDevice, vars
  <2> QED
    BY <2>1 DEF Ledger!vars
<1>3. CASE Disconnected \/ Update \/ DeletePool
  <2>1. \E S \in SUBSET Sources : \E kept : Release(S, kept)
    BY <1>3, Zenon DEF Disconnected, Update, DeletePool
  <2>2. \E T \in SUBSET Sources : Ledger!Give(T)
    BY <2>1, ReleaseGives DEF IInv
  <2> QED
    BY <2>2 DEF Ledger!Next
<1> QED
  BY <1>1, <1>2, <1>3 DEF Next, Program, PoolThread, Down, Births

(* The queue and the map of Pool.cpp keep the promise of VoiceLedger: a    *)
(* group of Sources gets its voices in one step or not at all, and no      *)
(* voice moves otherwise -- Source::play(vector)'s rollback included.      *)
THEOREM PoolImplementsLedger == Spec => LedgerSpec
<1>1. Init => Ledger!Init
  <2> SUFFICES ASSUME Init PROVE Ledger!Init
    OBVIOUS
  <2>1. PoolType /\ VoicePartition
    BY InitInv DEF IInv
  <2>2. FreeVoices = Voices
    BY <2>1, FreeIsUnlent, AudioAssumption DEF Init
  <2> QED
    BY <2>2 DEF Init, Ledger!Init, FreeVoices
<1>2. IInv /\ [Next]_vars => [Ledger!Next]_(Ledger!vars)
  BY NextIsALedgerStep
<1> QED
  BY <1>1, <1>2, AlwaysInv, PTL DEF Spec, LedgerSpec, Ledger!Spec
=============================================================================
