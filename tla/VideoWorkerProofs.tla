------------------------- MODULE VideoWorkerProofs -------------------------
(***************************************************************************)
(* Theorems about VideoWorker, for any number of streams, of any length,   *)
(* whatever the program seeks to and however late the worker is.           *)
(*                                                                         *)
(* IInv is inductive.  FrontWhole and ReadyIsNew are not, by themselves:   *)
(* they rest on what frameReady stands for, that a back buffer offered for *)
(* swapping is whole and newer than the front, and on the worker never     *)
(* writing a back buffer that is offered.                                  *)
(*                                                                         *)
(* Settled adds what the decoder's times say of the frame taken out;       *)
(* InTime, for a video never sought, how late it may be.  With the first   *)
(* two, the buffers implement PictureRelay.                                *)
(***************************************************************************)
EXTENDS VideoWorker, TLAPS

AtWork == {"position", "decoding", "clearing", "copying"}

(* Where the worker is: on a stream of the list while it works on one, and *)
(* gone only once it was told to stop.                                     *)
OnStream ==
  /\ pc = "visit" => at >= 1
  /\ pc \in {"ended", "joined"} => stopping
  /\ pc \in AtWork => at \in 1..Len(streams)

OfferedIsGood ==
  \A s \in Streams : buffer[s].ready => buffer[s].back.whole /\ buffer[s].back.latest

WrittenIsNotOffered == pc \in {"clearing", "copying"} => ~buffer[This].ready

NoTwice(q) == \A i, j \in 1..Len(q) : q[i] = q[j] => i = j

IInv ==
  /\ TypeOK
  /\ OnStream
  /\ FrontWhole /\ OfferedIsGood /\ WrittenIsNotOffered
  /\ NoTwice(streams) /\ (~stopping => held \subseteq Elements(streams))

-----------------------------------------------------------------------------
(* Taking one place out of a list without repetitions takes that element   *)
(* out and leaves the others, as it should when a stream is erased.        *)
LEMMA WithoutOne ==
  ASSUME NEW S, NEW q \in Seq(S), NEW i \in 1..Len(q), NoTwice(q)
  PROVE  /\ Without(q, i) \in Seq(S)
         /\ NoTwice(Without(q, i))
         /\ Elements(Without(q, i)) = Elements(q) \ {q[i]}
<1> DEFINE w == Without(q, i)
<1>1. /\ w \in Seq(S) /\ Len(w) = Len(q) - 1
      /\ \A k \in 1..(Len(q) - 1) : w[k] = IF k < i THEN q[k] ELSE q[k + 1]
  <2> DEFINE a == SubSeq(q, 1, i - 1)
             b == SubSeq(q, i + 1, Len(q))
  <2>1. /\ a \in Seq(S) /\ Len(a) = i - 1
        /\ \A k \in 1..(i - 1) : a[k] = q[k]
    OBVIOUS
  <2>2. /\ b \in Seq(S) /\ Len(b) = Len(q) - i
        /\ \A k \in 1..(Len(q) - i) : b[k] = q[i + k]
    OBVIOUS
  <2>3. w = a \o b
    BY DEF Without
  <2> HIDE DEF a, b, w
  <2>4. w \in Seq(S) /\ Len(w) = Len(q) - 1
    BY <2>1, <2>2, <2>3
  <2>5. ASSUME NEW k \in 1..(Len(q) - 1) PROVE w[k] = IF k < i THEN q[k] ELSE q[k + 1]
    <3>1. CASE k < i
      BY <2>1, <2>2, <2>3, <3>1
    <3>2. CASE k >= i
      <4>1. w[k] = b[k - (i - 1)] /\ k - (i - 1) \in 1..(Len(q) - i)
        BY <2>1, <2>2, <2>3, <3>2
      <4> QED
        BY <2>2, <3>2, <4>1
    <3> QED
      BY <3>1, <3>2
  <2> QED
    BY <2>4, <2>5
<1> HIDE DEF w
<1>2. NoTwice(w)
  <2> SUFFICES ASSUME NEW j \in 1..Len(w), NEW k \in 1..Len(w), w[j] = w[k], j < k
               PROVE  FALSE
    BY <1>1 DEF NoTwice
  <2>1. PICK m \in 1..Len(q) : w[j] = q[m] /\ m = (IF j < i THEN j ELSE j + 1)
    BY <1>1
  <2>2. PICK n \in 1..Len(q) : w[k] = q[n] /\ n = (IF k < i THEN k ELSE k + 1)
    BY <1>1
  <2>3. m = n
    BY <2>1, <2>2 DEF NoTwice
  <2> QED
    BY <2>1, <2>2, <2>3
<1>3. ASSUME NEW x \in Elements(w) PROVE x \in Elements(q) \ {q[i]}
  <2>1. PICK k \in 1..Len(w) : x = w[k]
    BY DEF Elements
  <2> QED
    BY <1>1, <2>1 DEF Elements, NoTwice
<1>4. ASSUME NEW x \in Elements(q) \ {q[i]} PROVE x \in Elements(w)
  <2>1. PICK k \in 1..Len(q) : x = q[k]
    BY DEF Elements
  <2>2. k # i
    BY <2>1
  <2>3. CASE k < i
    <3>1. k \in 1..Len(w) /\ w[k] = x
      BY <1>1, <2>1, <2>3
    <3> QED
      BY <3>1 DEF Elements
  <2>4. CASE k > i
    <3>1. k - 1 \in 1..Len(w) /\ w[k - 1] = x
      BY <1>1, <2>1, <2>4
    <3> QED
      BY <3>1 DEF Elements
  <2> QED
    BY <2>2, <2>3, <2>4
<1> QED
  BY <1>1, <1>2, <1>3, <1>4 DEF w

(* Appending a new element to a list without repetitions.                  *)
LEMMA AppendOne ==
  ASSUME NEW S, NEW q \in Seq(S), NEW x \in S, x \notin Elements(q), NoTwice(q)
  PROVE  /\ Append(q, x) \in Seq(S)
         /\ NoTwice(Append(q, x))
         /\ Elements(Append(q, x)) = Elements(q) \cup {x}
<1> DEFINE w == Append(q, x)
<1>1. /\ w \in Seq(S) /\ Len(w) = Len(q) + 1
      /\ \A k \in 1..Len(q) : w[k] = q[k]
      /\ w[Len(q) + 1] = x
  OBVIOUS
<1> HIDE DEF w
<1>2. NoTwice(w)
  BY <1>1 DEF NoTwice, Elements
<1>3. ASSUME NEW y \in Elements(w) PROVE y \in Elements(q) \cup {x}
  BY <1>1 DEF Elements
<1>4. ASSUME NEW y \in Elements(q) PROVE y \in Elements(w)
  BY <1>1 DEF Elements
<1>5. x \in Elements(w)
  <2>1. Len(q) + 1 \in 1..Len(w)
    BY <1>1
  <2> QED
    BY <1>1, <2>1 DEF Elements
<1> QED
  BY <1>1, <1>2, <1>3, <1>4, <1>5 DEF w

(* What a seek and a packet do to a demuxer and its decoder.               *)
LEMMA SoughtType ==
  ASSUME NEW m \in Media, NEW p \in 0..Frames PROVE Sought(m, p) \in Media
BY VideoAssumption DEF Sought, Media

LEMMA DecodedType ==
  ASSUME NEW m \in Media, ~Ended(m) PROVE Decoded(m) \in Media
BY VideoAssumption DEF Decoded, Ended, Media

-----------------------------------------------------------------------------
(* A new stream list is empty and nothing is offered.                      *)
LEMMA InitIInv == Init => IInv
<1> SUFFICES ASSUME Init PROVE IInv
  OBVIOUS
<1>1. TypeOK
  <2>1. NewClock \in [position : 0..(Frames + 1), playing : BOOLEAN] /\ NewMedia \in Media
    BY VideoAssumption DEF NewClock, NewMedia, Media
  <2>2. NewBuffer \in [front : Picture, back : Picture, ready : BOOLEAN]
    BY VideoAssumption DEF NewBuffer, Black, Picture
  <2>3. clock \in [Streams -> [position : 0..(Frames + 1), playing : BOOLEAN]]
    BY <2>1 DEF Init
  <2>4. media \in [Streams -> Media]
    BY <2>1 DEF Init
  <2>5. buffer \in [Streams -> [front : Picture, back : Picture, ready : BOOLEAN]]
    BY <2>2 DEF Init
  <2>6. stopping \in BOOLEAN /\ signalled \in BOOLEAN /\ sought \in BOOLEAN
    BY Zenon DEF Init
  <2> QED
    BY VideoAssumption, <2>3, <2>4, <2>5, <2>6 DEF Init, TypeOK
<1>2. FrontWhole /\ OfferedIsGood
  BY DEF Init, FrontWhole, OfferedIsGood, NewBuffer, Black
<1> QED
  BY <1>1, <1>2 DEF Init, IInv, OnStream, AtWork, WrittenIsNotOffered, NoTwice, Elements

(* Every step keeps the types.                                             *)
LEMMA TypeStep == TypeOK /\ OnStream /\ [Next]_vars /\ NoTwice(streams) => TypeOK'
<1> SUFFICES ASSUME TypeOK, OnStream, [Next]_vars, NoTwice(streams) PROVE TypeOK'
  OBVIOUS
<1> USE VideoAssumption
<1>0. pc \in AtWork => This \in Streams
  BY DEF OnStream, This, TypeOK
<1>1. ASSUME NEW s \in Streams, Open(s) PROVE TypeOK'
  BY <1>1 DEF Open, Broadcast, TypeOK, NewClock, NewMedia, NewBuffer, Black, Picture, Media, localVars
<1>2. ASSUME NEW s \in Streams, Drop(s) PROVE TypeOK'
  BY <1>2 DEF Drop, TypeOK, Picture, localVars
<1>3. ASSUME NEW s \in Streams, NEW c \in [position : 0..(Frames + 1), playing : BOOLEAN],
             SetClock(s, c)
      PROVE TypeOK'
  BY <1>3 DEF SetClock, TypeOK, Picture, localVars, listVars
<1>4. ASSUME NEW s \in Streams, Play(s) \/ Pause(s) PROVE TypeOK'
  BY <1>3, <1>4 DEF Play, Pause, TypeOK
<1>5. ASSUME NEW s \in Streams, NEW t \in SeekTargets, Seek(s, t) PROVE TypeOK'
  <2>1. [clock[s] EXCEPT !.position = t] \in [position : 0..(Frames + 1), playing : BOOLEAN]
    <3>1. clock[s] \in [position : 0..(Frames + 1), playing : BOOLEAN]
      BY DEF TypeOK
    <3>2. t \in 0..(Frames + 1)
      OBVIOUS
    <3> QED
      BY <3>1, <3>2
  <2> QED
    BY <1>3, <1>5, <2>1 DEF Seek
<1>6. ASSUME NEW s \in Streams, Swap(s) PROVE TypeOK'
  BY <1>6 DEF Swap, Swapped, TypeOK, Picture, localVars, listVars
<1>7. CASE Stop
  BY <1>7 DEF Stop, Broadcast, TypeOK, Picture, localVars
<1>8. CASE Joined
  BY <1>8 DEF Joined, TypeOK, Picture, localVars
<1>9. ASSUME NEW e \in 0..MaxStep, Look(e) PROVE TypeOK'
  BY <1>9 DEF Look, TypeOK, Picture, localVars
<1>10. CASE Wake \/ Recheck
  BY <1>9, <1>10 DEF Wake, Recheck
<1>11. CASE Rest
  BY <1>11 DEF Rest, TypeOK, Picture, localVars, listVars
<1>12. CASE Erase
  <2>1. streams' \in Seq(Streams)
    BY <1>12, WithoutOne DEF Erase, TypeOK, OnStream
  <2> QED
    BY <1>12, <2>1 DEF Erase, TypeOK, Picture, localVars
<1>13. CASE Tick
  <2>1. This \in Streams
    BY <1>13 DEF Tick, This, TypeOK, OnStream
  <2>2. clock' \in [Streams -> [position : 0..(Frames + 1), playing : BOOLEAN]]
    <3>1. \A n \in 0..(Frames + 1) :
            [clock EXCEPT ![This].position = n] \in
              [Streams -> [position : 0..(Frames + 1), playing : BOOLEAN]]
      BY <2>1 DEF TypeOK
    <3>2. clock[This].position \in 0..(Frames + 1) /\ dt \in Nat
      BY <2>1 DEF TypeOK
    <3>3. CASE clock[This].playing
      <4> DEFINE later == clock[This].position + dt
                 n == IF later > Frames + 1 THEN Frames + 1 ELSE later
      <4>1. n \in 0..(Frames + 1)
        BY <3>2
      <4>2. clock' = [clock EXCEPT ![This].position = n]
        BY <1>13, <3>3 DEF Tick
      <4> QED
        BY <3>1, <4>1, <4>2
    <3>4. CASE ~clock[This].playing
      <4>1. clock' = [clock EXCEPT ![This].position = clock[This].position]
        BY <1>13, <3>4 DEF Tick
      <4> QED
        BY <3>1, <3>2, <4>1
    <3> QED
      BY <3>3, <3>4
  <2> QED
    BY <1>13, <2>2 DEF Tick, TypeOK, Picture, localVars, listVars
<1>14. CASE Begin
  <2>1. This \in Streams
    BY <1>0, <1>14 DEF Begin, AtWork
  <2>2. media' \in [Streams -> Media]
    <3>1. \A p \in 0..Frames : [media EXCEPT ![This] = Sought(@, p)] \in [Streams -> Media]
      BY <2>1, SoughtType DEF TypeOK
    <3> QED
      <4>1. \A t, p : p \in Landings(t) => p \in 0..Frames
        BY DEF Landings
      <4>2. (\E p \in 0..Frames : media' = [media EXCEPT ![This] = Sought(@, p)])
              \/ media' = media
        BY <1>14, <4>1 DEF Begin
      <4> QED
        BY <3>1, <4>2 DEF TypeOK
  <2>3. pos' \in 0..(Frames + 1)
    BY <1>14, <2>1 DEF Begin, TypeOK
  <2>4. /\ pc' = "decoding" /\ behind' = 0 /\ sought' = FALSE /\ out' = 0
        /\ UNCHANGED <<streams, held, stopping, signalled, at, dt, clock, buffer>>
    BY <1>14 DEF Begin, listVars
  <2>5. sought' \in BOOLEAN
    BY <2>4, Zenon
  <2> QED
    BY <2>2, <2>3, <2>4, <2>5 DEF TypeOK
<1>15. CASE Decode
  <2>1. This \in Streams
    BY <1>0, <1>15 DEF Decode, AtWork
  <2>2. media[This] \in Media
    BY <2>1 DEF TypeOK
  <2>3. PICK n \in Media :
          /\ media' = [media EXCEPT ![This] =
               IF Ended(n) THEN [n EXCEPT !.eos = TRUE] ELSE Decoded(n)]
          /\ pc' = IF Ended(n) THEN "visit" ELSE pc
          /\ at' = IF Ended(n) THEN at + 1 ELSE at
    <3>1. \A p \in 0..Frames : Sought(media[This], p) \in Media
      BY <2>2, SoughtType
    <3>2. \A p \in Landings(pos) : p \in 0..Frames
      BY DEF Landings
    <3> QED
      BY <1>15, <2>2, <3>1, <3>2 DEF Decode
  <2>4. (IF Ended(n) THEN [n EXCEPT !.eos = TRUE] ELSE Decoded(n)) \in Media
    BY DecodedType DEF Media
  <2>5. media' \in [Streams -> Media]
    BY <2>3, <2>4 DEF TypeOK
  <2>6. behind' \in Nat /\ sought' \in BOOLEAN
    BY <1>15 DEF Decode, TypeOK
  <2>7. out' \in 0..Frames
    BY <1>15, <2>2 DEF Decode, Media
  <2>8. at' \in Nat /\ pc' \in {"visit", "decoding"}
    BY <1>15, <2>3 DEF Decode, TypeOK
  <2> QED
    BY <1>15, <2>5, <2>6, <2>7, <2>8 DEF Decode, TypeOK, listVars
<1>16. CASE NothingDue
  BY <1>16 DEF NothingDue, TypeOK, Picture, localVars, listVars
<1>17. CASE Lower
  BY <1>17 DEF Lower, Lowered, TypeOK, Picture, localVars, listVars
<1>18. CASE Copy
  <2>1. buffer' \in [Streams -> [front : Picture, back : Picture, ready : BOOLEAN]]
    BY <1>18 DEF Copy, TypeOK, Picture
  <2> QED
    BY <1>18, <2>1 DEF Copy, TypeOK, localVars, listVars
<1>19. CASE Raise
  <2>1. This \in Streams
    BY <1>0, <1>19 DEF Raise, AtWork
  <2>2. /\ [buffer[This].front EXCEPT !.latest = FALSE] \in Picture
        /\ [frame |-> out, whole |-> TRUE, latest |-> TRUE] \in Picture
    BY <2>1 DEF TypeOK, Picture
  <2>3. buffer' \in [Streams -> [front : Picture, back : Picture, ready : BOOLEAN]]
    BY <1>19, <2>1, <2>2 DEF Raise, TypeOK
  <2> QED
    BY <1>19, <2>3 DEF Raise, TypeOK, localVars, listVars
<1>20. CASE UNCHANGED vars
  BY <1>20 DEF vars, TypeOK, Picture, localVars, listVars
<1> QED
  BY <1>1, <1>2, <1>4, <1>5, <1>6, <1>7, <1>8, <1>10, <1>11, <1>12, <1>13, <1>14, <1>15,
     <1>16, <1>17, <1>18, <1>19, <1>20 DEF Next, Program, Worker, Closed

(* The buffers: what is in front is whole, what is offered is whole and    *)
(* new, what is being written is not offered.                              *)
Buffers == FrontWhole /\ OfferedIsGood /\ WrittenIsNotOffered

LEMMA BuffersStep ==
  TypeOK /\ OnStream /\ Buffers /\ NoTwice(streams) /\ [Next]_vars => Buffers'
<1> SUFFICES ASSUME TypeOK, OnStream, Buffers, NoTwice(streams), [Next]_vars PROVE Buffers'
  OBVIOUS
<1>0. pc \in AtWork => This \in Streams
  BY DEF OnStream, This, TypeOK
<1> DEFINE Kept == buffer' = buffer /\ pc' \notin {"clearing", "copying"}
<1>1. ASSUME Kept PROVE Buffers'
  BY <1>1 DEF Buffers, FrontWhole, OfferedIsGood, WrittenIsNotOffered
<1>2. ASSUME NEW s \in Streams, Open(s) PROVE Buffers'
  BY <1>2 DEF Open, InPass, NewBuffer, Black, Buffers, FrontWhole, OfferedIsGood,
              WrittenIsNotOffered, TypeOK
<1>3. ASSUME buffer' = buffer, UNCHANGED <<streams, at, pc>> PROVE Buffers'
  BY <1>3 DEF Buffers, FrontWhole, OfferedIsGood, WrittenIsNotOffered, This
<1>4. ASSUME NEW s \in Streams, Drop(s) \/ Play(s) \/ Pause(s) PROVE Buffers'
  BY <1>3, <1>4 DEF Drop, Play, Pause, SetClock, listVars
<1>5. ASSUME NEW s \in Streams, NEW t \in SeekTargets, Seek(s, t) PROVE Buffers'
  BY <1>3, <1>5 DEF Seek, SetClock, listVars
<1>6. ASSUME NEW s \in Streams, Swap(s) PROVE Buffers'
  <2>1. pc \in {"clearing", "copying"} => This # s
    BY <1>6 DEF Swap, Buffers, WrittenIsNotOffered
  <2>2. buffer[s].back.whole
    BY <1>6 DEF Swap, Buffers, OfferedIsGood
  <2>3. UNCHANGED <<streams, at, pc>>
    BY <1>6 DEF Swap, listVars
  <2> QED
    BY <1>6, <2>1, <2>2, <2>3 DEF Swap, Swapped, Buffers, FrontWhole, OfferedIsGood,
                                 WrittenIsNotOffered, TypeOK, This
<1>7. CASE Stop
  <2>1. Kept
    BY <1>7 DEF Stop, InPass
  <2> QED
    BY <1>1, <2>1
<1>8. CASE Joined \/ Wake \/ Recheck \/ Rest \/ Erase \/ Tick \/ Begin \/ NothingDue
  <2>1. Kept
    BY <1>8 DEF Joined, Wake, Recheck, Look, Rest, Erase, Tick, Begin, NothingDue
  <2> QED
    BY <1>1, <2>1
<1>9. CASE Decode
  <2>1. Kept
    BY <1>9 DEF Decode
  <2> QED
    BY <1>1, <2>1
<1>10. CASE Lower
  <2>1. This' = This /\ This \in Streams
    BY <1>0, <1>10 DEF Lower, This, listVars, AtWork
  <2> QED
    BY <1>10, <2>1 DEF Lower, Lowered, Buffers, FrontWhole, OfferedIsGood,
                       WrittenIsNotOffered, TypeOK
<1>11. CASE Copy
  <2>1. This' = This /\ This \in Streams /\ ~buffer[This].ready
    BY <1>0, <1>11 DEF Copy, This, listVars, AtWork, Buffers, WrittenIsNotOffered
  <2> QED
    BY <1>11, <2>1 DEF Copy, Buffers, FrontWhole, OfferedIsGood, WrittenIsNotOffered, TypeOK
<1>12. CASE Raise
  <2>1. This \in Streams
    BY <1>0, <1>12 DEF Raise, AtWork
  <2> QED
    BY <1>12, <2>1 DEF Raise, Buffers, FrontWhole, OfferedIsGood, WrittenIsNotOffered, TypeOK,
                       Picture
<1>13. CASE UNCHANGED vars
  BY <1>3, <1>13 DEF vars, listVars
<1> QED
  BY <1>2, <1>4, <1>5, <1>6, <1>7, <1>8, <1>9, <1>10, <1>11, <1>12, <1>13
     DEF Next, Program, Worker, Closed

(* The list: without repetitions, with every stream held, and the worker   *)
(* on a place of it.                                                       *)
Listed == NoTwice(streams) /\ (~stopping => held \subseteq Elements(streams))

LEMMA ListStep == TypeOK /\ OnStream /\ Listed /\ [Next]_vars => Listed' /\ OnStream'
<1> SUFFICES ASSUME TypeOK, OnStream, Listed, [Next]_vars PROVE Listed' /\ OnStream'
  OBVIOUS
<1>1. ASSUME UNCHANGED <<streams, stopping>>, held' \subseteq held PROVE Listed'
  BY <1>1 DEF Listed
<1>2. ASSUME UNCHANGED streams, pc' \in AtWork => pc \in AtWork /\ at' = at,
             pc' = "visit" => at' >= 1, pc' \in {"ended", "joined"} => stopping'
      PROVE  OnStream'
  BY <1>2 DEF OnStream
<1>3. ASSUME NEW s \in Streams, Open(s) PROVE Listed' /\ OnStream'
  <2>1. NoTwice(Append(streams, s)) /\ Elements(Append(streams, s)) = Elements(streams) \cup {s}
    BY <1>3, AppendOne DEF Open, TypeOK, Listed
  <2>2. Listed'
    BY <1>3, <2>1 DEF Open, Listed
  <2>3. OnStream'
    BY <1>3 DEF Open, InPass, OnStream, AtWork
  <2> QED
    BY <2>2, <2>3
<1>4. ASSUME NEW s \in Streams, Drop(s) \/ Play(s) \/ Pause(s) \/ Swap(s)
      PROVE  Listed' /\ OnStream'
  BY <1>1, <1>2, <1>4 DEF OnStream, Drop, Play, Pause, SetClock, Swap, listVars
<1>5. ASSUME NEW s \in Streams, NEW t \in SeekTargets, Seek(s, t) PROVE Listed' /\ OnStream'
  BY <1>1, <1>2, <1>5 DEF OnStream, Seek, SetClock, listVars
<1>6. CASE Stop
  <2>1. Listed'
    BY <1>6 DEF Stop, Listed
  <2> QED
    BY <1>2, <1>6, <2>1 DEF OnStream, Stop
<1>7. CASE Joined
  <2>1. stopping
    BY <1>7 DEF Joined, OnStream
  <2> QED
    BY <1>7, <2>1 DEF Joined, Listed, NoTwice, OnStream, AtWork
<1>8. CASE Wake \/ Recheck \/ Rest
  BY <1>1, <1>2, <1>8 DEF OnStream, Wake, Recheck, Look, Rest, listVars, AtWork
<1>9. CASE Erase
  <2>1. NoTwice(Without(streams, at)) /\ Elements(Without(streams, at)) = Elements(streams) \ {This}
    BY <1>9, WithoutOne DEF Erase, TypeOK, Listed, This, OnStream
  <2>2. Listed'
    BY <1>9, <2>1 DEF Erase, Abandoned, Listed
  <2>3. OnStream'
    BY <1>9 DEF Erase, OnStream, AtWork
  <2> QED
    BY <2>2, <2>3
<1>10. CASE Tick
  <2>1. OnStream'
    BY <1>10 DEF Tick, OnStream, listVars, TypeOK
  <2> QED
    BY <1>1, <1>10, <2>1 DEF Tick, listVars
<1>11. CASE Begin \/ NothingDue \/ Lower \/ Copy \/ Raise
  BY <1>1, <1>2, <1>11 DEF OnStream, TypeOK, Begin, NothingDue, Lower, Copy, Raise, listVars, AtWork
<1>12. CASE Decode
  <2>1. pc' \in AtWork => pc \in AtWork /\ at' = at
    BY <1>12 DEF Decode, AtWork
  <2>2. at' >= 1 /\ pc' \notin {"ended", "joined"}
    BY <1>12 DEF Decode, OnStream, TypeOK, AtWork
  <2> QED
    BY <1>1, <1>2, <1>12, <2>1, <2>2 DEF Decode, listVars
<1>13. CASE UNCHANGED vars
  BY <1>1, <1>2, <1>13 DEF OnStream, vars, listVars
<1> QED
  BY <1>3, <1>4, <1>5, <1>6, <1>7, <1>8, <1>9, <1>10, <1>11, <1>12, <1>13
     DEF Next, Program, Worker, Closed

-----------------------------------------------------------------------------
(* IInv holds in every state of every behaviour.                           *)
THEOREM VideoInvariant == Spec => []IInv
<1>1. IInv /\ [Next]_vars => IInv'
  BY TypeStep, BuffersStep, ListStep DEF IInv, Listed, Buffers
<1> QED
  BY InitIInv, <1>1, PTL DEF Spec

(* Types, for every number of streams and frames.                          *)
THEOREM VideoTypes == Spec => []TypeOK
<1>1. IInv => TypeOK
  BY DEF IInv
<1> QED
  BY VideoInvariant, <1>1, PTL

(* Whenever the program draws, and however the worker is delayed, the      *)
(* picture it reads is one the worker has finished.                        *)
THEOREM PicturesAreWhole == Spec => []FrontWhole
<1>1. IInv => FrontWhole
  BY DEF IInv
<1> QED
  BY VideoInvariant, <1>1, PTL

(* swapBuffers "returns true if there is new data in the front buffer":    *)
(* what it is about to bring forward was written after what is in front.   *)
ReadyIsNew == \A s \in Streams : buffer[s].ready => buffer[s].back.latest

(* swapBuffers never brings back a picture that was in front before.       *)
THEOREM SwapsBringNews == Spec => []ReadyIsNew
<1>1. IInv => ReadyIsNew
  BY DEF IInv, OfferedIsGood, ReadyIsNew
<1> QED
  BY VideoInvariant, <1>1, PTL

(* No stream the program has open ever leaves the worker's list.           *)
THEOREM OpenStreamsAreFed == Spec => []HeldIsFed
<1>1. IInv => HeldIsFed
  BY DEF IInv, HeldIsFed, NoTwice
<1> QED
  BY VideoInvariant, <1>1, PTL

-----------------------------------------------------------------------------
(* The right frame.                                                        *)

(* Until a seek the decoder is as far as the demuxer, and the next frame   *)
(* is the one it has; a seek takes the times away until two packets more.  *)
Coherent(m) ==
  /\ m.next = -1 => m.last = -1
  /\ m.next # -1 => m.packets = m.frame /\ (m.next = m.frame \/ (m.next = 0 /\ m.frame = 1))

(* The frame in bufferinfo is the one before the decoder's next, taken out *)
(* because it was due; when the loop is over the next one is not.          *)
TakenOut ==
  /\ ~media[This].eos
  /\ media[This].last # -1 => media[This].next = out + 1 /\ (out <= pos \/ out = 1)

Settled ==
  /\ \A s \in Streams : Coherent(media[s])
  /\ pc \in {"decoding", "clearing", "copying"} /\ out # 0 => TakenOut
  /\ pc \in {"clearing", "copying"} => out # 0 /\ pos < media[This].next

LEMMA CoherentSteps ==
  /\ Coherent(NewMedia)
  /\ \A m \in Media, p \in 0..Frames : Coherent(Sought(m, p))
  /\ \A m \in Media : ~Ended(m) => Coherent(Decoded(m))
  /\ \A m \in Media : Coherent(m) => Coherent([m EXCEPT !.eos = TRUE])
BY VideoAssumption DEF Coherent, NewMedia, Sought, Decoded, Media

LEMMA SettledStep ==
  ASSUME TypeOK, OnStream, Settled, [Next]_vars PROVE Settled'
<1> USE VideoAssumption
<1>0. pc \in AtWork => This \in Streams /\ media[This] \in Media
  BY DEF OnStream, This, TypeOK
<1>1. ASSUME media' = media, pc' \notin {"decoding", "clearing", "copying"} PROVE Settled'
  BY <1>1 DEF Settled
<1>2. ASSUME UNCHANGED <<media, pc, streams, at, out, pos>> PROVE Settled'
  BY <1>2 DEF Settled, TakenOut, This
<1>3. ASSUME NEW s \in Streams, Open(s) PROVE Settled'
  <2>1. pc' \notin {"decoding", "clearing", "copying"}
    BY <1>3 DEF Open, InPass
  <2>2. \A x \in Streams : Coherent(media'[x])
    BY <1>3, CoherentSteps DEF Open, Settled, TypeOK
  <2> QED BY <2>1, <2>2 DEF Settled
<1>4. ASSUME NEW s \in Streams, Drop(s) \/ Play(s) \/ Pause(s) \/ Swap(s) PROVE Settled'
  BY <1>2, <1>4 DEF Drop, Play, Pause, SetClock, Swap, localVars, listVars
<1>5. ASSUME NEW s \in Streams, NEW t \in SeekTargets, Seek(s, t) PROVE Settled'
  BY <1>2, <1>5 DEF Seek, SetClock, localVars, listVars
<1>6. CASE Stop \/ Joined \/ Wake \/ Recheck \/ Rest \/ Erase \/ Tick \/ NothingDue \/ Raise
  BY <1>1, <1>6 DEF Stop, InPass, Joined, Wake, Recheck, Look, Rest, Erase, Tick, NothingDue, Raise
<1>7. CASE Begin
  <2>1. This \in Streams /\ media[This] \in Media
    BY <1>0, <1>7 DEF Begin, AtWork
  <2>2. \A t, p : p \in Landings(t) => p \in 0..Frames
    BY DEF Landings
  <2>3. (\E p \in 0..Frames : media' = [media EXCEPT ![This] = Sought(@, p)]) \/ media' = media
    BY <1>7, <2>2 DEF Begin
  <2>4. \A s \in Streams : Coherent(media'[s])
    BY <2>1, <2>3, CoherentSteps DEF Settled, TypeOK
  <2>5. pc' = "decoding" /\ out' = 0
    BY <1>7 DEF Begin
  <2> QED BY <2>4, <2>5 DEF Settled
<1>8. CASE Decode
  <2>1. This \in Streams /\ media[This] \in Media
    BY <1>0, <1>8 DEF Decode, AtWork
  <2>2. PICK n \in Media :
          /\ n = media[This] \/ n.next = -1
          /\ Coherent(n) /\ ~n.eos
          /\ media' = [media EXCEPT ![This] =
               IF Ended(n) THEN [n EXCEPT !.eos = TRUE] ELSE Decoded(n)]
          /\ pc' = IF Ended(n) THEN "visit" ELSE pc
    <3>1. \A p \in 0..Frames :
            /\ Sought(media[This], p) \in Media /\ Sought(media[This], p).next = -1
            /\ Coherent(Sought(media[This], p)) /\ ~Sought(media[This], p).eos
      BY <2>1, SoughtType, CoherentSteps DEF Sought
    <3>2. \A p \in Landings(pos) : p \in 0..Frames
      BY DEF Landings
    <3>3. Coherent(media[This]) /\ ~media[This].eos
      BY <1>8, <2>1 DEF Decode, Due, Settled
    <3> QED
      BY <1>8, <2>1, <3>1, <3>2, <3>3 DEF Decode
  <2>3. \A s \in Streams : Coherent(media'[s])
    BY <2>1, <2>2, CoherentSteps DEF Settled, TypeOK
  <2>4. CASE Ended(n)
    BY <2>2, <2>3, <2>4 DEF Settled
  <2>5. CASE ~Ended(n)
    <3>1. media'[This] = Decoded(n) /\ pc' = "decoding" /\ This' = This /\ pos' = pos
      BY <1>8, <2>1, <2>2, <2>5 DEF Decode, listVars, This, TypeOK
    <3>2. out' = media[This].frame /\ pos >= media[This].next
      BY <1>8 DEF Decode, Due
    <3>3. TakenOut'
      <4>1. ~media'[This].eos /\ media'[This].last = n.next /\ media'[This].next = n.packets + 1
        BY <2>2, <3>1 DEF Decoded
      <4>2. ASSUME n.next # -1
            PROVE  media'[This].next = out' + 1 /\ (out' <= pos' \/ out' = 1)
        <5>1. n = media[This]
          BY <2>2, <4>2
        <5> QED BY <2>2, <3>1, <3>2, <4>1, <4>2, <5>1 DEF Coherent, Media
      <4> QED BY <3>1, <4>1, <4>2 DEF TakenOut
    <3> QED BY <2>3, <3>1, <3>3 DEF Settled
  <2> QED BY <2>4, <2>5
<1>9. CASE Lower
  <2>1. This' = This /\ media' = media /\ out' = out /\ pos' = pos /\ out # 0
    BY <1>9 DEF Lower, This, listVars, localVars
  <2>2. TakenOut
    BY <1>9 DEF Lower, Settled
  <2>3. pos < media[This].next
    <3>1. pos \in Int /\ media[This].next \in Int
      BY <1>0, <1>9 DEF Lower, AtWork, TypeOK, Media
    <3> QED BY <1>9, <2>2, <3>1 DEF Lower, Due, TakenOut
  <2> QED BY <1>9, <2>1, <2>2, <2>3 DEF Lower, Settled, TakenOut
<1>10. CASE Copy
  <2>1. This' = This /\ media' = media /\ out' = out /\ pos' = pos /\ pc = "clearing"
    BY <1>10 DEF Copy, This, listVars, localVars
  <2> QED BY <1>10, <2>1 DEF Copy, Settled, TakenOut
<1>11. CASE UNCHANGED vars
  BY <1>2, <1>11 DEF vars, localVars, listVars
<1> QED
  BY <1>3, <1>4, <1>5, <1>6, <1>7, <1>8, <1>9, <1>10, <1>11 DEF Next, Program, Worker, Closed

(* After a seek only the first frame taken out may be wrong.               *)
THEOREM RightAfterSeek == Spec => []RightOnceSettled
<1>1. Init => Settled
  BY CoherentSteps DEF Init, Settled
<1>2. IInv /\ Settled /\ [Next]_vars => Settled'
  BY SettledStep DEF IInv
<1>3. IInv /\ Settled => RightOnceSettled
  BY DEF Settled, TakenOut, RightOnceSettled, RightFrame
<1> QED
  BY <1>1, <1>2, <1>3, VideoInvariant, PTL DEF Spec

-----------------------------------------------------------------------------
(* Wakeups and the end.                                                    *)

(* A worker that waits unsignalled has nothing to do and nobody to heed.   *)
NoWakeupLost == pc = "waiting" /\ ~signalled => streams = <<>> /\ ~stopping

(* ~Video runs once every wrapper is gone, and none comes after.           *)
NobodyLeft == stopping => held = {}

LEMMA WakeupStep ==
  ASSUME TypeOK, NoWakeupLost, NobodyLeft, [Next]_vars PROVE NoWakeupLost' /\ NobodyLeft'
<1> USE DEF NoWakeupLost, NobodyLeft
<1>1. ASSUME NEW s \in Streams, Open(s) PROVE NoWakeupLost' /\ NobodyLeft'
  BY <1>1 DEF Open, Broadcast, TypeOK
<1>2. ASSUME NEW s \in Streams, Drop(s) \/ Play(s) \/ Pause(s) \/ Swap(s)
      PROVE  NoWakeupLost' /\ NobodyLeft'
  BY <1>2 DEF Drop, Play, Pause, SetClock, Swap, listVars
<1>3. ASSUME NEW s \in Streams, NEW t \in SeekTargets, Seek(s, t)
      PROVE  NoWakeupLost' /\ NobodyLeft'
  BY <1>3 DEF Seek, SetClock, listVars
<1>4. CASE Stop
  BY <1>4 DEF Stop, Broadcast, TypeOK
<1>5. CASE Wake \/ Recheck
  BY <1>5 DEF Wake, Recheck, Look
<1>6. CASE Joined \/ Rest \/ Erase
  BY <1>6 DEF Joined, Rest, Erase, listVars
<1>7. CASE Tick \/ Begin \/ NothingDue \/ Lower \/ Copy \/ Raise
  BY <1>7 DEF Tick, Begin, NothingDue, Lower, Copy, Raise, listVars
<1>8. CASE Decode
  BY <1>8 DEF Decode, listVars
<1>9. CASE UNCHANGED vars
  BY <1>9 DEF vars, listVars
<1> QED
  BY <1>1, <1>2, <1>3, <1>4, <1>5, <1>6, <1>7, <1>8, <1>9 DEF Next, Program, Worker, Closed

(* Whoever gives the waiting worker something to do signals it, so that it *)
(* never sleeps over a stream or over the request to stop.                 *)
THEOREM WaitersAreSignalled == Spec => [](NoWakeupLost /\ NobodyLeft)
<1>1. Init => NoWakeupLost /\ NobodyLeft
  BY DEF Init, NoWakeupLost, NobodyLeft
<1>2. IInv /\ NoWakeupLost /\ NobodyLeft /\ [Next]_vars => (NoWakeupLost /\ NobodyLeft)'
  BY WakeupStep DEF IInv
<1> QED
  BY <1>1, <1>2, VideoInvariant, PTL DEF Spec

-----------------------------------------------------------------------------
(* A video that is never sought, with a worker that is never later than    *)
(* the frames it is ready to catch up with.                                *)
PlayedStraight == SeekTargets = {} /\ MaxStep <= MaxBehind + 1

NeverSought == \A s \in Streams : media[s].last # -1

(* The decoder would be ahead of the clock if that were n frames further,  *)
(* as it is but while the worker is on the stream; n grows with every frame*)
(* taken out.  Before the first one it is the first that comes next.       *)
Ahead(s, n) ==
  media[s].eos \/ clock[s].position + n < media[s].next \/ (media[s].next = 0 /\ clock[s].position + n <= 0)

InTime ==
  /\ NeverSought
  /\ \A s \in Streams :
       /\ media[s].next # -1 /\ media[s].last <= clock[s].position
       /\ Ahead(s, 0) \/ (pc \in {"position", "decoding"} /\ s = This)
  /\ pc = "position" => Ahead(This, -MaxStep)
  /\ pc = "decoding" => Ahead(This, behind - MaxStep)
  /\ pc = "decoding" /\ media[This].next = 0 => behind = 0
  /\ pc \in {"decoding", "clearing", "copying"} => pos = clock[This].position

LEMMA InTimeStep ==
  ASSUME PlayedStraight, TypeOK, OnStream, Settled, NoTwice(streams), InTime, [Next]_vars
  PROVE  InTime'
<1> USE VideoAssumption DEF NeverSought, Ahead
<1>0. pc \in AtWork => This \in Streams /\ media[This] \in Media
  BY DEF OnStream, This, TypeOK
<1>t. \A s \in Streams :
        /\ clock[s].position \in Nat
        /\ media[s].last \in Int /\ media[s].next \in Int /\ media[s].packets \in Nat
        /\ media[s].frame \in Nat
  BY DEF TypeOK, Media
<1> DEFINE Away == pc \notin {"position", "decoding", "clearing", "copying"}
<1>1. ASSUME UNCHANGED <<media, clock>>, Away, Away' PROVE InTime'
  BY <1>1 DEF InTime
<1>2. ASSUME UNCHANGED <<media, pc, streams, at, pos, behind>>,
             \A s \in Streams : clock'[s].position = clock[s].position
      PROVE  InTime'
  <2>1. This' = This
    BY <1>2 DEF This
  <2> QED BY <1>0, <1>2, <2>1 DEF InTime, AtWork
<1>3. ASSUME NEW s \in Streams, Open(s) PROVE InTime'
  <2>1. Away /\ Away'
    BY <1>3 DEF Open, InPass
  <2>2. \A x \in Streams : /\ clock'[x] = IF x = s THEN NewClock ELSE clock[x]
                           /\ media'[x] = IF x = s THEN NewMedia ELSE media[x]
    BY <1>3 DEF Open, TypeOK
  <2> QED BY <2>1, <2>2 DEF InTime, NewClock, NewMedia
<1>4. ASSUME NEW s \in Streams, Play(s) \/ Pause(s) PROVE InTime'
  <2>1. \A x \in Streams : clock'[x].position = clock[x].position
    <3>1. PICK b \in BOOLEAN : clock' = [clock EXCEPT ![s] = [clock[s] EXCEPT !.playing = b]]
      BY <1>4 DEF Play, Pause, SetClock
    <3>2. [clock[s] EXCEPT !.playing = b].position = clock[s].position
      BY DEF TypeOK
    <3> QED BY <3>1, <3>2 DEF TypeOK
  <2> QED BY <1>2, <1>4, <2>1 DEF Play, Pause, SetClock, localVars, listVars
<1>5. ASSUME NEW s \in Streams, Drop(s) \/ Swap(s) PROVE InTime'
  BY <1>2, <1>5 DEF Drop, Swap, localVars, listVars
<1>6. CASE Stop \/ Joined \/ Wake \/ Recheck \/ Rest \/ Erase
  BY <1>1, <1>6 DEF Stop, InPass, Joined, Wake, Recheck, Look, Rest, Erase
<1>7. CASE Tick
  <2>1. This \in Streams /\ This' = This
    BY <1>7 DEF Tick, This, TypeOK, OnStream, listVars
  <2>2. /\ UNCHANGED media /\ pc' = "position"
        /\ \A s \in Streams : s # This => clock'[s] = clock[s]
    BY <1>7, <2>1 DEF Tick, TypeOK
  <2>3. /\ clock'[This].position >= clock[This].position
        /\ clock'[This].position <= clock[This].position + MaxStep
    <3> DEFINE later == clock[This].position + dt
               n == IF clock[This].playing THEN IF later > Frames + 1 THEN Frames + 1 ELSE later
                                           ELSE clock[This].position
    <3>1. clock' = [clock EXCEPT ![This].position = n]
      BY <1>7 DEF Tick
    <3>2. clock[This].position \in 0..(Frames + 1) /\ dt \in 0..MaxStep
      BY <2>1 DEF TypeOK
    <3>3. n >= clock[This].position /\ n <= clock[This].position + MaxStep
      BY <3>2
    <3> HIDE DEF n
    <3>4. clock'[This].position = n
      BY <2>1, <3>1 DEF TypeOK
    <3> QED BY <3>3, <3>4
  <2>4. clock'[This].position \in Int
    <3>1. TypeOK'
      BY TypeStep
    <3> QED BY <2>1, <3>1 DEF TypeOK
  <2>5. \A s \in Streams : Ahead(s, 0)
    BY <1>7 DEF InTime, Tick
  <2> QED BY <1>t, <2>1, <2>2, <2>3, <2>4, <2>5 DEF InTime
<1>8. CASE Begin
  <2>1. This \in Streams /\ This' = This
    BY <1>0, <1>8 DEF Begin, AtWork, This, listVars
  <2>2. media' = media
    BY <1>8, <1>t, <2>1 DEF Begin, InTime
  <2>3. pos' = clock[This].position /\ pc' = "decoding" /\ pc = "position" /\ behind' = 0 /\ clock' = clock
    BY <1>8 DEF Begin
  <2> QED BY <1>t, <2>1, <2>2, <2>3 DEF InTime
<1>9. CASE Decode
  <2>1. This \in Streams /\ media[This] \in Media
    BY <1>0, <1>9 DEF Decode, AtWork
  <2>2. /\ pos = clock[This].position /\ pos >= media[This].next /\ ~media[This].eos
        /\ Ahead(This, behind - MaxStep)
        /\ media[This].next = 0 => behind = 0
    BY <1>9, <2>1 DEF Decode, Due, InTime
  <2>3. ~(behind > MaxBehind)
    BY <1>t, <2>1, <2>2 DEF PlayedStraight, TypeOK
  <2> DEFINE m == media[This]
  <2>4. /\ media' = [media EXCEPT ![This] = IF Ended(m) THEN [m EXCEPT !.eos = TRUE] ELSE Decoded(m)]
        /\ pc' = IF Ended(m) THEN "visit" ELSE pc
        /\ behind' = behind + 1 /\ pos' = pos /\ clock' = clock /\ streams' = streams
    BY <1>9, <2>3 DEF Decode, listVars
  <2>5. \A s \in Streams : s # This => media'[s] = media[s]
    BY <2>4 DEF TypeOK
  <2>6. \A s \in Streams : s # This => Ahead(s, 0)
    BY <1>9 DEF InTime
  <2>7. CASE Ended(m)
    <3>1. media'[This] = [m EXCEPT !.eos = TRUE] /\ pc' = "visit"
      BY <2>1, <2>4, <2>7 DEF TypeOK
    <3>2. media'[This].eos /\ media'[This].next = m.next /\ media'[This].last = m.last
      BY <2>1, <3>1 DEF Media
    <3> QED BY <1>t, <2>1, <2>4, <2>5, <2>6, <3>1, <3>2 DEF InTime
  <2>8. CASE ~Ended(m)
    <3>1. media'[This] = Decoded(m) /\ pc' = "decoding" /\ This' = This
      BY <1>9, <2>1, <2>4, <2>8 DEF Decode, This, TypeOK, listVars
    <3>2. /\ media'[This].last = m.next /\ media'[This].next = m.packets + 1
          /\ media'[This].next >= m.next + 1
          /\ m.next = 0 => media'[This].next = 2
      <4>1. Coherent(m) /\ m.next # -1
        BY <2>1 DEF Settled, InTime
      <4> QED BY <2>1, <3>1, <4>1 DEF Decoded, Coherent, Media
    <3>3. m.next # -1 /\ m.next \in Int /\ m.packets \in Nat /\ pos \in Int /\ behind \in Int
      BY <2>1 DEF InTime, Media, TypeOK
    <3>4. /\ media'[This].next # -1 /\ media'[This].next # 0 /\ m.next >= 0
          /\ clock[This].position + (behind + 1 - MaxStep) < media'[This].next
      BY <1>t, <2>1, <2>2, <3>1, <3>2, <3>3 DEF Media
    <3>5. \A s \in Streams : s # This => UNCHANGED <<media[s], clock[s]>>
      BY <2>4, <2>5
    <3>6. \A s \in Streams : s # This => Ahead(s, 0)'
      BY <2>6, <3>5
    <3>7. NeverSought' /\ \A s \in Streams : media'[s].next # -1 /\ media'[s].last <= clock'[s].position
      BY <2>1, <2>2, <2>4, <3>2, <3>3, <3>4, <3>5 DEF InTime
    <3>8. Ahead(This, behind - MaxStep)'
      BY <1>t, <2>1, <2>4, <3>1, <3>3, <3>4
    <3> QED BY <2>1, <2>2, <2>4, <3>1, <3>4, <3>6, <3>7, <3>8 DEF InTime
  <2> QED BY <2>7, <2>8
<1>10. CASE NothingDue \/ Lower
  <2>1. This \in Streams /\ pos = clock[This].position /\ media' = media /\ clock' = clock /\ pos' = pos
    BY <1>0, <1>10 DEF NothingDue, Lower, AtWork, InTime, localVars
  <2>2. ~media[This].eos => pos < media[This].next
    BY <1>t, <1>10, <2>1 DEF NothingDue, Lower, Due
  <2>3. \A s \in Streams : s # This => Ahead(s, 0)
    BY <1>10 DEF InTime
  <2>4. \A s \in Streams : Ahead(s, 0)
    BY <1>t, <2>1, <2>2, <2>3
  <2>5. pc' = "visit" \/ (pc' = "clearing" /\ This' = This)
    BY <1>10 DEF NothingDue, Lower, This, listVars
  <2> QED BY <1>t, <2>1, <2>4, <2>5 DEF InTime
<1>11. CASE Copy
  <2>1. /\ This' = This /\ media' = media /\ clock' = clock /\ pos' = pos
        /\ pc = "clearing" /\ pc' = "copying"
    BY <1>11 DEF Copy, This, listVars, localVars
  <2> QED BY <1>t, <2>1 DEF InTime
<1>12. CASE Raise
  <2>1. media' = media /\ clock' = clock /\ pc' = "visit" /\ pc = "copying"
    BY <1>12 DEF Raise
  <2> QED BY <1>t, <2>1 DEF InTime
<1>13. CASE UNCHANGED vars
  BY <1>2, <1>13 DEF vars, localVars, listVars
<1>14. ASSUME NEW s \in Streams, NEW t \in SeekTargets, Seek(s, t) PROVE InTime'
  BY DEF PlayedStraight
<1> QED
  BY <1>3, <1>4, <1>5, <1>6, <1>7, <1>8, <1>9, <1>10, <1>11, <1>12, <1>13, <1>14
     DEF Next, Program, Worker, Closed

(* Played straight, by a worker no later than the limit of framesBehind    *)
(* and one, a video shows the right frame, and its decoder never seeks.    *)
THEOREM StraightIsRight == PlayedStraight => (Spec => [](RightFrame /\ NeverSought))
<1> SUFFICES ASSUME PlayedStraight PROVE Spec => [](RightFrame /\ NeverSought)
  OBVIOUS
<1>1. Init => Settled /\ InTime
  <2>1. Init => Settled
    BY CoherentSteps DEF Init, Settled
  <2>2. Init => InTime
    BY DEF Init, InTime, NeverSought, Ahead, NewMedia, NewClock
  <2> QED BY <2>1, <2>2
<1>2. IInv /\ Settled /\ InTime /\ [Next]_vars => (Settled /\ InTime)'
  BY SettledStep, InTimeStep DEF IInv
<1>3. InTime => NeverSought
  BY DEF InTime
<1>4. IInv /\ Settled /\ InTime => RightFrame
  <2> SUFFICES ASSUME IInv, Settled, InTime, pc \in {"clearing", "copying"}
               PROVE  pos < out + 1 /\ (out <= pos \/ out = 1)
    BY DEF RightFrame
  <2>1. This \in Streams
    BY DEF IInv, OnStream, AtWork, This, TypeOK
  <2> QED BY <2>1 DEF Settled, TakenOut, InTime, NeverSought
<1> QED
  BY <1>1, <1>2, <1>3, <1>4, VideoInvariant, PTL DEF Spec

-----------------------------------------------------------------------------
(* The buffers implement PictureRelay.                                     *)

Offers(b) == IF b.ready THEN Seen(b.back) ELSE -1

(* What one stream's buffers show and offer when the others are left alone.*)
LEMMA RelayOf ==
  ASSUME buffer \in [Streams -> [front : Picture, back : Picture, ready : BOOLEAN]],
         NEW s \in Streams, NEW b, buffer' = [buffer EXCEPT ![s] = b],
         NEW shown, NEW offered, NEW shownNext, NEW offeredNext,
         shown   = [t \in Streams |-> Seen(buffer[t].front)],
         offered = [t \in Streams |-> Offers(buffer[t])],
         shownNext   = [t \in Streams |-> Seen(buffer'[t].front)],
         offeredNext = [t \in Streams |-> Offers(buffer'[t])]
  PROVE  /\ shownNext = [shown EXCEPT ![s] = Seen(b.front)]
         /\ offeredNext = [offered EXCEPT ![s] = Offers(b)]
         /\ shown[s] = Seen(buffer[s].front) /\ offered[s] = Offers(buffer[s])
<1>1. buffer'[s] = b /\ \A t \in Streams : t # s => buffer'[t] = buffer[t]
  OBVIOUS
<1>2. ASSUME NEW t \in Streams
      PROVE  /\ shownNext[t] = [shown EXCEPT ![s] = Seen(b.front)][t]
             /\ offeredNext[t] = [offered EXCEPT ![s] = Offers(b)][t]
  <2>1. CASE t = s
    BY <1>1, <2>1
  <2>2. CASE t # s
    BY <1>1, <2>2
  <2> QED BY <2>1, <2>2
<1> QED BY <1>2

LEMMA RelayStep ==
  ASSUME IInv, Settled, [Next]_vars
  PROVE  [Relay!Next]_(Relay!vars)
<1>0. /\ buffer \in [Streams -> [front : Picture, back : Picture, ready : BOOLEAN]]
      /\ OnStream /\ FrontWhole /\ OfferedIsGood /\ WrittenIsNotOffered
      /\ pc \in AtWork => This \in Streams
  BY DEF IInv, TypeOK, OnStream, This
<1>1. PICK shown, offered, shownNext, offeredNext :
        /\ shown   = [t \in Streams |-> Seen(buffer[t].front)]
        /\ offered = [t \in Streams |-> Offers(buffer[t])]
        /\ shownNext   = [t \in Streams |-> Seen(buffer'[t].front)]
        /\ offeredNext = [t \in Streams |-> Offers(buffer'[t])]
  OBVIOUS
<1>2. ASSUME shownNext = shown, offeredNext = offered PROVE [Relay!Next]_(Relay!vars)
  BY <1>1, <1>2 DEF Relay!vars, Offers
<1>3. ASSUME NEW s \in Streams, NEW p \in 1..Frames, offered[s] = -1,
             shownNext = shown, offeredNext = [offered EXCEPT ![s] = p]
      PROVE  Relay!Next
  <2>1. Relay!Offer(s, p)
    BY <1>1, <1>3 DEF Relay!Offer, Offers
  <2> QED BY <2>1 DEF Relay!Next
<1>4. ASSUME NEW s \in Streams,
             shownNext = shown, offeredNext = [offered EXCEPT ![s] = -1]
      PROVE  Relay!Next
  <2>1. Relay!Withdraw(s)
    BY <1>1, <1>4 DEF Relay!Withdraw, Offers
  <2> QED BY <2>1 DEF Relay!Next
<1>5. ASSUME NEW s \in Streams, offered[s] # -1,
             shownNext = [shown EXCEPT ![s] = offered[s]],
             offeredNext = [offered EXCEPT ![s] = -1]
      PROVE  Relay!Next
  <2>1. Relay!Take(s)
    BY <1>1, <1>5 DEF Relay!Take, Offers
  <2> QED BY <2>1 DEF Relay!Next
<1>6. ASSUME NEW s \in Streams, shownNext = [shown EXCEPT ![s] = 0],
             offeredNext = [offered EXCEPT ![s] = -1]
      PROVE  Relay!Next
  <2>1. Relay!Begin(s)
    BY <1>1, <1>6 DEF Relay!Begin, Offers
  <2> QED BY <2>1 DEF Relay!Next
<1>7. ASSUME UNCHANGED buffer PROVE [Relay!Next]_(Relay!vars)
  BY <1>1, <1>2, <1>7
<1>8. ASSUME NEW s \in Streams, Open(s) PROVE Relay!Next
  <2>1. buffer' = [buffer EXCEPT ![s] = NewBuffer]
    BY <1>8 DEF Open
  <2>2. /\ shownNext = [shown EXCEPT ![s] = Seen(NewBuffer.front)]
        /\ offeredNext = [offered EXCEPT ![s] = Offers(NewBuffer)]
    BY <1>0, <1>1, <2>1, RelayOf
  <2>3. Seen(NewBuffer.front) = 0 /\ Offers(NewBuffer) = -1
    BY DEF NewBuffer, Black, Seen, Offers
  <2> QED BY <1>6, <2>2, <2>3
<1>9. ASSUME NEW s \in Streams, Swap(s) PROVE Relay!Next
  <2>1. buffer' = [buffer EXCEPT ![s] = Swapped(buffer[s])] /\ buffer[s].ready
    BY <1>9 DEF Swap
  <2>2. /\ shownNext = [shown EXCEPT ![s] = Seen(Swapped(buffer[s]).front)]
        /\ offeredNext = [offered EXCEPT ![s] = Offers(Swapped(buffer[s]))]
        /\ offered[s] = Offers(buffer[s])
    BY <1>0, <1>1, <2>1, RelayOf
  <2>3. /\ buffer[s].back \in Picture /\ buffer[s].back.whole
        /\ Swapped(buffer[s]).front = buffer[s].back /\ ~Swapped(buffer[s]).ready
    BY <1>0, <2>1 DEF Swapped, OfferedIsGood
  <2>4. Seen(buffer[s].back) \in 0..Frames
    BY <2>3 DEF Seen, Picture
  <2>5. offered[s] = Seen(buffer[s].back) /\ offered[s] # -1
    BY <2>1, <2>2, <2>4, VideoAssumption DEF Offers
  <2>6. Offers(Swapped(buffer[s])) = -1
    BY <2>3 DEF Offers
  <2> QED BY <1>5, <2>2, <2>3, <2>5, <2>6
<1>10. CASE Lower
  <2>1. This \in Streams /\ buffer' = [buffer EXCEPT ![This] = Lowered(buffer[This])]
    BY <1>0, <1>10 DEF Lower, AtWork
  <2>2. /\ shownNext = [shown EXCEPT ![This] = Seen(Lowered(buffer[This]).front)]
        /\ offeredNext = [offered EXCEPT ![This] = Offers(Lowered(buffer[This]))]
        /\ shown[This] = Seen(buffer[This].front)
    BY <1>0, <1>1, <2>1, RelayOf
  <2>3. /\ Lowered(buffer[This]).front = buffer[This].front /\ ~Lowered(buffer[This]).ready
    BY <1>0, <2>1 DEF Lowered
  <2>4. Offers(Lowered(buffer[This])) = -1
    BY <2>3 DEF Offers
  <2>5. shownNext = shown
    BY <1>1, <2>2, <2>3
  <2> QED BY <1>4, <2>1, <2>2, <2>4, <2>5
<1>11. CASE Copy
  <2>1. /\ This \in Streams /\ ~buffer[This].ready
        /\ buffer' = [buffer EXCEPT ![This].back.whole = FALSE]
    BY <1>0, <1>11 DEF Copy, AtWork, WrittenIsNotOffered
  <2>2. PICK b : b = [buffer[This] EXCEPT !.back.whole = FALSE]
    OBVIOUS
  <2>3. buffer' = [buffer EXCEPT ![This] = b] /\ b.front = buffer[This].front /\ ~b.ready
    BY <1>0, <2>1, <2>2
  <2>4. /\ shownNext = [shown EXCEPT ![This] = Seen(b.front)]
        /\ offeredNext = [offered EXCEPT ![This] = Offers(b)]
        /\ shown[This] = Seen(buffer[This].front) /\ offered[This] = Offers(buffer[This])
    BY <1>0, <1>1, <2>1, <2>3, RelayOf
  <2>5. Offers(b) = offered[This]
    BY <2>1, <2>3, <2>4 DEF Offers
  <2> QED BY <1>1, <1>2, <2>3, <2>4, <2>5
<1>12. CASE Raise
  <2>1. /\ This \in Streams /\ ~buffer[This].ready /\ out \in 1..Frames
        /\ buffer' = [buffer EXCEPT ![This] =
             [front |-> [buffer[This].front EXCEPT !.latest = FALSE],
              back  |-> [frame |-> out, whole |-> TRUE, latest |-> TRUE], ready |-> TRUE]]
    BY <1>0, <1>12 DEF Raise, AtWork, WrittenIsNotOffered, Settled, IInv, TypeOK
  <2>2. PICK b : b = [front |-> [buffer[This].front EXCEPT !.latest = FALSE],
                      back  |-> [frame |-> out, whole |-> TRUE, latest |-> TRUE], ready |-> TRUE]
    OBVIOUS
  <2>3. Seen(b.front) = Seen(buffer[This].front)
    BY <1>0, <2>1, <2>2 DEF Seen, Picture
  <2>4. Offers(b) = out
    BY <2>2 DEF Offers, Seen
  <2>5. /\ shownNext = [shown EXCEPT ![This] = Seen(b.front)]
        /\ offeredNext = [offered EXCEPT ![This] = Offers(b)]
        /\ shown[This] = Seen(buffer[This].front) /\ offered[This] = Offers(buffer[This])
    BY <1>0, <1>1, <2>1, <2>2, RelayOf
  <2>6. offered[This] = -1
    BY <2>1, <2>5 DEF Offers
  <2>7. shownNext = shown
    BY <1>1, <2>3, <2>5
  <2> QED BY <1>3, <2>1, <2>4, <2>5, <2>6, <2>7
<1>13. ASSUME NEW s \in Streams, Drop(s) \/ Play(s) \/ Pause(s) \/ \E t \in SeekTargets : Seek(s, t)
       PROVE  [Relay!Next]_(Relay!vars)
  BY <1>7, <1>13 DEF Drop, Play, Pause, Seek, SetClock
<1>14. CASE \/ Stop \/ Joined \/ Wake \/ Recheck \/ Rest \/ Erase \/ Tick \/ Begin \/ NothingDue
            \/ Decode \/ UNCHANGED vars
  BY <1>7, <1>14 DEF Stop, Joined, Wake, Recheck, Look, Rest, Erase, Tick, Begin, NothingDue,
                     Decode, vars
<1> QED
  BY <1>8, <1>9, <1>10, <1>11, <1>12, <1>13, <1>14 DEF Next, Program, Worker, Closed

(* "Don't swap whilst we're writing to the backbuffer", and swapBuffers'   *)
(* "returns true if there is new data in the front buffer": together they  *)
(* hand over whole pictures, each at most once, through one place.         *)
THEOREM BuffersImplementRelay == Spec => RelaySpec
<1>1. Init => Relay!Init
  BY DEF Init, Relay!Init, NewBuffer, Black, Seen
<1>2. Init => Settled
  BY CoherentSteps DEF Init, Settled
<1>3. IInv /\ Settled /\ [Next]_vars => Settled'
  BY SettledStep DEF IInv
<1>4. IInv /\ Settled /\ [Next]_vars => [Relay!Next]_(Relay!vars)
  BY RelayStep
<1> QED
  BY <1>1, <1>2, <1>3, <1>4, VideoInvariant, PTL DEF Spec, RelaySpec, Relay!Spec
=============================================================================
