------------------------- MODULE AudioVoicesProofs -------------------------
(***************************************************************************)
(* What the Sources of AudioPool do with the voices and buffers they are   *)
(* given, for every set of Sources and voices and every number of buffers, *)
(* as long as the program seeks inside its sounds, alSourcePlayv succeeds, *)
(* and the mixer does not move inside one pass of update().  (The run      *)
(* AudioPool_stale shows what a seek past the end can do.)                 *)
(*                                                                         *)
(* A step gives the voices of a group back and moves the others along      *)
(* (Shift), lends voices to a group (Lend), or makes a Source.             *)
(*                                                                         *)
(* The types come last, and whose voice a Source in the pool drives: they  *)
(* hold without any of those conditions.                                   *)
(***************************************************************************)
EXTENDS AudioPoolProofs

Careful == "past" \notin SeekTargets /\ ~PlayvMayFail /\ ~MixerInUpdate

(* The state of a voice: one that sounds or waits has something to play.   *)
VoiceRec == [state : {"initial", "playing", "paused", "stopped"},
             content : Sources \cup {NoSource}, todo : Nat, done : Nat,
             loop : BOOLEAN]
Sane(a) == a \in VoiceRec /\ (a.state \in {"playing", "paused"} => a.todo > 0)

SourceTypes ==
  /\ valid \in [Sources -> BOOLEAN]
  /\ voice \in [Sources -> Voices \cup {NoVoice}]
  /\ unused \in [Sources -> Nat] /\ bufs \in [Sources -> Nat]
  /\ left \in [Sources -> Nat] /\ looping \in [Sources -> BOOLEAN]

(* A stream that has a voice queued some of its buffers on it and keeps    *)
(* the others; without the first, resumeAtomic() gives the voice back and  *)
(* play() sets valid all the same.                                         *)
Carries(s, a) ==
  /\ a.todo + a.done > 0 /\ a.state # "initial"
  /\ unused[s] + a.todo + a.done = Buffers

(* A Source in the pool drives its own voice; one that is not holds all    *)
(* its buffers, and its decoder has something left.                        *)
Fine(s) ==
  IF InPool(s)
  THEN /\ valid[s] /\ voice[s] = playing[s] /\ al[playing[s]].content = s
       /\ s \in Streams => Carries(s, al[playing[s]])
  ELSE /\ ~valid[s]
       /\ s \in Streams /\ refs[s] > 0 => unused[s] = Buffers /\ left[s] > 0

Lent(v) == \E s \in Sources : playing[s] = v

InOrder ==
  /\ SourceTypes /\ al \in [Voices -> VoiceRec]
  /\ alError = FALSE
  /\ \A v \in Voices : Sane(al[v]) /\ (~Lent(v) => al[v] = Blank)
  /\ \A s \in Sources : Fine(s)
  /\ \A s \in Streams : refs[s] > 0 => bufs[s] = Buffers

-----------------------------------------------------------------------------
(* OpenAL's operations.                                                    *)

(* b is a later state of a voice in state a that nobody attached anything  *)
(* to, and took nothing from.                                              *)
Along(a, b) ==
  /\ Sane(b) /\ b.content = a.content
  /\ b.todo + b.done = a.todo + a.done
  /\ a.state # "initial" => b.state # "initial"

(* A voice nobody drives.                                                  *)
LEMMA BlankIsSane == Sane(Blank)
BY DEF Sane, VoiceRec, Blank

(* alSourceStop, and what else ends a voice.                               *)
LEMMA StopGoesAlong ==
  ASSUME NEW a, Sane(a)
  PROVE  Along(a, AlStop(a)) /\ AlStop(a).state = "stopped"
<1>1. a \in VoiceRec /\ a.todo \in Nat /\ a.done \in Nat
  BY DEF Sane, VoiceRec
<1>2. a.todo + a.done \in Nat /\ 0 \in Nat
  BY <1>1
<1>3. PICK b : b = AlStop(a)
  OBVIOUS
<1>4. PICK d \in Nat : d = a.todo + a.done
  BY <1>2
<1>5. b = [a EXCEPT !.state = "stopped", !.todo = 0, !.done = d]
  BY <1>3, <1>4 DEF AlStop
<1>6. b \in VoiceRec
  BY <1>1, <1>5 DEF VoiceRec
<1>7. b.state = "stopped" /\ b.content = a.content /\ b.todo = 0 /\ b.done = d
  BY <1>1, <1>5 DEF VoiceRec
<1>8. Along(a, b)
  BY <1>1, <1>4, <1>6, <1>7 DEF Along, Sane
<1> QED
  BY <1>3, <1>7, <1>8

(* alSourcePlay.                                                           *)
LEMMA PlayGoesAlong ==
  ASSUME NEW a, Sane(a)
  PROVE  Along(a, AlPlay(a)) /\ AlPlay(a).state # "initial"
<1>1. /\ a \in VoiceRec /\ a.todo \in Nat /\ a.done \in Nat
      /\ a.state \in {"playing", "paused"} => a.todo > 0
  BY DEF Sane, VoiceRec
<1>2. a.todo + a.done \in Nat /\ 0 \in Nat
  BY <1>1
<1>3. CASE ~connected \/ a.todo + a.done = 0
  BY <1>3, StopGoesAlong DEF AlPlay
<1>4. CASE connected /\ a.todo + a.done # 0 /\ a.state = "paused"
  <2> DEFINE b == AlPlay(a)
  <2>1. b = [a EXCEPT !.state = "playing"]
    BY <1>4 DEF AlPlay
  <2> HIDE DEF b
  <2>2. b \in VoiceRec
    BY <1>1, <2>1 DEF VoiceRec
  <2>3. b.state = "playing" /\ b.content = a.content /\ b.todo = a.todo /\ b.done = a.done
    BY <1>1, <2>1 DEF VoiceRec
  <2>4. Along(a, b) /\ b.state # "initial"
    BY <2>2, <2>3, <1>1, <1>4 DEF Along, Sane
  <2> QED
    BY <2>4 DEF b
<1>5. CASE connected /\ a.todo + a.done # 0 /\ a.state # "paused"
  <2>1. PICK b : b = AlPlay(a)
    OBVIOUS
  <2>2. PICK t \in Nat : t = a.todo + a.done
    BY <1>2
  <2>3. b = [a EXCEPT !.state = "playing", !.todo = t, !.done = 0]
    BY <1>5, <2>1, <2>2 DEF AlPlay
  <2>4. b \in VoiceRec
    BY <1>1, <2>3 DEF VoiceRec
  <2>5. b.state = "playing" /\ b.content = a.content /\ b.todo = t /\ b.done = 0
    BY <1>1, <2>3 DEF VoiceRec
  <2>6. Along(a, b) /\ b.state # "initial"
    BY <2>2, <2>4, <2>5, <1>1, <1>5 DEF Along, Sane
  <2> QED
    BY <2>1, <2>6
<1> QED
  BY <1>3, <1>4, <1>5

(* The mixer.                                                              *)
LEMMA AdvanceGoesAlong ==
  ASSUME NEW a, Sane(a), a.state = "playing"
  PROVE  Along(a, AlAdvance(a, 1))
<1>1. a \in VoiceRec /\ a.todo \in Nat /\ a.done \in Nat /\ a.todo > 0
  BY DEF Sane, VoiceRec
<1>2. CASE a.todo = 1 /\ ~a.loop
  BY <1>2, StopGoesAlong DEF AlAdvance
<1>3. CASE a.loop
  BY <1>3 DEF AlAdvance, Along
<1>4. CASE a.todo # 1 /\ ~a.loop
  <2>0. PICK b : b = AlAdvance(a, 1)
    OBVIOUS
  <2>1. b = [a EXCEPT !.todo = a.todo - 1, !.done = a.done + 1]
    BY <1>4, <2>0 DEF AlAdvance
  <2>2. PICK t \in Nat, d \in Nat : t = a.todo - 1 /\ d = a.done + 1 /\ t > 0
    BY <1>1, <1>4
  <2>3. b = [a EXCEPT !.todo = t, !.done = d]
    BY <2>1, <2>2
  <2>4. b \in VoiceRec
    BY <1>1, <2>3 DEF VoiceRec
  <2>5. b.state = a.state /\ b.content = a.content /\ b.todo = t /\ b.done = d
    BY <1>1, <2>3 DEF VoiceRec
  <2>6. Along(a, b)
    BY <1>1, <2>2, <2>4, <2>5 DEF Along, Sane
  <2> QED
    BY <2>0, <2>6
<1> QED
  BY <1>2, <1>3, <1>4

(* alSourcePause, AL_LOOPING, and nothing at all.                          *)
LEMMA OthersGoAlong ==
  ASSUME NEW a, Sane(a)
  PROVE  /\ Along(a, a) /\ Along(a, AlPause(a))
         /\ \A e \in BOOLEAN : Along(a, [a EXCEPT !.loop = e])
<1>1. /\ a \in VoiceRec /\ a.todo \in Nat /\ a.done \in Nat
      /\ a.state \in {"playing", "paused"} => a.todo > 0
  BY DEF Sane, VoiceRec
<1>2. Along(a, a)
  BY DEF Along
<1>3. ASSUME a.state = "playing"
      PROVE  Along(a, [a EXCEPT !.state = "paused"])
  <2>1. PICK b : b = [a EXCEPT !.state = "paused"]
    OBVIOUS
  <2>2. b \in VoiceRec
    BY <1>1, <2>1 DEF VoiceRec
  <2>3. b.state = "paused" /\ b.content = a.content /\ b.todo = a.todo /\ b.done = a.done
    BY <1>1, <2>1 DEF VoiceRec
  <2> QED
    BY <2>1, <2>2, <2>3, <1>1, <1>3 DEF Along, Sane
<1>4. ASSUME NEW e \in BOOLEAN
      PROVE  Along(a, [a EXCEPT !.loop = e])
  <2>1. PICK b : b = [a EXCEPT !.loop = e]
    OBVIOUS
  <2>2. b \in VoiceRec
    BY <1>1, <2>1 DEF VoiceRec
  <2>3. b.state = a.state /\ b.content = a.content /\ b.todo = a.todo /\ b.done = a.done
    BY <1>1, <2>1 DEF VoiceRec
  <2> QED
    BY <2>1, <2>2, <2>3, <1>1 DEF Along, Sane
<1> QED
  BY <1>2, <1>3, <1>4 DEF AlPause
-----------------------------------------------------------------------------
(* The two ways a step changes who has which voice.                        *)

(* A step that gives back the voices of a group and moves the rest along.  *)
LEMMA Shift ==
  ASSUME IInv, InOrder, NEW In \in SUBSET Sources,
         SourceTypes', al' \in [Voices -> VoiceRec], alError' = FALSE,
         bufs' = bufs, playing' \in [Sources -> Voices \cup {NoVoice}],
         \A s \in In : InPool(s) /\ al'[playing[s]] = Blank,
         \A s \in Sources :
           /\ playing'[s] = IF s \in In THEN NoVoice ELSE playing[s]
           /\ refs'[s] > 0 => refs[s] > 0
           /\ valid'[s] <=> valid[s] /\ s \notin In
           /\ InPool(s) => voice'[s] = voice[s],
         \A v \in Voices : ~Lent(v) => al'[v] = Blank,
         \A s \in Sources \ In : InPool(s) =>
           /\ Sane(al'[playing[s]]) /\ al'[playing[s]].content = s
           /\ s \in Streams => Carries(s, al[playing[s]])',
         \A s \in Streams :
           /\ s \in In => /\ unused'[s] = unused[s] + al[playing[s]].todo + al[playing[s]].done
                          /\ left'[s] > 0
           /\ ~InPool(s) => unused'[s] = unused[s] /\ (left'[s] = left[s] \/ left'[s] > 0)
  PROVE  InOrder'
<1>0. NoVoice \notin Voices
  BY AudioAssumption
<1>1. \A s \in Sources : InPool(s)' <=> InPool(s) /\ s \notin In
  BY DEF InPool
<1>2. ASSUME NEW s \in Sources
      PROVE  Fine(s)'
  <2>1. Fine(s)
    BY DEF InOrder
  <2>2. CASE InPool(s) /\ s \notin In
    <3>1. InPool(s)' /\ playing'[s] = playing[s] /\ voice'[s] = voice[s] /\ valid'[s]
      BY <2>1, <2>2, <1>1 DEF Fine
    <3> QED
      BY <2>1, <2>2, <3>1 DEF Fine, Carries
  <2>3. CASE s \in In
    <3>1. ~InPool(s)' /\ ~valid'[s] /\ InPool(s)
      BY <2>3, <1>1
    <3>2. s \in Streams => unused'[s] = Buffers /\ left'[s] > 0
      BY <2>1, <2>3, <3>1 DEF Fine, Carries
    <3> QED
      BY <3>1, <3>2 DEF Fine
  <2>4. CASE ~InPool(s)
    <3>1. ~InPool(s)' /\ ~valid'[s]
      BY <2>1, <2>4, <1>1 DEF Fine
    <3>2. s \in Streams /\ refs'[s] > 0 => unused'[s] = Buffers /\ left'[s] > 0
      BY <2>1, <2>4 DEF Fine
    <3> QED
      BY <3>1, <3>2 DEF Fine
  <2> QED
    BY <2>2, <2>3, <2>4
<1>3. ASSUME NEW v \in Voices
      PROVE  Sane(al'[v]) /\ (~Lent(v)' => al'[v] = Blank)
  <2>1. CASE ~Lent(v)
    BY <2>1, BlankIsSane
  <2>2. CASE Lent(v)
    <3>1. PICK s \in Sources : playing[s] = v
      BY <2>2 DEF Lent
    <3>2. InPool(s)
      BY <3>1, <1>0 DEF InPool
    <3>3. CASE s \in In
      BY <3>1, <3>3, BlankIsSane
    <3>4. CASE s \notin In
      BY <3>1, <3>2, <3>4 DEF Lent
    <3> QED
      BY <3>3, <3>4
  <2> QED
    BY <2>1, <2>2
<1>4. \A s \in Streams : refs'[s] > 0 => bufs'[s] = Buffers
  BY DEF InOrder, Sources
<1> QED
  BY <1>2, <1>3, <1>4 DEF InOrder

(* A step that only moves voices along.                                    *)
LEMMA MoveAlong ==
  ASSUME IInv, InOrder, SourceTypes', al' \in [Voices -> VoiceRec], alError' = FALSE,
         UNCHANGED <<playing, valid, voice, unused, bufs, left>>,
         \A s \in Sources : refs'[s] > 0 => refs[s] > 0,
         \A v \in Voices : Along(al[v], al'[v]) /\ (al[v] = Blank => al'[v] = Blank)
  PROVE  InOrder'
<1>0. NoVoice \notin Voices /\ playing \in [Sources -> Voices \cup {NoVoice}]
  BY AudioAssumption DEF IInv, PoolType
<1>1. ASSUME NEW s \in Sources, InPool(s)
      PROVE  /\ Sane(al'[playing[s]]) /\ al'[playing[s]].content = s
             /\ s \in Streams => Carries(s, al[playing[s]])'
  <2>1. playing[s] \in Voices
    BY <1>0, <1>1 DEF InPool
  <2>2. Along(al[playing[s]], al'[playing[s]]) /\ Sane(al[playing[s]])
    BY <2>1 DEF InOrder
  <2>3. /\ al[playing[s]].content = s
        /\ s \in Streams => Carries(s, al[playing[s]])
    BY <1>1 DEF InOrder, Fine
  <2>4. s \in Streams => Carries(s, al[playing[s]])'
    <3>1. /\ unused[s] \in Nat
          /\ al[playing[s]].todo \in Nat /\ al[playing[s]].done \in Nat
          /\ al'[playing[s]].todo \in Nat /\ al'[playing[s]].done \in Nat
      BY <2>2 DEF InOrder, SourceTypes, Along, Sane, VoiceRec
    <3> QED
      BY <2>2, <2>3, <3>1 DEF Carries, Along
  <2> QED
    BY <2>2, <2>3, <2>4 DEF Along
<1>2. \A v \in Voices : ~Lent(v) => al'[v] = Blank
  BY DEF InOrder
<1> QED
  BY <1>0, <1>1, <1>2, Shift, {} \in SUBSET Sources

(* A step that lends voices to a group and moves the others along.         *)
LEMMA Lend ==
  ASSUME IInv, InOrder, PoolType', NEW New \in SUBSET Sources,
         SourceTypes', al' \in [Voices -> VoiceRec], alError' = FALSE, bufs' = bufs,
         \A s \in New :
           /\ ~InPool(s) /\ playing'[s] \in Voices /\ refs[s] > 0
           /\ valid'[s] /\ voice'[s] = playing'[s]
           /\ Sane(al'[playing'[s]]) /\ al'[playing'[s]].content = s
           /\ s \in Streams => Carries(s, al[playing[s]])',
         \A s \in Sources \ New :
           /\ playing'[s] = playing[s] /\ unused'[s] = unused[s] /\ left'[s] = left[s]
           /\ valid'[s] = valid[s] /\ (refs'[s] > 0 => refs[s] > 0)
           /\ InPool(s) => voice'[s] = voice[s] /\ Along(al[playing[s]], al'[playing[s]]),
         \A v \in Voices : ~Lent(v)' => al'[v] = al[v]
  PROVE  InOrder'
<1>0. NoVoice \notin Voices /\ playing \in [Sources -> Voices \cup {NoVoice}]
  BY AudioAssumption DEF IInv, PoolType
<1>1. ASSUME NEW s \in New
      PROVE  Fine(s)'
  BY <1>0, <1>1 DEF Fine, InPool
<1>2. ASSUME NEW s \in Sources \ New
      PROVE  Fine(s)'
  <2>1. Fine(s) /\ (InPool(s)' <=> InPool(s))
    BY DEF InOrder, InPool
  <2>2. CASE InPool(s)
    <3>1. playing[s] \in Voices
      BY <1>0, <2>2 DEF InPool
    <3>2. /\ unused[s] \in Nat
          /\ al[playing[s]].todo \in Nat /\ al[playing[s]].done \in Nat
          /\ al'[playing[s]].todo \in Nat /\ al'[playing[s]].done \in Nat
      BY <2>2, <3>1 DEF InOrder, SourceTypes, Along, Sane, VoiceRec
    <3>3. Along(al[playing[s]], al'[playing[s]])
      BY <2>2
    <3>4. s \in Streams => Carries(s, al[playing[s]])'
      BY <2>1, <2>2, <3>2, <3>3 DEF Fine, Carries, Along
    <3> QED
      BY <2>1, <2>2, <3>3, <3>4 DEF Fine, Along
  <2>3. CASE ~InPool(s)
    BY <2>1, <2>3 DEF Fine
  <2> QED
    BY <2>2, <2>3
<1>3. ASSUME NEW v \in Voices
      PROVE  Sane(al'[v]) /\ (~Lent(v)' => al'[v] = Blank)
  <2>1. CASE ~Lent(v)'
    <3>1. ~Lent(v)
      <4>1. ASSUME NEW s \in Sources, playing[s] = v
            PROVE  playing'[s] = v
        BY <4>1, <1>0 DEF InPool
      <4> QED
        BY <2>1, <4>1 DEF Lent
    <3> QED
      BY <2>1, <3>1, BlankIsSane DEF InOrder
  <2>2. CASE Lent(v)'
    <3>1. PICK s \in Sources : playing'[s] = v
      BY <2>2 DEF Lent
    <3>2. CASE s \in New
      BY <2>2, <3>1, <3>2
    <3>3. CASE s \notin New
      BY <2>2, <3>1, <3>3, <1>0 DEF InPool, Along
    <3> QED
      BY <3>2, <3>3
  <2> QED
    BY <2>1, <2>2 DEF Lent
<1>4. \A s \in Streams : refs'[s] > 0 => bufs'[s] = Buffers
  BY DEF InOrder, Sources
<1> QED
  BY <1>1, <1>2, <1>3, <1>4 DEF InOrder

-----------------------------------------------------------------------------
(* Giving back.                                                            *)

(* Source::stop and the pool's teardown: with a voice for each Source, the *)
(* queue of a voice goes back to the Source that drove it.                 *)
LEMMA TearDownDrains ==
  ASSUME IInv, InOrder, NEW In \in SUBSET Sources, \A s \in In : InPool(s), TearDown(In)
  PROVE  /\ unused' = [s \in Sources |->
              IF s \in In THEN Drained(s, al[playing[s]]) ELSE unused[s]]
         /\ al' = [v \in Voices |-> IF \E s \in In : playing[s] = v THEN Blank ELSE al[v]]
<1>1. \A s \in In : voice[s] = playing[s]
  BY DEF InOrder, Fine
<1>2. PICK first \in SUBSET In :
        /\ \A s \in In : \E t \in first : voice[t] = voice[s]
        /\ unused' = [s \in Sources |->
             IF s \in first THEN Drained(s, al[voice[s]]) ELSE unused[s]]
        /\ al' = [v \in Voices |-> IF \E s \in In : voice[s] = v THEN Blank ELSE al[v]]
  BY DEF TearDown
<1>3. first = In
  <2>1. \A s, t \in In : playing[s] = playing[t] => s = t
    BY DEF IInv, VoicePartition
  <2> QED
    BY <1>1, <1>2, <2>1
<1> QED
  BY <1>1, <1>2, <1>3

(* ... so the Sources that are torn down and leave the pool are in order.  *)
LEMMA GivingBackKeepsOrder ==
  ASSUME IInv, InOrder, NEW In \in SUBSET Sources, \A s \in In : InPool(s),
         TearDown(In), bufs' = bufs, alError' = FALSE, voice' = voice, looping' = looping,
         playing' = [s \in Sources |-> IF s \in In THEN NoVoice ELSE playing[s]],
         valid' = [s \in Sources |-> valid[s] /\ s \notin In],
         left' \in [Sources -> Nat],
         \A s \in Streams : (left'[s] = left[s] /\ s \notin In) \/ left'[s] > 0,
         \A s \in Sources : refs'[s] > 0 => refs[s] > 0
  PROVE  InOrder'
<1>0. /\ NoVoice \notin Voices /\ playing \in [Sources -> Voices \cup {NoVoice}]
      /\ Streams \subseteq Sources
  BY AudioAssumption DEF IInv, PoolType, Sources
<1>1. /\ unused' = [s \in Sources |->
           IF s \in In THEN Drained(s, al[playing[s]]) ELSE unused[s]]
      /\ al' = [v \in Voices |-> IF \E s \in In : playing[s] = v THEN Blank ELSE al[v]]
  BY TearDownDrains
<1>2. \A s \in Sources : InPool(s) => playing[s] \in Voices
  BY <1>0 DEF InPool
<1>3. \A v \in Voices : Sane(al[v])
  BY DEF InOrder
<1>4. SourceTypes'
  <2>1. ASSUME NEW s \in In
        PROVE  Drained(s, al[playing[s]]) \in Nat
    <3>1. unused[s] \in Nat /\ al[playing[s]].todo \in Nat /\ al[playing[s]].done \in Nat
      BY <1>2, <1>3 DEF InOrder, SourceTypes, Sane, VoiceRec
    <3> QED
      BY <3>1 DEF Drained
  <2>2. unused' \in [Sources -> Nat]
    BY <1>1, <2>1 DEF InOrder, SourceTypes
  <2>3. valid' \in [Sources -> BOOLEAN]
    OBVIOUS
  <2> QED
    BY <2>2, <2>3 DEF InOrder, SourceTypes
<1>5. al' \in [Voices -> VoiceRec]
  BY <1>1, <1>3, BlankIsSane DEF Sane
<1>6. \A s \in In : al'[playing[s]] = Blank
  BY <1>1, <1>2
<1>7. \A v \in Voices : ~Lent(v) => al'[v] = Blank
  BY <1>1 DEF InOrder
<1>8. ASSUME NEW s \in Sources \ In, InPool(s)
      PROVE  /\ Sane(al'[playing[s]]) /\ al'[playing[s]].content = s
             /\ s \in Streams => Carries(s, al[playing[s]])'
  <2>1. ~ \E t \in In : playing[t] = playing[s]
    BY <1>8 DEF IInv, VoicePartition
  <2>2. al'[playing[s]] = al[playing[s]] /\ unused'[s] = unused[s] /\ playing'[s] = playing[s]
    BY <2>1, <1>1, <1>2, <1>8
  <2> QED
    BY <2>2, <1>2, <1>3, <1>8 DEF InOrder, Fine, Carries
<1>9. \A s \in Streams :
        /\ s \in In => /\ unused'[s] = unused[s] + al[playing[s]].todo + al[playing[s]].done
                       /\ left'[s] > 0
        /\ ~InPool(s) => unused'[s] = unused[s] /\ (left'[s] = left[s] \/ left'[s] > 0)
  BY <1>0, <1>1 DEF Drained
<1> QED
  BY <1>0, <1>4, <1>5, <1>6, <1>7, <1>8, <1>9, Shift

(* stop() of a group, whatever else the pool does with its references.     *)
LEMMA StoppingKeepsOrder ==
  ASSUME IInv, InOrder, NEW S \in SUBSET Sources, NEW kept, DoStop(S), Release(S, kept)
  PROVE  InOrder' /\ \A s \in S : ~valid'[s]
<1> DEFINE In == {s \in S : InPool(s)}
<1>1. {s \in S : valid[s]} = In
  BY DEF InOrder, Fine
<1>2. /\ TearDown(In) /\ bufs' = bufs /\ alError' = alError
      /\ voice' = voice /\ looping' = looping
      /\ valid' = [s \in Sources |-> valid[s] /\ s \notin S]
      /\ left' = [s \in Sources |-> IF s \in In THEN Rewound(s) ELSE left[s]]
  BY <1>1 DEF DoStop
<1>3. /\ playing' = [s \in Sources |-> IF s \in In THEN NoVoice ELSE playing[s]]
      /\ refs' = Released(In \ kept)
  BY DEF Release
<1>4. valid' = [s \in Sources |-> valid[s] /\ s \notin In]
  <2>1. \A s \in Sources : (valid[s] /\ s \notin S) <=> (valid[s] /\ s \notin In)
    BY DEF InOrder, Fine
  <2> QED
    BY <1>2, <2>1
<1>5. /\ left' \in [Sources -> Nat]
      /\ \A s \in Streams : (left'[s] = left[s] /\ s \notin In) \/ left'[s] > 0
  BY <1>2, AudioAssumption DEF InOrder, SourceTypes, Rewound, Sources
<1>6. \A s \in Sources : refs'[s] > 0 => refs[s] > 0
  BY <1>3 DEF Released, IInv, OwnersType
<1>7. InOrder'
  BY <1>2, <1>3, <1>4, <1>5, <1>6, GivingBackKeepsOrder DEF InOrder
<1> QED
  BY <1>2, <1>7

-----------------------------------------------------------------------------
(* Decoding and starting.                                                  *)

(* A refill fills no more buffers than it has, reads no more than there    *)
(* is, and fills one if it has a buffer and the decoder something left --  *)
(* or loops, and it has a buffer off the queue.                            *)
LEMMA RefillBounds ==
  ASSUME SourceTypes, NEW s \in Sources, NEW d \in Nat
  PROVE  /\ Fill(s, d) \in Nat /\ Fill(s, d) <= d + unused[s]
         /\ LeftAfter(s, d) \in Nat
         /\ d + unused[s] > 0 /\ left[s] > 0 => Fill(s, d) > 0
         /\ d > 0 /\ looping[s] => Fill(s, d) > 0
<1>1. /\ unused[s] \in Nat /\ left[s] \in Nat /\ looping[s] \in BOOLEAN
      /\ Chunks \in Nat /\ Chunks > 0
  BY AudioAssumption DEF SourceTypes
<1>2. /\ Fill(s, d) \in Nat /\ Fill(s, d) <= d + unused[s]
      /\ ~looping[s] => Fill(s, d) <= left[s]
      /\ d + unused[s] > 0 /\ left[s] > 0 => Fill(s, d) > 0
      /\ d > 0 /\ looping[s] => Fill(s, d) > 0
  BY <1>1 DEF Fill, LeastOf
<1>3. LeftAfter(s, d) \in Nat
  <2>1. CASE d + unused[s] = 0
    BY <1>1, <2>1 DEF LeftAfter
  <2>2. CASE d + unused[s] # 0 /\ ~looping[s]
    BY <1>1, <1>2, <2>2 DEF LeftAfter
  <2>3. CASE d + unused[s] # 0 /\ looping[s]
    <3>1. PICK x \in Int : x = left[s] - 1 - Fill(s, d)
      BY <1>1, <1>2
    <3>2. x % Chunks \in 0..(Chunks - 1)
      BY <1>1
    <3>3. LeftAfter(s, d) = (x % Chunks) + 1
      BY <2>3, <3>1 DEF LeftAfter
    <3> QED
      BY <1>1, <3>2, <3>3
  <2> QED
    BY <2>1, <2>2, <2>3
<1> QED
  BY <1>2, <1>3

(* prepareAtomic() of a Source in order queues something, and the buffers  *)
(* it takes are the Source's.                                              *)
LEMMA PreparedIsSane ==
  ASSUME IInv, InOrder, NEW s \in Sources, ~InPool(s), refs[s] > 0
  PROVE  /\ Sane(Prepared(s)) /\ Prepared(s).content = s
         /\ Prepared(s).todo > 0 /\ Prepared(s).done = 0
         /\ s \in Streams =>
              /\ Prepared(s).todo = Fill(s, 0) /\ unused[s] = Buffers
              /\ unused[s] - Fill(s, 0) \in Nat
<1>1. SourceTypes /\ looping[s] \in BOOLEAN /\ unused[s] \in Nat /\ Buffers \in Nat /\ Buffers > 0
  BY AudioAssumption DEF InOrder, SourceTypes
<1>2. /\ Fill(s, 0) \in Nat /\ Fill(s, 0) <= unused[s]
      /\ unused[s] > 0 /\ left[s] > 0 => Fill(s, 0) > 0
  BY <1>1, RefillBounds
<1>3. CASE s \in Statics
  <2>1. PICK a : a = Prepared(s)
    OBVIOUS
  <2>2. a = [state |-> "initial", content |-> s, todo |-> 1, done |-> 0, loop |-> looping[s]]
    BY <1>3, <2>1 DEF Prepared, Blank
  <2>3. Sane(a) /\ a.content = s /\ a.todo > 0 /\ a.done = 0
    BY <1>1, <2>2 DEF Sane, VoiceRec
  <2> QED
    BY <1>3, <2>1, <2>3, AudioAssumption
<1>4. CASE s \in Streams
  <2>1. unused[s] = Buffers /\ left[s] > 0
    BY <1>4 DEF InOrder, Fine
  <2>2. PICK f \in Nat : f = Fill(s, 0) /\ f > 0 /\ f <= unused[s]
    BY <1>1, <1>2, <2>1
  <2>3. PICK a : a = Prepared(s)
    OBVIOUS
  <2>4. a = [state |-> "initial", content |-> s, todo |-> f, done |-> 0, loop |-> FALSE]
    BY <1>4, <2>2, <2>3, AudioAssumption DEF Prepared, Blank
  <2>5. Sane(a) /\ a.content = s /\ a.todo = f /\ a.done = 0
    BY <2>4 DEF Sane, VoiceRec
  <2> QED
    BY <1>1, <2>1, <2>2, <2>3, <2>5
<1> QED
  BY <1>3, <1>4 DEF Sources

(* play(), also from inside seek().                                        *)
LEMMA PlayingKeepsOrder ==
  ASSUME IInv, InOrder, NEW s \in held, DoPlay(s), PoolType'
  PROVE  InOrder'
<1>0. /\ NoVoice \notin Voices /\ playing \in [Sources -> Voices \cup {NoVoice}]
      /\ s \in Sources /\ refs \in [Sources -> Nat] /\ refs[s] > 0
      /\ SourceTypes /\ alError = FALSE
      /\ al \in [Voices -> VoiceRec] /\ \A v \in Voices : Sane(al[v])
  <2>1. s \in Sources /\ refs[s] > 0
    BY DEF IInv, OwnersType, RefsBalanced
  <2> QED
    BY <2>1, AudioAssumption DEF IInv, PoolType, OwnersType, InOrder
<1>1. CASE Resume(s)
  <2>1. /\ InPool(s) /\ valid[s] /\ voice[s] = playing[s] /\ voice[s] \in Voices
        /\ al[voice[s]].content = s
        /\ s \in Streams => unused[s] # bufs[s]
    <3>1. /\ InPool(s) /\ valid[s] /\ voice[s] = playing[s] /\ voice[s] \in Voices
          /\ al[voice[s]].content = s
          /\ s \in Streams => Carries(s, al[voice[s]]) /\ bufs[s] = Buffers
      BY <1>0, <1>1 DEF Resume, InOrder, Fine, InPool
    <3>2. /\ unused[s] \in Nat /\ al[voice[s]].todo \in Nat /\ al[voice[s]].done \in Nat
      BY <1>0, <3>1 DEF SourceTypes, VoiceRec
    <3> QED
      BY <3>1, <3>2, AudioAssumption DEF Carries
  <2>2. /\ valid' = valid /\ UNCHANGED <<voice, bufs, looping, unused, left, poolVars>>
        /\ alError' = FALSE
        /\ al' = al \/ \E fails \in BOOLEAN :
                        al' = [al EXCEPT ![voice[s]] = IF fails THEN @ ELSE AlPlay(@)]
    BY <1>0, <1>1, <2>1 DEF Resume, SourceTypes, deviceVars
  <2>3. ASSUME NEW v \in Voices
        PROVE  Along(al[v], al'[v]) /\ (al[v] = Blank => al'[v] = Blank)
    <3>1. Along(al[v], al[v]) /\ Along(al[v], AlPlay(al[v]))
      BY <1>0, OthersGoAlong, PlayGoesAlong
    <3>2. CASE v # voice[s]
      BY <1>0, <2>2, <3>1, <3>2
    <3>3. CASE v = voice[s]
      <4>1. al[v] # Blank
        BY <1>0, <2>1, <3>3, AudioAssumption DEF Blank
      <4>2. al'[v] = al[v] \/ al'[v] = AlPlay(al[v])
        BY <1>0, <2>1, <2>2, <3>3
      <4> QED
        BY <3>1, <4>1, <4>2
    <3> QED
      BY <3>2, <3>3
  <2>4. al' \in [Voices -> VoiceRec]
    <3>1. DOMAIN al' = Voices /\ al' = [v \in Voices |-> al'[v]]
      BY <1>0, <2>2
    <3> QED
      BY <3>1, <2>3 DEF Along, Sane
  <2>5. SourceTypes'
    BY <1>0, <2>2 DEF SourceTypes
  <2> QED
    BY <2>2, <2>3, <2>4, <2>5, MoveAlong DEF poolVars
<1>2. CASE Start(s)
  <2> DEFINE v == Head(available)
  <2>1. /\ ~InPool(s) /\ available # <<>> /\ v \in Voices
        /\ \E i \in 1..Len(available) : v = available[i]
    BY <1>2, HeadTailProperties, LenProperties, EmptySeq DEF Start, IInv, PoolType
  <2>2. ~Lent(v) /\ al[v] = Blank
    BY <2>1 DEF Lent, IInv, VoicePartition, InOrder
  <2> HIDE DEF v
  <2>3. /\ Sane(Prepared(s)) /\ Prepared(s).content = s /\ Prepared(s).todo > 0
        /\ s \in Streams => /\ Prepared(s).todo = Fill(s, 0) /\ Prepared(s).done = 0
                            /\ unused[s] = Buffers /\ unused[s] - Fill(s, 0) \in Nat
        /\ LeftAfter(s, 0) \in Nat
    BY <1>0, <2>1, PreparedIsSane, RefillBounds
  <2>4. PICK fails \in BOOLEAN, success \in BOOLEAN, a \in VoiceRec :
          /\ a = IF fails THEN Prepared(s) ELSE AlPlay(Prepared(s))
          /\ success <=> ~fails /\ (s \in Streams => a.state = "playing")
          /\ valid' = [valid EXCEPT ![s] = success]
          /\ al' = [al EXCEPT ![v] = IF success THEN a ELSE Blank]
          /\ success =>
               /\ unused' = [unused EXCEPT ![s] =
                    IF s \in Streams THEN @ - Fill(s, 0) ELSE @]
               /\ left' = [left EXCEPT ![s] = IF s \in Streams THEN LeftAfter(s, 0) ELSE @]
               /\ Assign({s})
          /\ ~success => /\ left' = [left EXCEPT ![s] = Rewound(s)]
                         /\ UNCHANGED <<unused, playing, refs>>
    <3>1. PICK fails \in BOOLEAN :
            LET a == IF fails THEN Prepared(s) ELSE AlPlay(Prepared(s))
                success == ~fails /\ (s \in Streams => a.state = "playing")
            IN
            /\ valid' = [valid EXCEPT ![s] = success]
            /\ al' = [al EXCEPT ![v] = IF success THEN a ELSE Blank]
            /\ IF success
               THEN /\ unused' = [unused EXCEPT ![s] =
                         IF s \in Streams THEN @ - Fill(s, 0) ELSE @]
                    /\ left' = [left EXCEPT ![s] =
                         IF s \in Streams THEN LeftAfter(s, 0) ELSE @]
                    /\ Assign({s})
               ELSE /\ left' = [left EXCEPT ![s] = Rewound(s)]
                    /\ UNCHANGED <<unused, playing, refs>>
      BY <1>2, Zenon DEF Start, v
    <3> DEFINE a == IF fails THEN Prepared(s) ELSE AlPlay(Prepared(s))
               success == ~fails /\ (s \in Streams => a.state = "playing")
    <3>2. success \in BOOLEAN /\ a \in VoiceRec
      BY <2>3, PlayGoesAlong DEF Along, Sane
    <3> QED
      BY <3>1, <3>2
  <2>5. /\ voice' = [voice EXCEPT ![s] = v] /\ alError' = FALSE
        /\ UNCHANGED <<bufs, looping>>
    BY <1>2 DEF Start, v
  <2>6. Sane(a) /\ a.content = s /\ a.todo + a.done = Prepared(s).todo + Prepared(s).done
    BY <2>3, <2>4, PlayGoesAlong DEF Along
  <2>7. CASE success
    <3>1. a = AlPlay(Prepared(s)) /\ a.state # "initial"
      BY <2>3, <2>4, <2>7, PlayGoesAlong
    <3>2. playing'[s] = v /\ \A t \in Sources \ {s} : playing'[t] = playing[t]
      <4>1. PICK o \in Orders({s}) :
              playing' = [t \in Sources |->
                IF t \in {s} THEN available[CHOOSE i \in 1..Cardinality({s}) : o[i] = t]
                ELSE playing[t]]
        BY <2>4, <2>7 DEF Assign
      <4>2. Cardinality({s}) = 1 /\ IsFiniteSet({s})
        BY FS_Singleton
      <4>3. \E i \in 1..Cardinality({s}) : o[i] = s
        BY <4>2, OrderPositions
      <4>4. (CHOOSE i \in 1..Cardinality({s}) : o[i] = s) = 1
        BY <4>2, <4>3
      <4> QED
        BY <1>0, <4>1, <4>4 DEF v
    <3>3. refs' = Retained({s})
      BY <2>4, <2>7 DEF Assign
    <3>4. al' = [al EXCEPT ![v] = a] /\ al' \in [Voices -> VoiceRec]
      BY <1>0, <2>1, <2>4, <2>6, <2>7 DEF Sane
    <3>5. SourceTypes'
      <4>1. /\ unused' \in [Sources -> Nat] /\ left' \in [Sources -> Nat]
            /\ valid' \in [Sources -> BOOLEAN] /\ voice' \in [Sources -> Voices \cup {NoVoice}]
        BY <1>0, <2>1, <2>3, <2>4, <2>5, <2>7 DEF SourceTypes
      <4> QED
        BY <1>0, <2>5, <4>1 DEF SourceTypes
    <3>6. s \in Streams => Carries(s, al[playing[s]])'
      <4>1. ASSUME s \in Streams
            PROVE  Carries(s, al[playing[s]])'
        <5>1. /\ al'[playing'[s]] = a /\ unused'[s] = unused[s] - Fill(s, 0)
          BY <1>0, <2>1, <2>4, <2>7, <3>2, <3>4, <4>1 DEF SourceTypes
        <5>2. a.todo \in Nat /\ a.done \in Nat /\ Fill(s, 0) \in Nat /\ Buffers \in Nat
          BY <1>0, <2>6, RefillBounds, AudioAssumption DEF Sane, VoiceRec
        <5>3. a.todo + a.done = Fill(s, 0) /\ Fill(s, 0) > 0 /\ unused[s] = Buffers
          BY <2>3, <2>6, <4>1, <5>2
        <5> QED
          BY <3>1, <5>1, <5>2, <5>3 DEF Carries
      <4> QED
        BY <4>1
    <3>7. ASSUME NEW t \in Sources \ {s}
          PROVE  /\ playing'[t] = playing[t] /\ unused'[t] = unused[t] /\ left'[t] = left[t]
                 /\ valid'[t] = valid[t] /\ (refs'[t] > 0 => refs[t] > 0)
                 /\ InPool(t) => voice'[t] = voice[t] /\ Along(al[playing[t]], al'[playing[t]])
      <4>1. /\ playing'[t] = playing[t] /\ unused'[t] = unused[t] /\ left'[t] = left[t]
            /\ valid'[t] = valid[t] /\ voice'[t] = voice[t] /\ refs'[t] = refs[t]
        BY <1>0, <2>4, <2>5, <2>7, <3>2, <3>3 DEF SourceTypes, Retained
      <4>2. InPool(t) => playing[t] \in Voices /\ al'[playing[t]] = al[playing[t]]
        BY <1>0, <2>2, <3>4 DEF Lent, InPool
      <4> QED
        BY <1>0, <4>1, <4>2, OthersGoAlong
    <3>8. \A w \in Voices : ~Lent(w)' => al'[w] = al[w]
      BY <1>0, <3>2, <3>4 DEF Lent
    <3>9. /\ valid'[s] /\ voice'[s] = playing'[s] /\ playing'[s] \in Voices
          /\ Sane(al'[playing'[s]]) /\ al'[playing'[s]].content = s
      BY <1>0, <2>1, <2>4, <2>5, <2>6, <2>7, <3>2, <3>4 DEF SourceTypes
    <3>10. /\ {s} \in SUBSET Sources /\ alError' = FALSE /\ bufs' = bufs
           /\ \A t \in {s} :
                /\ ~InPool(t) /\ playing'[t] \in Voices /\ refs[t] > 0
                /\ valid'[t] /\ voice'[t] = playing'[t]
                /\ Sane(al'[playing'[t]]) /\ al'[playing'[t]].content = t
                /\ t \in Streams => Carries(t, al[playing[t]])'
      BY <1>0, <2>1, <2>5, <3>6, <3>9
    <3> QED
      BY <3>4, <3>5, <3>7, <3>8, <3>10, Lend
  <2>8. CASE ~success
    <3>1. /\ valid' = valid /\ al' = al /\ UNCHANGED <<unused, playing, refs, bufs>>
          /\ alError' = FALSE
      BY <1>0, <2>1, <2>2, <2>4, <2>5, <2>8 DEF SourceTypes, InOrder, Fine
    <3>2. /\ left' \in [Sources -> Nat]
          /\ \A t \in Streams : left'[t] = left[t] \/ left'[t] > 0
      BY <1>0, <2>4, <2>8, AudioAssumption DEF SourceTypes, Rewound, Sources
    <3>3. SourceTypes'
      BY <1>0, <2>1, <2>5, <3>1, <3>2 DEF SourceTypes
    <3>4. ASSUME NEW t \in Sources, InPool(t)
          PROVE  /\ voice'[t] = voice[t]
                 /\ Sane(al'[playing[t]]) /\ al'[playing[t]].content = t
                 /\ t \in Streams => Carries(t, al[playing[t]])'
      <4>1. playing[t] \in Voices /\ t # s
        BY <1>0, <2>1, <3>4 DEF InPool
      <4>2. Fine(t)
        BY DEF InOrder
      <4> QED
        BY <1>0, <2>5, <3>1, <3>4, <4>1, <4>2 DEF SourceTypes, Fine, Carries
    <3> QED
      BY <1>0, <3>1, <3>2, <3>3, <3>4, {} \in SUBSET Sources, Shift DEF InOrder
  <2> QED
    BY <2>7, <2>8
<1>3. CASE Refused(s)
  <2>1. /\ valid' = valid /\ UNCHANGED <<voice, unused, bufs, left, looping, poolVars, deviceVars>>
    BY <1>0, <1>3 DEF Refused, InOrder, Fine, SourceTypes
  <2>2. \A v \in Voices : Along(al[v], al[v])
    BY <1>0, OthersGoAlong
  <2> QED
    BY <1>0, <2>1, <2>2, MoveAlong DEF poolVars, deviceVars, SourceTypes
<1> QED
  BY <1>1, <1>2, <1>3 DEF DoPlay

-----------------------------------------------------------------------------
(* The steps that move no voice from one Source to another.                *)

(* A step that does nothing to Sources and voices but drop references.     *)
LEMMA StayingKeepsOrder ==
  ASSUME IInv, InOrder,
         UNCHANGED <<playing, valid, voice, unused, bufs, left, looping, deviceVars>>,
         \A s \in Sources : refs'[s] > 0 => refs[s] > 0
  PROVE  InOrder'
<1>1. SourceTypes' /\ al' \in [Voices -> VoiceRec] /\ alError' = FALSE /\ al' = al
  BY DEF InOrder, SourceTypes, deviceVars
<1>2. \A v \in Voices : Along(al[v], al'[v])
  BY <1>1, OthersGoAlong DEF InOrder
<1> QED
  BY <1>1, <1>2, MoveAlong

(* A step that does nothing but change the states of voices.               *)
LEMMA VoicesMovingKeepsOrder ==
  ASSUME IInv, InOrder, UNCHANGED <<poolVars, valid, voice, unused, bufs, left, alError>>,
         looping' \in [Sources -> BOOLEAN], DOMAIN al' = Voices, al' = [v \in Voices |-> al'[v]],
         \A v \in Voices : Along(al[v], al'[v]) /\ (al[v] = Blank => al'[v] = Blank)
  PROVE  InOrder'
<1>1. SourceTypes' /\ alError' = FALSE
  BY DEF InOrder, SourceTypes
<1>2. al' \in [Voices -> VoiceRec]
  BY DEF Along, Sane
<1> QED
  BY <1>1, <1>2, MoveAlong DEF poolVars

(* pause() of one Source, of a group, of all.                              *)
LEMMA PausingKeepsOrder ==
  ASSUME IInv, InOrder, NEW V, PauseVoices(V)
  PROVE  InOrder'
<1>1. /\ al' = [v \in Voices |-> IF v \in V THEN AlPause(al[v]) ELSE al[v]]
      /\ UNCHANGED <<poolVars, valid, voice, unused, bufs, left, looping, alError>>
  BY DEF PauseVoices, sourceVars
<1>2. ASSUME NEW v \in Voices
      PROVE  Along(al[v], al'[v]) /\ (al[v] = Blank => al'[v] = Blank)
  <2>1. Along(al[v], al[v]) /\ Along(al[v], AlPause(al[v]))
    BY OthersGoAlong DEF InOrder
  <2>2. AlPause(Blank) = Blank
    BY DEF AlPause, Blank
  <2> QED
    BY <1>1, <2>1, <2>2
<1> QED
  BY <1>1, <1>2, VoicesMovingKeepsOrder DEF InOrder, SourceTypes

(* setLooping() touches the voice of a static Source that is valid.        *)
LEMMA SettingLoopingKeepsOrder ==
  ASSUME IInv, InOrder, NEW s \in Sources, NEW enable \in BOOLEAN, SetLooping(s, enable)
  PROVE  InOrder'
<1>1. /\ UNCHANGED <<poolVars, valid, voice, unused, bufs, left, alError>>
      /\ looping' = [looping EXCEPT ![s] = enable]
      /\ al' = al \/ (valid[s] /\ al' = [al EXCEPT ![voice[s]].loop = enable])
  BY Zenon DEF SetLooping
<1>2. al \in [Voices -> VoiceRec] /\ \A v \in Voices : Sane(al[v])
  BY DEF InOrder
<1>3. valid[s] => voice[s] \in Voices /\ al[voice[s]].content = s
  BY DEF InOrder, Fine, InPool, IInv, PoolType
<1>4. ASSUME NEW v \in Voices
      PROVE  Along(al[v], al'[v]) /\ (al[v] = Blank => al'[v] = Blank)
  <2>1. Along(al[v], al[v]) /\ Along(al[v], [al[v] EXCEPT !.loop = enable])
    BY <1>2, OthersGoAlong
  <2>2. CASE al' = al
    BY <2>1, <2>2
  <2>3. CASE valid[s] /\ al' = [al EXCEPT ![voice[s]].loop = enable]
    <3>1. al'[v] = IF v = voice[s] THEN [al[v] EXCEPT !.loop = enable] ELSE al[v]
      BY <1>2, <1>3, <2>3
    <3>2. v = voice[s] => al[v] # Blank
      BY <1>3, <2>3, AudioAssumption DEF Blank
    <3> QED
      BY <2>1, <3>1, <3>2
  <2> QED
    BY <1>1, <2>2, <2>3
<1>5. DOMAIN al' = Voices /\ al' = [v \in Voices |-> al'[v]]
  BY <1>1, <1>2
<1>6. looping' \in [Sources -> BOOLEAN]
  BY <1>1 DEF InOrder, SourceTypes
<1> QED
  BY <1>1, <1>4, <1>5, <1>6, VoicesMovingKeepsOrder

(* The mixer plays on; the device goes and comes back.                     *)
LEMMA EnvironmentKeepsOrder ==
  ASSUME IInv, InOrder, Environment
  PROVE  InOrder'
<1>0. al \in [Voices -> VoiceRec] /\ \A v \in Voices : Sane(al[v])
  BY DEF InOrder
<1>1. ASSUME NEW v \in Voices, Mix(v)
      PROVE  InOrder'
  <2>1. /\ al[v].state = "playing" /\ al' = [al EXCEPT ![v] = AlAdvance(@, 1)]
        /\ UNCHANGED <<poolVars, valid, voice, unused, bufs, left, looping, alError>>
    BY <1>1 DEF Mix, sourceVars
  <2>2. ASSUME NEW w \in Voices
        PROVE  Along(al[w], al'[w]) /\ (al[w] = Blank => al'[w] = Blank)
    <3>1. Along(al[w], al[w])
      BY <1>0, OthersGoAlong
    <3>2. CASE w = v
      <4>1. Along(al[v], AlAdvance(al[v], 1)) /\ al[v] # Blank
        BY <1>0, <2>1, AdvanceGoesAlong DEF Blank
      <4> QED
        BY <1>0, <2>1, <3>2, <4>1
    <3>3. CASE w # v
      BY <1>0, <2>1, <3>1, <3>3
    <3> QED
      BY <3>2, <3>3
  <2> QED
    BY <1>0, <2>1, <2>2, VoicesMovingKeepsOrder DEF InOrder, SourceTypes
<1>2. CASE LoseDevice
  <2>1. /\ al' = [v \in Voices |-> IF al[v].state = "playing" THEN AlStop(al[v]) ELSE al[v]]
        /\ UNCHANGED <<poolVars, valid, voice, unused, bufs, left, looping, alError>>
    BY <1>2 DEF LoseDevice, sourceVars
  <2>2. ASSUME NEW v \in Voices
        PROVE  Along(al[v], al'[v]) /\ (al[v] = Blank => al'[v] = Blank)
    <3>1. Along(al[v], al[v]) /\ Along(al[v], AlStop(al[v])) /\ Blank.state # "playing"
      BY <1>0, OthersGoAlong, StopGoesAlong DEF Blank
    <3> QED
      BY <2>1, <3>1
  <2> QED
    BY <2>1, <2>2, VoicesMovingKeepsOrder DEF InOrder, SourceTypes
<1>3. CASE RegainDevice
  BY <1>3, StayingKeepsOrder DEF RegainDevice, poolVars, sourceVars
<1> QED
  BY <1>1, <1>2, <1>3 DEF Environment

(* Losing references, and what only moves the program or the thread.       *)
LEMMA QuietStepsKeepOrder ==
  ASSUME IInv, InOrder, Careful,
         \/ \E s \in Sources : \/ Stop(s) \/ Drop(s)
                               \/ \E t \in SeekTargets : SeekStatic(s, t)
         \/ SeekCheck \/ PollMessage \/ ThreadEnds \/ SetFinish \/ UNCHANGED vars
  PROVE  InOrder'
<1> USE DEF poolVars, sourceVars, deviceVars, ownerVars, linkVars, callVars
<1>1. ASSUME NEW s \in Sources, Stop(s)
      PROVE  InOrder'
  BY <1>1, StayingKeepsOrder DEF Stop
<1>2. ASSUME NEW s \in Sources, Drop(s)
      PROVE  InOrder'
  <2>1. /\ s \in held /\ refs' = Released({s})
        /\ valid' = [valid EXCEPT ![s] = @ /\ refs[s] > 1]
        /\ UNCHANGED <<playing, voice, unused, bufs, left, looping, al, alError>>
    BY <1>2 DEF Drop, Callable
  <2>2. valid[s] => refs[s] > 1
    BY <2>1 DEF InOrder, Fine, IInv, RefsBalanced
  <2>3. valid' = valid
    BY <2>1, <2>2 DEF InOrder, SourceTypes
  <2>4. \A t \in Sources : refs'[t] > 0 => refs[t] > 0
    BY <2>1 DEF Released, IInv, OwnersType
  <2> QED
    BY <2>1, <2>3, <2>4, StayingKeepsOrder
<1>3. ASSUME NEW s \in Sources, NEW t \in SeekTargets, SeekStatic(s, t)
      PROVE  InOrder'
  <2>1. t # "past" /\ alError = FALSE
    BY <1>3 DEF Careful, InOrder
  <2>2. alError' = FALSE /\ UNCHANGED <<poolVars, sourceVars, al>>
    BY <1>3, <2>1 DEF SeekStatic
  <2> QED
    BY <2>1, <2>2, StayingKeepsOrder
<1>4. CASE SeekCheck
  BY <1>4, StayingKeepsOrder DEF SeekCheck, InOrder
<1>5. CASE PollMessage
  <2>1. \A t \in Sources : refs'[t] > 0 => refs[t] > 0
    BY <1>5 DEF PollMessage, Released, IInv, OwnersType
  <2> QED
    BY <1>5, <2>1, StayingKeepsOrder DEF PollMessage
<1>6. CASE ThreadEnds \/ SetFinish \/ UNCHANGED vars
  BY <1>6, StayingKeepsOrder DEF ThreadEnds, SetFinish, vars
<1> QED
  BY <1>1, <1>2, <1>3, <1>4, <1>5, <1>6

-----------------------------------------------------------------------------
(* The steps that do.                                                      *)

(* A stream's seek gives its voice back and leaves the decoder at a place  *)
(* where something is left.                                                *)
LEMMA SeekingKeepsOrder ==
  ASSUME IInv, InOrder, Careful,
         NEW s \in Sources, NEW target \in SeekTargets, SeekStream(s, target)
  PROVE  InOrder'
<1>0. /\ SourceTypes /\ al \in [Voices -> VoiceRec] /\ alError = FALSE
      /\ playing \in [Sources -> Voices \cup {NoVoice}] /\ Streams \subseteq Sources
      /\ \A v \in Voices : Sane(al[v])
  BY DEF InOrder, IInv, PoolType, Sources
<1>1. target = "inside"
  BY AudioAssumption DEF Careful
<1>2. /\ s \in Streams /\ UNCHANGED <<voice, bufs, looping, alError>>
      /\ \E pos \in 1..Chunks : left' = [left EXCEPT ![s] = pos]
      /\ IF InPool(s) THEN TearDown({s}) /\ Release({s}, {})
                      ELSE UNCHANGED <<unused, al, poolVars>>
      /\ valid' = [valid EXCEPT ![s] = @ /\ ~InPool(s)]
  <2>1. valid[s] /\ InPool(s) <=> InPool(s)
    BY DEF InOrder, Fine
  <2> QED
    BY <1>1, <2>1 DEF SeekStream
<1>3. /\ left' \in [Sources -> Nat]
      /\ \A t \in Streams : (left'[t] = left[t] /\ t \notin {s}) \/ left'[t] > 0
  BY <1>0, <1>2, AudioAssumption DEF SourceTypes
<1>4. CASE InPool(s)
  <2>1. /\ playing' = [t \in Sources |-> IF t \in {s} THEN NoVoice ELSE playing[t]]
        /\ refs' = Released({s} \ {})
    <3>1. {t \in {s} : InPool(t)} = {s}
      BY <1>4
    <3> QED
      BY <1>2, <1>4, <3>1 DEF Release
  <2>2. \A t \in Sources : refs'[t] > 0 => refs[t] > 0
    BY <2>1 DEF Released, IInv, OwnersType
  <2>3. valid' = [t \in Sources |-> valid[t] /\ t \notin {s}]
    BY <1>0, <1>2, <1>4 DEF SourceTypes
  <2>4. {s} \in SUBSET Sources /\ \A t \in {s} : InPool(t)
    BY <1>4
  <2> QED
    BY <1>0, <1>2, <1>3, <1>4, <2>1, <2>2, <2>3, <2>4, GivingBackKeepsOrder
<1>5. CASE ~InPool(s)
  <2>1. UNCHANGED <<playing, refs, unused, al, valid>>
    BY <1>0, <1>2, <1>5 DEF poolVars, SourceTypes
  <2>2. SourceTypes'
    BY <1>0, <1>2, <1>3, <2>1 DEF SourceTypes
  <2>3. ASSUME NEW t \in Sources, InPool(t)
        PROVE  /\ Sane(al'[playing[t]]) /\ al'[playing[t]].content = t
               /\ t \in Streams => Carries(t, al[playing[t]])'
    <3>1. playing[t] \in Voices /\ Fine(t)
      BY <1>0, <2>3 DEF InPool, InOrder
    <3> QED
      BY <1>0, <2>1, <2>3, <3>1 DEF Fine, Carries
  <2> QED
    BY <1>0, <1>2, <1>3, <2>1, <2>2, <2>3, {} \in SUBSET Sources, Shift DEF InOrder
<1> QED
  BY <1>4, <1>5

(* A new Source, or a clone, has all its buffers and a decoder at the      *)
(* start.                                                                  *)
LEMMA BirthsKeepOrder ==
  ASSUME IInv, InOrder, Births
  PROVE  InOrder'
<1>0. /\ SourceTypes /\ al \in [Voices -> VoiceRec] /\ alError = FALSE
      /\ Streams \subseteq Sources /\ Statics \cap Streams = {}
      /\ Buffers \in Nat /\ Chunks \in Nat /\ Chunks > 0
      /\ refs \in [Sources -> Nat]
  BY AudioAssumption DEF InOrder, IInv, OwnersType, Sources
<1>1. ASSUME NEW s \in Sources, NEW n \in Nat, NEW loops \in BOOLEAN,
             Constructed(s, n, loops), s \in Streams => n = Buffers
      PROVE  InOrder'
  <2>1. /\ refs[s] = 0 /\ refs' = [refs EXCEPT ![s] = 1]
        /\ alError' = FALSE /\ UNCHANGED <<available, playing, al>>
        /\ left' = [left EXCEPT ![s] = IF s \in Streams THEN Chunks ELSE 0]
        /\ valid' = [valid EXCEPT ![s] = FALSE]
        /\ looping' = [looping EXCEPT ![s] = loops]
        /\ voice' = [voice EXCEPT ![s] = NoVoice]
    BY <1>0, <1>1 DEF Constructed
  <2>2. PICK got \in Nat : /\ s \in Streams => got = Buffers
                           /\ bufs' = [bufs EXCEPT ![s] = got]
                           /\ unused' = [unused EXCEPT ![s] = got]
    BY <1>0, <1>1 DEF Constructed
  <2>3. SourceTypes'
    BY <1>0, <2>1, <2>2 DEF SourceTypes
  <2>4. ASSUME NEW t \in Sources
        PROVE  Fine(t)' /\ (t \in Streams /\ refs'[t] > 0 => bufs'[t] = Buffers)
    <3>1. Fine(t) /\ (t \in Streams /\ refs[t] > 0 => bufs[t] = Buffers)
      BY DEF InOrder
    <3>2. CASE t = s
      <4>1. ~InPool(t)'
        BY <2>1, <3>2 DEF IInv, RefsBalanced, InPool
      <4>2. ~valid'[t] /\ (t \in Streams => /\ unused'[t] = Buffers /\ left'[t] > 0
                                            /\ bufs'[t] = Buffers)
        BY <1>0, <2>1, <2>2, <3>2 DEF SourceTypes
      <4> QED
        BY <4>1, <4>2 DEF Fine
    <3>3. CASE t # s
      <4>1. /\ refs'[t] = refs[t] /\ valid'[t] = valid[t] /\ voice'[t] = voice[t]
            /\ unused'[t] = unused[t] /\ left'[t] = left[t] /\ bufs'[t] = bufs[t]
            /\ playing'[t] = playing[t] /\ al' = al
        BY <1>0, <2>1, <2>2, <3>3 DEF SourceTypes
      <4> QED
        BY <3>1, <4>1 DEF Fine, InPool, Carries
    <3> QED
      BY <3>2, <3>3
  <2>5. \A v \in Voices : Sane(al'[v]) /\ (~Lent(v)' => al'[v] = Blank)
    BY <2>1 DEF InOrder, Lent
  <2> QED
    BY <1>0, <2>1, <2>3, <2>4, <2>5 DEF InOrder
<1>2. ASSUME NEW s \in Sources, NewSource(s)
      PROVE  InOrder'
  BY <1>0, <1>1, <1>2 DEF NewSource
<1>3. ASSUME NEW s \in Sources, NEW t \in Sources, Clone(s, t)
      PROVE  InOrder'
  <2>1. refs[s] > 0 /\ bufs[s] \in Nat /\ looping[s] \in BOOLEAN
    BY <1>0, <1>3 DEF Clone, Callable, IInv, RefsBalanced, SourceTypes
  <2>2. t \in Streams => bufs[s] = Buffers
    BY <1>0, <1>3, <2>1 DEF Clone, InOrder, Sources
  <2> QED
    BY <1>1, <1>3, <2>1, <2>2 DEF Clone
<1> QED
  BY <1>2, <1>3 DEF Births

(* play() of a group: the new ones are prepared, and alSourcePlayv starts  *)
(* them together with those that were not playing.                         *)
LEMMA PlayingListsKeepsOrder ==
  ASSUME IInv, InOrder, Careful, IInv', NEW S \in SUBSET Sources, PlayList(S)
  PROVE  InOrder'
<1> DEFINE New   == {s \in S : ~InPool(s)}
           Begin == {s \in S : s \in New \/ ~IsPlaying(s)}
           Ready(s) == IF s \in New THEN Prepared(s) ELSE al[playing'[s]]
<1>0. /\ SourceTypes /\ al \in [Voices -> VoiceRec] /\ NoVoice \notin Voices
      /\ playing \in [Sources -> Voices \cup {NoVoice}] /\ Streams \subseteq Sources
      /\ \A v \in Voices : Sane(al[v])
      /\ \A s \in S : s \in Sources /\ refs[s] > 0
      /\ New \in SUBSET Sources /\ PoolType'
  BY AudioAssumption DEF PlayList, Callable, InOrder, IInv, PoolType, RefsBalanced, Sources
<1>1. /\ Assign(New)
      /\ voice' = [s \in Sources |-> IF s \in New THEN playing'[s] ELSE voice[s]]
      /\ valid' = [s \in Sources |-> valid[s] \/ s \in S]
      /\ al' = [v \in Voices |->
           IF \E s \in Begin : playing'[s] = v
           THEN LET s == CHOOSE s \in Begin : playing'[s] = v
                    a == IF s \in New THEN Prepared(s) ELSE al[v]
                IN  AlPlay(a)
           ELSE al[v]]
      /\ unused' = [s \in Sources |->
           IF s \in New \cap Streams THEN unused[s] - Fill(s, 0) ELSE unused[s]]
      /\ left' = [s \in Sources |->
           IF s \in New \cap Streams THEN LeftAfter(s, 0) ELSE left[s]]
      /\ alError' = FALSE /\ bufs' = bufs /\ looping' = looping
  BY DEF PlayList, Careful
<1>2. /\ \A s \in New : playing'[s] \in Voices /\ \E i \in 1..Len(available) : playing'[s] = available[i]
      /\ \A s \in Sources \ New : playing'[s] = playing[s]
      /\ refs' = Retained(New)
  BY <1>0, <1>1, AssignLends DEF IInv
<1>3. \A s \in S : playing'[s] \in Voices
  BY <1>0, <1>2 DEF InPool
<1>4. ASSUME NEW s \in Begin
      PROVE  al'[playing'[s]] = AlPlay(Ready(s))
  <2>1. PICK t \in Begin : /\ t = (CHOOSE u \in Begin : playing'[u] = playing'[s])
                           /\ playing'[t] = playing'[s]
    OBVIOUS
  <2>2. t = s
    <3>1. VoicePartition' /\ InPool(t)'
      BY <1>0, <1>3, <2>1 DEF IInv, InPool
    <3> QED
      BY <1>0, <2>1, <3>1 DEF VoicePartition
  <2> QED
    BY <1>1, <1>3, <2>1, <2>2
<1>5. ASSUME NEW v \in Voices, \A s \in Begin : playing'[s] # v
      PROVE  al'[v] = al[v]
  BY <1>1, <1>5
<1>6. ASSUME NEW s \in New
      PROVE  /\ Sane(Prepared(s)) /\ Prepared(s).content = s
             /\ Prepared(s).todo > 0 /\ Prepared(s).done = 0
             /\ s \in Streams =>
                  /\ Prepared(s).todo = Fill(s, 0) /\ unused[s] = Buffers
                  /\ unused[s] - Fill(s, 0) \in Nat
             /\ LeftAfter(s, 0) \in Nat
  BY <1>0, PreparedIsSane, RefillBounds
<1>7. ASSUME NEW s \in New
      PROVE  /\ ~InPool(s) /\ playing'[s] \in Voices /\ refs[s] > 0
             /\ valid'[s] /\ voice'[s] = playing'[s]
             /\ Sane(al'[playing'[s]]) /\ al'[playing'[s]].content = s
             /\ s \in Streams => Carries(s, al[playing[s]])'
  <2>1. PICK a : a = al'[playing'[s]]
    OBVIOUS
  <2>2. a = AlPlay(Prepared(s))
    BY <1>4, <2>1
  <2>3. /\ Sane(a) /\ a.content = s /\ a.state # "initial"
        /\ a.todo + a.done = Prepared(s).todo + Prepared(s).done
    BY <1>6, <2>2, PlayGoesAlong DEF Along
  <2>4. ASSUME s \in Streams
        PROVE  Carries(s, a)'
    <3>1. /\ a.todo \in Nat /\ a.done \in Nat /\ Fill(s, 0) \in Nat /\ Buffers \in Nat
      BY <1>0, <2>3, RefillBounds, AudioAssumption DEF Sane, VoiceRec
    <3>2. /\ a.todo + a.done = Fill(s, 0) /\ Fill(s, 0) > 0
          /\ unused'[s] = Buffers - Fill(s, 0)
      BY <1>0, <1>1, <1>6, <2>3, <2>4, <3>1
    <3> QED
      BY <2>3, <3>1, <3>2 DEF Carries
  <2>5. s \in Streams => Carries(s, al[playing[s]])'
    BY <2>1, <2>4 DEF Carries
  <2> QED
    BY <1>0, <1>1, <1>2, <2>1, <2>3, <2>5
<1>8. ASSUME NEW s \in Sources \ New
      PROVE  /\ playing'[s] = playing[s] /\ unused'[s] = unused[s] /\ left'[s] = left[s]
             /\ valid'[s] = valid[s] /\ (refs'[s] > 0 => refs[s] > 0)
             /\ InPool(s) => voice'[s] = voice[s] /\ Along(al[playing[s]], al'[playing[s]])
  <2>1. valid'[s] = valid[s]
    BY <1>0, <1>1 DEF InOrder, Fine, SourceTypes
  <2>2. ASSUME InPool(s)
        PROVE  Along(al[playing[s]], al'[playing[s]])
    <3>1. playing[s] \in Voices /\ playing'[s] = playing[s]
      BY <1>0, <1>2, <2>2 DEF InPool
    <3>2. CASE s \in Begin
      BY <1>0, <1>4, <3>1, <3>2, PlayGoesAlong
    <3>3. CASE s \notin Begin
      <4>1. ASSUME NEW t \in Begin, playing'[t] = playing[s]
            PROVE  FALSE
        <5>1. VoicePartition' /\ InPool(t)' /\ t \in Sources
          BY <1>0, <1>3 DEF IInv, InPool
        <5> QED
          BY <3>1, <3>3, <4>1, <5>1 DEF VoicePartition
      <4>2. al'[playing[s]] = al[playing[s]]
        BY <1>5, <3>1, <4>1
      <4> QED
        BY <1>0, <3>1, <4>2, OthersGoAlong
    <3> QED
      BY <3>2, <3>3
  <2> QED
    BY <1>0, <1>1, <1>2, <2>1, <2>2 DEF Retained
<1>9. \A v \in Voices : ~Lent(v)' => al'[v] = al[v]
  BY <1>0, <1>5 DEF Lent
<1>10. al' \in [Voices -> VoiceRec]
  <2>1. ASSUME NEW v \in Voices
        PROVE  al'[v] \in VoiceRec
    <3>1. CASE \E s \in Begin : playing'[s] = v
      <4>1. PICK s \in Begin : playing'[s] = v
        BY <3>1
      <4>2. Sane(Ready(s))
        BY <1>0, <1>6, <4>1
      <4> QED
        BY <1>4, <4>1, <4>2, PlayGoesAlong DEF Along, Sane
    <3>2. CASE ~ \E s \in Begin : playing'[s] = v
      BY <1>0, <1>5, <3>2
    <3> QED
      BY <3>1, <3>2
  <2>2. DOMAIN al' = Voices /\ al' = [v \in Voices |-> al'[v]]
    BY <1>1
  <2> QED
    BY <2>1, <2>2
<1>11. SourceTypes'
  <2>1. valid' \in [Sources -> BOOLEAN] /\ voice' \in [Sources -> Voices \cup {NoVoice}]
    BY <1>0, <1>1, <1>2 DEF SourceTypes
  <2>2. unused' \in [Sources -> Nat] /\ left' \in [Sources -> Nat]
    BY <1>0, <1>1, <1>6 DEF SourceTypes
  <2> QED
    BY <1>0, <1>1, <2>1, <2>2 DEF SourceTypes
<1> HIDE DEF New
<1> QED
  BY <1>0, <1>1, <1>7, <1>8, <1>9, <1>10, <1>11, Lend

(* A refill moves buffers between the stream and its voice, and leaves     *)
(* none of them out; one that is not finished always has one queued.       *)
LEMMA RefillConserves ==
  ASSUME InOrder, NEW s \in Streams, NEW a, Sane(a), Carries(s, a),
         a.state = "stopped" => looping[s] \/ left[s] # 0
  PROVE  LET b == Refilled(s, a)
             u == unused[s] + a.done - Fill(s, a.done)
         IN  /\ Sane(b) /\ b.content = a.content /\ u \in Nat
             /\ b.todo + b.done > 0 /\ b.state # "initial"
             /\ u + b.todo + b.done = Buffers
<1>0. /\ s \in Sources /\ s \notin Statics /\ Buffers \in Nat
      /\ unused[s] \in Nat /\ left[s] \in Nat /\ looping[s] \in BOOLEAN /\ SourceTypes
  BY AudioAssumption DEF InOrder, SourceTypes, Sources
<1>1. /\ a \in VoiceRec /\ a.todo \in Nat /\ a.done \in Nat
      /\ a.state \in {"playing", "paused", "stopped"}
      /\ a.state # "stopped" => a.todo > 0
      /\ a.todo + a.done > 0 /\ unused[s] + a.todo + a.done = Buffers
  BY DEF Sane, VoiceRec, Carries
<1>2. PICK f \in Nat : /\ f = Fill(s, a.done) /\ f <= a.done + unused[s]
                       /\ a.done + unused[s] > 0 /\ left[s] > 0 => f > 0
                       /\ a.done > 0 /\ looping[s] => f > 0
  BY <1>0, <1>1, RefillBounds
<1>3. PICK b : b = Refilled(s, a)
  OBVIOUS
<1>4. CASE a.state = "stopped"
  <2>1. b = [a EXCEPT !.done = f]
    BY <1>0, <1>2, <1>3, <1>4 DEF Refilled
  <2>2. b \in VoiceRec
    BY <1>1, <2>1 DEF VoiceRec
  <2>3. b.state = "stopped" /\ b.content = a.content /\ b.todo = a.todo /\ b.done = f
    BY <1>1, <1>4, <2>1 DEF VoiceRec
  <2>4. a.todo > 0 \/ f > 0
    BY <1>0, <1>1, <1>2, <1>4
  <2> QED
    BY <1>0, <1>1, <1>2, <1>3, <2>2, <2>3, <2>4 DEF Sane
<1>5. CASE a.state # "stopped"
  <2>1. PICK t \in Nat : t = a.todo + f
    BY <1>1
  <2>2. b = [a EXCEPT !.done = 0, !.todo = t]
    BY <1>0, <1>2, <1>3, <1>5, <2>1 DEF Refilled
  <2>3. b \in VoiceRec
    BY <1>1, <2>2 DEF VoiceRec
  <2>4. b.state = a.state /\ b.content = a.content /\ b.todo = t /\ b.done = 0
    BY <1>1, <2>2 DEF VoiceRec
  <2> QED
    BY <1>0, <1>1, <1>2, <1>3, <1>5, <2>1, <2>3, <2>4 DEF Sane
<1> QED
  BY <1>4, <1>5

(* One pass of the pool's thread.                                          *)
LEMMA UpdateKeepsOrder ==
  ASSUME IInv, InOrder, Careful, Update
  PROVE  InOrder'
<1> DEFINE Live == {s \in Sources : InPool(s) /\ StillPlaying(s)}
           Done == {s \in Sources : InPool(s) /\ ~StillPlaying(s)}
<1>0. /\ SourceTypes /\ al \in [Voices -> VoiceRec] /\ NoVoice \notin Voices
      /\ playing \in [Sources -> Voices \cup {NoVoice}] /\ alError = FALSE
      /\ Streams \subseteq Sources /\ Statics \cap Streams = {}
      /\ Chunks \in Nat /\ Chunks > 0
      /\ \A v \in Voices : Sane(al[v])
      /\ \A s \in Sources \ Streams : s \in Statics
  BY AudioAssumption DEF InOrder, IInv, PoolType, Sources
<1>1. /\ al' = [v \in Voices |->
           IF \E s \in Live : voice[s] = v
           THEN LET s == CHOOSE s \in Live : voice[s] = v IN Refilled(s, al[voice[s]])
           ELSE IF \E s \in Done : valid[s] /\ voice[s] = v THEN Blank
           ELSE al[v]]
      /\ unused' = [s \in Sources |->
           IF s \in Live \cap Streams
           THEN unused[s] + al[voice[s]].done - Fill(s, al[voice[s]].done)
           ELSE IF s \in Done /\ valid[s] THEN Drained(s, al[voice[s]])
           ELSE unused[s]]
      /\ left' = [s \in Sources |->
           IF s \in Live \cap Streams THEN LeftAfter(s, al[voice[s]].done)
           ELSE IF s \in Done /\ valid[s] THEN Rewound(s)
           ELSE left[s]]
      /\ valid' = [s \in Sources |-> valid[s] /\ s \notin Done]
      /\ Release(Done, {})
      /\ UNCHANGED <<voice, bufs, looping, alError>>
  <2>1. PICK more \in [Live \cap Streams -> 0..0] :
          LET Now(s) == IF s \in Streams /\ more[s] > 0
                        THEN AlAdvance(al[voice[s]], more[s]) ELSE al[voice[s]]
          IN
          /\ al' = [v \in Voices |->
               IF \E s \in Live : voice[s] = v
               THEN LET s == CHOOSE s \in Live : voice[s] = v IN Refilled(s, Now(s))
               ELSE IF \E s \in Done : valid[s] /\ voice[s] = v THEN Blank
               ELSE al[v]]
          /\ unused' = [s \in Sources |->
               IF s \in Live \cap Streams
               THEN unused[s] + Now(s).done - Fill(s, Now(s).done)
               ELSE IF s \in Done /\ valid[s] THEN Drained(s, al[voice[s]])
               ELSE unused[s]]
          /\ left' = [s \in Sources |->
               IF s \in Live \cap Streams THEN LeftAfter(s, Now(s).done)
               ELSE IF s \in Done /\ valid[s] THEN Rewound(s)
               ELSE left[s]]
    BY Zenon DEF Update, Careful
  <2>2. \A s \in Live : ~(s \in Streams /\ more[s] > 0)
    BY <2>1
  <2>3. /\ valid' = [s \in Sources |-> valid[s] /\ s \notin Done]
        /\ Release(Done, {}) /\ UNCHANGED <<voice, bufs, looping, alError>>
    BY DEF Update
  <2>4. \A v \in Voices : (\E s \in Live : voice[s] = v) =>
                           (CHOOSE s \in Live : voice[s] = v) \in Live
    OBVIOUS
  <2> HIDE DEF Live, Done
  <2> QED
    BY <2>1, <2>2, <2>3, <2>4
<1>2. /\ playing' = [s \in Sources |-> IF s \in Done THEN NoVoice ELSE playing[s]]
      /\ refs' = Released(Done \ {})
  <2>1. {s \in Done : InPool(s)} = Done
    OBVIOUS
  <2> QED
    BY <1>1, <2>1 DEF Release
<1>3. ASSUME NEW s \in Sources, InPool(s)
      PROVE  /\ Fine(s) /\ valid[s] /\ voice[s] = playing[s] /\ playing[s] \in Voices
             /\ al[playing[s]].content = s
             /\ s \in Streams => Carries(s, al[playing[s]])
             /\ \A t \in Sources : InPool(t) /\ voice[t] = voice[s] => t = s
  BY <1>0, <1>3 DEF InOrder, Fine, InPool, IInv, VoicePartition
<1>4. ASSUME NEW s \in Live
      PROVE  al'[playing[s]] = Refilled(s, al[playing[s]])
  <2>1. (CHOOSE t \in Live : voice[t] = playing[s]) = s
    BY <1>3
  <2> QED
    BY <1>1, <1>3, <2>1
<1>5. ASSUME NEW s \in Done
      PROVE  InPool(s) /\ al'[playing[s]] = Blank
  BY <1>1, <1>3
<1>6. ASSUME NEW s \in Live, s \in Streams
      PROVE  /\ Sane(al'[playing[s]]) /\ al'[playing[s]].content = s
             /\ unused'[s] \in Nat /\ left'[s] \in Nat
             /\ Carries(s, al[playing[s]])'
  <2>1. PICK a : a = al[playing[s]]
    OBVIOUS
  <2>2. /\ Sane(a) /\ a.content = s /\ Carries(s, a) /\ a.done \in Nat
        /\ a.state = "stopped" => looping[s] \/ left[s] # 0
    BY <1>0, <1>3, <1>6, <2>1 DEF StillPlaying, Finished, Sane, VoiceRec
  <2>3. PICK b : b = Refilled(s, a)
    OBVIOUS
  <2>4. PICK u : u = unused[s] + a.done - Fill(s, a.done)
    OBVIOUS
  <2>5. /\ Sane(b) /\ b.content = s /\ u \in Nat
        /\ b.todo + b.done > 0 /\ b.state # "initial" /\ u + b.todo + b.done = Buffers
    BY <1>6, <2>2, <2>3, <2>4, RefillConserves
  <2>6. /\ al'[playing[s]] = b /\ unused'[s] = u /\ playing'[s] = playing[s]
        /\ left'[s] = LeftAfter(s, a.done)
    BY <1>0, <1>1, <1>2, <1>3, <1>4, <1>6, <2>1, <2>3, <2>4
  <2> QED
    BY <1>0, <2>2, <2>5, <2>6, RefillBounds DEF Carries
<1>7. ASSUME NEW s \in Live, s \notin Streams
      PROVE  Sane(al'[playing[s]]) /\ al'[playing[s]].content = s
  <2>1. Refilled(s, al[playing[s]]) = [al[playing[s]] EXCEPT !.loop = looping[s]]
    BY <1>0, <1>7 DEF Refilled
  <2>2. looping[s] \in BOOLEAN
    BY <1>0 DEF SourceTypes
  <2>3. PICK a : a = al[playing[s]]
    OBVIOUS
  <2>4. InPool(s) /\ Sane(a) /\ a.content = s
    BY <1>0, <1>3, <2>3
  <2>5. Along(a, [a EXCEPT !.loop = looping[s]])
    BY <2>2, <2>4, OthersGoAlong
  <2>6. al'[playing[s]] = [a EXCEPT !.loop = looping[s]]
    BY <1>4, <2>1, <2>3
  <2> QED
    BY <2>4, <2>5, <2>6 DEF Along
<1>8. \A v \in Voices : ~Lent(v) => al'[v] = Blank
  <2>1. ASSUME NEW v \in Voices, ~Lent(v)
        PROVE  al'[v] = Blank
    <3>1. \A s \in Sources : InPool(s) => voice[s] # v
      BY <1>3, <2>1 DEF Lent
    <3>2. al'[v] = al[v]
      BY <1>1, <3>1
    <3> QED
      BY <2>1, <3>2 DEF InOrder
  <2> QED
    BY <2>1
<1>9. ASSUME NEW s \in Done
      PROVE  /\ unused'[s] = Drained(s, al[playing[s]]) /\ unused'[s] \in Nat
             /\ left'[s] = Rewound(s) /\ left'[s] \in Nat
             /\ s \in Streams => left'[s] > 0
  <2>1. unused'[s] = Drained(s, al[playing[s]]) /\ left'[s] = Rewound(s)
    BY <1>1, <1>3
  <2>2. /\ unused[s] \in Nat /\ left[s] \in Nat
        /\ al[playing[s]].todo \in Nat /\ al[playing[s]].done \in Nat
    BY <1>0, <1>3 DEF SourceTypes, Sane, VoiceRec
  <2> QED
    BY <1>0, <2>1, <2>2 DEF Drained, Rewound
<1>10. \A s \in Sources : s \notin Done /\ ~(s \in Live /\ s \in Streams) =>
         unused'[s] = unused[s] /\ left'[s] = left[s]
  BY <1>1
<1>11. SourceTypes'
  <2>1. ASSUME NEW s \in Sources
        PROVE  unused'[s] \in Nat /\ left'[s] \in Nat
    BY <1>0, <1>6, <1>9, <1>10 DEF SourceTypes
  <2>2. unused' = [s \in Sources |-> unused'[s]] /\ left' = [s \in Sources |-> left'[s]]
    BY <1>1
  <2>3. unused' \in [Sources -> Nat] /\ left' \in [Sources -> Nat]
    BY <2>1, <2>2
  <2>4. valid' \in [Sources -> BOOLEAN]
    BY <1>0, <1>1 DEF SourceTypes
  <2> QED
    BY <1>0, <1>1, <2>3, <2>4 DEF SourceTypes
<1>12. al' \in [Voices -> VoiceRec]
  <2>1. ASSUME NEW v \in Voices
        PROVE  al'[v] \in VoiceRec
    <3>1. CASE \E s \in Live : voice[s] = v
      BY <1>3, <1>6, <1>7, <3>1 DEF Sane
    <3>2. CASE ~ \E s \in Live : voice[s] = v
      BY <1>0, <1>1, <3>2, BlankIsSane DEF Sane
    <3> QED
      BY <3>1, <3>2
  <2>2. al' = [v \in Voices |-> al'[v]]
    BY <1>1
  <2> QED
    BY <2>1, <2>2
<1>13. Done \in SUBSET Sources /\ \A s \in Sources : refs'[s] > 0 => refs[s] > 0
  BY <1>2 DEF Released, IInv, OwnersType
<1>14. \A s \in Sources \ Done : InPool(s) => s \in Live
  OBVIOUS
<1>15. \A s \in Sources \ Done : InPool(s) =>
         /\ Sane(al'[playing[s]]) /\ al'[playing[s]].content = s
         /\ s \in Streams => Carries(s, al[playing[s]])'
  BY <1>6, <1>7, <1>14
<1>16. \A s \in Streams :
         /\ s \in Done => /\ unused'[s] = unused[s] + al[playing[s]].todo + al[playing[s]].done
                          /\ left'[s] > 0
         /\ ~InPool(s) => unused'[s] = unused[s] /\ (left'[s] = left[s] \/ left'[s] > 0)
  BY <1>0, <1>9, <1>10 DEF Drained
<1>17. /\ playing' \in [Sources -> Voices \cup {NoVoice}]
       /\ \A s \in Sources :
            /\ playing'[s] = IF s \in Done THEN NoVoice ELSE playing[s]
            /\ valid'[s] <=> valid[s] /\ s \notin Done
            /\ InPool(s) => voice'[s] = voice[s]
       /\ alError' = FALSE /\ bufs' = bufs
  BY <1>0, <1>1, <1>2
<1> HIDE DEF Done
<1> QED
  BY <1>5, <1>8, <1>11, <1>12, <1>13, <1>15, <1>16, <1>17, Shift

-----------------------------------------------------------------------------
(* The theorems.                                                           *)

(* stop() of a group or of everything, and the pool without a device.      *)
LEMMA StopsKeepOrder ==
  ASSUME IInv, InOrder,
         \/ \E S \in SUBSET Sources : StopList(S)
         \/ StopAll \/ DeletePool \/ Disconnected
  PROVE  InOrder'
<1>1. PICK S \in SUBSET Sources, kept \in SUBSET Sources : DoStop(S) /\ Release(S, kept)
  <2> DEFINE P == {s \in Sources : InPool(s)}
             kept == {s \in P : refs[s] > 1}
  <2>1. CASE \E S \in SUBSET Sources : StopList(S)
    BY <2>1, {} \in SUBSET Sources DEF StopList
  <2>2. CASE StopAll \/ DeletePool
    <3>1. DoStop(P) /\ Release(P, {}) /\ P \in SUBSET Sources
      BY <2>2 DEF StopAll, DeletePool
    <3> QED
      BY <3>1, {} \in SUBSET Sources
  <2>3. CASE Disconnected
    <3>1. DoStop(P) /\ Release(P, kept) /\ P \in SUBSET Sources /\ kept \in SUBSET Sources
      BY <2>3 DEF Disconnected
    <3> QED
      BY <3>1
  <2> QED
    BY <2>1, <2>2, <2>3
<1> QED
  BY <1>1, StoppingKeepsOrder

(* stop() with the mutex in its hands leaves a Source that is not valid.   *)
LEMMA StopOneKeepsOrder ==
  ASSUME IInv, InOrder, NEW s \in Sources, DoStopOne(s)
  PROVE  InOrder' /\ ~valid'[s]
<1>1. CASE InPool(s)
  <2>1. DoStop({s}) /\ Release({s}, {}) /\ {s} \in SUBSET Sources
    BY <1>1 DEF DoStopOne
  <2> QED
    BY <2>1, StoppingKeepsOrder
<1>2. CASE ~InPool(s)
  <2>1. UNCHANGED <<poolVars, sourceVars, deviceVars>>
    BY <1>2 DEF DoStopOne
  <2>2. InOrder'
    BY <2>1, StayingKeepsOrder DEF poolVars, sourceVars, deviceVars
  <2>3. ~valid'[s]
    BY <1>2, <2>1 DEF InOrder, Fine, sourceVars
  <2> QED
    BY <2>2, <2>3
<1> QED
  BY <1>1, <1>2

(* The steps inside stop() and seek().                                     *)
LEMMA InnerStepsKeepOrder ==
  ASSUME IInv, InOrder, IInv', StopLocked \/ SeekPlay \/ SeekFailed \/ SeekReplay
  PROVE  InOrder'
<1>0. subject \in held /\ subject \in Sources /\ PoolType'
  BY DEF IInv, OwnersType, SubjectHeld, StopLocked, SeekPlay, SeekFailed, SeekReplay
<1>1. CASE StopLocked
  BY <1>0, <1>1, StopOneKeepsOrder DEF StopLocked
<1>2. CASE SeekPlay \/ SeekReplay
  BY <1>0, <1>2, PlayingKeepsOrder DEF SeekPlay, SeekReplay
<1>3. CASE SeekFailed
  <2>1. DoStopOne(subject) \/ UNCHANGED <<poolVars, sourceVars, deviceVars>>
    BY <1>3 DEF SeekFailed
  <2>2. CASE DoStopOne(subject)
    BY <1>0, <2>2, StopOneKeepsOrder
  <2>3. CASE UNCHANGED <<poolVars, sourceVars, deviceVars>>
    BY <2>3, StayingKeepsOrder DEF poolVars, sourceVars, deviceVars
  <2> QED
    BY <2>1, <2>2, <2>3
<1> QED
  BY <1>1, <1>2, <1>3

(* No Source, and every voice blank.                                       *)
LEMMA InitIsInOrder == Init => InOrder
<1> SUFFICES ASSUME Init PROVE InOrder
  OBVIOUS
<1>1. SourceTypes /\ alError = FALSE
  BY DEF Init, SourceTypes
<1>2. al \in [Voices -> VoiceRec] /\ \A v \in Voices : Sane(al[v]) /\ al[v] = Blank
  BY BlankIsSane DEF Init, Sane
<1>3. \A s \in Sources : ~InPool(s) /\ ~valid[s] /\ refs[s] = 0
  BY DEF Init, InPool
<1> QED
  BY <1>1, <1>2, <1>3 DEF InOrder, Fine, Sources

(* Every step, by what it does with the voices.                            *)
LEMMA NextKeepsOrder ==
  ASSUME Careful, IInv, InOrder, [Next]_vars
  PROVE  InOrder'
<1>0. IInv' /\ PoolType'
  BY NextKeepsInv DEF IInv
<1>1. CASE \E s \in Sources : Play(s)
  BY <1>0, <1>1, PlayingKeepsOrder DEF Play, Callable
<1>2. CASE \/ \E s \in Sources : \/ Stop(s) \/ Drop(s)
                                 \/ \E t \in SeekTargets : SeekStatic(s, t)
           \/ SeekCheck \/ PollMessage \/ ThreadEnds \/ SetFinish \/ UNCHANGED vars
  BY <1>2, QuietStepsKeepOrder
<1>3. CASE \/ \E s \in Sources : Pause(s)
           \/ \E S \in SUBSET Sources : PauseList(S)
           \/ PauseAll
  BY <1>3, PausingKeepsOrder DEF Pause, PauseList, PauseAll
<1>4. CASE \E s \in Sources : \E enable \in BOOLEAN : SetLooping(s, enable)
  BY <1>4, SettingLoopingKeepsOrder
<1>5. CASE \E s \in Sources : \E t \in SeekTargets : SeekStream(s, t)
  BY <1>5, SeekingKeepsOrder
<1>6. CASE \E S \in SUBSET Sources : PlayList(S)
  BY <1>0, <1>6, PlayingListsKeepsOrder
<1>7. CASE \/ \E S \in SUBSET Sources : StopList(S)
           \/ StopAll \/ DeletePool \/ Disconnected
  BY <1>7, StopsKeepOrder
<1>8. CASE StopLocked \/ SeekPlay \/ SeekFailed \/ SeekReplay
  BY <1>0, <1>8, InnerStepsKeepOrder
<1>9. CASE Births
  BY <1>9, BirthsKeepOrder
<1>10. CASE Update
  BY <1>10, UpdateKeepsOrder
<1>11. CASE Environment
  BY <1>11, EnvironmentKeepsOrder
<1> QED
  BY <1>1, <1>2, <1>3, <1>4, <1>5, <1>6, <1>7, <1>8, <1>9, <1>10, <1>11
     DEF Next, Program, PoolThread, Down, Births

(* So a careful program keeps the pool in order.                           *)
LEMMA AlwaysInOrder ==
  ASSUME Careful
  PROVE  Spec => [](IInv /\ InOrder)
<1>1. IInv /\ InOrder /\ [Next]_vars => IInv' /\ InOrder'
  BY NextKeepsInv, NextKeepsOrder
<1> QED
  BY <1>1, InitInv, InitIsInOrder, PTL DEF Spec

(* Source::valid and Source::source around the pool: a Source the pool     *)
(* plays drives the voice it was lent, which carries its own sound.        *)
THEOREM SourcesDriveTheirOwnVoice == Careful => (Spec => []OwnVoice)
<1> SUFFICES ASSUME Careful PROVE Spec => []OwnVoice
  OBVIOUS
<1>1. InOrder => OwnVoice
  BY DEF InOrder, Fine, OwnVoice
<1>2. Spec => [](IInv /\ InOrder)
  BY AlwaysInOrder
<1> QED
  BY <1>1, <1>2, PTL

(* Every setter tests valid and uses source: no Source is valid once its   *)
(* voice went back to the pool.                                            *)
THEOREM NoHandleIsStale == Careful => (Spec => []NoStaleHandle)
<1> SUFFICES ASSUME Careful PROVE Spec => []NoStaleHandle
  OBVIOUS
<1>1. InOrder => NoStaleHandle
  BY DEF InOrder, Fine, NoStaleHandle
<1>2. Spec => [](IInv /\ InOrder)
  BY AlwaysInOrder
<1> QED
  BY <1>1, <1>2, PTL

(* Pool::available: what waits there was stopped and emptied.              *)
THEOREM FreeVoicesAreSilent == Careful => (Spec => []FreeVoicesSilent)
<1> SUFFICES ASSUME Careful PROVE Spec => []FreeVoicesSilent
  OBVIOUS
<1>1. IInv /\ InOrder => FreeVoicesSilent
  <2> SUFFICES ASSUME IInv, InOrder, NEW i \in 1..Len(available)
               PROVE  al[available[i]] = Blank
    BY DEF FreeVoicesSilent
  <2>1. available[i] \in Voices
    BY ElementOfSeq DEF IInv, PoolType
  <2>2. ~Lent(available[i])
    BY <2>1 DEF IInv, VoicePartition, Lent
  <2> QED
    BY <2>1, <2>2 DEF InOrder
<1>2. Spec => [](IInv /\ InOrder)
  BY AlwaysInOrder
<1> QED
  BY <1>1, <1>2, PTL

(* unusedBuffers and the voice's queue: a stream's buffers are in the one  *)
(* or on the other, all of them, through plays, refills, seeks and stops.  *)
THEOREM BuffersAreConserved == Careful => (Spec => []BuffersConserved)
<1> SUFFICES ASSUME Careful PROVE Spec => []BuffersConserved
  OBVIOUS
<1>1. IInv /\ InOrder => BuffersConserved
  <2> SUFFICES ASSUME IInv, InOrder, NEW s \in Streams, refs[s] > 0
               PROVE  unused[s] + QueuedOf(s) = Buffers
    BY DEF BuffersConserved
  <2>1. /\ s \in Sources /\ NoSource \notin Sources /\ NoVoice \notin Voices
        /\ playing \in [Sources -> Voices \cup {NoVoice}] /\ unused[s] \in Nat
    BY AudioAssumption DEF Sources, IInv, PoolType, InOrder, SourceTypes
  <2>2. ASSUME NEW v \in Voices
        PROVE  al[v].content = s <=> playing[s] = v
    <3>1. CASE ~Lent(v)
      BY <2>1, <3>1 DEF InOrder, Lent, Blank
    <3>2. CASE Lent(v)
      <4>1. PICK t \in Sources : playing[t] = v
        BY <3>2 DEF Lent
      <4>2. InPool(t) /\ al[v].content = t
        BY <2>1, <4>1 DEF InPool, InOrder, Fine
      <4> QED
        BY <2>1, <4>1, <4>2 DEF InPool, IInv, VoicePartition
    <3> QED
      BY <3>1, <3>2
  <2>3. CASE InPool(s)
    <3>1. playing[s] \in Voices /\ Fine(s) /\ Sane(al[playing[s]])
      BY <2>1, <2>3 DEF InPool, InOrder
    <3>2. (CHOOSE v \in Voices : al[v].content = s) = playing[s]
      BY <2>2, <3>1
    <3>3. QueuedOf(s) = al[playing[s]].todo + al[playing[s]].done
      BY <2>2, <3>1, <3>2 DEF QueuedOf
    <3>4. al[playing[s]].todo \in Nat /\ al[playing[s]].done \in Nat
      BY <3>1 DEF Sane, VoiceRec
    <3> QED
      BY <2>1, <2>3, <3>1, <3>3, <3>4 DEF Fine, Carries
  <2>4. CASE ~InPool(s)
    <3>1. QueuedOf(s) = 0
      BY <2>1, <2>2, <2>4 DEF InPool, QueuedOf
    <3> QED
      BY <2>1, <2>4, <3>1 DEF InOrder, Fine
  <2> QED
    BY <2>3, <2>4
<1>2. Spec => [](IInv /\ InOrder)
  BY AlwaysInOrder
<1> QED
  BY <1>1, <1>2, PTL

(* Source::stop of the binding: what the run AudioPool_stale refutes when  *)
(* the program seeks past the end holds when it does not.                  *)
THEOREM StoppingStops == Careful => (Spec => StopMeansStopped)
<1> SUFFICES ASSUME Careful PROVE Spec => StopMeansStopped
  OBVIOUS
<1>1. IInv /\ InOrder /\ [Next]_vars =>
        [\A s \in Sources :
           pc = "stopping" /\ subject = s /\ pc' = "idle" => ~IsPlaying(s)']_vars
  <2> SUFFICES ASSUME IInv, InOrder, [Next]_vars, NEW s \in Sources,
                      pc = "stopping", subject = s, pc' = "idle"
               PROVE  ~IsPlaying(s)'
    OBVIOUS
  <2>1. StopLocked
    BY DEF Next, Program, PoolThread, Environment, Down, vars, callVars, Callable,
           NewSource, Clone, Constructed, Drop, Play, Stop, Pause, SetLooping, SeekStatic, SeekStream,
           PlayList, StopList, PauseList, PauseVoices, StopAll, PauseAll, PollMessage,
           SeekPlay, SeekCheck, SeekFailed, SeekReplay, SetFinish, DeletePool,
           Disconnected, Update, ThreadEnds, Mix, LoseDevice, RegainDevice
  <2>2. DoStopOne(s)
    BY <2>1 DEF StopLocked
  <2> QED
    BY <2>2, StopOneKeepsOrder DEF IsPlaying
<1>2. Spec => [](IInv /\ InOrder)
  BY AlwaysInOrder
<1> QED
  BY <1>1, <1>2, PTL DEF Spec, StopMeansStopped

-----------------------------------------------------------------------------
(* The types, whatever the program seeks and OpenAL refuses.  That a voice *)
(* which plays has something to play, and that only a Source which had a   *)
(* voice is valid or in the pool, is what the types rest on.               *)

VoiceTypes == al \in [Voices -> VoiceRec] /\ \A v \in Voices : Sane(al[v])
HadVoice(s) == InPool(s) \/ valid[s] => voice[s] \in Voices
DataInv == SourceTypes /\ VoiceTypes /\ \A s \in Sources : HadVoice(s)

(* prepareAtomic() takes no more buffers than the Source has.              *)
LEMMA PreparedHasType ==
  ASSUME SourceTypes, NEW s \in Sources
  PROVE  Sane(Prepared(s)) /\ unused[s] - Fill(s, 0) \in Nat
<1>1. PICK f \in Nat : f = Fill(s, 0) /\ f <= unused[s]
  BY RefillBounds DEF SourceTypes
<1>2. looping[s] \in BOOLEAN /\ unused[s] \in Nat
  BY DEF SourceTypes
<1>3. PICK a : a = Prepared(s)
  OBVIOUS
<1>4. CASE s \in Statics
  <2>1. a = [state |-> "initial", content |-> s, todo |-> 1, done |-> 0, loop |-> looping[s]]
    BY <1>3, <1>4 DEF Prepared, Blank
  <2> QED
    BY <1>1, <1>2, <1>3, <2>1 DEF Sane, VoiceRec
<1>5. CASE s \notin Statics
  <2>1. a = [state |-> "initial", content |-> s, todo |-> f, done |-> 0, loop |-> FALSE]
    BY <1>1, <1>3, <1>5 DEF Prepared, Blank
  <2> QED
    BY <1>1, <1>2, <1>3, <2>1 DEF Sane, VoiceRec
<1> QED
  BY <1>4, <1>5

(* The mixer plays no more buffers than are queued.                        *)
LEMMA AdvanceHasType ==
  ASSUME NEW a, Sane(a), a.state = "playing", NEW n \in Nat, n > 0, n <= a.todo
  PROVE  Sane(AlAdvance(a, n))
<1>1. a \in VoiceRec /\ a.todo \in Nat /\ a.done \in Nat
  BY DEF Sane, VoiceRec
<1>2. CASE n = a.todo /\ ~a.loop
  BY <1>2, StopGoesAlong DEF AlAdvance, Along
<1>3. CASE a.loop
  BY <1>3 DEF AlAdvance
<1>4. CASE n # a.todo /\ ~a.loop
  <2>1. PICK t \in Nat, d \in Nat : t = a.todo - n /\ d = a.done + n /\ t > 0
    BY <1>1, <1>4
  <2>2. PICK b : b = AlAdvance(a, n)
    OBVIOUS
  <2>3. b = [a EXCEPT !.todo = t, !.done = d]
    BY <1>4, <2>1, <2>2 DEF AlAdvance
  <2>4. b \in VoiceRec
    BY <1>1, <2>3 DEF VoiceRec
  <2>5. b.state = a.state /\ b.todo = t
    BY <1>1, <2>3 DEF VoiceRec
  <2> QED
    BY <2>1, <2>2, <2>4, <2>5 DEF Sane
<1> QED
  BY <1>2, <1>3, <1>4

(* A refill takes no more than there is, wherever the queue stands.        *)
LEMMA RefilledHasType ==
  ASSUME SourceTypes, NEW s \in Sources, NEW a, Sane(a)
  PROVE  /\ Sane(Refilled(s, a))
         /\ unused[s] + a.done - Fill(s, a.done) \in Nat /\ LeftAfter(s, a.done) \in Nat
<1>1. /\ a \in VoiceRec /\ a.todo \in Nat /\ a.done \in Nat
      /\ a.state \in {"playing", "paused"} => a.todo > 0
      /\ unused[s] \in Nat /\ looping[s] \in BOOLEAN
  BY DEF Sane, VoiceRec, SourceTypes
<1>2. PICK f \in Nat : f = Fill(s, a.done) /\ f <= a.done + unused[s]
  BY <1>1, RefillBounds
<1>3. PICK b : b = Refilled(s, a)
  OBVIOUS
<1>4. CASE s \in Statics
  <2>1. Along(a, [a EXCEPT !.loop = looping[s]])
    BY <1>1, OthersGoAlong
  <2> QED
    BY <1>1, <1>2, <1>4, <2>1, RefillBounds DEF Refilled, Along
<1>5. CASE s \notin Statics /\ a.state = "stopped"
  <2>1. b = [a EXCEPT !.done = f]
    BY <1>2, <1>3, <1>5 DEF Refilled
  <2>2. b \in VoiceRec
    BY <1>1, <2>1 DEF VoiceRec
  <2>3. b.state = "stopped"
    BY <1>1, <1>5, <2>1 DEF VoiceRec
  <2> QED
    BY <1>1, <1>2, <1>3, <2>2, <2>3, RefillBounds DEF Sane
<1>6. CASE s \notin Statics /\ a.state # "stopped"
  <2>1. PICK t \in Nat : t = a.todo + f
    BY <1>1
  <2>2. b = [a EXCEPT !.done = 0, !.todo = t]
    BY <1>2, <1>3, <1>6, <2>1 DEF Refilled
  <2>3. b \in VoiceRec
    BY <1>1, <2>2 DEF VoiceRec
  <2>4. b.state = a.state /\ b.todo = t
    BY <1>1, <2>2 DEF VoiceRec
  <2> QED
    BY <1>1, <1>2, <1>3, <2>1, <2>3, <2>4, RefillBounds DEF Sane
<1> QED
  BY <1>4, <1>5, <1>6

(* Taking voices from Sources that had one.                                *)
LEMMA TearDownHasTypes ==
  ASSUME DataInv, NEW S \in SUBSET Sources, \A s \in S : voice[s] \in Voices, TearDown(S)
  PROVE  unused' \in [Sources -> Nat] /\ VoiceTypes'
<1>1. PICK first \in SUBSET S :
        /\ unused' = [s \in Sources |->
             IF s \in first THEN Drained(s, al[voice[s]]) ELSE unused[s]]
        /\ al' = [v \in Voices |-> IF \E s \in S : voice[s] = v THEN Blank ELSE al[v]]
  BY DEF TearDown
<1>2. ASSUME NEW s \in S
      PROVE  Drained(s, al[voice[s]]) \in Nat
  <2>1. unused[s] \in Nat /\ al[voice[s]].todo \in Nat /\ al[voice[s]].done \in Nat
    BY DEF DataInv, SourceTypes, VoiceTypes, VoiceRec
  <2> QED
    BY <2>1 DEF Drained
<1>3. unused' \in [Sources -> Nat]
  BY <1>1, <1>2 DEF DataInv, SourceTypes
<1>4. VoiceTypes'
  BY <1>1, BlankIsSane DEF DataInv, VoiceTypes, Sane
<1> QED
  BY <1>3, <1>4

(* Source::stop of a group, on any state of its Sources.                   *)
LEMMA StoppingHasTypes ==
  ASSUME DataInv, NEW S \in SUBSET Sources, NEW kept, DoStop(S), Release(S, kept)
  PROVE  DataInv'
<1>1. \A s \in {t \in S : valid[t]} : voice[s] \in Voices
  BY DEF DataInv, HadVoice
<1>2. unused' \in [Sources -> Nat] /\ VoiceTypes'
  BY <1>1, TearDownHasTypes DEF DoStop
<1>3. SourceTypes'
  <2>1. valid' \in [Sources -> BOOLEAN] /\ left' \in [Sources -> Nat]
    BY AudioAssumption DEF DoStop, DataInv, SourceTypes, Rewound
  <2> QED
    BY <1>2, <2>1 DEF DoStop, DataInv, SourceTypes
<1>4. \A s \in Sources : HadVoice(s)'
  BY DEF DoStop, Release, DataInv, HadVoice, InPool
<1> QED
  BY <1>2, <1>3, <1>4 DEF DataInv

(* stop() with the mutex in its hands.                                     *)
LEMMA StopOneHasTypes ==
  ASSUME DataInv, NEW s \in Sources, DoStopOne(s)
  PROVE  DataInv'
<1>1. CASE InPool(s)
  <2>1. DoStop({s}) /\ Release({s}, {}) /\ {s} \in SUBSET Sources
    BY <1>1 DEF DoStopOne
  <2> QED
    BY <2>1, StoppingHasTypes
<1>2. CASE ~InPool(s)
  BY <1>2 DEF DoStopOne, DataInv, SourceTypes, VoiceTypes, HadVoice, InPool, poolVars, sourceVars,
              deviceVars
<1> QED
  BY <1>1, <1>2

(* A step that takes no voice from anybody and changes some voices.        *)
LEMMA VoicesHaveTypes ==
  ASSUME DataInv, UNCHANGED <<playing, voice, unused, bufs, left>>,
         looping' \in [Sources -> BOOLEAN], valid' \in [Sources -> BOOLEAN],
         \A s \in Sources : valid'[s] => valid[s] \/ InPool(s),
         al' = [v \in Voices |-> al'[v]], \A v \in Voices : Sane(al'[v])
  PROVE  DataInv'
<1>1. SourceTypes'
  BY DEF DataInv, SourceTypes
<1>2. VoiceTypes'
  BY DEF VoiceTypes, Sane
<1>3. \A s \in Sources : HadVoice(s)'
  BY DEF DataInv, HadVoice, InPool
<1> QED
  BY <1>1, <1>2, <1>3 DEF DataInv

(* play(), whichever way it ends.                                          *)
LEMMA PlayingHasTypes ==
  ASSUME DataInv, PoolType, NEW s \in Sources, DoPlay(s)
  PROVE  DataInv'
<1>0. /\ SourceTypes /\ al \in [Voices -> VoiceRec] /\ \A v \in Voices : Sane(al[v])
      /\ \A t \in Sources : HadVoice(t)
  BY DEF DataInv, VoiceTypes
<1>1. CASE Resume(s)
  <2>1. /\ InPool(s) /\ voice[s] \in Voices /\ {s} \in SUBSET Sources
        /\ valid' = [valid EXCEPT ![s] = TRUE] /\ UNCHANGED <<voice, bufs, looping>>
    BY <1>0, <1>1 DEF Resume, HadVoice
  <2>2. CASE /\ TearDown({s}) /\ left' = [left EXCEPT ![s] = Rewound(s)]
             /\ Release({s}, {})
    <3>1. unused' \in [Sources -> Nat] /\ VoiceTypes'
      BY <2>1, <2>2, TearDownHasTypes
    <3>2. SourceTypes'
      <4>1. valid' \in [Sources -> BOOLEAN] /\ left' \in [Sources -> Nat]
        BY <1>0, <2>1, <2>2, AudioAssumption DEF SourceTypes, Rewound
      <4> QED
        BY <1>0, <2>1, <3>1, <4>1 DEF SourceTypes
    <3>3. \A t \in Sources : HadVoice(t)'
      BY <1>0, <2>1, <2>2 DEF Release, HadVoice, InPool, SourceTypes
    <3> QED
      BY <3>1, <3>2, <3>3 DEF DataInv
  <2>3. CASE /\ UNCHANGED <<unused, left, poolVars>>
             /\ al' = al \/ al' = [al EXCEPT ![voice[s]] = AlPlay(@)]
    <3>1. al' = [v \in Voices |-> al'[v]] /\ \A v \in Voices : Sane(al'[v])
      <4>1. Sane(AlPlay(al[voice[s]]))
        BY <1>0, <2>1, PlayGoesAlong DEF Along
      <4> QED
        BY <1>0, <2>1, <2>3, <4>1
    <3>2. /\ valid' \in [Sources -> BOOLEAN] /\ looping' \in [Sources -> BOOLEAN]
          /\ \A t \in Sources : valid'[t] => valid[t] \/ InPool(t)
      BY <1>0, <2>1 DEF SourceTypes
    <3> QED
      BY <2>1, <2>3, <3>1, <3>2, VoicesHaveTypes DEF poolVars
  <2>4. \/ /\ TearDown({s}) /\ left' = [left EXCEPT ![s] = Rewound(s)]
           /\ Release({s}, {})
        \/ /\ UNCHANGED <<unused, left, poolVars>>
           /\ al' = al \/ al' = [al EXCEPT ![voice[s]] = AlPlay(@)]
    BY <1>0, <1>1, <2>1 DEF Resume, deviceVars
  <2> QED
    BY <2>2, <2>3, <2>4
<1>2. CASE Start(s)
  <2>1. PICK v \in Voices : v = Head(available)
    BY <1>2, HeadTailProperties, LenProperties, EmptySeq DEF Start, PoolType
  <2>2. /\ Sane(Prepared(s)) /\ Sane(AlPlay(Prepared(s))) /\ Sane(Blank)
        /\ unused[s] - Fill(s, 0) \in Nat /\ LeftAfter(s, 0) \in Nat /\ Rewound(s) \in Nat
    <3>1. Sane(Prepared(s)) /\ unused[s] - Fill(s, 0) \in Nat
      BY <1>0, PreparedHasType
    <3>2. LeftAfter(s, 0) \in Nat /\ Rewound(s) \in Nat
      BY <1>0, RefillBounds, AudioAssumption DEF Rewound, SourceTypes
    <3> QED
      BY <3>1, <3>2, PlayGoesAlong, BlankIsSane DEF Along
  <2>3. /\ \E a \in {Blank, Prepared(s), AlPlay(Prepared(s))} : al' = [al EXCEPT ![v] = a]
        /\ \E b \in BOOLEAN : valid' = [valid EXCEPT ![s] = b]
        /\ \E n \in Nat : unused' = [unused EXCEPT ![s] = n]
        /\ \E n \in Nat : left' = [left EXCEPT ![s] = n]
        /\ voice' = [voice EXCEPT ![s] = v] /\ UNCHANGED <<bufs, looping>>
        /\ Assign({s}) \/ UNCHANGED playing
    <3>1. PICK fails \in BOOLEAN :
            LET a == IF fails THEN Prepared(s) ELSE AlPlay(Prepared(s))
                success == ~fails /\ (s \in Streams => a.state = "playing")
            IN
            /\ valid' = [valid EXCEPT ![s] = success]
            /\ al' = [al EXCEPT ![v] = IF success THEN a ELSE Blank]
            /\ IF success
               THEN /\ unused' = [unused EXCEPT ![s] =
                         IF s \in Streams THEN @ - Fill(s, 0) ELSE @]
                    /\ left' = [left EXCEPT ![s] =
                         IF s \in Streams THEN LeftAfter(s, 0) ELSE @]
                    /\ Assign({s})
               ELSE /\ left' = [left EXCEPT ![s] = Rewound(s)]
                    /\ UNCHANGED <<unused, playing, refs>>
      BY <1>2, <2>1, Zenon DEF Start
    <3> DEFINE a == IF fails THEN Prepared(s) ELSE AlPlay(Prepared(s))
               success == ~fails /\ (s \in Streams => a.state = "playing")
    <3>2. success \in BOOLEAN /\ (IF success THEN a ELSE Blank) \in {Blank, Prepared(s), AlPlay(Prepared(s))}
      OBVIOUS
    <3>3. unused = [unused EXCEPT ![s] = unused[s]] /\ unused[s] \in Nat /\ left[s] \in Nat
      BY <1>0 DEF SourceTypes
    <3>4. voice' = [voice EXCEPT ![s] = v] /\ UNCHANGED <<bufs, looping>>
      BY <1>2, <2>1 DEF Start
    <3>5. CASE success
      BY <2>2, <3>1, <3>2, <3>3, <3>4, <3>5
    <3>6. CASE ~success
      BY <2>2, <3>1, <3>2, <3>3, <3>4, <3>6
    <3> QED
      BY <3>5, <3>6
  <2>4. VoiceTypes'
    BY <1>0, <2>2, <2>3 DEF VoiceTypes, Sane
  <2>5. SourceTypes'
    BY <1>0, <2>3 DEF SourceTypes
  <2>6. ASSUME NEW t \in Sources
        PROVE  HadVoice(t)'
    <3>1. CASE t = s
      BY <1>0, <2>3, <3>1 DEF HadVoice, SourceTypes
    <3>2. CASE t # s
      <4>1. playing'[t] = playing[t]
        BY <2>3, <3>2, {s} \in SUBSET Sources, AssignLends
      <4> QED
        BY <1>0, <2>3, <3>2, <4>1 DEF HadVoice, InPool, SourceTypes
    <3> QED
      BY <3>1, <3>2
  <2> QED
    BY <2>4, <2>5, <2>6 DEF DataInv
<1>3. CASE Refused(s)
  <2>1. /\ valid' = [valid EXCEPT ![s] = FALSE]
        /\ UNCHANGED <<playing, voice, unused, bufs, left, looping, al>>
    BY <1>3 DEF Refused, poolVars, deviceVars
  <2> QED
    BY <1>0, <2>1, VoicesHaveTypes DEF SourceTypes
<1> QED
  BY <1>1, <1>2, <1>3 DEF DoPlay

(* A stream's seek.                                                        *)
LEMMA SeekingHasTypes ==
  ASSUME DataInv, NEW s \in Sources, NEW target \in SeekTargets, SeekStream(s, target)
  PROVE  DataInv'
<1>0. /\ SourceTypes /\ al \in [Voices -> VoiceRec] /\ \A v \in Voices : Sane(al[v])
      /\ \A t \in Sources : HadVoice(t)
  BY DEF DataInv, VoiceTypes
<1>1. left' \in [Sources -> Nat]
  <2> DEFINE stays == IF valid[s] /\ InPool(s) THEN Chunks ELSE left[s]
  <2>1. PICK pos \in IF target = "inside" THEN 1..Chunks ELSE {0, stays} :
          left' = [left EXCEPT ![s] = pos]
    BY Zenon DEF SeekStream
  <2>2. stays \in Nat
    BY <1>0, AudioAssumption DEF SourceTypes
  <2>3. pos \in Nat
    <3> HIDE DEF stays
    <3> QED
      BY <2>2
  <2> QED
    BY <1>0, <2>1, <2>3 DEF SourceTypes
<1>2. /\ valid' \in [Sources -> BOOLEAN] /\ \A t \in Sources : valid'[t] => valid[t]
      /\ UNCHANGED <<voice, bufs, looping>>
  BY <1>0 DEF SeekStream, SourceTypes
<1>3. CASE valid[s] /\ InPool(s)
  <2>1. TearDown({s}) /\ Release({s}, {}) /\ {s} \in SUBSET Sources /\ voice[s] \in Voices
    BY <1>0, <1>3 DEF SeekStream, HadVoice
  <2>2. unused' \in [Sources -> Nat] /\ VoiceTypes'
    BY <2>1, TearDownHasTypes
  <2>3. SourceTypes'
    BY <1>0, <1>1, <1>2, <2>2 DEF SourceTypes
  <2>4. \A t \in Sources : HadVoice(t)'
    BY <1>0, <1>2, <2>1 DEF Release, HadVoice, InPool
  <2> QED
    BY <2>2, <2>3, <2>4 DEF DataInv
<1>4. CASE ~(valid[s] /\ InPool(s))
  <2>1. UNCHANGED <<unused, al, playing>>
    BY <1>4 DEF SeekStream, poolVars
  <2> QED
    BY <1>0, <1>1, <1>2, <2>1 DEF DataInv, SourceTypes, VoiceTypes, HadVoice, InPool, Sane
<1> QED
  BY <1>3, <1>4

(* A new Source has no voice; nobody that is deleted is in the pool.       *)
LEMMA BirthsHaveTypes ==
  ASSUME IInv, DataInv, Births
  PROVE  DataInv'
<1>0. /\ SourceTypes /\ al \in [Voices -> VoiceRec] /\ \A v \in Voices : Sane(al[v])
      /\ Buffers \in Nat /\ Chunks \in Nat /\ \A t \in Sources : HadVoice(t)
  BY AudioAssumption DEF DataInv, VoiceTypes
<1>1. ASSUME NEW s \in Sources, NEW n \in Nat, NEW loops \in BOOLEAN, Constructed(s, n, loops)
      PROVE  DataInv'
  <2>1. /\ refs[s] = 0 /\ UNCHANGED <<playing, al>>
        /\ left' = [left EXCEPT ![s] = IF s \in Streams THEN Chunks ELSE 0]
        /\ valid' = [valid EXCEPT ![s] = FALSE]
        /\ looping' = [looping EXCEPT ![s] = loops]
        /\ voice' = [voice EXCEPT ![s] = NoVoice]
    BY <1>1 DEF Constructed
  <2> DEFINE got == IF s \in Statics \/ alError THEN 0 ELSE n
  <2>2. /\ bufs' = [bufs EXCEPT ![s] = got] /\ unused' = [unused EXCEPT ![s] = got]
        /\ got \in Nat
    BY <1>1 DEF Constructed
  <2>3. PICK m \in Nat : bufs' = [bufs EXCEPT ![s] = m] /\ unused' = [unused EXCEPT ![s] = m]
    <3> HIDE DEF got
    <3> QED
      BY <2>2
  <2>4. SourceTypes'
    BY <1>0, <2>1, <2>3 DEF SourceTypes
  <2>5. ~InPool(s)
    BY <2>1 DEF IInv, RefsBalanced
  <2>6. \A t \in Sources : HadVoice(t)'
    BY <1>0, <2>1, <2>5 DEF HadVoice, InPool, SourceTypes
  <2> QED
    BY <1>0, <2>1, <2>4, <2>6 DEF DataInv, VoiceTypes, Sane
<1>2. ASSUME NEW s \in Sources, NewSource(s)
      PROVE  DataInv'
  BY <1>0, <1>1, <1>2 DEF NewSource
<1>3. ASSUME NEW s \in Sources, NEW t \in Sources, Clone(s, t)
      PROVE  DataInv'
  <2>1. bufs[s] \in Nat /\ looping[s] \in BOOLEAN
    BY <1>0 DEF SourceTypes
  <2> QED
    BY <1>1, <1>3, <2>1 DEF Clone
<1> QED
  BY <1>2, <1>3 DEF Births

(* play() of a group, also when alSourcePlayv refuses.                     *)
LEMMA PlayingListsHasTypes ==
  ASSUME PoolType, DataInv, NEW S \in SUBSET Sources, PlayList(S)
  PROVE  DataInv'
<1> DEFINE New   == {s \in S : ~InPool(s)}
           Begin == {s \in S : s \in New \/ ~IsPlaying(s)}
           Ready(s, v) == IF s \in New THEN Prepared(s) ELSE al[v]
<1>0. /\ SourceTypes /\ al \in [Voices -> VoiceRec] /\ \A v \in Voices : Sane(al[v])
      /\ Streams \subseteq Sources /\ \A t \in Sources : HadVoice(t)
  BY DEF DataInv, VoiceTypes, Sources
<1>1. /\ Assign(New) /\ New \in SUBSET Sources /\ UNCHANGED <<bufs, looping>>
      /\ voice' = [s \in Sources |-> IF s \in New THEN playing'[s] ELSE voice[s]]
      /\ unused' = [s \in Sources |->
           IF s \in New \cap Streams THEN unused[s] - Fill(s, 0) ELSE unused[s]]
      /\ left' = [s \in Sources |->
           IF s \in New \cap Streams THEN LeftAfter(s, 0) ELSE left[s]]
  BY DEF PlayList
<1>2. PICK fails \in BOOLEAN :
        /\ valid' = [s \in Sources |-> valid[s] \/ (s \in S /\ ~fails)]
        /\ al' = [v \in Voices |->
             IF \E s \in Begin : playing'[s] = v
             THEN LET s == CHOOSE s \in Begin : playing'[s] = v
                      a == IF s \in New THEN Prepared(s) ELSE al[v]
                  IN  IF fails THEN a ELSE AlPlay(a)
             ELSE al[v]]
  BY Zenon DEF PlayList
<1>3. /\ \A s \in New : playing'[s] \in Voices
      /\ \A s \in Sources \ New : playing'[s] = playing[s]
  <2> HIDE DEF New
  <2> QED
    BY <1>1, AssignLends
<1>4. SourceTypes'
  <2>1. ASSUME NEW s \in Sources
        PROVE  unused[s] - Fill(s, 0) \in Nat /\ LeftAfter(s, 0) \in Nat
    BY <1>0, PreparedHasType, RefillBounds DEF SourceTypes
  <2>2. unused' \in [Sources -> Nat] /\ left' \in [Sources -> Nat]
    BY <1>0, <1>1, <2>1 DEF SourceTypes
  <2>3. valid' \in [Sources -> BOOLEAN]
    BY <1>0, <1>2 DEF SourceTypes
  <2>4. voice' \in [Sources -> Voices \cup {NoVoice}]
    BY <1>0, <1>1, <1>3 DEF SourceTypes
  <2> QED
    BY <1>0, <1>1, <2>2, <2>3, <2>4 DEF SourceTypes
<1>5. VoiceTypes'
  <2>1. ASSUME NEW v \in Voices
        PROVE  Sane(al'[v])
    <3>1. CASE \E s \in Begin : playing'[s] = v
      <4>1. PICK s \in Begin : s = CHOOSE t \in Begin : playing'[t] = v
        BY <3>1
      <4>2. s \in Sources /\ Sane(Ready(s, v)) /\ Sane(AlPlay(Ready(s, v)))
        <5>1. s \in Sources /\ Sane(Ready(s, v))
          BY <1>0, PreparedHasType
        <5> QED
          BY <5>1, PlayGoesAlong DEF Along
      <4>3. al'[v] = IF fails THEN Ready(s, v) ELSE AlPlay(Ready(s, v))
        BY <1>2, <3>1, <4>1
      <4> QED
        BY <4>2, <4>3
    <3>2. CASE ~\E s \in Begin : playing'[s] = v
      BY <1>0, <1>2, <3>2
    <3> QED
      BY <3>1, <3>2
  <2>2. al' = [v \in Voices |-> al'[v]]
    BY <1>2
  <2> QED
    BY <2>1, <2>2 DEF VoiceTypes, Sane
<1>6. ASSUME NEW s \in Sources
      PROVE  HadVoice(s)'
  <2>1. CASE s \in New
    BY <1>1, <1>3, <2>1 DEF HadVoice
  <2>2. CASE s \notin New
    <3>1. voice'[s] = voice[s] /\ playing'[s] = playing[s]
      BY <1>1, <1>3, <2>2
    <3>2. valid'[s] => valid[s] \/ InPool(s)
      BY <1>2, <2>2
    <3> QED
      BY <1>0, <3>1, <3>2 DEF HadVoice, InPool
  <2> QED
    BY <2>1, <2>2
<1> QED
  BY <1>4, <1>5, <1>6 DEF DataInv

(* One pass of the pool's thread, wherever the mixer moves.                *)
LEMMA UpdateHasTypes ==
  ASSUME DataInv, Update
  PROVE  DataInv'
<1> DEFINE Live == {s \in Sources : InPool(s) /\ StillPlaying(s)}
           Done == {s \in Sources : InPool(s) /\ ~StillPlaying(s)}
<1>0. /\ SourceTypes /\ al \in [Voices -> VoiceRec] /\ \A v \in Voices : Sane(al[v])
      /\ Streams \subseteq Sources /\ \A t \in Sources : HadVoice(t)
  BY DEF DataInv, VoiceTypes, Sources
<1>1. PICK more \in [Live \cap Streams -> 0..(IF MixerInUpdate THEN Buffers ELSE 0)] :
       LET Now(s) == IF s \in Streams /\ more[s] > 0
                     THEN AlAdvance(al[voice[s]], more[s]) ELSE al[voice[s]]
       IN
       /\ \A s \in Live \cap Streams : more[s] > 0 =>
            al[voice[s]].state = "playing" /\ more[s] <= al[voice[s]].todo
       /\ al' = [v \in Voices |->
            IF \E s \in Live : voice[s] = v
            THEN LET s == CHOOSE s \in Live : voice[s] = v IN Refilled(s, Now(s))
            ELSE IF \E s \in Done : valid[s] /\ voice[s] = v THEN Blank
            ELSE al[v]]
       /\ unused' = [s \in Sources |->
            IF s \in Live \cap Streams
            THEN unused[s] + Now(s).done - Fill(s, Now(s).done)
            ELSE IF s \in Done /\ valid[s] THEN Drained(s, al[voice[s]])
            ELSE unused[s]]
       /\ left' = [s \in Sources |->
            IF s \in Live \cap Streams THEN LeftAfter(s, Now(s).done)
            ELSE IF s \in Done /\ valid[s] THEN Rewound(s)
            ELSE left[s]]
  BY Zenon DEF Update
<1> DEFINE Now(s) == IF s \in Streams /\ more[s] > 0
                     THEN AlAdvance(al[voice[s]], more[s]) ELSE al[voice[s]]
<1>2. ASSUME NEW s \in Live
      PROVE  /\ Sane(Refilled(s, Now(s)))
             /\ unused[s] + Now(s).done - Fill(s, Now(s).done) \in Nat
             /\ LeftAfter(s, Now(s).done) \in Nat
  <2>1. voice[s] \in Voices /\ Sane(al[voice[s]])
    BY <1>0 DEF HadVoice
  <2>2. CASE s \in Streams /\ more[s] > 0
    <3>1. more[s] \in 0..(IF MixerInUpdate THEN Buffers ELSE 0)
      BY <2>2
    <3>2. more[s] \in Nat
      BY <3>1, AudioAssumption
    <3>3. al[voice[s]].state = "playing" /\ more[s] <= al[voice[s]].todo
      BY <1>1, <2>2
    <3>4. PICK a : a = AlAdvance(al[voice[s]], more[s])
      OBVIOUS
    <3>5. Sane(a)
      BY <2>1, <2>2, <3>2, <3>3, <3>4, AdvanceHasType
    <3> QED
      BY <1>0, <2>2, <3>4, <3>5, RefilledHasType
  <2>3. CASE ~(s \in Streams /\ more[s] > 0)
    BY <1>0, <2>1, <2>3, RefilledHasType
  <2> QED
    BY <2>2, <2>3
<1>3. /\ \A v \in Voices : al'[v] =
            IF \E s \in Live : voice[s] = v
            THEN LET s == CHOOSE s \in Live : voice[s] = v IN Refilled(s, Now(s))
            ELSE IF \E s \in Done : valid[s] /\ voice[s] = v THEN Blank
            ELSE al[v]
      /\ al' = [v \in Voices |-> al'[v]]
  BY <1>1
<1>4. /\ \A s \in Sources : unused'[s] =
            IF s \in Live \cap Streams
            THEN unused[s] + Now(s).done - Fill(s, Now(s).done)
            ELSE IF s \in Done /\ valid[s] THEN Drained(s, al[voice[s]])
            ELSE unused[s]
      /\ unused' = [s \in Sources |-> unused'[s]]
  BY <1>1
<1>5. /\ \A s \in Sources : left'[s] =
            IF s \in Live \cap Streams THEN LeftAfter(s, Now(s).done)
            ELSE IF s \in Done /\ valid[s] THEN Rewound(s)
            ELSE left[s]
      /\ left' = [s \in Sources |-> left'[s]]
  BY <1>1
<1>6. ASSUME NEW v \in Voices
      PROVE  Sane(al'[v])
  <2>1. CASE \E s \in Live : voice[s] = v
    <3>1. PICK s \in Live : s = CHOOSE t \in Live : voice[t] = v
      BY <2>1
    <3>2. al'[v] = Refilled(s, Now(s))
      BY <1>3, <2>1, <3>1
    <3> QED
      BY <1>2, <3>2
  <2>2. CASE ~\E s \in Live : voice[s] = v
    BY <1>0, <1>3, <2>2, BlankIsSane
  <2> QED
    BY <2>1, <2>2
<1>7. ASSUME NEW s \in Sources
      PROVE  unused'[s] \in Nat /\ left'[s] \in Nat
  <2>1. unused[s] \in Nat /\ left[s] \in Nat /\ Rewound(s) \in Nat
    BY <1>0, AudioAssumption DEF SourceTypes, Rewound
  <2>2. CASE s \in Live \cap Streams
    BY <1>2, <1>4, <1>5, <2>2
  <2>3. CASE s \notin Live \cap Streams /\ s \in Done /\ valid[s]
    <3>1. al[voice[s]].todo \in Nat /\ al[voice[s]].done \in Nat
      BY <1>0, <2>3 DEF HadVoice, VoiceRec
    <3> QED
      BY <1>4, <1>5, <2>1, <2>3, <3>1 DEF Drained
  <2>4. CASE s \notin Live \cap Streams /\ ~(s \in Done /\ valid[s])
    BY <1>4, <1>5, <2>1, <2>4
  <2> QED
    BY <2>2, <2>3, <2>4
<1>8. /\ valid' = [s \in Sources |-> valid[s] /\ s \notin Done]
      /\ UNCHANGED <<voice, bufs, looping>> /\ Release(Done, {})
  BY DEF Update
<1>9. VoiceTypes'
  BY <1>3, <1>6 DEF VoiceTypes, Sane
<1>10. SourceTypes'
  BY <1>0, <1>4, <1>5, <1>7, <1>8 DEF SourceTypes
<1>11. \A s \in Sources : HadVoice(s)'
  BY <1>0, <1>8 DEF Release, HadVoice, InPool
<1> QED
  BY <1>9, <1>10, <1>11 DEF DataInv

(* Pausing, looping, the mixer and the device only change voices.          *)
LEMMA VoiceStepsHaveTypes ==
  ASSUME DataInv,
         \/ \E V : PauseVoices(V)
         \/ \E s \in Sources : \E enable \in BOOLEAN : SetLooping(s, enable)
         \/ Environment
  PROVE  DataInv'
<1>0. /\ SourceTypes /\ al \in [Voices -> VoiceRec] /\ \A v \in Voices : Sane(al[v])
      /\ valid \in [Sources -> BOOLEAN] /\ looping \in [Sources -> BOOLEAN]
      /\ \A t \in Sources : HadVoice(t)
  BY DEF DataInv, VoiceTypes, SourceTypes
<1>1. ASSUME NEW V, PauseVoices(V)
      PROVE  DataInv'
  <2>1. /\ al' = [v \in Voices |-> IF v \in V THEN AlPause(al[v]) ELSE al[v]]
        /\ UNCHANGED <<playing, valid, voice, unused, bufs, left, looping>>
    BY <1>1 DEF PauseVoices, poolVars, sourceVars
  <2>2. \A v \in Voices : Sane(AlPause(al[v]))
    BY <1>0, OthersGoAlong DEF Along
  <2> QED
    BY <1>0, <2>1, <2>2, VoicesHaveTypes
<1>2. ASSUME NEW s \in Sources, NEW enable \in BOOLEAN, SetLooping(s, enable)
      PROVE  DataInv'
  <2>1. /\ UNCHANGED <<playing, valid, voice, unused, bufs, left>>
        /\ looping' = [looping EXCEPT ![s] = enable]
        /\ al' = al \/ (valid[s] /\ al' = [al EXCEPT ![voice[s]].loop = enable])
    BY <1>2, Zenon DEF SetLooping, poolVars
  <2>2. looping' \in [Sources -> BOOLEAN]
    BY <1>0, <2>1
  <2>3. al' = [v \in Voices |-> al'[v]]
    BY <1>0, <2>1
  <2>4. ASSUME NEW v \in Voices
        PROVE  Sane(al'[v])
    <3>1. Sane([al[v] EXCEPT !.loop = enable])
      BY <1>0, OthersGoAlong DEF Along
    <3>2. CASE al' = al
      BY <1>0, <3>2
    <3>3. CASE valid[s] /\ al' = [al EXCEPT ![voice[s]].loop = enable]
      <4>1. al'[v] = IF v = voice[s] THEN [al[v] EXCEPT !.loop = enable] ELSE al[v]
        BY <1>0, <3>3
      <4> QED
        BY <1>0, <3>1, <4>1
    <3> QED
      BY <2>1, <3>2, <3>3
  <2> QED
    BY <1>0, <2>1, <2>2, <2>3, <2>4, VoicesHaveTypes
<1>3. ASSUME NEW v \in Voices, Mix(v)
      PROVE  DataInv'
  <2>1. /\ al[v].state = "playing" /\ al' = [al EXCEPT ![v] = AlAdvance(@, 1)]
        /\ UNCHANGED <<playing, valid, voice, unused, bufs, left, looping>>
    BY <1>3 DEF Mix, poolVars, sourceVars
  <2>2. Sane(AlAdvance(al[v], 1))
    BY <1>0, <2>1, AdvanceGoesAlong DEF Along
  <2>3. al' = [w \in Voices |-> al'[w]] /\ \A w \in Voices : Sane(al'[w])
    BY <1>0, <2>1, <2>2
  <2> QED
    BY <1>0, <2>1, <2>3, VoicesHaveTypes
<1>4. CASE LoseDevice
  <2>1. /\ al' = [v \in Voices |-> IF al[v].state = "playing" THEN AlStop(al[v]) ELSE al[v]]
        /\ UNCHANGED <<playing, valid, voice, unused, bufs, left, looping>>
    BY <1>4 DEF LoseDevice, poolVars, sourceVars
  <2>2. \A v \in Voices : Sane(AlStop(al[v]))
    BY <1>0, StopGoesAlong DEF Along
  <2> QED
    BY <1>0, <2>1, <2>2, VoicesHaveTypes
<1>5. CASE RegainDevice
  BY <1>5 DEF RegainDevice, DataInv, SourceTypes, VoiceTypes, HadVoice, InPool, poolVars,
              sourceVars, deviceVars
<1> QED
  BY <1>1, <1>2, <1>3, <1>4, <1>5 DEF Environment

(* Stopping a group, a list or all there is.                               *)
LEMMA StopsHaveTypes ==
  ASSUME DataInv,
         \/ \E S \in SUBSET Sources : StopList(S)
         \/ StopAll \/ DeletePool \/ Disconnected
  PROVE  DataInv'
<1> DEFINE P == {s \in Sources : InPool(s)}
           kept == {s \in P : refs[s] > 1}
<1>1. ASSUME NEW S \in SUBSET Sources, StopList(S)
      PROVE  DataInv'
  BY <1>1, StoppingHasTypes DEF StopList
<1>2. CASE StopAll \/ DeletePool
  <2>1. DoStop(P) /\ Release(P, {}) /\ P \in SUBSET Sources
    BY <1>2 DEF StopAll, DeletePool
  <2> QED
    BY <2>1, StoppingHasTypes
<1>3. CASE Disconnected
  <2>1. DoStop(P) /\ Release(P, kept) /\ P \in SUBSET Sources
    BY <1>3 DEF Disconnected
  <2> QED
    BY <2>1, StoppingHasTypes
<1> QED
  BY <1>1, <1>2, <1>3

(* Every step, whatever the program seeks.                                 *)
LEMMA NextKeepsData ==
  ASSUME IInv, DataInv, [Next]_vars
  PROVE  DataInv'
<1>0. PoolType /\ held \subseteq Sources /\ (pc # "idle" => subject \in Sources)
  BY DEF IInv, OwnersType, SubjectHeld
<1>1. CASE (\E s \in Sources : Play(s)) \/ SeekPlay \/ SeekReplay
  <2>1. PICK s \in Sources : DoPlay(s)
    BY <1>0, <1>1 DEF Play, SeekPlay, SeekReplay
  <2> QED
    BY <1>0, <2>1, PlayingHasTypes
<1>2. CASE \/ \E s \in Sources : \/ Stop(s)
                                 \/ \E t \in SeekTargets : SeekStatic(s, t)
           \/ SeekCheck \/ PollMessage \/ ThreadEnds \/ SetFinish \/ UNCHANGED vars
  <2>1. UNCHANGED <<playing, sourceVars, al>>
    BY <1>2 DEF Stop, SeekStatic, SeekCheck, PollMessage, ThreadEnds, SetFinish, vars,
                poolVars, deviceVars
  <2> QED
    BY <2>1 DEF DataInv, SourceTypes, VoiceTypes, HadVoice, InPool, sourceVars
<1>3. ASSUME NEW s \in Sources, Drop(s)
      PROVE  DataInv'
  <2>1. /\ UNCHANGED <<playing, voice, unused, bufs, left, looping, al>>
        /\ valid' = [valid EXCEPT ![s] = @ /\ refs[s] > 1]
    BY <1>3 DEF Drop, deviceVars
  <2>2. valid' \in [Sources -> BOOLEAN] /\ \A t \in Sources : valid'[t] => valid[t]
    BY <2>1 DEF DataInv, SourceTypes
  <2> QED
    BY <2>1, <2>2 DEF DataInv, SourceTypes, VoiceTypes, HadVoice, InPool
<1>4. CASE \/ \E s \in Sources : Pause(s)
           \/ \E S \in SUBSET Sources : PauseList(S)
           \/ PauseAll
           \/ \E s \in Sources : \E enable \in BOOLEAN : SetLooping(s, enable)
           \/ Environment
  BY <1>4, VoiceStepsHaveTypes DEF Pause, PauseList, PauseAll
<1>5. CASE \E s \in Sources : \E t \in SeekTargets : SeekStream(s, t)
  BY <1>5, SeekingHasTypes
<1>6. CASE \E S \in SUBSET Sources : PlayList(S)
  BY <1>0, <1>6, PlayingListsHasTypes
<1>7. CASE \/ \E S \in SUBSET Sources : StopList(S)
           \/ StopAll \/ DeletePool \/ Disconnected
  BY <1>7, StopsHaveTypes
<1>8. CASE StopLocked \/ SeekFailed
  <2>1. subject \in Sources
    BY <1>0, <1>8 DEF StopLocked, SeekFailed
  <2>2. DoStopOne(subject) \/ UNCHANGED <<poolVars, sourceVars, deviceVars>>
    BY <1>8 DEF StopLocked, SeekFailed
  <2>3. CASE UNCHANGED <<poolVars, sourceVars, deviceVars>>
    BY <2>3 DEF DataInv, SourceTypes, VoiceTypes, HadVoice, InPool, poolVars, sourceVars,
                deviceVars
  <2> QED
    BY <2>1, <2>2, <2>3, StopOneHasTypes
<1>9. CASE Births
  BY <1>9, BirthsHaveTypes
<1>10. CASE Update
  BY <1>10, UpdateHasTypes
<1> QED
  BY <1>1, <1>2, <1>3, <1>4, <1>5, <1>6, <1>7, <1>8, <1>9, <1>10
     DEF Next, Program, PoolThread, Down, Births

(* Where the program and the thread are, and the flags.                    *)
CallTypes ==
  /\ alError \in BOOLEAN /\ connected \in BOOLEAN /\ notified \in BOOLEAN
  /\ phase \in {"running", "finishing", "ended", "down"}
  /\ pc \in {"idle", "stopping", "seekPlay", "seekCheck", "seekFailed", "seekReplay"}
  /\ subject \in Sources \cup {NoSource}

(* The flags and the places of the program and of the thread.              *)
LEMMA NextKeepsCalls ==
  ASSUME CallTypes, IInv, [Next]_vars
  PROVE  CallTypes'
<1> USE DEF CallTypes, linkVars, callVars, deviceVars
<1>1. ASSUME NEW s \in Sources, DoPlay(s)
      PROVE  alError' \in BOOLEAN
  BY <1>1 DEF DoPlay, Resume, Start, Refused
<1>2. ASSUME NEW s, DoStopOne(s)
      PROVE  alError' \in BOOLEAN
  BY <1>2 DEF DoStopOne, DoStop
<1>3. CASE (\E s \in Sources : Play(s)) \/ SeekPlay \/ SeekReplay
  <2>1. \E s \in Sources : DoPlay(s)
    BY <1>3 DEF Play, SeekPlay, SeekReplay, IInv, OwnersType, SubjectHeld
  <2> QED
    BY <1>1, <1>3, <2>1 DEF Play, SeekPlay, SeekReplay
<1>4. CASE StopLocked
  BY <1>2, <1>4 DEF StopLocked
<1>5. CASE SeekFailed
  BY <1>2, <1>5 DEF SeekFailed
<1>6. ASSUME NEW s \in Sources,
             \/ NewSource(s) \/ \E t \in Sources : Clone(s, t)
             \/ Drop(s) \/ Stop(s) \/ Pause(s)
             \/ \E enable \in BOOLEAN : SetLooping(s, enable)
      PROVE  CallTypes'
  <2>1. CASE NewSource(s) \/ \E t \in Sources : Clone(s, t)
    <3>1. UNCHANGED <<linkVars, callVars>> /\ alError' \in BOOLEAN
      BY <2>1 DEF NewSource, Clone, Constructed
    <3> QED
      BY <3>1
  <2>2. CASE Drop(s) \/ Stop(s)
    BY <2>2 DEF Drop, Stop
  <2>3. CASE Pause(s) \/ \E enable \in BOOLEAN : SetLooping(s, enable)
    BY <2>3 DEF Pause, PauseVoices, SetLooping
  <2> QED
    BY <1>6, <2>1, <2>2, <2>3
<1>7. ASSUME NEW s \in Sources, NEW t \in SeekTargets, SeekStatic(s, t) \/ SeekStream(s, t)
      PROVE  CallTypes'
  BY <1>7 DEF SeekStatic, SeekStream
<1>8. ASSUME NEW S \in SUBSET Sources, PlayList(S) \/ StopList(S) \/ PauseList(S)
      PROVE  CallTypes'
  BY <1>8 DEF PlayList, StopList, DoStop, PauseList, PauseVoices
<1>9. CASE StopAll \/ PauseAll \/ PollMessage \/ SeekCheck \/ SetFinish \/ DeletePool
           \/ UNCHANGED vars
  BY <1>9 DEF StopAll, DoStop, PauseAll, PauseVoices, PollMessage, SeekCheck, SetFinish,
              DeletePool, vars
<1>10. CASE PoolThread \/ Environment
  BY <1>10 DEF PoolThread, Disconnected, DoStop, Update, ThreadEnds, Environment, Mix,
               LoseDevice, RegainDevice
<1> QED
  BY <1>3, <1>4, <1>5, <1>6, <1>7, <1>8, <1>9, <1>10 DEF Next, Program, Down

(* Source, Pool and the OpenAL voices, whatever the program seeks, OpenAL  *)
(* refuses and the mixer does meanwhile: no count of unused buffers or of  *)
(* what a decoder has left ever goes below zero.                           *)
THEOREM TypesHold == Spec => []TypeOK
<1>1. Init => DataInv /\ CallTypes
  <2> SUFFICES ASSUME Init PROVE DataInv /\ CallTypes
    OBVIOUS
  <2>1. SourceTypes /\ CallTypes
    BY DEF Init, SourceTypes, CallTypes
  <2>2. VoiceTypes
    BY BlankIsSane DEF Init, VoiceTypes, Sane
  <2>3. \A s \in Sources : HadVoice(s)
    BY DEF Init, HadVoice, InPool
  <2> QED
    BY <2>1, <2>2, <2>3 DEF DataInv
<1>2. IInv /\ DataInv /\ CallTypes /\ [Next]_vars => IInv' /\ DataInv' /\ CallTypes'
  BY NextKeepsInv, NextKeepsData, NextKeepsCalls
<1>3. IInv /\ DataInv /\ CallTypes => TypeOK
  <2> SUFFICES ASSUME IInv, DataInv, CallTypes PROVE TypeOK
    OBVIOUS
  <2>1. dangling \subseteq Sources
    BY AudioAssumption DEF IInv
  <2> QED
    BY <2>1 DEF TypeOK, IInv, PoolType, OwnersType, DataInv, SourceTypes, VoiceTypes, VoiceRec,
                CallTypes
<1> QED
  BY <1>1, <1>2, <1>3, InitInv, PTL DEF Spec

-----------------------------------------------------------------------------
(* Whose voice a Source in the pool drives.                                *)

Drives == \A s \in Sources : InPool(s) => voice[s] = playing[s]

LEMMA NextKeepsDrives ==
  ASSUME IInv, TypeOK, Drives, [Next]_vars
  PROVE  Drives'
<1> USE DEF Drives, InPool, poolVars, sourceVars, callVars, ownerVars, linkVars, deviceVars
<1>0. PoolType /\ held \subseteq Sources /\ (pc # "idle" => subject \in Sources)
  BY DEF IInv, OwnersType, SubjectHeld
<1>1. ASSUME UNCHANGED <<playing, voice>> PROVE Drives'
  BY <1>1
<1>2. ASSUME NEW S, NEW kept, Release(S, kept), UNCHANGED voice PROVE Drives'
  BY <1>2 DEF Release
<1>3. ASSUME NEW s \in Sources, DoPlay(s) PROVE Drives'
  <2>1. CASE Resume(s)
    BY <1>1, <1>2, <2>1 DEF Resume
  <2>2. CASE Start(s)
    <3>1. /\ voice' = [voice EXCEPT ![s] = Head(available)] /\ ~InPool(s)
          /\ UNCHANGED playing \/ Assign({s})
      BY <2>2 DEF Start
    <3>2. \A t \in Sources : t # s => voice'[t] = voice[t]
      BY <3>1 DEF TypeOK
    <3>3. CASE UNCHANGED playing
      BY <3>1, <3>2, <3>3
    <3>4. CASE Assign({s})
      <4>1. PICK o \in Orders({s}) :
              playing' = [t \in Sources |->
                IF t \in {s} THEN available[CHOOSE i \in 1..Cardinality({s}) : o[i] = t] ELSE playing[t]]
        BY <3>4 DEF Assign
      <4>2. Cardinality({s}) = 1 /\ IsFiniteSet({s})
        BY FS_Singleton
      <4>3. \E i \in 1..1 : o[i] = s
        BY <4>2, OrderPositions
      <4>4. (CHOOSE i \in 1..1 : o[i] = s) = 1
        BY <4>3
      <4>5. playing'[s] = available[1]
        BY <4>1, <4>2, <4>4
      <4>6. \A t \in Sources : t # s => playing'[t] = playing[t]
        BY <4>1
      <4>7. voice'[s] = available[1]
        BY <3>1 DEF TypeOK
      <4> QED BY <3>2, <4>5, <4>6, <4>7
    <3> QED BY <3>1, <3>3, <3>4
  <2>3. CASE Refused(s)
    BY <1>1, <2>3 DEF Refused
  <2> QED BY <1>3, <2>1, <2>2, <2>3 DEF DoPlay
<1>4. ASSUME NEW s, DoStopOne(s) PROVE Drives'
  BY <1>1, <1>2, <1>4 DEF DoStopOne, DoStop
<1>5. CASE (\E s \in Sources : Play(s)) \/ SeekPlay \/ SeekReplay
  BY <1>0, <1>3, <1>5 DEF Play, SeekPlay, SeekReplay
<1>6. CASE StopLocked \/ SeekFailed
  BY <1>1, <1>4, <1>6 DEF StopLocked, SeekFailed
<1>7. ASSUME NEW s \in Sources, NewSource(s) \/ \E t \in Sources : Clone(t, s)
      PROVE  Drives'
  <2>1. refs[s] = 0 /\ UNCHANGED playing /\ voice' = [voice EXCEPT ![s] = NoVoice]
    BY <1>7 DEF NewSource, Clone, Constructed
  <2>2. playing[s] = NoVoice
    BY <2>1 DEF IInv, RefsBalanced
  <2>3. \A t \in Sources : t # s => voice'[t] = voice[t]
    BY <2>1 DEF TypeOK
  <2> QED BY <2>1, <2>2, <2>3
<1>8. ASSUME NEW s \in Sources,
             \/ Drop(s) \/ Stop(s) \/ Pause(s)
             \/ \E enable \in BOOLEAN : SetLooping(s, enable)
             \/ \E t \in SeekTargets : SeekStatic(s, t)
      PROVE  Drives'
  BY <1>1, <1>8 DEF Drop, Stop, Pause, PauseVoices, SetLooping, SeekStatic
<1>9. ASSUME NEW s \in Sources, NEW t \in SeekTargets, SeekStream(s, t)
      PROVE  Drives'
  BY <1>1, <1>2, <1>9 DEF SeekStream
<1>10. ASSUME NEW S \in SUBSET Sources, PlayList(S) PROVE Drives'
  <2> DEFINE New == {s \in S : ~InPool(s)}
  <2>1. /\ Assign(New)
        /\ voice' = [s \in Sources |-> IF s \in New THEN playing'[s] ELSE voice[s]]
    BY <1>10 DEF PlayList
  <2>2. \A s \in Sources : s \notin New => playing'[s] = playing[s]
    BY <2>1 DEF Assign
  <2> QED BY <2>1, <2>2
<1>11. CASE \/ \E S \in SUBSET Sources : StopList(S) \/ PauseList(S)
            \/ StopAll \/ PauseAll \/ DeletePool
  <2>1. CASE \/ \E S \in SUBSET Sources : PauseList(S)
             \/ PauseAll
    BY <1>1, <2>1 DEF PauseList, PauseAll, PauseVoices
  <2>2. CASE \E S \in SUBSET Sources : StopList(S)
    BY <1>2, <2>2 DEF StopList, DoStop
  <2>3. CASE StopAll \/ DeletePool
    BY <1>2, <2>3 DEF StopAll, DeletePool, DoStop
  <2> QED BY <1>11, <2>1, <2>2, <2>3
<1>12. CASE Disconnected \/ Update
  BY <1>2, <1>12 DEF Disconnected, Update, DoStop
<1>13. CASE \/ SeekCheck \/ PollMessage \/ SetFinish \/ ThreadEnds \/ Environment
            \/ UNCHANGED vars
  BY <1>1, <1>13 DEF SeekCheck, PollMessage, SetFinish, ThreadEnds, Environment, Mix, LoseDevice,
                     RegainDevice, vars
<1> QED
  BY <1>5, <1>6, <1>7, <1>8, <1>9, <1>10, <1>11, <1>12, <1>13
     DEF Next, Program, PoolThread, Down

(* Source::source and Pool::playing agree about every Source the pool has, *)
(* whatever the program seeks, OpenAL refuses and the mixer does meanwhile *)
(* -- so no two of them drive one voice, and a Source reaches another's    *)
(* voice only by being valid without a place in the pool.                  *)
THEOREM PoolSourcesDriveTheirVoices ==
  Spec => [](/\ \A s \in Sources : InPool(s) => voice[s] = playing[s]
             /\ \A s, t \in Sources : InPool(s) /\ InPool(t) /\ voice[s] = voice[t] => s = t)
<1>1. Init => Drives
  BY DEF Init, Drives, InPool
<1>2. IInv /\ TypeOK /\ Drives /\ [Next]_vars => Drives'
  BY NextKeepsDrives
<1>3. IInv /\ Drives =>
        /\ \A s \in Sources : InPool(s) => voice[s] = playing[s]
        /\ \A s, t \in Sources : InPool(s) /\ InPool(t) /\ voice[s] = voice[t] => s = t
  BY DEF IInv, VoicePartition, Drives
<1> QED
  BY <1>1, <1>2, <1>3, AlwaysInv, TypesHold, PTL DEF Spec
=============================================================================
