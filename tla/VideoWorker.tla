---------------------------- MODULE VideoWorker ----------------------------
(***************************************************************************)
(* Video playback: the VideoWorker thread of love.video (theora/Video.cpp) *)
(* decodes every open stream into its back buffer, at the pace of the      *)
(* stream's clock; the program swaps the buffers when it draws.            *)
(*                                                                         *)
(* The worker holds the list's mutex during a pass over the streams, and   *)
(* a stream's bufferMutex only to lower and raise frameReady around its    *)
(* writing.  What the program does to a stream -- play, pause, seek, draw, *)
(* let go of it -- may come between any two of the worker's steps; what    *)
(* needs the list's mutex, opening a stream and closing the module, waits  *)
(* for the pass to end.                                                    *)
(*                                                                         *)
(* A stream has Frames frames.  Time is counted in frames: frame k is due  *)
(* at time k, which is what th_granule_time says once it is decoded.       *)
(***************************************************************************)
EXTENDS Integers, Sequences

CONSTANTS
  Streams,      \* the TheoraVideoStreams the program may have open
  Frames,       \* how many frames each of them has
  MaxBehind,    \* iterations of the decoding loop before it seeks (5)
  MaxStep,      \* bounds the time that passes between two passes
  SeekTargets   \* where the program seeks to

ASSUME VideoAssumption ==
  /\ Frames \in Nat \ {0} /\ MaxBehind \in Nat /\ MaxStep \in Nat
  /\ SeekTargets \subseteq 0..Frames

VARIABLES
  streams,    \* Worker::streams
  held,       \* the streams the program has references to
  stopping,   \* Worker::stopping
  signalled,  \* the condition was broadcast as the worker waited on it
  pc,         \* where the worker is
  at,         \* its place in streams
  dt,         \* how long its last pass was ago
  pos,        \* position, behind, sought and out are the locals of
  behind,     \* threadedFillBackBuffer: framesBehind, failedSeek, and
  sought,     \* the frame in bufferinfo, or 0
  out,
  clock,      \* DeltaSync of each stream: position and playing
  media,      \* its demuxer and decoder
  buffer      \* its two Frames and frameReady

listVars  == <<streams, held, stopping, signalled>>
localVars == <<pos, behind, sought, out>>
vars == <<listVars, pc, at, dt, localVars, clock, media, buffer>>

Elements(q) == {q[i] : i \in 1..Len(q)}
Without(q, i) == SubSeq(q, 1, i - 1) \o SubSeq(q, i + 1, Len(q))
InPass == pc \in {"visit", "position", "decoding", "clearing", "copying"}
This == streams[at]

(* A stream once its header and its first frame are parsed.  packets are   *)
(* those the demuxer has handed out; last and next are -1 after a seek.    *)
NewClock  == [position |-> 0, playing |-> FALSE]
NewMedia  == [packets |-> 1, frame |-> 1, eos |-> FALSE, last |-> 0, next |-> 0]
Black     == [frame |-> 0, whole |-> TRUE, latest |-> FALSE]
NewBuffer == [front |-> Black, back |-> Black, ready |-> FALSE]

Init ==
  /\ streams = <<>> /\ held = {} /\ stopping = FALSE /\ signalled = FALSE
  /\ pc = "asleep" /\ at = 0 /\ dt = 0
  /\ pos = 0 /\ behind = 0 /\ sought = FALSE /\ out = 0
  /\ clock = [s \in Streams |-> NewClock]
  /\ media = [s \in Streams |-> NewMedia]
  /\ buffer = [s \in Streams |-> NewBuffer]

-----------------------------------------------------------------------------
(* The program.                                                            *)

(* newVideoStream.  newVideo then exchanges the stream's clock for another *)
(* new one.                                                                *)
MutBroadcast == signalled' = signalled
Broadcast == signalled' = (signalled \/ pc = "waiting")

Open(s) ==
  /\ ~InPass /\ ~stopping /\ s \notin held /\ s \notin Elements(streams)
  /\ streams' = Append(streams, s)
  /\ held' = held \cup {s}
  /\ Broadcast
  /\ clock' = [clock EXCEPT ![s] = NewClock]
  /\ media' = [media EXCEPT ![s] = NewMedia]
  /\ buffer' = [buffer EXCEPT ![s] = NewBuffer]
  /\ UNCHANGED <<stopping, pc, at, dt, localVars>>

(* The wrapper and the Video over the stream are gone.                     *)
Drop(s) ==
  /\ s \in held /\ held' = held \ {s}
  /\ UNCHANGED <<streams, stopping, signalled, pc, at, dt, localVars, clock, media, buffer>>

SetClock(s, c) ==
  /\ s \in held /\ clock' = [clock EXCEPT ![s] = c]
  /\ UNCHANGED <<listVars, pc, at, dt, localVars, media, buffer>>

Play(s)    == SetClock(s, [clock[s] EXCEPT !.playing = TRUE])
Pause(s)   == SetClock(s, [clock[s] EXCEPT !.playing = FALSE])
Seek(s, t) == SetClock(s, [clock[s] EXCEPT !.position = t])

(* swapBuffers, as the program draws the video.                            *)
MutSwapped(b) == [front |-> b.back, back |-> b.front, ready |-> b.ready]
Swapped(b) == [front |-> b.back, back |-> b.front, ready |-> FALSE]
Swap(s) ==
  /\ s \in held /\ ~media[s].eos /\ clock[s].playing /\ buffer[s].ready
  /\ buffer' = [buffer EXCEPT ![s] = Swapped(@)]
  /\ UNCHANGED <<listVars, pc, at, dt, localVars, clock, media>>

(* ~Video, after every wrapper is gone: stop(), then the worker is joined  *)
(* and its list destroyed.                                                 *)
Stop ==
  /\ ~InPass /\ held = {} /\ ~stopping
  /\ stopping' = TRUE /\ Broadcast
  /\ UNCHANGED <<streams, held, pc, at, dt, localVars, clock, media, buffer>>

Joined ==
  /\ pc = "ended" /\ pc' = "joined"
  /\ streams' = <<>>
  /\ UNCHANGED <<held, stopping, signalled, at, dt, localVars, clock, media, buffer>>

Closed == pc = "joined" /\ UNCHANGED vars

-----------------------------------------------------------------------------
(* The worker.                                                             *)

(* The test of the waiting loop, with the mutex just taken; elapsed is the *)
(* time since the last pass, none after a wait.                            *)
Look(elapsed) ==
  /\ pc' = IF stopping THEN "ended" ELSE IF streams = <<>> THEN "waiting" ELSE "visit"
  /\ at' = 1 /\ dt' = elapsed
  /\ signalled' = FALSE
  /\ UNCHANGED <<streams, held, stopping, localVars, clock, media, buffer>>

Wake == pc = "asleep" /\ \E elapsed \in 0..MaxStep : Look(elapsed)
Recheck == pc = "waiting" /\ signalled /\ Look(0)

(* The pass is over.                                                       *)
Rest ==
  /\ pc = "visit" /\ at > Len(streams)
  /\ pc' = "asleep"
  /\ UNCHANGED <<listVars, at, dt, localVars, clock, media, buffer>>

(* getReferenceCount() = 1: nobody but the list has the stream.  The loop  *)
(* is left with the erased iterator.                                       *)
MutAbandoned(s) == ~clock[s].playing
Abandoned(s) == s \notin held
Erase ==
  /\ pc = "visit" /\ at <= Len(streams) /\ Abandoned(This)
  /\ streams' = Without(streams, at)
  /\ pc' = "asleep"
  /\ UNCHANGED <<held, stopping, signalled, at, dt, localVars, clock, media, buffer>>

(* frameSync->update(dt); the clock is not followed beyond the end.        *)
Tick ==
  /\ pc = "visit" /\ at <= Len(streams) /\ ~Abandoned(This)
  /\ LET later == clock[This].position + dt IN
     clock' = [clock EXCEPT ![This].position =
       IF clock[This].playing THEN IF later > Frames + 1 THEN Frames + 1 ELSE later ELSE @]
  /\ pc' = "position"
  /\ UNCHANGED <<listVars, at, dt, localVars, media, buffer>>

(* seekDecoder.  The demuxer's search goes by bytes and by pages, and ends *)
(* near the target; to the very start it is exact.                         *)
Landings(target) == IF target = 0 THEN {0} ELSE 0..Frames
Sought(m, p) ==
  [packets |-> p, frame |-> m.frame, eos |-> FALSE, last |-> -1, next |-> -1]

(* getPosition(), and a seek if it went back.                              *)
Begin ==
  LET now == clock[This].position IN
  /\ pc = "position" /\ pc' = "decoding"
  /\ pos' = now /\ behind' = 0 /\ sought' = FALSE /\ out' = 0
  /\ IF now < media[This].last
     THEN \E p \in Landings(now) : media' = [media EXCEPT ![This] = Sought(@, p)]
     ELSE UNCHANGED media
  /\ UNCHANGED <<listVars, at, dt, clock, buffer>>

MutDue(m) == ~m.eos /\ pos > m.next
Due(m) == ~m.eos /\ pos >= m.next

(* The next packet, decoded: its time is that of the next frame.           *)
Decoded(m) ==
  [packets |-> m.packets + 1, frame |-> m.packets + 1, eos |-> m.eos,
   last |-> m.next, next |-> m.packets + 1]

(* Every packet has been read.                                             *)
Ended(m) == m.packets >= Frames

(* One round of the decoding loop; it seeks, once, when it cannot catch    *)
(* up, and returns when the last packet is gone, whatever it took out.     *)
Decode ==
  LET m == media[This]
      seeks == behind > MaxBehind /\ ~sought
  IN
  /\ pc = "decoding" /\ Due(m)
  /\ \E p \in IF seeks THEN Landings(pos) ELSE {m.packets} :
       LET n == IF seeks THEN Sought(m, p) ELSE m
       IN
       /\ media' = [media EXCEPT ![This] = IF Ended(n) THEN [n EXCEPT !.eos = TRUE] ELSE Decoded(n)]
       /\ pc' = IF Ended(n) THEN "visit" ELSE pc
       /\ at' = IF Ended(n) THEN at + 1 ELSE at
  /\ behind' = IF seeks THEN 0 ELSE behind + 1
  /\ sought' = (sought \/ seeks)
  /\ out' = m.frame
  /\ UNCHANGED <<listVars, dt, pos, clock, buffer>>

(* No frame is due, and none was.                                          *)
NothingDue ==
  /\ pc = "decoding" /\ ~Due(media[This]) /\ out = 0
  /\ pc' = "visit" /\ at' = at + 1
  /\ UNCHANGED <<listVars, dt, localVars, clock, media, buffer>>

(* "Don't swap whilst we're writing to the backbuffer."                    *)
MutLowered(b) == b
Lowered(b) == [b EXCEPT !.ready = FALSE]
Lower ==
  /\ pc = "decoding" /\ ~Due(media[This]) /\ out # 0
  /\ buffer' = [buffer EXCEPT ![This] = Lowered(@)]
  /\ pc' = "clearing"
  /\ UNCHANGED <<listVars, at, dt, localVars, clock, media>>

(* The planes are copied one after the other.                              *)
Copy ==
  /\ pc = "clearing" /\ pc' = "copying"
  /\ buffer' = [buffer EXCEPT ![This].back.whole = FALSE]
  /\ UNCHANGED <<listVars, at, dt, localVars, clock, media>>

(* "Re-enable swapping."                                                   *)
Raise ==
  /\ pc = "copying"
  /\ buffer' = [buffer EXCEPT ![This] =
       [front |-> [@.front EXCEPT !.latest = FALSE],
        back  |-> [frame |-> out, whole |-> TRUE, latest |-> TRUE], ready |-> TRUE]]
  /\ pc' = "visit" /\ at' = at + 1
  /\ UNCHANGED <<listVars, dt, localVars, clock, media>>

-----------------------------------------------------------------------------
Program ==
  \/ \E s \in Streams : \/ Open(s) \/ Drop(s) \/ Play(s) \/ Pause(s) \/ Swap(s)
                        \/ \E t \in SeekTargets : Seek(s, t)
  \/ Stop \/ Joined \/ Closed

Worker ==
  \/ Wake \/ Recheck \/ Rest \/ Erase \/ Tick \/ Begin \/ Decode \/ NothingDue
  \/ Lower \/ Copy \/ Raise

Next == Program \/ Worker

Spec == Init /\ [][Next]_vars

(* The worker is a thread that no lock stops for ever; ~Video waits for it.*)
FairSpec == Spec /\ WF_vars(Worker) /\ WF_vars(Joined)

-----------------------------------------------------------------------------
(* Types of the variables.                                                 *)
Picture == [frame : 0..Frames, whole : BOOLEAN, latest : BOOLEAN]
Media   == [packets : 0..Frames, frame : 1..Frames, eos : BOOLEAN,
            last : -1..Frames, next : -1..Frames]
TypeOK ==
  /\ streams \in Seq(Streams) /\ held \subseteq Streams
  /\ stopping \in BOOLEAN /\ signalled \in BOOLEAN
  /\ pc \in {"asleep", "waiting", "visit", "position", "decoding", "clearing",
             "copying", "ended", "joined"}
  /\ at \in Nat /\ dt \in 0..MaxStep
  /\ pos \in 0..(Frames + 1) /\ behind \in Nat /\ sought \in BOOLEAN /\ out \in 0..Frames
  /\ clock \in [Streams -> [position : 0..(Frames + 1), playing : BOOLEAN]]
  /\ media \in [Streams -> Media]
  /\ buffer \in [Streams -> [front : Picture, back : Picture, ready : BOOLEAN]]

(* The picture the program uploads to its textures is never one the worker *)
(* is writing, or has half written ("Don't swap whilst we're writing").    *)
FrontWhole == \A s \in Streams : buffer[s].front.whole

(* A stream the program still has is on the worker's list, once: erasing   *)
(* abandoned streams never leaves an open one without its decoder.         *)
HeldIsFed ==
  /\ ~stopping => held \subseteq Elements(streams)
  /\ \A i, j \in 1..Len(streams) : streams[i] = streams[j] => i = j

(* The frame the worker copies is the one to be seen at the time it read   *)
(* off the clock: the loop runs "until we are at the end of the stream, or *)
(* we are displaying the right frame".  The first frame is seen early.     *)
RightFrame ==
  pc \in {"clearing", "copying"} => pos < out + 1 /\ (out <= pos \/ out = 1)

(* However the program seeks and however far the worker falls behind, the  *)
(* only frame that may be wrong is the first one taken out of the decoder  *)
(* after a seek, while lastFrame is still -1.                              *)
RightOnceSettled ==
  pc \in {"clearing", "copying"} /\ media[This].last # -1 => RightFrame

(* What the two buffers are for.  swapBuffers "returns true if there is    *)
(* new data in the front buffer": each finished picture is brought forward *)
(* at most once, and whole; the one in front changes in no other way; and  *)
(* the worker takes an offer back before it writes the next.               *)
Torn == -2
Seen(picture) == IF picture.whole THEN picture.frame ELSE Torn
Relay == INSTANCE PictureRelay WITH
  Pictures <- 1..Frames, Blank <- 0, None <- -1,
  shown    <- [s \in Streams |-> Seen(buffer[s].front)],
  offered  <- [s \in Streams |-> IF buffer[s].ready THEN Seen(buffer[s].back) ELSE -1]
RelaySpec == Relay!Spec

(* Nobody else has the stream: the worker lets it go too, even if new ones *)
(* keep coming.                                                            *)
AbandonedIsDropped ==
  \A s \in Streams :
    (s \in Elements(streams) /\ s \notin held) ~> (s \notin Elements(streams) \/ s \in held)

(* A frame that is due is decoded, however many streams are open, come and *)
(* go: the stream's clock is read again and again.                         *)
IsDue(s) ==
  s \in held /\ ~media[s].eos /\ clock[s].position >= media[s].next
DueIsDecoded == \A s \in Streams : IsDue(s) ~> ~IsDue(s)

(* ~Video gets its worker back, asleep, waiting or at work.                *)
StopEnds == stopping ~> (pc = "joined" /\ streams = <<>>)
=============================================================================
