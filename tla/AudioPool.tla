----------------------------- MODULE AudioPool -----------------------------
(***************************************************************************)
(* The OpenAL audio back end: the pool of voices (Pool.cpp), the Sources   *)
(* that borrow them (Source.cpp), and the AudioPool thread that refills    *)
(* streams and reaps finished Sources every 5 ms (Audio.cpp).              *)
(*                                                                         *)
(* Four actors interleave: the program, calling the Source and Audio       *)
(* methods; the pool thread; the OpenAL mixer, which plays buffers at its  *)
(* own pace; and the device, which may come and go.  Every operation that  *)
(* holds the pool's recursive mutex from end to end is one step.  seek()   *)
(* holds it too, but calls stop() and play() inside: it is several steps,  *)
(* between which only the mixer and the device may move.  stop() tests     *)
(* "valid" before it takes the mutex: it is two steps.                     *)
(*                                                                         *)
(* Buffers are counted, not named; a stream's sound is Chunks buffers      *)
(* long, and its decoder reports its end together with the last chunk.     *)
(*                                                                         *)
(* An operator named Mut... is the one below it with a plausible bug; no   *)
(* definition of the specification uses it.  The mutation runs do.         *)
(***************************************************************************)
EXTENDS Integers, Sequences, FiniteSets

CONSTANTS
  Statics,       \* Sources over a StaticDataBuffer (TYPE_STATIC)
  Streams,       \* Sources over a Decoder (TYPE_STREAM)
  Voices,        \* the AL source ids Pool::Pool managed to generate
  NoVoice, NoSource,
  Buffers,       \* DEFAULT_BUFFERS: AL buffers of a stream
  Chunks,        \* buffers a decoder yields from its start to its end
  SeekTargets,   \* where the program seeks: inside the sound, past its end
  PlayMayFail,   \* may alSourcePlay raise an error?
  PlayvMayFail,  \* may alSourcePlayv raise an error?
  MixerInUpdate, \* may the mixer move between two AL calls of update()?
  DisconnectExt, \* is ALC_EXT_disconnect present?
  MayRelease     \* Sources whose last script reference may go while in use

Sources == Statics \cup Streams

ASSUME AudioAssumption ==
  /\ IsFiniteSet(Sources) /\ IsFiniteSet(Voices)
  /\ Statics \cap Streams = {}
  /\ NoVoice \notin Voices /\ NoSource \notin Sources
  /\ Buffers \in Nat \ {0} /\ Chunks \in Nat \ {0}
  /\ SeekTargets \subseteq {"inside", "past"}
  /\ MayRelease \subseteq Sources

VARIABLES
  available,  \* Pool::available, the queue of free voices
  playing,    \* Pool::playing, a map from Source to voice
  refs,       \* Object::count of each Source; 0 once it is deleted
  held,       \* the Sources the program still has a wrapper for
  message,    \* the Sources in an undelivered "audiodisconnected" event
  dangling,   \* deleted Sources whose memory was used again
  valid,      \* Source::valid
  voice,      \* Source::source, the last voice the Source was given
  unused,     \* how many buffers are in Source::unusedBuffers
  bufs,       \* Source::buffers
  left,       \* chunks the stream's decoder has before its end
  looping,    \* Source::looping
  al,         \* the state of each OpenAL voice
  alError,    \* the AL error flag is up and nobody read it yet
  connected,  \* ALC_CONNECTED
  notified,   \* Pool::disconnectNotified
  phase,      \* the pool thread: running, told to finish, ended
  pc,         \* where the program is inside stop() or seek()
  subject     \* the Source that call is about

poolVars   == <<available, playing, refs>>
ownerVars  == <<held, message, dangling>>
sourceVars == <<valid, voice, unused, bufs, left, looping>>
deviceVars == <<al, alError>>
linkVars   == <<connected, notified, phase>>
callVars   == <<pc, subject>>
vars == <<poolVars, ownerVars, sourceVars, deviceVars, linkVars, callVars>>

LeastOf(a, b) == IF a <= b THEN a ELSE b

-----------------------------------------------------------------------------
(* OpenAL, as this code relies on it.                                      *)

(* A voice nothing is attached to.  todo and done count the queued buffers *)
(* still to be played and those already processed.                         *)
Blank == [state |-> "initial", content |-> NoSource, todo |-> 0, done |-> 0,
          loop |-> FALSE]

(* A voice that stops counts its whole queue as processed.                 *)
AlStop(a) == [a EXCEPT !.state = "stopped", !.todo = 0, !.done = a.todo + a.done]

(* alSourcePlay: a paused voice resumes, any other starts its queue over;  *)
(* with an empty queue, or no device, it stops at once.                    *)
AlPlay(a) ==
  IF ~connected \/ a.todo + a.done = 0 THEN AlStop(a)
  ELSE IF a.state = "paused" THEN [a EXCEPT !.state = "playing"]
  ELSE [a EXCEPT !.state = "playing", !.todo = a.todo + a.done, !.done = 0]

AlPause(a) == IF a.state = "playing" THEN [a EXCEPT !.state = "paused"] ELSE a

(* The mixer has played n more buffers of a playing voice.                 *)
AlAdvance(a, n) ==
  IF n = a.todo /\ ~a.loop THEN AlStop(a)
  ELSE IF a.loop THEN a
  ELSE [a EXCEPT !.todo = a.todo - n, !.done = a.done + n]

-----------------------------------------------------------------------------
(* Predicates of the code.                                                 *)

InPool(s) == playing[s] # NoVoice

(* Source::isPlaying.                                                      *)
IsPlaying(s) == valid[s] /\ al[voice[s]].state = "playing"

(* Source::isFinished, for the state a of the Source's voice.              *)
Finished(s, a) ==
  /\ valid[s]
  /\ s \in Streams => ~looping[s] /\ left[s] = 0
  /\ a.state = "stopped"

(* Source::update answers whether the Source still needs its voice.        *)
MutStillPlaying(s) == valid[s]
StillPlaying(s) == valid[s] /\ ~Finished(s, al[voice[s]])

MutexFree == pc \in {"idle", "stopping"}
Callable(s) == phase = "running" /\ pc = "idle" /\ s \in held

-----------------------------------------------------------------------------
(* Decoding.                                                               *)

(* How many of the buffers a refill has at hand it can fill: done buffers  *)
(* taken off the queue, then the unused ones.  A looping decoder at its    *)
(* end yields one empty read and is rewound; only the loop over the        *)
(* processed buffers goes on after an empty read.                          *)
Fill(s, done) ==
  IF ~looping[s] THEN LeastOf(done + unused[s], left[s])
  ELSE IF left[s] > 0 \/ done > 0 THEN done + unused[s] ELSE 0

(* The decoder's position after that refill; a loop starts over.           *)
MutLeftAfter(s, done) == left[s] - Fill(s, done)
LeftAfter(s, done) ==
  IF done + unused[s] = 0 THEN left[s]
  ELSE IF ~looping[s] THEN left[s] - Fill(s, done)
  ELSE ((left[s] - 1 - Fill(s, done)) % Chunks) + 1

(* prepareAtomic: the voice as reset() and the queueing leave it.          *)
MutPrepared(s) ==
  IF s \in Statics THEN [Blank EXCEPT !.loop = looping[s]]
  ELSE [Blank EXCEPT !.content = s, !.todo = Fill(s, 0)]
Prepared(s) ==
  IF s \in Statics
  THEN [Blank EXCEPT !.content = s, !.todo = 1, !.loop = looping[s]]
  ELSE [Blank EXCEPT !.content = s, !.todo = Fill(s, 0)]

(* update() of a Source that is not finished: its voice, then its unused   *)
(* buffers, once the processed buffers went through the decoder.           *)
Refilled(s, a) ==
  IF s \in Statics THEN [a EXCEPT !.loop = looping[s]]
  ELSE IF a.state = "stopped" THEN [a EXCEPT !.done = Fill(s, a.done)]
  ELSE [a EXCEPT !.done = 0, !.todo = a.todo + Fill(s, a.done)]

(* teardownAtomic: what a Source gets back from the voice it leaves.       *)
MutDrained(s, a) == IF s \in Streams THEN unused[s] + a.done ELSE unused[s]
Drained(s, a) == IF s \in Streams THEN unused[s] + a.todo + a.done ELSE unused[s]
Rewound(s)    == IF s \in Streams THEN Chunks ELSE left[s]

-----------------------------------------------------------------------------
(* The order in which a group of Sources meets the queue of free voices is *)
(* the order of the caller's list, or of a std::map over pointers.         *)
Orders(S) ==
  {o \in [1..Cardinality(S) -> S] :
     /\ \A i, j \in DOMAIN o : o[i] = o[j] => i = j
     /\ \A s \in S : \E i \in DOMAIN o : o[i] = s}

(* Object::retain and release, once for each Source of a set.              *)
MutRetained(S) == refs
Retained(S) == [s \in Sources |-> IF s \in S THEN refs[s] + 1 ELSE refs[s]]
MutReleased(S) == refs
Released(S) == [s \in Sources |-> IF s \in S THEN refs[s] - 1 ELSE refs[s]]

(* What is left of the queue once k voices are taken from its front, and   *)
(* the queue with the voices of a list of Sources pushed to its back.      *)
MutAfterTaking(k) == SubSeq(available, k, Len(available))
AfterTaking(k) == SubSeq(available, k + 1, Len(available))
MutAfterReturning(o) == available \o [i \in 1..(Len(o) - 1) |-> playing[o[i]]]
AfterReturning(o) == available \o [i \in 1..Len(o) |-> playing[o[i]]]

(* Pool::assignSource for each Source of a group.                          *)
Assign(S) ==
  \E o \in Orders(S) :
    LET k == Cardinality(S) IN
    /\ k <= Len(available)
    /\ playing' = [s \in Sources |->
         IF s \in S THEN available[CHOOSE i \in 1..k : o[i] = s] ELSE playing[s]]
    /\ available' = AfterTaking(k)
    /\ refs' = Retained(S)

(* Pool::releaseSource for each Source of a group that is in the pool; the *)
(* Sources of kept are retained again by an event message.                 *)
Release(S, kept) ==
  LET In == {s \in S : InPool(s)} IN
  \E o \in Orders(In) :
    /\ playing' = [s \in Sources |-> IF s \in In THEN NoVoice ELSE playing[s]]
    /\ available' = AfterReturning(o)
    /\ refs' = Released(In \ kept)

(* alSourceStop and teardownAtomic for each Source of a group.  Should two *)
(* of them point at one voice, the first one takes its queue.              *)
TearDown(S) ==
  \E first \in SUBSET S :
    /\ \A s \in S : \E t \in first : voice[t] = voice[s]
    /\ \A s, t \in first : voice[s] = voice[t] => s = t
    /\ unused' = [s \in Sources |->
         IF s \in first THEN Drained(s, al[voice[s]]) ELSE unused[s]]
    /\ al' = [v \in Voices |-> IF \E s \in S : voice[s] = v THEN Blank ELSE al[v]]

-----------------------------------------------------------------------------
Init ==
  /\ available \in Orders(Voices)
  /\ playing = [s \in Sources |-> NoVoice]
  /\ refs = [s \in Sources |-> 0]
  /\ held = {} /\ message = {} /\ dangling = {}
  /\ valid = [s \in Sources |-> FALSE]
  /\ voice = [s \in Sources |-> NoVoice]
  /\ unused = [s \in Sources |-> 0]
  /\ bufs = [s \in Sources |-> 0]
  /\ left = [s \in Sources |-> 0]
  /\ looping = [s \in Sources |-> FALSE]
  /\ al = [v \in Voices |-> Blank]
  /\ alError = FALSE
  /\ connected = TRUE /\ notified = FALSE
  /\ phase = "running"
  /\ pc = "idle" /\ subject = NoSource

-----------------------------------------------------------------------------
(* The bodies of play() and stop(), which seek() calls too.                *)

(* play() of a Source that has a voice: resumeAtomic().  Whatever that     *)
(* does, play() then sets valid and answers true.                          *)
Resume(s) ==
  /\ InPool(s)
  /\ valid' = [valid EXCEPT ![s] = TRUE]
  /\ UNCHANGED <<voice, bufs, looping>>
  /\ IF valid[s] /\ ~IsPlaying(s)
     THEN /\ alError' = FALSE
          /\ IF alError \/ (s \in Streams /\ unused[s] = bufs[s])
             THEN /\ TearDown({s})
                  /\ left' = [left EXCEPT ![s] = Rewound(s)]
                  /\ Release({s}, {})
             ELSE /\ \E fails \in (IF PlayMayFail THEN BOOLEAN ELSE {FALSE}) :
                       al' = [al EXCEPT ![voice[s]] = IF fails THEN @ ELSE AlPlay(@)]
                  /\ UNCHANGED <<unused, left, poolVars>>
     ELSE UNCHANGED <<unused, left, poolVars, deviceVars>>

(* play() of a Source that gets a voice: prepareAtomic(), alSourcePlay;    *)
(* if that fails the voice goes straight back to the queue.                *)
Start(s) ==
  /\ ~InPool(s) /\ available # <<>>
  /\ voice' = [voice EXCEPT ![s] = Head(available)]
  /\ alError' = FALSE
  /\ UNCHANGED <<bufs, looping>>
  /\ \E fails \in (IF PlayMayFail THEN BOOLEAN ELSE {FALSE}) :
       LET v == Head(available)
           a == IF fails THEN Prepared(s) ELSE AlPlay(Prepared(s))
           success == ~fails /\ (s \in Streams => a.state = "playing")
       IN
       /\ valid' = [valid EXCEPT ![s] = success]
       /\ al' = [al EXCEPT ![v] = IF success THEN a ELSE Blank]
       /\ IF success
          THEN /\ unused' = [unused EXCEPT ![s] =
                    IF s \in Streams THEN @ - Fill(s, 0) ELSE @]
               /\ left' = [left EXCEPT ![s] =
                    IF s \in Streams THEN LeftAfter(s, 0) ELSE @]
               /\ Assign({s})
          ELSE /\ left' = [left EXCEPT ![s] = Rewound(s)]
               /\ available' = Append(Tail(available), v)
               /\ UNCHANGED <<unused, playing, refs>>

(* play() with every voice taken.                                          *)
Refused(s) ==
  /\ ~InPool(s) /\ available = <<>>
  /\ valid' = [valid EXCEPT ![s] = FALSE]
  /\ UNCHANGED <<voice, unused, bufs, left, looping, poolVars, deviceVars>>

DoPlay(s) == Resume(s) \/ Start(s) \/ Refused(s)

(* Source::stop(vector); also what stop() does once it has the mutex,      *)
(* except that stop() leaves a Source that lost its voice alone.           *)
DoStop(S) ==
  LET Valid == {s \in S : valid[s]} IN
  /\ TearDown(Valid)
  /\ valid' = [s \in Sources |-> valid[s] /\ s \notin S]
  /\ left' = [s \in Sources |-> IF s \in Valid THEN Rewound(s) ELSE left[s]]
  /\ UNCHANGED <<voice, bufs, looping, alError>>

MutDoStopOneKeepsPlaying(s) ==
  IF InPool(s) THEN Release({s}, {}) /\ UNCHANGED <<sourceVars, deviceVars>>
  ELSE UNCHANGED <<poolVars, sourceVars, deviceVars>>
MutDoStopOneKeepsVoice(s) ==
  IF InPool(s)
  THEN /\ Release({s}, {}) /\ valid' = [valid EXCEPT ![s] = FALSE]
       /\ UNCHANGED <<voice, unused, bufs, left, looping, deviceVars>>
  ELSE UNCHANGED <<poolVars, sourceVars, deviceVars>>
DoStopOne(s) ==
  IF InPool(s) THEN DoStop({s}) /\ Release({s}, {})
  ELSE UNCHANGED <<poolVars, sourceVars, deviceVars>>

-----------------------------------------------------------------------------
(* The program's calls.                                                    *)

(* Source::Source.  A stream asks alGetError after each of the n buffers   *)
(* it generates, and gives up at the first error, whoever made it.         *)
Constructed(s, n, loops) ==
  /\ refs[s] = 0 /\ s \notin dangling
  /\ refs' = [refs EXCEPT ![s] = 1]
  /\ held' = held \cup {s}
  /\ LET got == IF s \in Statics \/ alError THEN 0 ELSE n IN
     /\ bufs' = [bufs EXCEPT ![s] = got]
     /\ unused' = [unused EXCEPT ![s] = got]
  /\ alError' = (alError /\ (s \in Statics \/ n = 0))
  /\ left' = [left EXCEPT ![s] = IF s \in Streams THEN Chunks ELSE 0]
  /\ valid' = [valid EXCEPT ![s] = FALSE]
  /\ looping' = [looping EXCEPT ![s] = loops]
  /\ voice' = [voice EXCEPT ![s] = NoVoice]
  /\ UNCHANGED <<available, playing, message, dangling, al, linkVars, callVars>>

NewSource(s) ==
  /\ phase = "running" /\ pc = "idle"
  /\ Constructed(s, Buffers, FALSE)

(* clone(): as many buffers as the original has, its settings, a decoder   *)
(* at the start, no voice.                                                 *)
Clone(s, t) ==
  /\ Callable(s) /\ (s \in Statics <=> t \in Statics)
  /\ Constructed(t, bufs[s], looping[s])

(* The program lets go of its wrapper; the last reference deletes.         *)
Drop(s) ==
  /\ Callable(s) /\ (InPool(s) => s \in MayRelease)
  /\ held' = held \ {s}
  /\ refs' = Released({s})
  /\ valid' = [valid EXCEPT ![s] = @ /\ refs[s] > 1]
  /\ UNCHANGED <<available, playing, message, dangling, voice, unused, bufs,
                 left, looping, deviceVars, linkVars, callVars>>

Play(s) ==
  /\ Callable(s) /\ DoPlay(s)
  /\ UNCHANGED <<ownerVars, linkVars, callVars>>

(* Source::play(vector): all of them get a voice or none does.  The ones   *)
(* already playing are left alone, the rest start in one AL call.          *)
PlayList(S) ==
  LET New   == {s \in S : ~InPool(s)}
      Begin == {s \in S : s \in New \/ ~IsPlaying(s)}
  IN
  /\ S # {} /\ \A s \in S : Callable(s)
  /\ Cardinality(New) <= Len(available)
  /\ Assign(New)
  /\ voice' = [s \in Sources |-> IF s \in New THEN playing'[s] ELSE voice[s]]
  /\ \E fails \in (IF PlayvMayFail THEN BOOLEAN ELSE {FALSE}) :
       /\ valid' = [s \in Sources |-> valid[s] \/ (s \in S /\ ~fails)]
       /\ al' = [v \in Voices |->
            IF \E s \in Begin : playing'[s] = v
            THEN LET s == CHOOSE s \in Begin : playing'[s] = v
                     a == IF s \in New THEN Prepared(s) ELSE al[v]
                 IN  IF fails THEN a ELSE AlPlay(a)
            ELSE al[v]]
  /\ unused' = [s \in Sources |->
       IF s \in New \cap Streams THEN unused[s] - Fill(s, 0) ELSE unused[s]]
  /\ left' = [s \in Sources |->
       IF s \in New \cap Streams THEN LeftAfter(s, 0) ELSE left[s]]
  /\ alError' = FALSE
  /\ UNCHANGED <<bufs, looping, ownerVars, linkVars, callVars>>

(* stop() first tests valid, without the mutex.                            *)
Stop(s) ==
  /\ Callable(s) /\ valid[s]
  /\ pc' = "stopping" /\ subject' = s
  /\ UNCHANGED <<poolVars, ownerVars, sourceVars, deviceVars, linkVars>>

StopLocked ==
  /\ pc = "stopping"
  /\ DoStopOne(subject)
  /\ pc' = "idle" /\ subject' = NoSource
  /\ UNCHANGED <<ownerVars, linkVars>>

StopList(S) ==
  /\ S # {} /\ \A s \in S : Callable(s)
  /\ DoStop(S) /\ Release(S, {})
  /\ UNCHANGED <<ownerVars, linkVars, callVars>>

(* Audio::stop(): every Source of the pool, the forgotten ones included.   *)
StopAll ==
  /\ phase = "running" /\ pc = "idle"
  /\ LET S == {s \in Sources : InPool(s)} IN DoStop(S) /\ Release(S, {})
  /\ UNCHANGED <<ownerVars, linkVars, callVars>>

PauseVoices(V) ==
  /\ al' = [v \in Voices |-> IF v \in V THEN AlPause(al[v]) ELSE al[v]]
  /\ UNCHANGED <<poolVars, ownerVars, sourceVars, alError, linkVars, callVars>>

(* pause() asks the pool, pause(vector) asks valid.                        *)
Pause(s) ==
  /\ Callable(s) /\ InPool(s) /\ valid[s]
  /\ PauseVoices({voice[s]})

PauseList(S) ==
  /\ S # {} /\ \A s \in S : Callable(s)
  /\ PauseVoices({voice[s] : s \in {t \in S : valid[t]}})

PauseAll ==
  /\ phase = "running" /\ pc = "idle"
  /\ PauseVoices({voice[s] : s \in {t \in Sources : InPool(t) /\ IsPlaying(t)}})

SetLooping(s, enable) ==
  /\ Callable(s)
  /\ looping' = [looping EXCEPT ![s] = enable]
  /\ al' = IF valid[s] /\ s \in Statics
           THEN [al EXCEPT ![voice[s]].loop = enable] ELSE al
  /\ UNCHANGED <<poolVars, ownerVars, valid, voice, unused, bufs, left, alError,
                 linkVars, callVars>>

-----------------------------------------------------------------------------
(* seek(), holding the mutex from its first step to its last.              *)

(* A static Source: an offset past the end raises an AL error, but only a  *)
(* Source that is playing looks for one.                                   *)
SeekStatic(s, target) ==
  LET wrong == /\ valid[s] /\ target = "past"
               /\ al[voice[s]].state \in {"playing", "paused"}
      bad   == alError \/ wrong
  IN
  /\ Callable(s) /\ s \in Statics
  /\ alError' = (bad /\ ~IsPlaying(s))
  /\ IF bad /\ IsPlaying(s) THEN pc' = "seekFailed" /\ subject' = s
                           ELSE UNCHANGED callVars
  /\ UNCHANGED <<poolVars, ownerVars, sourceVars, al, linkVars>>

(* A stream is stopped to drain its buffers and its decoder moved.  Past   *)
(* the end some decoders go to the end and others stay where they are.     *)
SeekStream(s, target) ==
  LET stops == valid[s] /\ InPool(s)
      stays == IF stops THEN Chunks ELSE left[s]
  IN
  /\ Callable(s) /\ s \in Streams
  /\ \E pos \in IF target = "inside" THEN 1..Chunks ELSE {0, stays} :
       left' = [left EXCEPT ![s] = pos]
  /\ IF stops THEN TearDown({s}) /\ Release({s}, {})
              ELSE UNCHANGED <<unused, al, poolVars>>
  /\ valid' = [valid EXCEPT ![s] = @ /\ ~stops]
  /\ IF IsPlaying(s) THEN pc' = "seekPlay" /\ subject' = s
                     ELSE UNCHANGED callVars
  /\ UNCHANGED <<voice, bufs, looping, alError, ownerVars, linkVars>>

SeekPlay ==
  /\ pc = "seekPlay" /\ DoPlay(subject)
  /\ pc' = "seekCheck"
  /\ UNCHANGED <<subject, ownerVars, linkVars>>

SeekCheck ==
  /\ pc = "seekCheck"
  /\ alError' = FALSE
  /\ IF alError \/ ~IsPlaying(subject)
     THEN pc' = "seekFailed" /\ UNCHANGED subject
     ELSE pc' = "idle" /\ subject' = NoSource
  /\ UNCHANGED <<poolVars, ownerVars, sourceVars, al, linkVars>>

SeekFailed ==
  /\ pc = "seekFailed"
  /\ IF valid[subject] THEN DoStopOne(subject)
                       ELSE UNCHANGED <<poolVars, sourceVars, deviceVars>>
  /\ IF looping[subject] THEN pc' = "seekReplay" /\ UNCHANGED subject
                         ELSE pc' = "idle" /\ subject' = NoSource
  /\ UNCHANGED <<ownerVars, linkVars>>

SeekReplay ==
  /\ pc = "seekReplay" /\ DoPlay(subject)
  /\ pc' = "idle" /\ subject' = NoSource
  /\ UNCHANGED <<ownerVars, linkVars>>

-----------------------------------------------------------------------------
(* The pool thread.                                                        *)

ThreadRuns == phase \in {"running", "finishing"} /\ MutexFree
MutNoticesLoss ==
  DisconnectExt /\ ~connected /\ ~notified /\ \E s \in Sources : InPool(s)
NoticesLoss == DisconnectExt /\ ~connected /\ ~notified

(* update() of a device that is gone: every Source is stopped and named in *)
(* an "audiodisconnected" event, also those that died as the pool let go.  *)
Disconnected ==
  LET S    == {s \in Sources : InPool(s)}
      kept == {s \in S : refs[s] > 1}
  IN
  /\ ThreadRuns /\ NoticesLoss
  /\ DoStop(S) /\ Release(S, kept)
  /\ message' = kept
  /\ dangling' = dangling \cup (S \ kept)
  /\ notified' = TRUE
  /\ UNCHANGED <<held, connected, phase, callVars>>

(* update(): unfinished streams are refilled, the other Sources released.  *)
(* The mixer may play a few more buffers of a stream after isFinished()    *)
(* looked at it and before the processed ones are counted.                 *)
Update ==
  LET Live == {s \in Sources : InPool(s) /\ StillPlaying(s)}
      Done == {s \in Sources : InPool(s) /\ ~StillPlaying(s)}
  IN
  /\ ThreadRuns /\ ~NoticesLoss
  /\ notified' = (notified /\ ~(DisconnectExt /\ connected))
  /\ \E more \in [Live \cap Streams -> 0..(IF MixerInUpdate THEN Buffers ELSE 0)] :
       LET Now(s) == IF s \in Streams /\ more[s] > 0
                     THEN AlAdvance(al[voice[s]], more[s]) ELSE al[voice[s]]
       IN
       /\ \A s \in Live \cap Streams : more[s] > 0 =>
            al[voice[s]].state = "playing" /\ more[s] <= al[voice[s]].todo
       /\ al' = [v \in Voices |->
            IF \E s \in Live : voice[s] = v
            THEN LET s == CHOOSE s \in Live : voice[s] = v IN Refilled(s, Now(s))
            ELSE IF \E s \in Done : valid[s] /\ voice[s] = v THEN Blank
            ELSE al[v]]
       /\ unused' = [s \in Sources |->
            IF s \in Live \cap Streams
            THEN unused[s] + Now(s).done - Fill(s, Now(s).done)
            ELSE IF s \in Done /\ valid[s] THEN Drained(s, al[voice[s]])
            ELSE unused[s]]
       /\ left' = [s \in Sources |->
            IF s \in Live \cap Streams THEN LeftAfter(s, Now(s).done)
            ELSE IF s \in Done /\ valid[s] THEN Rewound(s)
            ELSE left[s]]
  /\ valid' = [s \in Sources |-> valid[s] /\ s \notin Done]
  /\ Release(Done, {})
  /\ UNCHANGED <<voice, bufs, looping, alError, ownerVars, connected, phase, callVars>>

(* threadFunction reads the finish flag and returns.                       *)
MutThreadEnds ==
  /\ phase = "finishing" /\ \A s \in Sources : ~InPool(s)
  /\ phase' = "ended"
  /\ UNCHANGED <<poolVars, ownerVars, sourceVars, deviceVars, connected, notified,
                 callVars>>
ThreadEnds ==
  /\ phase = "finishing"
  /\ phase' = "ended"
  /\ UNCHANGED <<poolVars, ownerVars, sourceVars, deviceVars, connected, notified,
                 callVars>>

-----------------------------------------------------------------------------
(* ~Audio, run once the scripting runtime and all its wrappers are gone:   *)
(* setFinish(), wait() for the thread, then ~Pool stops every Source.      *)
SetFinish ==
  /\ phase = "running" /\ pc = "idle" /\ held = {}
  /\ phase' = "finishing"
  /\ UNCHANGED <<poolVars, ownerVars, sourceVars, deviceVars, connected, notified,
                 callVars>>

DeletePool ==
  /\ phase = "ended"
  /\ LET S == {s \in Sources : InPool(s)} IN DoStop(S) /\ Release(S, {})
  /\ phase' = "down"
  /\ UNCHANGED <<ownerVars, connected, notified, callVars>>

(* The module is gone for good.                                            *)
Down == phase = "down" /\ UNCHANGED vars

-----------------------------------------------------------------------------
(* The mixer and the device (external), and the event queue's consumer.    *)

Mix(v) ==
  /\ al[v].state = "playing" /\ phase # "down"
  /\ al' = [al EXCEPT ![v] = AlAdvance(@, 1)]
  /\ UNCHANGED <<poolVars, ownerVars, sourceVars, alError, linkVars, callVars>>

LoseDevice ==
  /\ connected /\ message = {} /\ phase # "down"
  /\ connected' = FALSE
  /\ al' = [v \in Voices |-> IF al[v].state = "playing" THEN AlStop(al[v]) ELSE al[v]]
  /\ UNCHANGED <<poolVars, ownerVars, sourceVars, alError, notified, phase, callVars>>

RegainDevice ==
  /\ ~connected /\ phase # "down"
  /\ connected' = TRUE
  /\ UNCHANGED <<poolVars, ownerVars, sourceVars, deviceVars, notified, phase, callVars>>

(* Polling the event wraps its Sources anew; the message drops its own     *)
(* references.                                                             *)
PollMessage ==
  /\ phase = "running" /\ pc = "idle" /\ message # {}
  /\ held' = held \cup message
  /\ refs' = Released(message \cap held)
  /\ message' = {}
  /\ UNCHANGED <<available, playing, dangling, sourceVars, deviceVars, linkVars, callVars>>

-----------------------------------------------------------------------------
Program ==
  \/ \E s \in Sources : \/ NewSource(s) \/ Drop(s) \/ Play(s) \/ Stop(s) \/ Pause(s)
                        \/ \E enable \in BOOLEAN : SetLooping(s, enable)
                        \/ \E t \in SeekTargets : SeekStatic(s, t) \/ SeekStream(s, t)
                        \/ \E t \in Sources : Clone(s, t)
  \/ \E S \in SUBSET Sources : PlayList(S) \/ StopList(S) \/ PauseList(S)
  \/ StopAll \/ PauseAll \/ PollMessage
  \/ StopLocked \/ SeekPlay \/ SeekCheck \/ SeekFailed \/ SeekReplay
  \/ SetFinish \/ DeletePool \/ Down

PoolThread == Disconnected \/ Update \/ ThreadEnds

Environment == (\E v \in Voices : Mix(v)) \/ LoseDevice \/ RegainDevice

Next == Program \/ PoolThread \/ Environment

Spec == Init /\ [][Next]_vars

-----------------------------------------------------------------------------
(* Types of the variables.                                                 *)
TypeOK ==
  /\ available \in Seq(Voices)
  /\ playing \in [Sources -> Voices \cup {NoVoice}]
  /\ refs \in [Sources -> Nat]
  /\ held \subseteq Sources /\ message \subseteq Sources /\ dangling \subseteq Sources
  /\ valid \in [Sources -> BOOLEAN]
  /\ voice \in [Sources -> Voices \cup {NoVoice}]
  /\ unused \in [Sources -> Nat] /\ bufs \in [Sources -> Nat]
  /\ left \in [Sources -> Nat] /\ looping \in [Sources -> BOOLEAN]
  /\ al \in [Voices -> [state : {"initial", "playing", "paused", "stopped"},
                        content : Sources \cup {NoSource},
                        todo : Nat, done : Nat, loop : BOOLEAN]]
  /\ alError \in BOOLEAN /\ connected \in BOOLEAN /\ notified \in BOOLEAN
  /\ phase \in {"running", "finishing", "ended", "down"}
  /\ pc \in {"idle", "stopping", "seekPlay", "seekCheck", "seekFailed", "seekReplay"}
  /\ subject \in Sources \cup {NoSource}

(* Every AL source the pool generated is either queued in "available",     *)
(* once, or lent to exactly one Source (Pool::assignSource, releaseSource) *)
(* -- after failed plays, rollbacks, seeks and disconnections too.         *)
VoicePartition ==
  /\ \A i, j \in 1..Len(available) : available[i] = available[j] => i = j
  /\ \A s, t \in Sources : InPool(s) /\ playing[s] = playing[t] => s = t
  /\ \A v \in Voices :
       (\E i \in 1..Len(available) : available[i] = v) <=> (\A s \in Sources : playing[s] # v)

(* The reference count of a Source is the number of its owners: the        *)
(* program's wrapper, the pool while it plays, an undelivered event.       *)
RefsBalanced ==
  \A s \in Sources :
    refs[s] = (IF s \in held THEN 1 ELSE 0) + (IF InPool(s) THEN 1 ELSE 0)
            + (IF s \in message THEN 1 ELSE 0)

(* update()'s "audiodisconnected" event may name a Source that the pool    *)
(* has just deleted, but only one the program forgot while it played: who  *)
(* keeps what it plays never meets a deleted one.                          *)
OnlyForgottenDangle == dangling \subseteq MayRelease

(* A Source the pool plays and that is valid drives the voice the pool     *)
(* lent it, and that voice carries its own sound, nobody else's.           *)
OwnVoice ==
  \A s \in Sources : InPool(s) /\ valid[s] =>
    voice[s] = playing[s] /\ al[voice[s]].content = s

(* valid is never left standing by a Source the pool has taken its voice   *)
(* from: every setter and query that tests valid alone would then act on   *)
(* somebody else's voice.                                                  *)
NoStaleHandle == \A s \in Sources : valid[s] => InPool(s)

(* A stream's buffers are never lost nor duplicated: they are unused or    *)
(* queued on a voice that carries the stream.                              *)
QueuedOf(s) ==
  IF \E v \in Voices : al[v].content = s
  THEN LET v == CHOOSE v \in Voices : al[v].content = s IN al[v].todo + al[v].done
  ELSE 0

BuffersConserved ==
  \A s \in Streams : refs[s] > 0 => unused[s] + QueuedOf(s) = Buffers

(* A voice that waits in the queue makes no sound and holds no buffer.     *)
FreeVoicesSilent == \A i \in 1..Len(available) : al[available[i]] = Blank

(* After stop() has returned, isPlaying() of that Source answers false.    *)
StopMeansStopped ==
  [][\A s \in Sources :
       pc = "stopping" /\ subject = s /\ pc' = "idle" => ~IsPlaying(s)']_vars

-----------------------------------------------------------------------------
(* Liveness.  The thread's loop never stops before it is told to, and gets *)
(* the mutex in the end if it is free time and again, whatever seeks and   *)
(* stops the program calls between; no call that holds the mutex stops     *)
(* half-way; ~Audio runs to its end.                                       *)
FairSpec ==
  /\ Spec
  /\ SF_vars(Disconnected \/ Update) /\ WF_vars(ThreadEnds)
  /\ WF_vars(StopLocked) /\ WF_vars(DeletePool)
  /\ WF_vars(SeekPlay \/ SeekCheck \/ SeekFailed \/ SeekReplay)

(* A Source that has played to its end gives its voice back.               *)
FinishedIsReaped ==
  \A s \in Sources :
    (InPool(s) /\ Finished(s, al[voice[s]])) ~> (~InPool(s) \/ ~Finished(s, al[voice[s]]))

(* A lost device is announced once, unless it comes back first.            *)
LossIsAnnounced ==
  (DisconnectExt /\ ~connected /\ phase = "running") ~> (notified \/ connected \/ phase # "running")

(* ~Audio always gets its thread back and ends with all Sources stopped.   *)
ShutdownEnds ==
  phase = "finishing" ~> (phase = "down" /\ \A s \in Sources : ~InPool(s))

(* What the pool promises, free of Sources, buffers and errors.            *)
Ledger == INSTANCE VoiceLedger WITH
  free <- {available[i] : i \in 1..Len(available)}, lent <- playing
LedgerSpec == Ledger!Spec
=============================================================================
