------------------------------ MODULE RunLoop ------------------------------
(***************************************************************************)
(* A run of a game, from love_lh_boot to its exit code, and the restarts   *)
(* around it (love.cpp, Boot.cpp, Boot.lh.h): the modules it makes and     *)
(* gives back, the event queue (Event.cpp) and its dispatch (lh_Event.cpp),*)
(* and the threads that push to the queue of a run that may be ending: the *)
(* std.thread workers of the game and the thread of the audio pool.        *)
(*                                                                         *)
(* The main thread runs boot(), the loop and dispatch(); the game's code   *)
(* runs inside it, as the main unit, as a handler, as update and draw.  A  *)
(* thread that has something to say looks the event module up and then     *)
(* pushes to it: these are two steps, and anything may come between.       *)
(*                                                                         *)
(* Of the modules only love.event, which owns the queue, and love.audio,   *)
(* which owns a thread, are told apart; a quit is never forced, since      *)
(* nothing installs the modal drawing that would force one.                *)
(***************************************************************************)
EXTENDS Integers, Sequences, FiniteSets

CONSTANTS
  Workers,    \* the std.thread workers a run may spawn
  Codes,      \* the numbers the game quits with
  Payloads,   \* what it hands to love.event.restart
  Nothing,    \* nil, for a payload
  OwnLoop,    \* may the game be a script, or export a run of its own?
  MaxRuns,    \* bounds the number of boots
  MaxQueue    \* bounds the events that wait when another is pushed

ASSUME RunAssumption ==
  /\ Codes \subseteq Int /\ Nothing \notin Payloads
  /\ OwnLoop \in BOOLEAN /\ MaxRuns \in Nat /\ MaxQueue \in Nat

LOVE_LH_RESTART == -19528   \* -0x4c48
Order == <<"event", "audio">>

VARIABLES
  stage,     \* where the main thread is
  own,       \* this game answers for itself: a script, or a run of its own
  run,       \* how many times love_lh_boot was called
  making,    \* the place in Order of the next module
  live,      \* Modules::held, in the order of creation
  code,      \* what boot() will answer
  queue,     \* Event::queue
  current,   \* the message dispatch() is at
  answer,    \* what dispatch() answered
  workers,   \* the workers' threads
  audio,     \* the thread of the audio pool
  payload,   \* restartState.payload
  path,      \* whether restartState.gamepath names a game
  handed,    \* history: what the run before handed to love.event.restart
  handing    \* history: what this run has handed to it

bootVars    == <<own, run, making, live>>
eventVars   == <<queue, current, answer>>
threadVars  == <<workers, audio>>
restartVars == <<payload, path, handed, handing>>
vars == <<stage, bootVars, code, eventVars, threadVars, restartVars>>

Has(m) == \E i \in 1..Len(live) : live[i] = m

-----------------------------------------------------------------------------
(* Messages and answers.                                                   *)

Plain(n)      == [name |-> n, restart |-> FALSE, code |-> 0, payload |-> Nothing, path |-> FALSE]
Quit(c)       == [Plain("quit") EXCEPT !.code = c]
Restart(p, d) == [Plain("quit") EXCEPT !.restart = TRUE, !.payload = p, !.path = d]

(* What SDL has when it is pumped: nothing, an event, the window closed.   *)
Arrivals == {<<>>, <<Plain("input")>>, <<Quit(0)>>}

MutPumped == queue' \in Arrivals
Pumped ==
  \E more \in Arrivals :
    queue' = IF Len(queue) < MaxQueue THEN queue \o more ELSE queue

(* The callbacks of the game: there is none for audiodisconnected.         *)
Handled(m) == m.name \in {"input", "threaderror"}

Answers == [restart : BOOLEAN, code : Codes \cup {0}]
ExitCodeOf(a) == IF a.restart THEN LOVE_LH_RESTART ELSE a.code

NoAnswer == [restart |-> FALSE, code |-> 0]

(* boot() returns c; the dispatch's and the loop's locals are gone.        *)
Returns(c) ==
  /\ stage' = "join" /\ code' = c
  /\ current' = Plain("none") /\ answer' = NoAnswer

InGame == stage \in {"main", "handler", "asking", "update"}

Init ==
  /\ stage = "boot" /\ own = FALSE /\ run = 0 /\ making = 1 /\ live = <<>> /\ code = 0
  /\ queue = <<>> /\ current = Plain("none") /\ answer = NoAnswer
  /\ workers = [w \in Workers |-> "none"] /\ audio = "none"
  /\ payload = Nothing /\ path = FALSE /\ handed = Nothing /\ handing = Nothing

-----------------------------------------------------------------------------
(* boot(), up to the game.                                                 *)

Boot ==
  /\ stage = "boot" /\ run < MaxRuns
  /\ stage' = "modules" /\ run' = run + 1 /\ making' = 1
  /\ own' \in (IF OwnLoop THEN BOOLEAN ELSE {FALSE})
  /\ path' = FALSE
  /\ handed' = handing /\ handing' = Nothing
  /\ UNCHANGED <<live, code, eventVars, threadVars, payload>>

(* Anything before the modules may refuse, or be all that was asked for;   *)
(* the window may not open when they are made.                             *)
BootStops ==
  /\ stage = "modules"
  /\ \/ making = 1 /\ \E c \in {0, 1} : Returns(c)
     \/ making > Len(Order) /\ Returns(1)
  /\ UNCHANGED <<bootVars, queue, threadVars, restartVars>>

(* conf.lton may leave a module out, and its constructor may throw; without*)
(* OpenAL the silent love.audio, which has no thread, takes its place.     *)
MakeModule ==
  /\ stage = "modules" /\ making <= Len(Order)
  /\ making' = making + 1
  /\ \/ UNCHANGED <<stage, code, current, answer, live, audio>>
     \/ Returns(1) /\ UNCHANGED <<live, audio>>
     \/ /\ live' = Append(live, Order[making])
        /\ audio' \in (IF Order[making] = "audio" THEN {"running", "none"} ELSE {audio})
        /\ UNCHANGED <<stage, code, current, answer>>
  /\ UNCHANGED <<own, run, queue, workers, restartVars>>

(* What SDL has is in the queue before the game's main unit runs.          *)
RunMain ==
  /\ stage = "modules" /\ making > Len(Order)
  /\ stage' = "main"
  /\ IF Has("event") THEN Pumped ELSE UNCHANGED queue
  /\ UNCHANGED <<bootVars, code, current, answer, threadVars, restartVars>>

-----------------------------------------------------------------------------
(* What the game calls.                                                    *)

Push(m) == queue' = Append(queue, m)

(* quit(), quit(code), restart(), restart(payload), restartInto(path).     *)
CallQuit(m) ==
  /\ InGame /\ Has("event") /\ Len(queue) < MaxQueue
  /\ Push(m)
  /\ UNCHANGED <<stage, bootVars, code, current, answer, threadVars, restartVars>>

CallPump ==
  /\ InGame /\ Has("event")
  /\ Pumped
  /\ UNCHANGED <<stage, bootVars, code, current, answer, threadVars, restartVars>>

CallClear ==
  /\ InGame /\ Has("event")
  /\ queue' = <<>>
  /\ UNCHANGED <<stage, bootVars, code, current, answer, threadVars, restartVars>>

Spawn(w) ==
  /\ InGame /\ workers[w] = "none"
  /\ workers' = [workers EXCEPT ![w] = "running"]
  /\ UNCHANGED <<stage, bootVars, code, eventVars, audio, restartVars>>

(* The game faults, wherever it is: the error is shown and boot() is done. *)
Fault ==
  /\ InGame /\ Returns(1)
  /\ UNCHANGED <<bootVars, queue, threadVars, restartVars>>

(* A script, or a run of the game's own, answers what it likes.            *)
OwnAnswer ==
  /\ stage \in {"main", "update"} /\ own
  /\ \E a \in Answers : Returns(ExitCodeOf(a))
  /\ UNCHANGED <<bootVars, queue, threadVars, restartVars>>

-----------------------------------------------------------------------------
(* The loop of Boot.lh: pump, dispatch, update and draw, yield.            *)

To(place) ==
  /\ stage' = place
  /\ UNCHANGED <<bootVars, code, eventVars, threadVars, restartVars>>

StartLoop == stage = "main" /\ To("pump")
Yield     == stage = "update" /\ To("pump")

Pump ==
  /\ stage = "pump" /\ Has("event")
  /\ Pumped
  /\ stage' = "dispatch"
  /\ UNCHANGED <<bootVars, code, current, answer, threadVars, restartVars>>

(* conf.lton left love.event out, and the loop calls it all the same; a    *)
(* run of the game's own need not.                                         *)
Crash == stage = "pump" /\ ~Has("event") /\ ~own /\ To("crashed")
GoOn  == stage = "pump" /\ own /\ To("update")

(* poll(), and the call the message asks for.                              *)
MutPolled == [message |-> queue[Len(queue)], rest |-> SubSeq(queue, 1, Len(queue) - 1)]
Polled    == [message |-> Head(queue), rest |-> Tail(queue)]
Poll ==
  /\ stage = "dispatch" /\ queue # <<>>
  /\ queue' = Polled.rest
  /\ \/ /\ Polled.message.name = "quit"
        /\ stage' = "asking" /\ current' = Polled.message
     \/ /\ Handled(Polled.message)
        /\ stage' = "handler" /\ current' = Polled.message
     \/ /\ Polled.message.name = "audiodisconnected"
        /\ UNCHANGED <<stage, current>>
  /\ UNCHANGED <<bootVars, code, answer, threadVars, restartVars>>

(* dispatch() lets go of the message and polls again.                      *)
LetGo ==
  /\ stage' = "dispatch" /\ current' = Plain("none")
  /\ UNCHANGED <<bootVars, code, queue, answer, threadVars, restartVars>>

NoneLeft == stage = "dispatch" /\ queue = <<>> /\ To("update")

(* A handler is back; the game's quit answers that it does not want to.    *)
Return == stage = "handler" /\ LetGo
Veto   == stage = "asking" /\ LetGo

(* The quit stands.                                                        *)
MutKept(m) == UNCHANGED <<payload, path>>
Kept(m) ==
  IF m.restart THEN payload' = m.payload /\ path' = (path \/ m.path)
               ELSE UNCHANGED <<payload, path>>
Accept ==
  /\ stage = "asking"
  /\ Kept(current)
  /\ handing' = IF current.restart THEN current.payload ELSE handing
  /\ answer' = [restart |-> current.restart, code |-> current.code]
  /\ stage' = "answered" /\ current' = Plain("none")
  /\ UNCHANGED <<bootVars, code, queue, threadVars, handed>>

(* The default run returns what dispatch() answered; another may ignore it.*)
RunReturns ==
  /\ stage = "answered" /\ Returns(ExitCodeOf(answer))
  /\ UNCHANGED <<bootVars, queue, threadVars, restartVars>>
Ignore ==
  /\ stage = "answered" /\ own
  /\ stage' = "update" /\ answer' = NoAnswer
  /\ UNCHANGED <<bootVars, code, queue, current, threadVars, restartVars>>

-----------------------------------------------------------------------------
(* The way out: ~DebugSession, ~Runtime, ~Modules, and love.cpp's loop.    *)

MutWorkersGone == TRUE
WorkersGone == \A w \in Workers : workers[w] \in {"none", "ended"}

(* ~Runtime joins the workers, then disposes of the machine.               *)
Join ==
  /\ stage = "join" /\ WorkersGone
  /\ workers' = [w \in Workers |-> IF workers[w] = "ended" THEN "none" ELSE workers[w]]
  /\ stage' = "unload"
  /\ UNCHANGED <<bootVars, code, eventVars, audio, restartVars>>

(* The youngest module first; ~Audio gets its thread back before it is     *)
(* gone, and the queue's messages go with love.event.                      *)
Unloaded == [module |-> live[Len(live)], rest |-> SubSeq(live, 1, Len(live) - 1)]
MutAudioJoined == audio = "none"
AudioJoined == audio # "reporting"
Unload ==
  /\ stage = "unload" /\ live # <<>>
  /\ live' = Unloaded.rest
  /\ IF Unloaded.module = "audio"
     THEN AudioJoined /\ audio' = "none" /\ UNCHANGED queue
     ELSE queue' = <<>> /\ UNCHANGED audio
  /\ UNCHANGED <<stage, own, run, making, code, current, answer, workers, restartVars>>

(* love_lh_boot has answered.                                              *)
Answered ==
  /\ stage = "unload" /\ live = <<>>
  /\ To(IF code = LOVE_LH_RESTART THEN "boot" ELSE "exited")

-----------------------------------------------------------------------------
(* The other threads.                                                      *)

(* A worker may ask for the quit itself.                                   *)
WorkerQuits(w) ==
  /\ workers[w] = "running" /\ Has("event") /\ Len(queue) < MaxQueue
  /\ \E c \in Codes : Push(Quit(c))
  /\ UNCHANGED <<stage, bootVars, code, current, answer, threadVars, restartVars>>

(* A worker is done; threadFinished() has nothing to say of a good end.    *)
WorkerEnds(w) ==
  /\ workers[w] = "running"
  /\ \E ok \in BOOLEAN :
       workers' = [workers EXCEPT ![w] = IF ~ok /\ Has("event") THEN "reporting" ELSE "ended"]
  /\ UNCHANGED <<stage, bootVars, code, eventVars, audio, restartVars>>

WorkerReports(w) ==
  /\ workers[w] = "reporting"
  /\ Push(Plain("threaderror"))
  /\ workers' = [workers EXCEPT ![w] = "ended"]
  /\ UNCHANGED <<stage, bootVars, code, current, answer, audio, restartVars>>

(* Pool::update has lost its device, and says so.                          *)
AudioNotices ==
  /\ audio = "running" /\ Has("event") /\ Len(queue) < MaxQueue
  /\ audio' = "reporting"
  /\ UNCHANGED <<stage, bootVars, code, eventVars, workers, restartVars>>

AudioReports ==
  /\ audio = "reporting"
  /\ Push(Plain("audiodisconnected"))
  /\ audio' = "running"
  /\ UNCHANGED <<stage, bootVars, code, current, answer, workers, restartVars>>

-----------------------------------------------------------------------------
Game ==
  \/ \E c \in Codes : CallQuit(Quit(c))
  \/ \E p \in Payloads \cup {Nothing} : CallQuit(Restart(p, FALSE))
  \/ CallQuit(Restart(Nothing, TRUE))
  \/ CallPump \/ CallClear \/ (\E w \in Workers : Spawn(w))

Main ==
  \/ Boot \/ BootStops \/ MakeModule \/ RunMain
  \/ Fault \/ OwnAnswer
  \/ StartLoop \/ Yield \/ Pump \/ Crash \/ GoOn \/ Poll \/ NoneLeft \/ Return \/ Veto
  \/ Accept \/ RunReturns \/ Ignore
  \/ Join \/ Unload \/ Answered

Worker(w) == WorkerEnds(w) \/ WorkerReports(w)

Next ==
  \/ Main \/ Game
  \/ \E w \in Workers : WorkerQuits(w) \/ Worker(w)
  \/ AudioNotices \/ AudioReports

Spec == Init /\ [][Next]_vars

(* Every thread runs; a handler of the game comes back, and a worker ends. *)
FairSpec ==
  /\ Spec /\ WF_vars(Main) /\ WF_vars(AudioReports)
  /\ \A w \in Workers : WF_vars(Worker(w))

-----------------------------------------------------------------------------
(* Types of the variables.                                                 *)
Messages == [name : {"none", "input", "quit", "threaderror", "audiodisconnected"}, restart : BOOLEAN,
             code : Codes \cup {0}, payload : Payloads \cup {Nothing}, path : BOOLEAN]
TypeOK ==
  /\ stage \in {"boot", "modules", "main", "pump", "dispatch", "handler", "asking",
                "answered", "update", "join", "unload", "crashed", "exited"}
  /\ own \in BOOLEAN /\ run \in Nat /\ making \in 1..(Len(Order) + 1)
  /\ live \in {<<>>, <<"event">>, <<"audio">>, <<"event", "audio">>}
  /\ code \in Int /\ queue \in Seq(Messages) /\ current \in Messages /\ answer \in Answers
  /\ workers \in [Workers -> {"none", "running", "reporting", "ended"}]
  /\ audio \in {"none", "running", "reporting"}
  /\ payload \in Payloads \cup {Nothing} /\ path \in BOOLEAN
  /\ handed \in Payloads \cup {Nothing} /\ handing \in Payloads \cup {Nothing}

(* A thread never outlives what it uses: no worker runs on once ~Runtime   *)
(* has joined them ("a body still running is reading a proto this program  *)
(* owns"), none is waited for that a boot did not start, and a thread that *)
(* holds the event module and is about to push finds it alive, however the *)
(* run ended and whatever modules it was made of.                          *)
NobodyOutlives ==
  /\ \A w \in Workers : workers[w] # "none" => stage \notin {"boot", "modules", "unload", "exited"}
  /\ \A w \in Workers : workers[w] = "reporting" => Has("event")
  /\ audio # "none" => Has("audio")
  /\ audio = "reporting" => Has("event")

(* What a run hands to love.event.restart is what the next one is given,   *)
(* whatever other quits were vetoed, ignored, or left in the queue.        *)
RestartHandsOver == stage = "main" /\ handed # Nothing => payload = handed

(* love.event.restartValue() is "what the run before handed restart(), nil *)
(* on a first run".                                                        *)
RestartValueIsPrevious == stage = "main" => payload = handed

QuitPlaces(q) == {i \in 1..Len(q) : q[i].name = "quit"}
QuitsIn(q) == Cardinality(QuitPlaces(q))

(* Of the quits in the queue none goes but to the quit handler, with the   *)
(* game's own clear(), or with the run: what other threads push meanwhile, *)
(* what SDL has, and what dispatch() takes out cost none.                  *)
QuitIsNotLost ==
  [][QuitsIn(queue') < QuitsIn(queue) =>
       \/ stage' = "asking" /\ QuitsIn(queue') = QuitsIn(queue) - 1
       \/ queue' = <<>> /\ (InGame \/ stage = "unload")]_vars

(* A quit that waits in the queue is put to the game's quit handler, unless*)
(* the game clears the queue or the run ends before.                       *)
QuitWaits == QuitsIn(queue) > 0
QuitIsHeard ==
  (QuitWaits /\ ~own) ~> (stage \in {"asking", "join", "unload", "boot"} \/ ~QuitWaits)

(* The way out of boot() comes to its end, although it waits for workers   *)
(* and for the audio thread, which may be in the middle of a push.         *)
WayOutEnds == stage = "join" ~> stage \in {"boot", "exited"}
=============================================================================
