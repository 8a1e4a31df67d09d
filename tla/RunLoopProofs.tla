--------------------------- MODULE RunLoopProofs ---------------------------
(***************************************************************************)
(* Proofs about RunLoop, for any number of workers, any codes and payloads *)
(* and any bounds.                                                         *)
(*                                                                         *)
(* The shape of the argument: which modules are alive while boot() makes   *)
(* them is what lets the list of them be told in the end; that a thread    *)
(* which is about to push has its module alive is stable because modules   *)
(* only go on the way out, after the workers were joined, and the audio    *)
(* module, whose thread is joined with it, goes before the queue.          *)
(*                                                                         *)
(* Of the queue: what a step does to it is one of five things, and what    *)
(* each does to the number of quits in it is a fact about sequences.       *)
(***************************************************************************)
EXTENDS RunLoop, SequenceTheorems, FiniteSetTheorems, TLAPS

Lives == {<<>>, <<"event">>, <<"audio">>, <<"event", "audio">>}

(* What boot() has made so far, and that nothing is left of the run before.*)
MadeSoFar ==
  /\ stage = "boot" => live = <<>>
  /\ stage = "modules" /\ making = 1 => live = <<>>
  /\ stage = "modules" /\ making = 2 => live \in {<<>>, <<"event">>}

(* What was handed to a restart is kept until the next run has begun.      *)
HandingKept ==
  /\ handing # Nothing => payload = handing
  /\ stage \in {"modules", "main"} /\ handed # Nothing => payload = handed

IInv == TypeOK /\ MadeSoFar /\ NobodyOutlives /\ HandingKept

-----------------------------------------------------------------------------
(* The modules: what is in each list of them, and in a longer one.         *)

LEMMA HasFacts ==
  ASSUME NEW L \in Lives
  PROVE  /\ (\E i \in 1..Len(L) : L[i] = "event") <=> L \in {<<"event">>, <<"event", "audio">>}
         /\ (\E i \in 1..Len(L) : L[i] = "audio") <=> L \in {<<"audio">>, <<"event", "audio">>}
<1>1. CASE L = <<>>
  BY <1>1
<1>2. CASE L = <<"event">>
  BY <1>2
<1>3. CASE L = <<"audio">>
  BY <1>3
<1>4. CASE L = <<"event", "audio">>
  <2>1. Len(L) = 2 /\ L[1] = "event" /\ L[2] = "audio"
    BY <1>4
  <2>2. L # <<"event">> /\ L # <<"audio">>
    BY <1>4
  <2> QED BY <1>4, <2>1, <2>2
<1> QED BY <1>1, <1>2, <1>3, <1>4 DEF Lives

(* Giving back the youngest.                                               *)
LEMMA UnloadedFacts ==
  ASSUME live \in Lives, live # <<>>
  PROVE  \/ live = <<"event">> /\ Unloaded.module = "event" /\ Unloaded.rest = <<>>
         \/ live = <<"audio">> /\ Unloaded.module = "audio" /\ Unloaded.rest = <<>>
         \/ /\ live = <<"event", "audio">>
            /\ Unloaded.module = "audio" /\ Unloaded.rest = <<"event">>
<1>1. CASE live = <<"event">>
  <2>1. Len(live) = 1 /\ live[1] = "event"
    BY <1>1
  <2>2. SubSeq(live, 1, 0) = <<>>
    BY SubSeqEmpty
  <2> QED BY <1>1, <2>1, <2>2 DEF Unloaded
<1>2. CASE live = <<"audio">>
  <2>1. Len(live) = 1 /\ live[1] = "audio"
    BY <1>2
  <2>2. SubSeq(live, 1, 0) = <<>>
    BY SubSeqEmpty
  <2> QED BY <1>2, <2>1, <2>2 DEF Unloaded
<1>3. CASE live = <<"event", "audio">>
  <2>1. Len(live) = 2 /\ live[1] = "event" /\ live[2] = "audio"
    BY <1>3
  <2>2. /\ SubSeq(live, 1, 1) \in Seq({"event"})
        /\ Len(SubSeq(live, 1, 1)) = 1 /\ SubSeq(live, 1, 1)[1] = "event"
    <3>1. \A i \in 1..1 : live[i] \in {"event"}
      BY <2>1
    <3>2. ASSUME NEW m \in Int, NEW n \in Int, \A i \in m..n : live[i] \in {"event"}
          PROVE  /\ SubSeq(live, m, n) \in Seq({"event"})
                 /\ Len(SubSeq(live, m, n)) = IF m <= n THEN n - m + 1 ELSE 0
                 /\ \A i \in 1..(n - m + 1) : SubSeq(live, m, n)[i] = live[m + i - 1]
      BY <3>2, SubSeqProperties, SMTT(20)
    <3>3. /\ SubSeq(live, 1, 1) \in Seq({"event"})
          /\ Len(SubSeq(live, 1, 1)) = 1
          /\ \A i \in 1..1 : SubSeq(live, 1, 1)[i] = live[i]
      BY <3>1, <3>2
    <3> QED BY <3>3, <2>1
  <2>3. <<"event">> \in Seq({"event"}) /\ Len(<<"event">>) = 1 /\ <<"event">>[1] = "event"
    OBVIOUS
  <2>4. SubSeq(live, 1, 1) = <<"event">>
    <3>1. \A i \in 1..Len(SubSeq(live, 1, 1)) : SubSeq(live, 1, 1)[i] = <<"event">>[i]
      <4> SUFFICES ASSUME NEW i \in 1..Len(SubSeq(live, 1, 1))
                   PROVE  SubSeq(live, 1, 1)[i] = <<"event">>[i]
        OBVIOUS
      <4>1. i = 1
        BY <2>2
      <4> QED BY <4>1, <2>2, <2>3
    <3>2. Len(SubSeq(live, 1, 1)) = Len(<<"event">>)
      BY <2>2, <2>3
    <3> QED BY <3>1, <3>2, <2>2, <2>3, SeqEqual, Zenon
  <2>5. live # <<"event">> /\ live # <<"audio">>
    BY <1>3
  <2>6. Len(live) - 1 = 1
    BY <2>1
  <2>7. Unloaded.module = live[2] /\ Unloaded.rest = SubSeq(live, 1, 1)
    BY <2>1, <2>6 DEF Unloaded
  <2> QED BY <1>3, <2>1, <2>4, <2>7
<1> QED BY <1>1, <1>2, <1>3 DEF Lives

(* Making one more.                                                        *)
LEMMA AppendedToOne ==
  ASSUME NEW S, NEW b \in S, NEW s \in Seq(S), NEW u \in Seq(S),
         Len(s) = 1, Len(u) = 2, s[1] = u[1], u[2] = b
  PROVE  Append(s, b) = u
<1>1. Append(s, b) \in Seq(S) /\ Len(Append(s, b)) = 2
  <2>1. Append(s, b) \in Seq(S) /\ Len(Append(s, b)) = Len(s) + 1
    BY AppendProperties, Zenon
  <2> QED BY <2>1
<1>2. Append(s, b)[1] = u[1] /\ Append(s, b)[2] = u[2]
  <2>1. \A i \in 1..Len(s) : Append(s, b)[i] = s[i]
    BY AppendProperties
  <2>2. Append(s, b)[Len(s) + 1] = b
    BY AppendProperties
  <2> QED BY <2>1, <2>2
<1>3. \A i \in 1..Len(Append(s, b)) : Append(s, b)[i] = u[i]
  BY <1>1, <1>2
<1>4. Len(Append(s, b)) = Len(u)
  BY <1>1
<1> QED BY <1>1, <1>3, <1>4, SeqEqual, Zenon

LEMMA MadeFacts ==
  /\ Append(<<>>, "event") = <<"event">>
  /\ Append(<<>>, "audio") = <<"audio">>
  /\ Append(<<"event">>, "audio") = <<"event", "audio">>
<1>1. \A m \in {"event", "audio"} : Append(<<>>, m) = <<m>>
  <2> SUFFICES ASSUME NEW m \in {"event", "audio"} PROVE Append(<<>>, m) = <<m>>
    OBVIOUS
  <2>1. <<>> \in Seq({"event", "audio"}) /\ Len(<<>>) = 0
    OBVIOUS
  <2>2. Append(<<>>, m) \in Seq({"event", "audio"}) /\ Len(Append(<<>>, m)) = 1
    BY <2>1, AppendProperties
  <2>3. Append(<<>>, m)[1] = m
    BY <2>1, AppendProperties
  <2>4. <<m>> \in Seq({"event", "audio"}) /\ Len(<<m>>) = 1 /\ <<m>>[1] = m
    OBVIOUS
  <2>5. \A i \in 1..Len(Append(<<>>, m)) : Append(<<>>, m)[i] = <<m>>[i]
    BY <2>2, <2>3, <2>4
  <2>6. Len(Append(<<>>, m)) = Len(<<m>>)
    BY <2>2, <2>4
  <2> QED BY <2>2, <2>4, <2>5, <2>6, SeqEqual, Zenon
<1>2. Append(<<"event">>, "audio") = <<"event", "audio">>
  <2>1. <<"event">> \in Seq({"event", "audio"}) /\ Len(<<"event">>) = 1 /\ <<"event">>[1] = "event"
    OBVIOUS
  <2>2. /\ <<"event", "audio">> \in Seq({"event", "audio"}) /\ Len(<<"event", "audio">>) = 2
        /\ <<"event", "audio">>[1] = "event" /\ <<"event", "audio">>[2] = "audio"
    OBVIOUS
  <2> QED BY <2>1, <2>2, AppendedToOne, Zenon
<1> QED BY <1>1, <1>2

(* The messages of the game, of SDL and of the threads.                    *)
LEMMA MessagesOfRun ==
  ASSUME RunAssumption
  PROVE  /\ \A n \in {"none", "input", "threaderror", "audiodisconnected"} : Plain(n) \in Messages
         /\ \A c \in Codes \cup {0} : Quit(c) \in Messages
         /\ \A p \in Payloads \cup {Nothing}, d \in BOOLEAN : Restart(p, d) \in Messages
         /\ Arrivals \subseteq Seq(Messages)
<1>1. \A n \in {"none", "input", "quit", "threaderror", "audiodisconnected"} : Plain(n) \in Messages
  BY DEF Plain, Messages
<1>2. \A c \in Codes \cup {0} : Quit(c) \in Messages
  BY <1>1 DEF Quit, Plain, Messages
<1>3. \A p \in Payloads \cup {Nothing}, d \in BOOLEAN : Restart(p, d) \in Messages
  BY <1>1 DEF Restart, Plain, Messages
<1>4. Arrivals \subseteq Seq(Messages)
  BY <1>1, <1>2 DEF Arrivals
<1> QED BY <1>1, <1>2, <1>3, <1>4

-----------------------------------------------------------------------------
(* Types.                                                                  *)

(* What one message more, or one less, makes of the queue.                 *)
LEMMA QueueFacts ==
  ASSUME RunAssumption, queue \in Seq(Messages)
  PROVE  /\ \A m \in Messages : Append(queue, m) \in Seq(Messages)
         /\ \A more \in Arrivals : queue \o more \in Seq(Messages)
         /\ Pumped => queue' \in Seq(Messages)
         /\ queue # <<>> => Polled.message \in Messages /\ Polled.rest \in Seq(Messages)
<1>1. \A m \in Messages : Append(queue, m) \in Seq(Messages)
  OBVIOUS
<1>2. \A more \in Arrivals : queue \o more \in Seq(Messages)
  <2>1. Arrivals \subseteq Seq(Messages)
    BY MessagesOfRun
  <2> QED BY <2>1
<1>3. Pumped => queue' \in Seq(Messages)
  BY <1>2 DEF Pumped
<1>4. queue # <<>> => Polled.message \in Messages /\ Polled.rest \in Seq(Messages)
  BY DEF Polled
<1> QED BY <1>1, <1>2, <1>3, <1>4

LEMMA AnswersFacts ==
  ASSUME RunAssumption
  PROVE  /\ NoAnswer \in Answers
         /\ \A a \in Answers : ExitCodeOf(a) \in Int
         /\ \A m \in Messages : [restart |-> m.restart, code |-> m.code] \in Answers
<1>1. Codes \cup {0} \subseteq Int
  BY DEF RunAssumption
<1>2. \A a \in Answers : a.code \in Int /\ a.restart \in BOOLEAN
  BY <1>1 DEF Answers
<1>3. \A a \in Answers : ExitCodeOf(a) \in Int
  BY <1>2 DEF ExitCodeOf, LOVE_LH_RESTART
<1> QED BY <1>3 DEF NoAnswer, Answers, Messages

LEMMA TypeStep ==
  ASSUME RunAssumption, TypeOK, MadeSoFar, Next
  PROVE  TypeOK'
<1> USE DEF TypeOK
<1>q. queue \in Seq(Messages)
  OBVIOUS
<1>m. Plain("none") \in Messages
  BY MessagesOfRun
<1>r. ASSUME NEW c \in Int, Returns(c)
      PROVE  stage' = "join" /\ code' \in Int /\ current' \in Messages /\ answer' \in Answers
  BY <1>r, <1>m, AnswersFacts DEF Returns
<1>l. Lives = {<<>>, <<"event">>, <<"audio">>, <<"event", "audio">>}
  BY DEF Lives
<1>1. CASE Boot
  <2>1. own' \in BOOLEAN
    BY <1>1, Zenon DEF Boot
  <2>2. run' \in Nat /\ making' \in 1..(Len(Order) + 1)
    BY <1>1 DEF Boot, Order
  <2> QED BY <1>1, <2>1, <2>2 DEF Boot, eventVars, threadVars
<1>2. CASE BootStops
  BY <1>2, <1>r DEF BootStops, bootVars, threadVars, restartVars
<1>3. CASE MakeModule
  <2>1. live' \in Lives
    <3>1. CASE making = 1
      <4>1. live = <<>> /\ live' \in {<<>>, Append(<<>>, "event")}
        BY <3>1, <1>3 DEF MakeModule, MadeSoFar, Order
      <4> QED BY <4>1, MadeFacts DEF Lives
    <3>2. CASE making = 2
      <4>1. live \in {<<>>, <<"event">>} /\ live' \in {live, Append(live, "audio")}
        BY <3>2, <1>3 DEF MakeModule, MadeSoFar, Order
      <4> QED BY <4>1, MadeFacts DEF Lives
    <3> QED BY <3>1, <3>2, <1>3 DEF MakeModule, Order
  <2>2. /\ stage' \in {stage, "join"} /\ code' \in Int
        /\ current' \in Messages /\ answer' \in Answers
    BY <1>3, <1>r DEF MakeModule
  <2>3. making' \in 1..(Len(Order) + 1) /\ audio' \in {"none", "running", "reporting"}
    BY <1>3 DEF MakeModule, Order
  <2> QED BY <2>1, <2>2, <2>3, <1>l, <1>3 DEF MakeModule, restartVars
<1>4. CASE RunMain
  BY <1>4, <1>q, QueueFacts DEF RunMain, bootVars, threadVars, restartVars
<1>5. CASE Fault
  BY <1>5, <1>r DEF Fault, bootVars, threadVars, restartVars
<1>6. CASE OwnAnswer
  BY <1>6, <1>r, AnswersFacts DEF OwnAnswer, bootVars, threadVars, restartVars
<1>7. CASE StartLoop
  BY <1>7 DEF StartLoop, To, bootVars, eventVars, threadVars, restartVars
<1>8. CASE Yield
  BY <1>8 DEF Yield, To, bootVars, eventVars, threadVars, restartVars
<1>9. CASE Pump
  BY <1>9, <1>q, QueueFacts DEF Pump, bootVars, threadVars, restartVars
<1>10. CASE Crash
  BY <1>10 DEF Crash, To, bootVars, eventVars, threadVars, restartVars
<1>11. CASE GoOn
  BY <1>11 DEF GoOn, To, bootVars, eventVars, threadVars, restartVars
<1>12. CASE Poll
  BY <1>12, <1>q, QueueFacts DEF Poll, bootVars, threadVars, restartVars
<1>13. CASE NoneLeft
  BY <1>13 DEF NoneLeft, To, bootVars, eventVars, threadVars, restartVars
<1>14. CASE Return
  BY <1>14, <1>m DEF Return, LetGo, bootVars, threadVars, restartVars
<1>15. CASE Veto
  BY <1>15, <1>m DEF Veto, LetGo, bootVars, threadVars, restartVars
<1>16. CASE Accept
  BY <1>16, <1>m, AnswersFacts DEF Accept, Kept, Messages, bootVars, threadVars
<1>17. CASE RunReturns
  BY <1>17, <1>r, AnswersFacts DEF RunReturns, bootVars, threadVars, restartVars
<1>18. CASE Ignore
  BY <1>18, AnswersFacts DEF Ignore, bootVars, threadVars, restartVars
<1>19. CASE Join
  BY <1>19 DEF Join, bootVars, eventVars, restartVars
<1>20. CASE Unload
  <2>1. live' \in Lives
    <3>1. live \in Lives /\ live # <<>> /\ live' = Unloaded.rest
      BY <1>20, <1>l DEF Unload
    <3>2. Unloaded.rest = <<>> \/ Unloaded.rest = <<"event">>
      BY <3>1, UnloadedFacts, Zenon
    <3> QED BY <3>1, <3>2 DEF Lives
  <2>2. queue' \in Seq(Messages) /\ audio' \in {"none", "running", "reporting"}
    <3>1. \/ queue' = queue /\ audio' = "none"
          \/ queue' = <<>> /\ audio' = audio
      BY <1>20 DEF Unload
    <3>2. <<>> \in Seq(Messages)
      OBVIOUS
    <3> QED BY <3>1, <3>2
  <2> QED BY <2>1, <2>2, <1>l, <1>20 DEF Unload, restartVars
<1>21. CASE Answered
  BY <1>21 DEF Answered, To, bootVars, eventVars, threadVars, restartVars
<1>22. CASE \E m \in Messages : CallQuit(m)
  BY <1>22, <1>q, QueueFacts DEF CallQuit, Push, bootVars, eventVars, threadVars, restartVars
<1>23. CASE CallPump
  BY <1>23, <1>q, QueueFacts DEF CallPump, bootVars, eventVars, threadVars, restartVars
<1>24. CASE CallClear
  BY <1>24 DEF CallClear, bootVars, eventVars, threadVars, restartVars
<1>25. CASE \E w \in Workers : Spawn(w)
  BY <1>25 DEF Spawn, bootVars, eventVars, threadVars, restartVars
<1>26. CASE \E w \in Workers : WorkerQuits(w)
  BY <1>26, <1>q, QueueFacts, MessagesOfRun DEF WorkerQuits, Push, bootVars, eventVars, threadVars, restartVars
<1>27. CASE \E w \in Workers : WorkerEnds(w)
  BY <1>27 DEF WorkerEnds, bootVars, eventVars, threadVars, restartVars
<1>28. CASE \E w \in Workers : WorkerReports(w)
  BY <1>28, <1>q, QueueFacts, MessagesOfRun DEF WorkerReports, Push, bootVars, eventVars, threadVars, restartVars
<1>29. CASE AudioNotices
  BY <1>29 DEF AudioNotices, bootVars, eventVars, threadVars, restartVars
<1>30. CASE AudioReports
  BY <1>30, <1>q, QueueFacts, MessagesOfRun DEF AudioReports, Push, bootVars, eventVars, threadVars, restartVars
<1>31. Game => \/ \E m \in Messages : CallQuit(m)
                \/ CallPump \/ CallClear \/ \E w \in Workers : Spawn(w)
  BY MessagesOfRun DEF Game
<1> QED
  BY <1>1, <1>2, <1>3, <1>4, <1>5, <1>6, <1>7, <1>8, <1>9, <1>10, <1>11, <1>12, <1>13, <1>14, <1>15, <1>16, <1>17, <1>18, <1>19, <1>20, <1>21, <1>22, <1>23, <1>24, <1>25, <1>26, <1>27, <1>28, <1>29, <1>30, <1>31 DEF Next, Main, Worker

-----------------------------------------------------------------------------
(* The modules and the threads.                                            *)

(* Most steps of the main thread neither make nor unload a module, start   *)
(* no thread and lead neither into boot() nor beyond its way out.          *)
Passing ==
  /\ UNCHANGED <<making, live, workers, audio>>
  /\ stage' \notin {"boot", "modules", "unload", "exited"}

(* A step of the game or of another thread, which leaves the main thread   *)
(* where it is.                                                            *)
Aside ==
  \/ UNCHANGED <<workers, audio>>
  \/ InGame /\ UNCHANGED audio /\ \E w \in Workers :
       workers[w] = "none" /\ workers' = [workers EXCEPT ![w] = "running"]
  \/ UNCHANGED audio /\ \E w \in Workers :
       \/ workers[w] # "none" /\ workers' = [workers EXCEPT ![w] = "ended"]
       \/ /\ workers[w] # "none" /\ Has("event")
          /\ workers' = [workers EXCEPT ![w] = "reporting"]
  \/ /\ audio # "none" /\ UNCHANGED workers
     /\ audio' = "running" \/ (audio' = "reporting" /\ Has("event"))

LEMMA StepsOfRun ==
  ASSUME Next
  PROVE  \/ Boot \/ MakeModule \/ RunMain \/ Join \/ Unload \/ Answered
         \/ Passing
         \/ UNCHANGED <<stage, making, live>> /\ Aside
<1>1. BootStops => Passing
  BY DEF BootStops, Returns, Passing, bootVars, threadVars
<1>2. Fault => Passing
  BY DEF Fault, Returns, Passing, bootVars, threadVars
<1>3. OwnAnswer => Passing
  BY DEF OwnAnswer, Returns, Passing, bootVars, threadVars
<1>4. StartLoop => Passing
  BY DEF StartLoop, To, Passing, bootVars, threadVars
<1>5. Yield => Passing
  BY DEF Yield, To, Passing, bootVars, threadVars
<1>6. Pump => Passing
  BY DEF Pump, Passing, bootVars, threadVars
<1>7. Crash => Passing
  BY DEF Crash, To, Passing, bootVars, threadVars
<1>8. GoOn => Passing
  BY DEF GoOn, To, Passing, bootVars, threadVars
<1>9. Poll => Passing
  BY DEF Poll, Passing, bootVars, threadVars
<1>10. NoneLeft => Passing
  BY DEF NoneLeft, To, Passing, bootVars, threadVars
<1>11. Return => Passing
  BY DEF Return, LetGo, Passing, bootVars, threadVars
<1>12. Veto => Passing
  BY DEF Veto, LetGo, Passing, bootVars, threadVars
<1>13. Accept => Passing
  BY DEF Accept, Passing, bootVars, threadVars
<1>14. RunReturns => Passing
  BY DEF RunReturns, Returns, Passing, bootVars, threadVars
<1>15. Ignore => Passing
  BY DEF Ignore, Passing, bootVars, threadVars
<1>16. (\E c \in Codes : CallQuit(Quit(c))) => UNCHANGED <<stage, making, live>> /\ Aside
  BY DEF CallQuit, Aside, bootVars, threadVars
<1>17. (\E p \in Payloads \cup {Nothing} : CallQuit(Restart(p, FALSE))) => UNCHANGED <<stage, making, live>> /\ Aside
  BY DEF CallQuit, Aside, bootVars, threadVars
<1>18. CallQuit(Restart(Nothing, TRUE)) => UNCHANGED <<stage, making, live>> /\ Aside
  BY DEF CallQuit, Aside, bootVars, threadVars
<1>19. CallPump => UNCHANGED <<stage, making, live>> /\ Aside
  BY DEF CallPump, Aside, bootVars, threadVars
<1>20. CallClear => UNCHANGED <<stage, making, live>> /\ Aside
  BY DEF CallClear, Aside, bootVars, threadVars
<1>21. (\E w \in Workers : Spawn(w)) => UNCHANGED <<stage, making, live>> /\ Aside
  BY DEF Spawn, Aside, bootVars, threadVars
<1>22. (\E w \in Workers : WorkerQuits(w)) => UNCHANGED <<stage, making, live>> /\ Aside
  BY DEF WorkerQuits, Aside, bootVars, threadVars
<1>23. (\E w \in Workers : WorkerEnds(w)) => UNCHANGED <<stage, making, live>> /\ Aside
  BY DEF WorkerEnds, Aside, bootVars, threadVars
<1>24. (\E w \in Workers : WorkerReports(w)) => UNCHANGED <<stage, making, live>> /\ Aside
  BY DEF WorkerReports, Aside, bootVars
<1>25. AudioNotices => UNCHANGED <<stage, making, live>> /\ Aside
  BY DEF AudioNotices, Aside, bootVars, threadVars
<1>26. AudioReports => UNCHANGED <<stage, making, live>> /\ Aside
  BY DEF AudioReports, Aside, bootVars, threadVars
<1> QED
  BY <1>1, <1>2, <1>3, <1>4, <1>5, <1>6, <1>7, <1>8, <1>9, <1>10, <1>11, <1>12, <1>13, <1>14, <1>15, <1>16, <1>17, <1>18, <1>19, <1>20, <1>21, <1>22, <1>23, <1>24, <1>25, <1>26 DEF Next, Main, Game, Worker

LEMMA MadeStep ==
  ASSUME RunAssumption, TypeOK, MadeSoFar, Next
  PROVE  MadeSoFar'
<1>1. CASE Boot
  BY <1>1 DEF Boot, MadeSoFar
<1>2. CASE MakeModule
  <2>1. CASE making = 1
    <3>1. live' \in {<<>>, Append(<<>>, "event")} /\ making' = 2 /\ stage' \in {"modules", "join"}
      BY <1>2, <2>1 DEF MakeModule, MadeSoFar, Returns, Order
    <3> QED BY <3>1, MadeFacts DEF MadeSoFar
  <2>2. CASE making = 2
    BY <1>2, <2>2 DEF MakeModule, MadeSoFar, Returns
  <2> QED BY <1>2, <2>1, <2>2 DEF MakeModule, TypeOK, Order
<1>3. CASE RunMain \/ Join \/ Unload
  BY <1>3 DEF RunMain, Join, Unload, MadeSoFar
<1>4. CASE Answered
  BY <1>4 DEF Answered, To, MadeSoFar, bootVars
<1>5. CASE Passing
  BY <1>5 DEF Passing, MadeSoFar
<1>6. CASE UNCHANGED <<stage, making, live>>
  BY <1>6 DEF MadeSoFar
<1> QED BY <1>1, <1>2, <1>3, <1>4, <1>5, <1>6, StepsOfRun

(* The threads, as long as the same modules are alive.                     *)
LEMMA AliveAside ==
  ASSUME TypeOK, NobodyOutlives, UNCHANGED <<stage, live>>, Aside
  PROVE  NobodyOutlives'
<1>h. Has("event")' = Has("event") /\ Has("audio")' = Has("audio")
  BY DEF Has
<1>t. workers \in [Workers -> {"none", "running", "reporting", "ended"}]
  BY DEF TypeOK
<1>1. CASE UNCHANGED <<workers, audio>>
  BY <1>1, <1>h DEF NobodyOutlives
<1>2. CASE InGame /\ UNCHANGED audio /\ \E w \in Workers :
             workers[w] = "none" /\ workers' = [workers EXCEPT ![w] = "running"]
  BY <1>2, <1>h, <1>t DEF NobodyOutlives, InGame
<1>3. CASE UNCHANGED audio /\ \E w \in Workers :
             \/ workers[w] # "none" /\ workers' = [workers EXCEPT ![w] = "ended"]
             \/ /\ workers[w] # "none" /\ Has("event")
                /\ workers' = [workers EXCEPT ![w] = "reporting"]
  BY <1>3, <1>h, <1>t DEF NobodyOutlives
<1>4. CASE /\ audio # "none" /\ UNCHANGED workers
           /\ audio' = "running" \/ (audio' = "reporting" /\ Has("event"))
  BY <1>4, <1>h DEF NobodyOutlives
<1> QED BY <1>1, <1>2, <1>3, <1>4 DEF Aside

LEMMA AliveStep ==
  ASSUME RunAssumption, TypeOK, TypeOK', MadeSoFar, NobodyOutlives, Next
  PROVE  NobodyOutlives'
<1>l. live \in Lives /\ live' \in Lives
  BY DEF TypeOK, Lives
<1>h. /\ Has("event") <=> live \in {<<"event">>, <<"event", "audio">>}
      /\ Has("audio") <=> live \in {<<"audio">>, <<"event", "audio">>}
  BY <1>l, HasFacts DEF Has
<1>i. /\ Has("event")' <=> live' \in {<<"event">>, <<"event", "audio">>}
      /\ Has("audio")' <=> live' \in {<<"audio">>, <<"event", "audio">>}
  BY <1>l, HasFacts DEF Has
<1>t. workers \in [Workers -> {"none", "running", "reporting", "ended"}]
  BY DEF TypeOK
<1>1. CASE Boot
  <2>1. UNCHANGED <<live, workers, audio>> /\ stage = "boot"
    BY <1>1 DEF Boot, threadVars
  <2> QED BY <2>1, <1>h, <1>i DEF NobodyOutlives
<1>2. CASE MakeModule
  <2>1. \A w \in Workers : workers[w] = "none" /\ workers'[w] = "none"
    BY <1>2 DEF MakeModule, NobodyOutlives
  <2>2. Has("event") => Has("event")'
    <3>1. CASE making = 1
      BY <3>1, <1>2, <1>h DEF MakeModule, MadeSoFar
    <3>2. CASE making = 2
      <4>1. live \in {<<>>, <<"event">>} /\ live' \in {live, Append(live, "audio")}
        BY <3>2, <1>2 DEF MakeModule, MadeSoFar, Order
      <4>2. CASE live = <<"event">>
        <5>1. live' = <<"event">> \/ live' = <<"event", "audio">>
          BY <4>1, <4>2, MadeFacts, Zenon
        <5> QED BY <5>1, <1>i
      <4>3. CASE live = <<>>
        BY <4>3, <1>h
      <4> QED BY <4>1, <4>2, <4>3
    <3> QED BY <3>1, <3>2, <1>2 DEF MakeModule, TypeOK, Order
  <2>3. (audio' # "none" => Has("audio")') /\ (audio' = "reporting" => Has("event")')
    <3>1. CASE making = 1
      <4>1. live = <<>> /\ audio' = audio
        BY <3>1, <1>2 DEF MakeModule, MadeSoFar, Order
      <4>2. audio = "none"
        BY <4>1, <1>h DEF NobodyOutlives
      <4> QED BY <4>1, <4>2
    <3>2. CASE making = 2
      <4>1. live \in {<<>>, <<"event">>}
        BY <3>2, <1>2 DEF MakeModule, MadeSoFar
      <4>2. audio = "none"
        BY <4>1, <1>h DEF NobodyOutlives
      <4>3. \/ audio' = audio
            \/ live' = Append(live, "audio") /\ audio' \in {"running", "none"}
        BY <3>2, <1>2 DEF MakeModule, Order
      <4> QED BY <4>1, <4>2, <4>3, <1>i, MadeFacts
    <3> QED BY <3>1, <3>2, <1>2 DEF MakeModule, TypeOK, Order
  <2> QED BY <2>1, <2>2, <2>3 DEF NobodyOutlives
<1>3. CASE RunMain
  <2>1. UNCHANGED <<live, workers, audio>> /\ stage' = "main"
    BY <1>3 DEF RunMain, bootVars, threadVars
  <2> QED BY <2>1, <1>h, <1>i DEF NobodyOutlives
<1>4. CASE Join
  <2>1. \A w \in Workers : workers'[w] = "none"
    BY <1>4, <1>t DEF Join, WorkersGone
  <2>2. UNCHANGED <<live, audio>>
    BY <1>4 DEF Join, bootVars
  <2> QED BY <2>1, <2>2, <1>h, <1>i DEF NobodyOutlives
<1>5. CASE Unload
  <2>1. \A w \in Workers : workers'[w] = "none"
    BY <1>5 DEF Unload, NobodyOutlives
  <2>2. audio' = "none"
    <3>1. CASE Unloaded.module = "audio"
      BY <3>1, <1>5 DEF Unload
    <3>2. CASE Unloaded.module # "audio"
      <4>1. live = <<"event">>
        BY <3>2, <1>5, <1>l, UnloadedFacts, Zenon DEF Unload
      <4>2. audio = "none"
        BY <4>1, <1>h DEF NobodyOutlives
      <4> QED BY <3>2, <4>2, <1>5 DEF Unload
    <3> QED BY <3>1, <3>2
  <2> QED BY <2>1, <2>2 DEF NobodyOutlives
<1>6. CASE Answered
  <2>1. UNCHANGED <<live, workers, audio>> /\ stage = "unload"
    BY <1>6 DEF Answered, To, bootVars, threadVars
  <2> QED BY <2>1, <1>h, <1>i DEF NobodyOutlives
<1>7. CASE Passing
  <2>1. UNCHANGED <<live, workers, audio>>
    BY <1>7 DEF Passing
  <2> QED BY <2>1, <1>7, <1>h, <1>i DEF NobodyOutlives, Passing
<1>8. CASE UNCHANGED <<stage, making, live>> /\ Aside
  BY <1>8, AliveAside
<1> QED BY <1>1, <1>2, <1>3, <1>4, <1>5, <1>6, <1>7, <1>8, StepsOfRun

-----------------------------------------------------------------------------
(* What a restart hands over.                                              *)

LEMMA HandingStep ==
  ASSUME HandingKept, Next
  PROVE  HandingKept'
<1>1. CASE Boot
  BY <1>1 DEF Boot, HandingKept
<1>2. CASE Accept
  BY <1>2 DEF Accept, Kept, HandingKept
<1>3. CASE MakeModule
  BY <1>3 DEF MakeModule, Returns, HandingKept, restartVars
<1>4. CASE RunMain
  BY <1>4 DEF RunMain, HandingKept, restartVars
<1>5. CASE BootStops \/ Fault \/ OwnAnswer \/ RunReturns
  BY <1>5 DEF BootStops, Fault, OwnAnswer, RunReturns, Returns, HandingKept, restartVars
<1>6. CASE StartLoop \/ Yield \/ Crash \/ GoOn \/ NoneLeft \/ Answered
  BY <1>6 DEF StartLoop, Yield, Crash, GoOn, NoneLeft, Answered, To, HandingKept, restartVars
<1>7. CASE Pump \/ Poll \/ Return \/ Veto \/ Ignore
  BY <1>7 DEF Pump, Poll, Return, Veto, LetGo, Ignore, HandingKept, restartVars
<1>8. CASE Join \/ Unload
  BY <1>8 DEF Join, Unload, HandingKept, restartVars
<1>9. CASE Game
  BY <1>9 DEF Game, CallQuit, CallPump, CallClear, Spawn, HandingKept, restartVars
<1>10. CASE \E w \in Workers : WorkerQuits(w) \/ Worker(w)
  BY <1>10 DEF Worker, WorkerQuits, WorkerEnds, WorkerReports, HandingKept, restartVars
<1>11. CASE AudioNotices \/ AudioReports
  BY <1>11 DEF AudioNotices, AudioReports, HandingKept, restartVars
<1> QED
  BY <1>1, <1>2, <1>3, <1>4, <1>5, <1>6, <1>7, <1>8, <1>9, <1>10, <1>11 DEF Next, Main

-----------------------------------------------------------------------------
(* The invariant, and what it says.                                        *)

LEMMA Initially ==
  ASSUME RunAssumption, Init
  PROVE  IInv
<1>1. TypeOK
  <2>1. Plain("none") \in Messages /\ NoAnswer \in Answers
    BY MessagesOfRun, AnswersFacts
  <2>2. current \in Messages /\ answer \in Answers
    BY <2>1 DEF Init
  <2>3. queue \in Seq(Messages) /\ code \in Int /\ run \in Nat /\ making \in 1..(Len(Order) + 1)
    BY DEF Init, Order
  <2>4. workers \in [Workers -> {"none", "running", "reporting", "ended"}]
    BY DEF Init
  <2> QED BY <2>2, <2>3, <2>4 DEF Init, TypeOK
<1>2. MadeSoFar /\ HandingKept
  BY DEF Init, MadeSoFar, HandingKept
<1>3. NobodyOutlives
  BY DEF Init, NobodyOutlives
<1> QED BY <1>1, <1>2, <1>3 DEF IInv

LEMMA Stutter ==
  ASSUME IInv, UNCHANGED vars
  PROVE  IInv'
<1> USE DEF vars, bootVars, eventVars, threadVars, restartVars, IInv
<1>1. TypeOK'
  BY DEF TypeOK
<1>2. MadeSoFar' /\ HandingKept'
  BY DEF MadeSoFar, HandingKept
<1>3. NobodyOutlives'
  BY DEF NobodyOutlives, Has
<1> QED BY <1>1, <1>2, <1>3

(* The invariant holds in every state of every run.                        *)
THEOREM Invariance == Spec => []IInv
<1>1. Init => IInv
  BY Initially, RunAssumption
<1>2. IInv /\ [Next]_vars => IInv'
  <2> SUFFICES ASSUME IInv, [Next]_vars PROVE IInv'
    OBVIOUS
  <2>1. CASE Next
    <3>1. TypeOK'
      BY <2>1, TypeStep, RunAssumption DEF IInv
    <3>2. MadeSoFar'
      BY <2>1, MadeStep, RunAssumption DEF IInv
    <3>3. NobodyOutlives'
      BY <2>1, <3>1, AliveStep, RunAssumption DEF IInv
    <3>4. HandingKept'
      BY <2>1, HandingStep DEF IInv
    <3> QED BY <3>1, <3>2, <3>3, <3>4 DEF IInv
  <2>2. CASE UNCHANGED vars
    BY <2>2, Stutter
  <2> QED BY <2>1, <2>2
<1> QED BY <1>1, <1>2, PTL DEF Spec

(* Types, for any number of workers and of runs.                           *)
THEOREM TypeCorrect == Spec => []TypeOK
<1>1. IInv => TypeOK
  BY DEF IInv
<1> QED BY <1>1, Invariance, PTL

(* No thread outlives the module or the program it uses: the workers are   *)
(* joined before the machine is disposed of, the audio thread before the   *)
(* queue it pushes to, and no boot begins with a thread of the last one's. *)
THEOREM NoThreadOutlives == Spec => []NobodyOutlives
<1>1. IInv => NobodyOutlives
  BY DEF IInv
<1> QED BY <1>1, Invariance, PTL

(* What a run handed to love.event.restart, the next run is given.         *)
THEOREM HandedOver == Spec => []RestartHandsOver
<1>1. IInv => RestartHandsOver
  BY DEF IInv, HandingKept, RestartHandsOver
<1> QED BY <1>1, Invariance, PTL

-----------------------------------------------------------------------------
(* The quits in the queue.                                                 *)

LEMMA QuitsCounted ==
  ASSUME NEW q \in Seq(Messages)
  PROVE  IsFiniteSet(QuitPlaces(q)) /\ QuitsIn(q) \in Nat
<1>1. IsFiniteSet(1..Len(q))
  BY FS_Interval
<1>2. QuitPlaces(q) \subseteq 1..Len(q)
  BY DEF QuitPlaces
<1>3. IsFiniteSet(QuitPlaces(q))
  BY <1>1, <1>2, FS_Subset
<1> QED BY <1>3, FS_CardinalityType DEF QuitsIn

(* What comes in behind others costs none of them.                         *)
LEMMA QuitsStay ==
  ASSUME NEW q \in Seq(Messages), NEW more \in Seq(Messages)
  PROVE  QuitsIn(q) <= QuitsIn(q \o more)
<1>1. q \o more \in Seq(Messages)
  OBVIOUS
<1>2. QuitPlaces(q) \subseteq QuitPlaces(q \o more)
  <2> SUFFICES ASSUME NEW i \in 1..Len(q), q[i].name = "quit"
               PROVE  i \in 1..Len(q \o more) /\ (q \o more)[i].name = "quit"
    BY DEF QuitPlaces
  <2> QED OBVIOUS
<1> QED BY <1>1, <1>2, QuitsCounted, FS_Subset DEF QuitsIn

LEMMA QuitsStayAppended ==
  ASSUME NEW q \in Seq(Messages), NEW m \in Messages
  PROVE  QuitsIn(q) <= QuitsIn(Append(q, m))
<1>1. Append(q, m) \in Seq(Messages)
  OBVIOUS
<1>2. QuitPlaces(q) \subseteq QuitPlaces(Append(q, m))
  <2> SUFFICES ASSUME NEW i \in 1..Len(q), q[i].name = "quit"
               PROVE  i \in 1..Len(Append(q, m)) /\ Append(q, m)[i].name = "quit"
    BY DEF QuitPlaces
  <2> QED OBVIOUS
<1> QED BY <1>1, <1>2, QuitsCounted, FS_Subset DEF QuitsIn

(* Taking the first message out costs a quit just when it is one.          *)
LEMMA QuitsPolled ==
  ASSUME NEW q \in Seq(Messages), q # <<>>
  PROVE  QuitsIn(Tail(q)) = IF Head(q).name = "quit" THEN QuitsIn(q) - 1 ELSE QuitsIn(q)
<1> DEFINE f == [i \in QuitPlaces(Tail(q)) |-> i + 1]
<1>1. /\ Tail(q) \in Seq(Messages) /\ Len(Tail(q)) = Len(q) - 1 /\ Len(q) \in Nat \ {0}
      /\ \A i \in 1..(Len(q) - 1) : Tail(q)[i] = q[i + 1]
      /\ Head(q) = q[1]
  OBVIOUS
<1>2. f \in Bijection(QuitPlaces(Tail(q)), QuitPlaces(q) \ {1})
  <2>1. \A i \in QuitPlaces(Tail(q)) : i + 1 \in QuitPlaces(q) \ {1} /\ i \in Nat
    BY <1>1 DEF QuitPlaces
  <2>2. \A k \in QuitPlaces(q) \ {1} : k - 1 \in QuitPlaces(Tail(q)) /\ k = (k - 1) + 1
    <3> SUFFICES ASSUME NEW k \in QuitPlaces(q) \ {1}
                 PROVE  k - 1 \in QuitPlaces(Tail(q)) /\ k = (k - 1) + 1
      OBVIOUS
    <3>1. k \in 1..Len(q) /\ k # 1 /\ q[k].name = "quit"
      BY DEF QuitPlaces
    <3>2. k - 1 \in 1..(Len(q) - 1) /\ k = (k - 1) + 1
      BY <1>1, <3>1
    <3>3. Tail(q)[k - 1] = q[k]
      BY <1>1, <3>2
    <3> QED BY <1>1, <3>1, <3>2, <3>3 DEF QuitPlaces
  <2>3. f \in Injection(QuitPlaces(Tail(q)), QuitPlaces(q) \ {1})
    BY <2>1 DEF Injection, IsInjective
  <2>4. f \in Surjection(QuitPlaces(Tail(q)), QuitPlaces(q) \ {1})
    BY <2>1, <2>2 DEF Surjection
  <2> QED BY <2>3, <2>4 DEF Bijection
<1>3. ExistsBijection(QuitPlaces(Tail(q)), QuitPlaces(q) \ {1})
  BY <1>2, Zenon DEF ExistsBijection
<1>4. IsFiniteSet(QuitPlaces(q)) /\ IsFiniteSet(QuitPlaces(q) \ {1}) /\ IsFiniteSet(QuitPlaces(Tail(q)))
  BY <1>1, QuitsCounted, FS_RemoveElement
<1>5. QuitsIn(Tail(q)) = Cardinality(QuitPlaces(q) \ {1})
  BY <1>3, <1>4, FS_Bijection, Zenon DEF QuitsIn
<1>6. 1 \in QuitPlaces(q) <=> Head(q).name = "quit"
  BY <1>1 DEF QuitPlaces
<1>7. Cardinality(QuitPlaces(q) \ {1}) =
        IF 1 \in QuitPlaces(q) THEN Cardinality(QuitPlaces(q)) - 1 ELSE Cardinality(QuitPlaces(q))
  BY <1>4, FS_RemoveElement, Zenon
<1> QED
  BY <1>5, <1>6, <1>7 DEF QuitsIn

(* What a step may do to the queue.                                        *)
LEMMA QueueSteps ==
  ASSUME RunAssumption, TypeOK, Next
  PROVE  \/ UNCHANGED queue
         \/ \E more \in Seq(Messages) : queue' = queue \o more
         \/ \E m \in Messages : queue' = Append(queue, m)
         \/ /\ queue # <<>> /\ queue' = Tail(queue)
            /\ Head(queue).name = "quit" => stage' = "asking"
         \/ queue' = <<>> /\ (InGame \/ stage = "unload")
<1> USE DEF bootVars, threadVars, restartVars, eventVars
<1>q. queue \in Seq(Messages)
  BY DEF TypeOK
<1>p. Pumped => \/ UNCHANGED queue
                \/ \E more \in Seq(Messages) : queue' = queue \o more
  BY <1>q, MessagesOfRun DEF Pumped
<1>1. CASE Boot \/ BootStops \/ MakeModule
  BY <1>1 DEF Boot, BootStops, MakeModule
<1>2. CASE RunMain \/ Pump \/ CallPump
  BY <1>2, <1>p DEF RunMain, Pump, CallPump
<1>3. CASE Fault \/ OwnAnswer \/ RunReturns \/ Ignore \/ Accept
  BY <1>3 DEF Fault, OwnAnswer, RunReturns, Ignore, Accept
<1>4. CASE StartLoop \/ Yield \/ Crash \/ GoOn \/ NoneLeft \/ Answered \/ Return \/ Veto
  BY <1>4 DEF StartLoop, Yield, Crash, GoOn, NoneLeft, Answered, To, Return, Veto, LetGo
<1>5. CASE Poll
  <2>1. queue' = Tail(queue) /\ queue # <<>>
    BY <1>5 DEF Poll, Polled
  <2>2. Head(queue).name = "quit" => stage' = "asking"
    BY <1>5 DEF Poll, Polled, Handled
  <2> QED BY <2>1, <2>2
<1>6. CASE Join
  BY <1>6 DEF Join
<1>7. CASE Unload
  BY <1>7 DEF Unload
<1>8. CASE CallClear
  BY <1>8 DEF CallClear
<1>9. CASE \E m \in Messages : CallQuit(m)
  BY <1>9 DEF CallQuit, Push
<1>10. CASE \E w \in Workers : Spawn(w) \/ WorkerEnds(w)
  BY <1>10 DEF Spawn, WorkerEnds
<1>11. CASE \E w \in Workers : WorkerQuits(w) \/ WorkerReports(w)
  BY <1>11, MessagesOfRun DEF WorkerQuits, WorkerReports, Push
<1>12. CASE AudioNotices \/ AudioReports
  BY <1>12, MessagesOfRun DEF AudioNotices, AudioReports, Push
<1>13. Game => \/ \E m \in Messages : CallQuit(m)
               \/ CallPump \/ CallClear \/ \E w \in Workers : Spawn(w)
  BY MessagesOfRun DEF Game
<1> QED
  BY <1>1, <1>2, <1>3, <1>4, <1>5, <1>6, <1>7, <1>8, <1>9, <1>10, <1>11, <1>12, <1>13
     DEF Next, Main, Worker

(* A quit leaves the queue for the quit handler, by the game's own clear() *)
(* or with the run, and by nothing any other thread or SDL does.           *)
THEOREM QuitsAreKept == Spec => QuitIsNotLost
<1> DEFINE Cost == QuitsIn(queue') < QuitsIn(queue) =>
                     \/ stage' = "asking" /\ QuitsIn(queue') = QuitsIn(queue) - 1
                     \/ queue' = <<>> /\ (InGame \/ stage = "unload")
<1>1. TypeOK /\ [Next]_vars => [Cost]_vars
  <2> SUFFICES ASSUME TypeOK, Next PROVE Cost
    OBVIOUS
  <2>1. queue \in Seq(Messages)
    BY DEF TypeOK
  <2>2. QuitsIn(queue) \in Nat
    BY <2>1, QuitsCounted
  <2>3. CASE UNCHANGED queue
    BY <2>2, <2>3
  <2>4. ASSUME NEW more \in Seq(Messages), queue' = queue \o more PROVE Cost
    <3>1. QuitsIn(queue) <= QuitsIn(queue')
      BY <2>1, <2>4, QuitsStay
    <3>2. queue' \in Seq(Messages)
      BY <2>1, <2>4
    <3>3. QuitsIn(queue') \in Nat
      BY <3>2, QuitsCounted
    <3> QED BY <2>2, <3>1, <3>3
  <2>5. ASSUME NEW m \in Messages, queue' = Append(queue, m) PROVE Cost
    <3>1. QuitsIn(queue) <= QuitsIn(queue')
      BY <2>1, <2>5, QuitsStayAppended
    <3>2. queue' \in Seq(Messages)
      BY <2>1, <2>5
    <3>3. QuitsIn(queue') \in Nat
      BY <3>2, QuitsCounted
    <3> QED BY <2>2, <3>1, <3>3
  <2>6. CASE /\ queue # <<>> /\ queue' = Tail(queue)
             /\ Head(queue).name = "quit" => stage' = "asking"
    <3>1. QuitsIn(queue') = IF Head(queue).name = "quit" THEN QuitsIn(queue) - 1 ELSE QuitsIn(queue)
      BY <2>1, <2>6, QuitsPolled
    <3> QED BY <2>2, <2>6, <3>1
  <2>7. CASE queue' = <<>> /\ (InGame \/ stage = "unload")
    BY <2>7
  <2> HIDE DEF Cost
  <2> QED BY <2>3, <2>4, <2>5, <2>6, <2>7, QueueSteps, RunAssumption
<1> QED
  BY <1>1, TypeCorrect, PTL DEF QuitIsNotLost, Spec

-----------------------------------------------------------------------------
(* Restarts that only love.event.restart asks for.                         *)

(* No run of the game's own answers for itself, and no quit's code is the  *)
(* one that means restart.                                                 *)
OnlyByRestart == ~OwnLoop /\ LOVE_LH_RESTART \notin Codes

(* Whatever leads to another run has just handed something over, were it   *)
(* nil: on its way out the payload is what this run handed.                *)
Handover ==
  /\ ~own
  /\ stage = "boot" => payload = handing
  /\ stage \in {"modules", "main"} => payload = handed
  /\ stage = "answered" /\ ExitCodeOf(answer) = LOVE_LH_RESTART => payload = handing
  /\ stage \in {"join", "unload"} /\ code = LOVE_LH_RESTART => payload = handing

LEMMA HandoverStep ==
  ASSUME RunAssumption, OnlyByRestart, TypeOK, Handover, Next
  PROVE  Handover'
<1> USE DEF Handover, bootVars, restartVars, eventVars, threadVars
<1>1. CASE Boot
  BY <1>1 DEF Boot, OnlyByRestart
<1>2. CASE BootStops \/ MakeModule \/ Fault
  BY <1>2 DEF BootStops, MakeModule, Fault, Returns, InGame, LOVE_LH_RESTART
<1>3. CASE RunMain
  BY <1>3 DEF RunMain
<1>4. CASE OwnAnswer \/ Ignore \/ GoOn
  BY <1>4 DEF OwnAnswer, Ignore, GoOn
<1>5. CASE StartLoop \/ Yield \/ Crash \/ NoneLeft \/ Return \/ Veto
  BY <1>5 DEF StartLoop, Yield, Crash, NoneLeft, To, Return, Veto, LetGo
<1>6. CASE Pump \/ Poll
  BY <1>6 DEF Pump, Poll
<1>7. CASE Accept
  <2>1. current.code # LOVE_LH_RESTART
    BY DEF TypeOK, Messages, OnlyByRestart, LOVE_LH_RESTART
  <2>2. stage' = "answered" /\ UNCHANGED own /\ answer' = [restart |-> current.restart, code |-> current.code]
    BY <1>7 DEF Accept
  <2>3. current.restart => payload' = current.payload /\ handing' = current.payload
    BY <1>7 DEF Accept, Kept
  <2> QED BY <2>1, <2>2, <2>3 DEF ExitCodeOf
<1>8. CASE RunReturns
  BY <1>8 DEF RunReturns, Returns
<1>9. CASE Join \/ Unload
  BY <1>9 DEF Join, Unload
<1>10. CASE Answered
  BY <1>10 DEF Answered, To
<1>11. CASE Game
  <2>1. UNCHANGED <<stage, own, payload, handed, handing, code, answer>>
    BY <1>11 DEF Game, CallQuit, CallPump, CallClear, Spawn
  <2> QED BY <2>1 DEF ExitCodeOf
<1>12. CASE \E w \in Workers : WorkerQuits(w) \/ Worker(w)
  <2>1. UNCHANGED <<stage, own, payload, handed, handing, code, answer>>
    BY <1>12 DEF Worker, WorkerQuits, WorkerEnds, WorkerReports
  <2> QED BY <2>1 DEF ExitCodeOf
<1>13. CASE AudioNotices \/ AudioReports
  <2>1. UNCHANGED <<stage, own, payload, handed, handing, code, answer>>
    BY <1>13 DEF AudioNotices, AudioReports
  <2> QED BY <2>1 DEF ExitCodeOf
<1> QED
  BY <1>1, <1>2, <1>3, <1>4, <1>5, <1>6, <1>7, <1>8, <1>9, <1>10, <1>11, <1>12, <1>13
     DEF Next, Main

(* love.event.restartValue() is what the run before handed over, as long   *)
(* as no other way leads to another run.                                   *)
THEOREM ValueIsPrevious == OnlyByRestart => (Spec => []RestartValueIsPrevious)
<1> SUFFICES ASSUME OnlyByRestart PROVE Spec => []RestartValueIsPrevious
  OBVIOUS
<1>1. Init => Handover
  BY DEF Init, Handover
<1>2. TypeOK /\ Handover /\ [Next]_vars => Handover'
  <2>1. TypeOK /\ Handover /\ Next => Handover'
    BY HandoverStep, RunAssumption
  <2>2. Handover /\ UNCHANGED vars => Handover'
    BY DEF Handover, vars, bootVars, eventVars, restartVars
  <2> QED BY <2>1, <2>2
<1>3. Handover => RestartValueIsPrevious
  BY DEF Handover, RestartValueIsPrevious
<1> QED BY <1>1, <1>2, <1>3, TypeCorrect, PTL DEF Spec

-----------------------------------------------------------------------------
(* No message outlives its run.                                            *)

(* What a run leaves in the queue goes with love.event, and nobody pushes  *)
(* to a queue that is not there: the next run begins without a message.    *)
QueueDies == ~Has("event") => queue = <<>>

LEMMA QueueDiesStep ==
  ASSUME RunAssumption, IInv, TypeOK', QueueDies, Next
  PROVE  QueueDies'
<1> USE DEF QueueDies, bootVars, restartVars, eventVars, threadVars
<1>l. live \in Lives /\ live' \in Lives
  BY DEF IInv, TypeOK, Lives
<1>h. Has("event") <=> live \in {<<"event">>, <<"event", "audio">>}
  BY <1>l, HasFacts DEF Has
<1>i. Has("event")' <=> live' \in {<<"event">>, <<"event", "audio">>}
  BY <1>l, HasFacts DEF Has
<1>k. UNCHANGED live => (Has("event")' <=> Has("event"))
  BY <1>h, <1>i
<1>1. ASSUME UNCHANGED live, UNCHANGED queue \/ Has("event") PROVE QueueDies'
  BY <1>1, <1>k
<1>2. CASE Boot \/ BootStops \/ RunMain \/ Fault \/ OwnAnswer
  BY <1>1, <1>2 DEF Boot, BootStops, RunMain, Fault, OwnAnswer
<1>3. CASE MakeModule
  <2>1. UNCHANGED queue /\ (Has("event") => Has("event")')
    <3>1. CASE making = 1
      BY <3>1, <1>3, <1>h DEF MakeModule, IInv, MadeSoFar
    <3>2. CASE making = 2
      <4>1. live \in {<<>>, <<"event">>} /\ live' \in {live, Append(live, "audio")}
        BY <3>2, <1>3 DEF MakeModule, IInv, MadeSoFar, Order
      <4>2. CASE live = <<"event">>
        <5>1. live' = <<"event">> \/ live' = <<"event", "audio">>
          BY <4>1, <4>2, MadeFacts, Zenon
        <5> QED BY <5>1, <1>i, <1>3 DEF MakeModule
      <4>3. CASE live = <<>>
        BY <4>3, <1>h, <1>3 DEF MakeModule
      <4> QED BY <4>1, <4>2, <4>3
    <3> QED BY <3>1, <3>2, <1>3 DEF MakeModule, IInv, TypeOK, Order
  <2> QED BY <2>1
<1>4. CASE StartLoop \/ Yield \/ Pump \/ Crash \/ GoOn \/ NoneLeft \/ Return \/ Veto \/ Answered
  BY <1>1, <1>4 DEF StartLoop, Yield, Pump, Crash, GoOn, NoneLeft, Return, Veto, Answered, To, LetGo
<1>5. CASE Poll
  BY <1>1, <1>5 DEF Poll
<1>6. CASE Accept \/ RunReturns \/ Ignore \/ Join
  BY <1>1, <1>6 DEF Accept, RunReturns, Ignore, Join
<1>7. CASE Unload
  <2>1. live # <<>> /\ live' = Unloaded.rest
    BY <1>7 DEF Unload
  <2>2. CASE Unloaded.module = "audio"
    <3>1. live = <<"audio">> \/ live' = <<"event">>
      BY <2>1, <2>2, <1>l, UnloadedFacts, Zenon
    <3>2. <<"audio">> # <<"event">> /\ <<"audio">> # <<"event", "audio">>
      OBVIOUS
    <3>3. Has("event") => Has("event")'
      BY <3>1, <3>2, <1>h, <1>i, Zenon
    <3>4. UNCHANGED queue
      BY <2>2, <1>7 DEF Unload
    <3> QED BY <3>3, <3>4
  <2>3. CASE Unloaded.module # "audio"
    BY <2>3, <1>7 DEF Unload
  <2> QED BY <2>2, <2>3
<1>8. CASE Game
  BY <1>1, <1>8 DEF Game, CallQuit, CallPump, CallClear, Spawn
<1>9. CASE \E w \in Workers : WorkerQuits(w) \/ Worker(w)
  BY <1>1, <1>9 DEF Worker, WorkerQuits, WorkerEnds, WorkerReports, IInv, NobodyOutlives
<1>10. CASE AudioNotices \/ AudioReports
  BY <1>1, <1>10 DEF AudioNotices, AudioReports, IInv, NobodyOutlives
<1> QED
  BY <1>2, <1>3, <1>4, <1>5, <1>6, <1>7, <1>8, <1>9, <1>10 DEF Next, Main

(* A run begins without a message of the run before, whatever its threads  *)
(* pushed and however it ended.                                            *)
THEOREM RunsBeginSilent == Spec => [](stage = "boot" => queue = <<>>)
<1>1. Init => QueueDies
  BY DEF Init, QueueDies
<1>2. IInv /\ IInv' /\ QueueDies /\ [Next]_vars => QueueDies'
  <2>1. IInv /\ IInv' /\ QueueDies /\ Next => QueueDies'
    BY QueueDiesStep, RunAssumption DEF IInv
  <2>2. QueueDies /\ UNCHANGED vars => QueueDies'
    BY DEF QueueDies, Has, vars, bootVars, eventVars
  <2> QED BY <2>1, <2>2
<1>3. IInv /\ QueueDies => (stage = "boot" => queue = <<>>)
  <2> SUFFICES ASSUME IInv, QueueDies, stage = "boot" PROVE queue = <<>>
    OBVIOUS
  <2>1. live = <<>>
    BY DEF IInv, MadeSoFar
  <2> QED BY <2>1 DEF QueueDies, Has
<1> QED BY <1>1, <1>2, <1>3, Invariance, PTL DEF Spec
=============================================================================
