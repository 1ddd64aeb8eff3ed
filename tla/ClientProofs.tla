---------------------------- MODULE ClientProofs ----------------------------
(***************************************************************************)
(* Client keeps IInv, and so TypeOK, HelloBearsOffer, GivesUpLast and      *)
(* FollowsProtocol, for every number of hello threads, every set of ports, *)
(* random numbers and addresses, and all the values n may have.            *)
(***************************************************************************)
EXTENDS ClientInvariant, TLAPS

-----------------------------------------------------------------------------
(* Answers and requests.                                                   *)

\* The type of an answer, and what the fields of a SUBS_ACK are.
LEMMA AnswerType ==
  ASSUME NEW m \in Answer
  PROVE  /\ m.type \in AnswerTypes \cup {"GARBLED"}
         /\ m.type = "SUBS_ACK" => m.mac \in Mac /\ m.random \in RandomNum /\ m.port \in Port
  BY DEF Answer, AnswerTypes

\* Silence has a type too.
LEMMA SilenceType == Silence.type = "" /\ "" \in AnswerTypes
  BY DEF Silence, AnswerTypes

\* Send sends a request with the values of the Client object, or nothing.
LEMMA SendType ==
  ASSUME NEW type \in {"SUBS_REQ", "SUBS_INFO", "HELLO", "HELLO_REJ"},
         random_num \in RandomNum, port \in Port \cup {SrvUDP}, Send(type)
  PROVE  /\ sent' \in SUBSET Requests
         /\ \A r \in sent' : r.type = type /\ r.random = random_num /\ r.port = port
  BY DEF Send, Requests

-----------------------------------------------------------------------------
(* TypeOK and Counting.                                                    *)

\* A hello thread that ends leaves its locals in their types.
LEMMA FinishType ==
  ASSUME TypeOK, NEW h \in HelloThread, Finish(h)
  PROVE  /\ hpc' \in [HelloThread -> HelloPoints] /\ s' \in [HelloThread -> Int]
         /\ first' \in [HelloThread -> BOOLEAN] /\ stale' \in [HelloThread -> BOOLEAN]
  BY DEF TypeOK, Finish, HelloGoto, HelloPoints

\* A step keeps every variable in its type, and a process runs only while
\* subscription_start has one left.
LEMMA TypesStep ==
  ASSUME TypeOK, Counting, [Next]_vars
  PROVE  TypeOK' /\ Counting'
<1> USE ZerosAssumption, AttemptsAssumption
<1> USE DEF TypeOK, Counting, object, flags, main, hellos, history, vars, Goto,
            States, MainPoints, SubscriptionPoints, HelloPoints, DropPoints, MAX_SUBCRIPTIONS,
            change_state_client, HelloGoto
<1>1. CASE MainSleep \/ MainTop \/ MainReset
  BY <1>1 DEF MainSleep, MainTop, MainReset
<1>2. CASE MainSubscribes \/ MainConnects \/ Connected \/ ConnectTimeout
  <2>1. CASE MainSubscribes
    <3>1. tcp' \in BOOLEAN
      BY <2>1 DEF MainSubscribes
    <3>2. /\ mpc' = "start" /\ o' = MAX_SUBCRIPTIONS /\ n' \in Attempts /\ sent' = {}
          /\ UNCHANGED <<object, hello_thread, run_main, open, count, answer, hellos, history>>
      BY <2>1 DEF MainSubscribes
    <3> QED
      BY <3>1, <3>2
  <2>2. CASE Connected
    <3>1. tcp' \in BOOLEAN
      BY <2>2 DEF Connected
    <3>2. /\ mpc' = "sleep" /\ sent' = {}
          /\ UNCHANGED <<object, hello_thread, run_main, open, count, n, o, answer, hellos, history>>
      BY <2>2 DEF Connected
    <3> QED
      BY <3>1, <3>2
  <2>3. CASE MainConnects \/ ConnectTimeout
    BY <2>3 DEF MainConnects, ConnectTimeout
  <2> QED
    BY <1>2, <2>1, <2>2, <2>3
<1>3. CASE StartProcess \/ StartLeave
  BY <1>3 DEF StartProcess, StartLeave
<1>4. CASE SendReq \/ SendInfo
  BY <1>4, SendType DEF SendReq, SendInfo
<1>5. CASE ProcessFail \/ Subscribed \/ UndoPort \/ UndoRandom
  BY <1>5 DEF ProcessFail, Subscribed, UndoPort, UndoRandom
<1>6. CASE Judge
  <2>1. mpc = "judge" /\ count' = count + 1
    BY <1>6 DEF Judge, Count
  <2>2. state' \in States /\ mpc' \in {"restart", "attempt"}
    BY <1>6 DEF Judge, JudgeRefused, JudgeNack, JudgeMissing
  <2>3. UNCHANGED <<random_num, server_mac, port, flags, n, o, hellos, history>> /\ sent' = {}
    BY <1>6 DEF Judge
  <2>4. answer' \in AnswerTypes
    BY <1>6 DEF Judge, AnswerTypes
  <2> QED
    BY <2>1, <2>2, <2>3, <2>4
<1>7. CASE Restart \/ Again
  BY <1>7 DEF Restart, Again
<1>8. CASE Result \/ Exit
  <2>1. CASE Result
    BY <2>1 DEF Result
  <2>2. CASE Exit
    <3>1. hello_thread' \in BOOLEAN /\ run_main' \in BOOLEAN /\ open' \in BOOLEAN
      BY <2>2 DEF Exit, exit_server
    <3>2. mpc' = "exited" /\ UNCHANGED <<object, tcp, count, n, o, answer, hellos, history>> /\ sent' = {}
      BY <2>2 DEF Exit
    <3> QED
      BY <3>1, <3>2
  <2> QED
    BY <1>8, <2>1, <2>2
<1>9. ASSUME NEW h \in HelloThread, Spawn(h) PROVE TypeOK' /\ Counting'
  <2>1. mpc' = "sleep" /\ count' = 0 /\ o' = 0 /\ answer' \in AnswerTypes /\ sent' = {}
    BY <1>9 DEF Spawn, AnswerTypes
  <2>2. hpc' \in [HelloThread -> HelloPoints] /\ stale' \in [HelloThread -> BOOLEAN]
    BY <1>9 DEF Spawn
  <2>3. UNCHANGED <<object, flags, n, s, first, offer, haunted>>
    BY <1>9 DEF Spawn
  <2> QED
    BY <2>1, <2>2, <2>3
<1>10. ASSUME NEW m \in Answer \cup {Silence}, ReceiveNoAck(m) \/ ReceiveInfo(m) \/ ReceiveGarbled(m)
       PROVE  TypeOK' /\ Counting'
  <2>1. m.type \in AnswerTypes \cup {"GARBLED"}
    BY AnswerType, SilenceType
  <2>2. CASE ReceiveNoAck(m)
    BY <2>1, <2>2 DEF ReceiveNoAck
  <2>3. CASE ReceiveInfo(m)
    BY <2>1, <2>3 DEF ReceiveInfo
  <2>4. CASE ReceiveGarbled(m)
    BY <2>4 DEF ReceiveGarbled
  <2> QED
    BY <1>10, <2>2, <2>3, <2>4
<1>11. ASSUME NEW m \in Answer, ReceiveAck(m) PROVE TypeOK' /\ Counting'
  BY <1>11, AnswerType DEF ReceiveAck
<1>12. CASE Quit
  <2>1. hello_thread' \in BOOLEAN /\ run_main' \in BOOLEAN /\ open' \in BOOLEAN
    BY <1>12 DEF Quit, exit_server
  <2>2. UNCHANGED <<object, tcp, main, hellos, history>> /\ sent' = {}
    BY <1>12 DEF Quit
  <2> QED
    BY <2>1, <2>2
<1>13. ASSUME NEW h \in HelloThread, HelloStep(h) PROVE TypeOK' /\ Counting'
  <2>1. CASE HelloBegin(h)
    BY <2>1 DEF HelloBegin
  <2>2. CASE HelloLoop(h)
    <3>1. UNCHANGED <<object, flags, main, offer, haunted>> /\ sent' = {}
      BY <2>2 DEF HelloLoop
    <3>2. CASE HelloGoto(h, "look") /\ UNCHANGED <<s, first, stale>>
      BY <3>1, <3>2
    <3> QED
      BY <2>2, <3>1, <3>2, FinishType DEF HelloLoop
  <2>3. CASE HelloLook(h)
    <3>1. haunted' \in BOOLEAN
      BY <2>3 DEF HelloLook
    <3>2. /\ hpc' \in [HelloThread -> HelloPoints] /\ sent' = {}
          /\ UNCHANGED <<object, flags, main, s, first, offer, stale>>
      BY <2>3 DEF HelloLook
    <3> QED
      BY <3>1, <3>2
  <2>4. CASE HelloStop(h)
    <3>1. hello_thread' \in BOOLEAN
      BY <2>4 DEF HelloStop
    <3>2. /\ Finish(h) /\ sent' = {}
          /\ UNCHANGED <<object, run_main, open, tcp, main, offer, haunted>>
      BY <2>4 DEF HelloStop
    <3> QED
      BY <3>1, <3>2, FinishType
  <2>5. CASE HelloSend(h) \/ HelloReject(h)
    BY <2>5, SendType DEF HelloSend, HelloReject
  <2>6. CASE HelloSilence(h)
    BY <2>6 DEF HelloSilence
  <2>7. CASE HelloGreet(h)
    BY <2>7 DEF HelloGreet
  <2>8. CASE HelloRejected(h)
    BY <2>8 DEF HelloRejected
  <2>9. CASE HelloDropPort(h)
    BY <2>9 DEF HelloDropPort
  <2>10. CASE HelloDropRandom(h)
    BY <2>10 DEF HelloDropRandom
  <2>11. CASE HelloDropState(h)
    <3>1. stale' \in [HelloThread -> BOOLEAN]
      BY <2>11 DEF HelloDropState
    <3>2. /\ hpc' \in [HelloThread -> HelloPoints] /\ sent' = {} /\ state' = "DISCONNECTED"
          /\ UNCHANGED <<random_num, server_mac, port, flags, main, s, first, offer, haunted>>
      BY <2>11 DEF HelloDropState
    <3> QED
      BY <3>1, <3>2
  <2> QED
    BY <1>13, <2>1, <2>2, <2>3, <2>4, <2>5, <2>6, <2>7, <2>8, <2>9, <2>10, <2>11 DEF HelloStep
<1>14. ASSUME NEW h \in HelloThread, NEW m \in Answer, HelloReceive(h, m)
       PROVE  TypeOK' /\ Counting'
  <2>1. UNCHANGED <<object, flags, main, offer, haunted>> /\ sent' = {}
    BY <1>14 DEF HelloReceive
  <2>2. CASE Finish(h)
    BY <2>1, <2>2, FinishType
  <2>3. CASE ~Finish(h)
    <3>1. /\ hpc' \in [HelloThread -> HelloPoints] /\ s' \in [HelloThread -> Int]
          /\ UNCHANGED <<first, stale>>
      BY <1>14, <2>3 DEF HelloReceive
    <3> QED
      BY <2>1, <3>1
  <2> QED
    BY <2>2, <2>3
<1>15. CASE UNCHANGED vars
  BY <1>15
<1> QED
  BY <1>1, <1>2, <1>3, <1>4, <1>5, <1>6, <1>7, <1>8, <1>9, <1>10, <1>11, <1>12, <1>13,
     <1>14, <1>15 DEF Next, MainStep, MainReceive

-----------------------------------------------------------------------------
(* Session.                                                                *)

\* Once a hello thread has outlived its session, that is on record for good.
LEMMA HauntedStays ==
  ASSUME TypeOK, [Next]_vars
  PROVE  haunted => haunted'
  BY DEF TypeOK, vars, history, Next, MainStep, MainReceive, HelloStep, MainSleep,
     MainTop, MainReset, MainSubscribes, MainConnects, Connected, ConnectTimeout,
     StartProcess, StartLeave, SendReq, ProcessFail, SendInfo, Subscribed, UndoPort,
     UndoRandom, Judge, Restart, Again, Result, Exit, Spawn, Quit, ReceiveAck,
     ReceiveNoAck, ReceiveInfo, ReceiveGarbled, HelloBegin, HelloLoop, HelloLook,
     HelloStop, HelloSend, HelloSilence, HelloGreet, HelloReject, HelloRejected,
     HelloDropPort, HelloDropRandom, HelloDropState, HelloReceive

\* A step keeps the threads, the state and the offer in agreement.
LEMMA SessionStep ==
  ASSUME TypeOK, TypeOK', Counting, Session, ~haunted, ~haunted', [Next]_vars
  PROVE  Session'
<1> USE DEF TypeOK, Counting, Session, LiveOnce, LiveInStep, StaleQuiet, MainInStep,
            OfferKept, Live, Alive, Resting, MainOver, object, flags, main, hellos, history, vars,
            Goto, States, MainPoints, SubscriptionPoints, HelloPoints, DropPoints,
            MAX_SUBCRIPTIONS, change_state_client, HelloGoto
<1>1. CASE MainSleep \/ MainTop \/ MainReset
  BY <1>1 DEF MainSleep, MainTop, MainReset
<1>2. CASE MainSubscribes \/ MainConnects \/ Connected \/ ConnectTimeout
  BY <1>2 DEF MainSubscribes, MainConnects, Connected, ConnectTimeout
<1>3. CASE StartProcess \/ StartLeave
  BY <1>3 DEF StartProcess, StartLeave
<1>4. CASE SendReq \/ SendInfo
  BY <1>4 DEF SendReq, SendInfo
<1>5. CASE ProcessFail \/ Subscribed \/ UndoPort \/ UndoRandom
  BY <1>5 DEF ProcessFail, Subscribed, UndoPort, UndoRandom
<1>6. CASE Judge
  BY <1>6 DEF Judge, JudgeRefused, JudgeNack, JudgeMissing
<1>7. CASE Restart \/ Again
  BY <1>7 DEF Restart, Again
<1>8. CASE Result \/ Exit
  BY <1>8 DEF Result, Exit, exit_server
<1>9. ASSUME NEW h \in HelloThread, Spawn(h) PROVE Session'
  <2>1. /\ mpc = "spawn" /\ mpc' = "sleep" /\ state = "SUBSCRIBED"
        /\ random_num = offer.random /\ port = offer.port
    BY <1>9 DEF Spawn
  <2>2. /\ UNCHANGED <<object, first, offer>>
        /\ hpc' = [hpc EXCEPT ![h] = "begin"] /\ stale' = [stale EXCEPT ![h] = FALSE]
    BY <1>9 DEF Spawn
  <2>3. \A g \in HelloThread : ~Live(g)
    BY <2>1
  <2>4. \A g \in HelloThread : Live(g)' => g = h
    BY <2>2, <2>3
  <2>5. LiveOnce' /\ LiveInStep'
    BY <2>1, <2>2, <2>4
  <2>6. StaleQuiet'
    BY <2>2, <2>3
  <2>7. MainInStep' /\ OfferKept'
    BY <2>1, <2>2
  <2> QED
    BY <2>5, <2>6, <2>7
<1>10. ASSUME NEW m \in Answer \cup {Silence}, ReceiveNoAck(m) \/ ReceiveInfo(m) \/ ReceiveGarbled(m)
       PROVE  Session'
  BY <1>10 DEF ReceiveNoAck, ReceiveInfo, ReceiveGarbled
<1>11. ASSUME NEW m \in Answer, ReceiveAck(m) PROVE Session'
  BY <1>11 DEF ReceiveAck
<1>12. CASE Quit
  BY <1>12 DEF Quit, exit_server
<1>13. ASSUME NEW h \in HelloThread, HelloStep(h) PROVE Session'
  <2>1. CASE HelloBegin(h)
    BY <2>1 DEF HelloBegin
  <2>2. CASE HelloLoop(h)
    BY <2>2 DEF HelloLoop, Finish
  <2>3. CASE HelloLook(h)
    BY <2>3 DEF HelloLook, ValidState
  <2>4. CASE HelloStop(h)
    BY <2>4 DEF HelloStop, Finish
  <2>5. CASE HelloSend(h) \/ HelloReject(h)
    BY <2>5 DEF HelloSend, HelloReject
  <2>6. CASE HelloSilence(h)
    BY <2>6 DEF HelloSilence
  <2>7. CASE HelloGreet(h)
    BY <2>7 DEF HelloGreet
  <2>8. CASE HelloRejected(h)
    BY <2>8 DEF HelloRejected
  <2>9. CASE HelloDropPort(h)
    BY <2>9 DEF HelloDropPort
  <2>10. CASE HelloDropRandom(h)
    BY <2>10 DEF HelloDropRandom
  <2>11. CASE HelloDropState(h)
    <3>1. Live(h) /\ (mpc \in Resting \/ MainOver)
      BY <2>11 DEF HelloDropState
    <3>2. \A g \in HelloThread : Alive(g) /\ g # h => stale[g] /\ hpc[g] \in {"loop", "look", "stop"}
      BY <3>1
    <3>3. hpc' = [hpc EXCEPT ![h] = "loop"] /\ state' = "DISCONNECTED" /\ mpc' = mpc
      BY <2>11 DEF HelloDropState
    <3>4. \A g \in HelloThread : Alive(g) => stale'[g]
      BY <2>11 DEF HelloDropState
    <3>5. \A g \in HelloThread : hpc'[g] # "ended" => stale'[g] /\ hpc'[g] \in {"loop", "look", "stop"}
      BY <3>1, <3>2, <3>3, <3>4
    <3>6. LiveOnce' /\ LiveInStep' /\ StaleQuiet'
      BY <3>5
    <3>7. MainInStep' /\ OfferKept'
      BY <3>1, <3>3
    <3> QED
      BY <3>6, <3>7
  <2> QED
    BY <1>13, <2>1, <2>2, <2>3, <2>4, <2>5, <2>6, <2>7, <2>8, <2>9, <2>10, <2>11 DEF HelloStep
<1>14. ASSUME NEW h \in HelloThread, NEW m \in Answer, HelloReceive(h, m)
       PROVE  Session'
  BY <1>14 DEF HelloReceive, Finish
<1>15. CASE UNCHANGED vars
  BY <1>15
<1> QED
  BY <1>1, <1>2, <1>3, <1>4, <1>5, <1>6, <1>7, <1>8, <1>9, <1>10, <1>11, <1>12, <1>13,
     <1>14, <1>15 DEF Next, MainStep, MainReceive

\* A HELLO is sent with the offer.
LEMMA HelloBearsStep ==
  ASSUME TypeOK, Session, HelloBearsOffer, haunted => haunted', [Next]_vars
  PROVE  HelloBearsOffer'
<1> USE DEF HelloBearsOffer, object, flags, main, hellos, history, vars
<1>1. CASE sent' = {}
  BY <1>1
<1>2. ASSUME NEW h \in HelloThread, HelloSend(h)
      PROVE  HelloBearsOffer'
  <2>1. Live(h)
    BY <1>2 DEF HelloSend, Session, StaleQuiet, Live, Alive
  <2>2. random_num = offer.random /\ port = offer.port
    BY <1>2, <2>1 DEF HelloSend, Session, LiveInStep, DropPoints
  <2>3. \A r \in sent' : r.random = random_num /\ r.port = port
    BY <1>2, SendType DEF HelloSend, TypeOK
  <2>4. offer' = offer
    BY <1>2 DEF HelloSend
  <2> QED
    BY <2>2, <2>3, <2>4
<1>3. CASE SendReq \/ SendInfo \/ \E h \in HelloThread : HelloReject(h)
  BY <1>3, SendType DEF SendReq, SendInfo, HelloReject, TypeOK
<1>4. CASE UNCHANGED vars
  BY <1>4
<1>5. \/ sent' = {} \/ SendReq \/ SendInfo
      \/ \E h \in HelloThread : HelloSend(h) \/ HelloReject(h)
      \/ UNCHANGED vars
  BY DEF Next, MainStep, MainReceive, HelloStep, MainSleep, MainTop, MainReset,
     MainSubscribes, MainConnects, Connected, ConnectTimeout, StartProcess, StartLeave,
     ProcessFail, Subscribed, UndoPort, UndoRandom, Judge, Restart, Again, Result, Exit,
     Spawn, Quit, ReceiveAck, ReceiveNoAck, ReceiveInfo, ReceiveGarbled, HelloBegin,
     HelloLoop, HelloLook, HelloStop, HelloSilence, HelloGreet, HelloRejected,
     HelloDropPort, HelloDropRandom, HelloDropState, HelloReceive
<1> QED
  BY <1>1, <1>2, <1>3, <1>4, <1>5

-----------------------------------------------------------------------------
(* The theorems.                                                           *)

\* Main in "exit" has no process left.
LEMMA SessionGivesUp == UnhauntedSession => GivesUpLast
  BY DEF UnhauntedSession, Session, MainInStep, GivesUpLast

\* The initial states satisfy the invariant.
LEMMA Initially == Init => IInv
<1> SUFFICES ASSUME Init PROVE IInv
  OBVIOUS
<1>1. TypeOK
  <2>1. /\ hello_thread \in BOOLEAN /\ run_main \in BOOLEAN /\ open \in BOOLEAN
        /\ tcp \in BOOLEAN /\ haunted \in BOOLEAN
    BY DEF Init
  <2>2. first \in [HelloThread -> BOOLEAN] /\ stale \in [HelloThread -> BOOLEAN]
    BY DEF Init
  <2>3. /\ state \in States /\ mpc \in MainPoints /\ answer \in AnswerTypes
        /\ hpc \in [HelloThread -> HelloPoints]
    BY DEF Init, States, MainPoints, HelloPoints, AnswerTypes
  <2>4. /\ random_num \in RandomNum /\ server_mac \in Mac \cup {NoMac}
        /\ port \in Port \cup {SrvUDP} /\ sent \in SUBSET Requests
        /\ offer \in [random : RandomNum, port : Port \cup {SrvUDP}]
    BY ZerosAssumption DEF Init
  <2>5. count \in Nat /\ n \in Attempts /\ s \in [HelloThread -> Int]
    <3>1. count = 0 /\ n \in Attempts /\ s = [h \in HelloThread |-> 0]
      BY DEF Init
    <3> QED
      BY <3>1
  <2>6. o \in 0 .. MAX_SUBCRIPTIONS
    <3>1. o = 0
      BY DEF Init
    <3> QED
      BY <3>1 DEF MAX_SUBCRIPTIONS
  <2> QED
    BY <2>1, <2>2, <2>3, <2>4, <2>5, <2>6 DEF TypeOK
<1>2. Counting /\ HelloBearsOffer
  BY DEF Init, Counting, SubscriptionPoints, HelloBearsOffer
<1>3. Session
  BY DEF Init, Session, LiveOnce, LiveInStep, StaleQuiet, MainInStep, OfferKept, Live, Alive, Resting
<1> QED
  BY <1>1, <1>2, <1>3, SessionGivesUp DEF IInv, UnhauntedSession

\* The inductive invariant: types, the processes left, and, as long as no hello
\* thread of an earlier session goes on, how the threads, the state and the
\* offer agree.
THEOREM Invariant == Spec => []IInv
<1>1. ASSUME IInv, [Next]_vars PROVE IInv'
  <2>1. TypeOK' /\ Counting'
    BY <1>1, TypesStep DEF IInv
  <2>2. haunted => haunted'
    BY <1>1, HauntedStays DEF IInv
  <2>3. UnhauntedSession'
    BY <1>1, <2>1, <2>2, SessionStep DEF IInv, UnhauntedSession
  <2>4. HelloBearsOffer'
    <3>1. CASE haunted'
      BY <3>1 DEF HelloBearsOffer
    <3>2. CASE ~haunted'
      BY <1>1, <2>2, <3>2, HelloBearsStep DEF IInv, UnhauntedSession
    <3> QED
      BY <3>1, <3>2
  <2>5. GivesUpLast'
    BY <2>3 DEF UnhauntedSession, Session, MainInStep, GivesUpLast
  <2> QED
    BY <2>1, <2>3, <2>4, <2>5 DEF IInv
<1> QED
  BY <1>1, Initially, PTL DEF Spec

\* Every variable keeps its type: in particular o never falls below zero.
THEOREM TypeCorrect == Spec => []TypeOK
<1>1. IInv => TypeOK
  BY DEF IInv
<1> QED
  BY <1>1, Invariant, PTL

\* A hello thread never sends with a port or random number that main, or
\* another hello thread, has already set back.
THEOREM BearsOffer == Spec => []HelloBearsOffer
<1>1. IInv => HelloBearsOffer
  BY DEF IInv
<1> QED
  BY <1>1, Invariant, PTL

\* As long as no hello thread outlives its session, one thread at most belongs
\* to it, main rests meanwhile, and the Client object keeps its offer.
THEOREM InOrder == Spec => []UnhauntedSession
<1>1. IInv => UnhauntedSession
  BY DEF IInv
<1> QED
  BY <1>1, Invariant, PTL

\* The client gives up only when the processes are used up.
THEOREM GivesUp == Spec => []GivesUpLast
<1>1. IInv => GivesUpLast
  BY DEF IInv
<1> QED
  BY <1>1, Invariant, PTL

-----------------------------------------------------------------------------
(* The order of the states.                                                *)

\* Every step moves the state as the protocol has it, or not at all.
LEMMA MovesStep ==
  ASSUME TypeOK, Session, ~haunted', [Next]_vars
  PROVE  state' = state \/ <<state, state'>> \in Moves
<1> USE DEF Session, MainInStep, Resting, object, vars, change_state_client, Moves
<1>1. CASE MainReset
  BY <1>1 DEF MainReset
<1>2. CASE SendReq
  BY <1>2 DEF SendReq
<1>3. CASE ProcessFail
  BY <1>3 DEF ProcessFail
<1>4. CASE SendInfo
  BY <1>4 DEF SendInfo
<1>5. CASE Subscribed
  BY <1>5 DEF Subscribed
<1>6. CASE Judge
  BY <1>6 DEF Judge, JudgeRefused, JudgeNack, JudgeMissing
<1>7. ASSUME NEW h \in HelloThread, HelloGreet(h) \/ HelloDropState(h)
      PROVE  state' = state \/ <<state, state'>> \in Moves
  <2>1. Live(h)
    BY <1>7 DEF HelloGreet, HelloDropState, StaleQuiet, Live, Alive
  <2>2. state \in {"SUBSCRIBED", "SEND_HELLO"}
    BY <1>7, <2>1 DEF HelloGreet, HelloDropState, LiveInStep
  <2>3. CASE HelloGreet(h)
    BY <2>1, <2>2, <2>3 DEF HelloGreet
  <2>4. CASE HelloDropState(h)
    BY <2>2, <2>4 DEF HelloDropState
  <2> QED
    BY <1>7, <2>3, <2>4
<1>8. \/ state' = state \/ MainReset \/ SendReq \/ ProcessFail \/ SendInfo \/ Subscribed \/ Judge
      \/ \E h \in HelloThread : HelloGreet(h) \/ HelloDropState(h)
  BY DEF Next, MainStep, MainReceive, HelloStep, MainSleep, MainTop, MainSubscribes,
     MainConnects, Connected, ConnectTimeout, StartProcess, StartLeave, UndoPort,
     UndoRandom, Restart, Again, Result, Exit, Spawn, Quit, ReceiveAck, ReceiveNoAck,
     ReceiveInfo, ReceiveGarbled, HelloBegin, HelloLoop, HelloLook, HelloStop,
     HelloSend, HelloSilence, HelloReject, HelloRejected, HelloDropPort,
     HelloDropRandom, HelloReceive
<1> QED
  BY <1>1, <1>2, <1>3, <1>4, <1>5, <1>6, <1>7, <1>8

\* The states of the client follow one another as the protocol has them.
THEOREM Follows == Spec => FollowsProtocol
<1>1. ASSUME IInv, [Next]_vars PROVE [~haunted' => <<state, state'>> \in Moves]_state
  <2>1. CASE haunted'
    BY <2>1
  <2>2. CASE ~haunted'
    <3>1. ~haunted
      BY <1>1, <2>2, HauntedStays DEF IInv
    <3> QED
      BY <1>1, <2>2, <3>1, MovesStep DEF IInv, UnhauntedSession
  <2> QED
    BY <2>1, <2>2
<1> QED
  BY <1>1, Invariant, PTL DEF Spec, FollowsProtocol

-----------------------------------------------------------------------------
(* subscription_start draws near its end.                                  *)

\* Main alone moves its control point and its counters.
LEMMA MainMoves ==
  ASSUME [Next]_vars
  PROVE  MainStep \/ (\E m \in Answer : MainReceive(m)) \/ UNCHANGED main
BY DEF Next, vars, main, Quit, HelloStep, HelloReceive, HelloBegin, HelloLoop, HelloLook,
   HelloStop, HelloSend, HelloSilence, HelloGreet, HelloReject, HelloRejected,
   HelloDropPort, HelloDropRandom, HelloDropState

\* A step of main keeps count within n.
LEMMA AttemptingStep ==
  ASSUME TypeOK, Attempting, [Next]_vars
  PROVE  Attempting'
<1> USE DEF Attempting, main, Goto
<1>1. count \in Nat /\ n \in Nat
  BY AttemptsAssumption DEF TypeOK
<1>2. CASE UNCHANGED main
  BY <1>2
<1>3. CASE MainStep
  <2>1. CASE mpc' \notin {"attempt", "ack_recv", "info_send", "info_recv", "undo_port",
                          "undo_random", "judge"}
    BY <2>1
  <2>2. CASE StartProcess \/ SendReq \/ SendInfo \/ UndoPort \/ UndoRandom
    BY <1>1, <2>2 DEF StartProcess, SendReq, SendInfo, UndoPort, UndoRandom
  <2>3. CASE Judge
    <3>1. mpc = "judge" /\ count' = count + 1 /\ n' = n /\ mpc' \in {"restart", "attempt"}
      BY <2>3 DEF Judge, JudgeRefused, JudgeNack, JudgeMissing, Count
    <3> QED
      BY <1>1, <3>1
  <2>4. CASE ReceiveNoAck(Silence) \/ ReceiveInfo(Silence)
    BY <1>1, <2>4 DEF ReceiveNoAck, ReceiveInfo
  <2> QED
    BY <1>3, <2>1, <2>2, <2>3, <2>4 DEF MainStep, MainSleep, MainTop, MainReset,
       MainSubscribes, MainConnects, Connected, ConnectTimeout, StartLeave, ProcessFail,
       Subscribed, Restart, Again, Result, Exit, Spawn
<1>4. ASSUME NEW m \in Answer, MainReceive(m) PROVE Attempting'
  BY <1>4 DEF MainReceive, ReceiveAck, ReceiveNoAck, ReceiveInfo, ReceiveGarbled
<1> QED
  BY <1>2, <1>3, <1>4, MainMoves

\* What LoopLeft counts: 3n + 3 steps for each process, and one to leave.
LEMMA LoopLeftValue ==
  ASSUME n \in Nat
  PROVE  /\ LoopLeft(0) = 1
         /\ LoopLeft(1) = 3 * n + 4
         /\ LoopLeft(2) = 6 * n + 7
         /\ LoopLeft(3) = 9 * n + 10
BY DEF LoopLeft

\* What SubscriptionLeft counts with is a number.
SubscriptionMeasured == SubscriptionLeft \in Nat

LEMMA SubscriptionMeasuredAlways ==
  TypeOK /\ Counting /\ Attempting => SubscriptionMeasured
<1> SUFFICES ASSUME TypeOK, Counting, Attempting PROVE SubscriptionLeft \in Nat
  BY DEF SubscriptionMeasured
<1>1. count \in Nat /\ n \in Nat /\ o \in 0 .. 3
  BY AttemptsAssumption DEF TypeOK, MAX_SUBCRIPTIONS
<1>2. \A k \in 0 .. 3 : LoopLeft(k) \in Nat
  BY <1>1, LoopLeftValue
<1>3. mpc \in SubscriptionPoints \ {"start"} => LoopLeft(o - 1) \in Nat
  BY <1>1, <1>2 DEF Counting
<1> QED
  BY <1>1, <1>2, <1>3 DEF SubscriptionLeft, SubscriptionPoints, Attempting, ProcessLeft,
     JudgedLeft, MAX_SUBCRIPTIONS

\* Every step main takes in subscription_start leaves it fewer to take.
LEMMA SubscriptionStep ==
  ASSUME TypeOK, Counting, Attempting, mpc \in SubscriptionPoints, MainStep
  PROVE  SubscriptionLeft' < SubscriptionLeft
<1> USE DEF SubscriptionLeft, SubscriptionPoints, ProcessLeft, JudgedLeft, LoopLeft,
            MAX_SUBCRIPTIONS, Goto, main
<1>1. count \in Nat /\ n \in Nat /\ o \in {0, 1, 2, 3}
  BY AttemptsAssumption DEF TypeOK
<1>2. mpc # "start" => o \in {1, 2, 3}
  BY <1>1 DEF Counting
<1>3. CASE StartProcess
  BY <1>1, <1>3 DEF StartProcess
<1>4. CASE StartLeave
  BY <1>1, <1>4 DEF StartLeave
<1>5. CASE SendReq
  BY <1>1, <1>2, <1>5 DEF SendReq
<1>6. CASE ProcessFail
  BY <1>1, <1>2, <1>6 DEF ProcessFail, Attempting
<1>7. CASE SendInfo
  BY <1>1, <1>2, <1>7 DEF SendInfo
<1>8. CASE Subscribed
  BY <1>1, <1>2, <1>8 DEF Subscribed
<1>9. CASE UndoPort \/ UndoRandom
  BY <1>1, <1>2, <1>9 DEF UndoPort, UndoRandom, Refused
<1>10. CASE Judge
  <2>1. mpc = "judge" /\ count' = count + 1 /\ n' = n /\ o' = o
    BY <1>10 DEF Judge, Count
  <2>2. IF Refused THEN mpc' = "restart" ELSE mpc' = "attempt"
    BY <1>10 DEF Judge, JudgeRefused, JudgeNack, JudgeMissing, Refused
  <2> QED
    BY <1>1, <1>2, <2>1, <2>2
<1>11. CASE Restart
  BY <1>1, <1>2, <1>11 DEF Restart
<1>12. CASE Again
  BY <1>1, <1>2, <1>12 DEF Again
<1>13. CASE ReceiveNoAck(Silence) \/ ReceiveInfo(Silence)
  <2>1. answer' = "" /\ UNCHANGED <<count, n, o>>
    BY <1>13, SilenceType DEF ReceiveNoAck, ReceiveInfo
  <2>2. ~Refused'
    BY <2>1 DEF Refused
  <2>3. \/ mpc = "ack_recv" /\ mpc' = "judge"
        \/ mpc = "info_recv" /\ mpc' = "undo_port"
    BY <1>13, SilenceType DEF ReceiveNoAck, ReceiveInfo
  <2>4. JudgedLeft' = 1 + ProcessLeft(count + 1)
    BY <2>1, <2>2
  <2>5. ProcessLeft(count + 1) \in Int
    BY <1>1, <1>2, <2>3
  <2> HIDE DEF ProcessLeft, JudgedLeft
  <2> QED
    BY <2>3, <2>4, <2>5
<1> QED
  BY <1>3, <1>4, <1>5, <1>6, <1>7, <1>8, <1>9, <1>10, <1>11, <1>12, <1>13
     DEF MainStep, MainSleep, MainTop, MainReset, MainSubscribes, MainConnects, Connected,
         ConnectTimeout, Result, Exit, Spawn

\* Main is outside it for as long as it does not call it.
LEMMA OutsideStays ==
  ASSUME mpc \notin SubscriptionPoints, MainStep
  PROVE  MainSubscribes \/ SubscriptionLeft' = SubscriptionLeft
BY DEF SubscriptionLeft, SubscriptionPoints, Goto, MainStep, MainSleep, MainTop, MainReset,
   MainConnects, Connected, ConnectTimeout, StartProcess, StartLeave, SendReq, ProcessFail,
   SendInfo, Subscribed, UndoPort, UndoRandom, Judge, Restart, Again, Result, Exit, Spawn,
   ReceiveNoAck, ReceiveInfo

\* Subscription takes a bounded number of steps between two answers, whatever
\* values n may have and however many hello threads change the state meanwhile.
THEOREM SubscriptionNearing == Spec => SubscriptionNears
<1>1. Init => Attempting
  BY DEF Init, Attempting
<1>2. TypeOK /\ Attempting /\ [Next]_vars => Attempting'
  BY AttemptingStep
<1>3. ASSUME TypeOK, Counting, Attempting, SubscriptionMeasured, SubscriptionMeasured', [Next]_vars
      PROVE  [/\ mpc \in SubscriptionPoints /\ MainStep =>
                   SubscriptionLeft' \in Nat /\ SubscriptionLeft' < SubscriptionLeft
              /\ SubscriptionLeft' > SubscriptionLeft =>
                   MainSubscribes \/ \E m \in Answer : MainReceive(m)]_vars
  <2>1. SubscriptionLeft \in Nat /\ SubscriptionLeft' \in Nat
    BY <1>3 DEF SubscriptionMeasured
  <2>2. CASE MainStep /\ mpc \in SubscriptionPoints
    BY <1>3, <2>1, <2>2, SubscriptionStep
  <2>3. CASE MainStep /\ mpc \notin SubscriptionPoints
    BY <2>1, <2>3, OutsideStays
  <2>4. CASE UNCHANGED main /\ ~MainStep
    <3>1. SubscriptionLeft' = SubscriptionLeft
      BY <2>4 DEF main, SubscriptionLeft, ProcessLeft, JudgedLeft, LoopLeft, Refused
    <3> QED
      BY <2>1, <2>4, <3>1
  <2> QED
    BY <1>3, <2>2, <2>3, <2>4, MainMoves
<1>4. IInv => TypeOK /\ Counting
  BY DEF IInv
<1> QED
  BY <1>1, <1>2, <1>3, <1>4, Invariant, SubscriptionMeasuredAlways, PTL DEF Spec, SubscriptionNears
=============================================================================
