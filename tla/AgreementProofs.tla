--------------------------- MODULE AgreementProofs --------------------------
(***************************************************************************)
(* What holds between the two sides of System for any number of faults.    *)
(***************************************************************************)
EXTENDS Agreement, SystemProofs

-----------------------------------------------------------------------------
(* The client's sessions.  (ClientProofs proves this of Client's own       *)
(* variables; here they are those of the instance.)                        *)

\* Once a hello thread has outlived its session, that is on record for good.
LEMMA ClientHauntedStays ==
  ASSUME C!TypeOK, [C!Next]_(C!vars)
  PROVE  c_haunted => c_haunted'
  BY DEF C!TypeOK, C!vars, C!history, C!Next, C!MainStep, C!MainReceive, C!HelloStep, C!MainSleep,
     C!MainTop, C!MainReset, C!MainSubscribes, C!MainConnects, C!Connected, C!ConnectTimeout,
     C!StartProcess, C!StartLeave, C!SendReq, C!ProcessFail, C!SendInfo, C!Subscribed, C!UndoPort,
     C!UndoRandom, C!Judge, C!Restart, C!Again, C!Result, C!Exit, C!Spawn, C!Quit, C!ReceiveAck,
     C!ReceiveNoAck, C!ReceiveInfo, C!ReceiveGarbled, C!HelloBegin, C!HelloLoop, C!HelloLook,
     C!HelloStop, C!HelloSend, C!HelloSilence, C!HelloGreet, C!HelloReject, C!HelloRejected,
     C!HelloDropPort, C!HelloDropRandom, C!HelloDropState, C!HelloReceive

\* A step keeps the threads, the state and the offer in agreement.
LEMMA ClientSessionStep ==
  ASSUME C!TypeOK, C!TypeOK', C!Counting, C!Session, ~c_haunted, ~c_haunted', [C!Next]_(C!vars)
  PROVE  C!Session'
<1> USE DEF C!TypeOK, C!Counting, C!Session, C!LiveOnce, C!LiveInStep, C!StaleQuiet, C!MainInStep,
            C!OfferKept, C!Live, C!Alive, C!Resting, C!MainOver, C!object, C!flags, C!main, C!hellos, C!history, C!vars,
            C!Goto, C!States, C!MainPoints, C!SubscriptionPoints, C!HelloPoints, C!DropPoints,
            C!MAX_SUBCRIPTIONS, C!change_state_client, C!HelloGoto
<1>1. CASE C!MainSleep \/ C!MainTop \/ C!MainReset
  BY <1>1 DEF C!MainSleep, C!MainTop, C!MainReset
<1>2. CASE C!MainSubscribes \/ C!MainConnects \/ C!Connected \/ C!ConnectTimeout
  BY <1>2 DEF C!MainSubscribes, C!MainConnects, C!Connected, C!ConnectTimeout
<1>3. CASE C!StartProcess \/ C!StartLeave
  BY <1>3 DEF C!StartProcess, C!StartLeave
<1>4. CASE C!SendReq \/ C!SendInfo
  BY <1>4 DEF C!SendReq, C!SendInfo
<1>5. CASE C!ProcessFail \/ C!Subscribed \/ C!UndoPort \/ C!UndoRandom
  BY <1>5 DEF C!ProcessFail, C!Subscribed, C!UndoPort, C!UndoRandom
<1>6. CASE C!Judge
  BY <1>6 DEF C!Judge, C!JudgeRefused, C!JudgeNack, C!JudgeMissing
<1>7. CASE C!Restart \/ C!Again
  BY <1>7 DEF C!Restart, C!Again
<1>8. CASE C!Result \/ C!Exit
  BY <1>8 DEF C!Result, C!Exit, C!exit_server
<1>9. ASSUME NEW h \in HelloThread, C!Spawn(h) PROVE C!Session'
  <2>1. /\ c_mpc = "spawn" /\ c_mpc' = "sleep" /\ c_state = "SUBSCRIBED"
        /\ c_random_num = c_offer.random /\ c_port = c_offer.port
    BY <1>9 DEF C!Spawn
  <2>2. /\ UNCHANGED <<C!object, c_first, c_offer>>
        /\ c_hpc' = [c_hpc EXCEPT ![h] = "begin"] /\ c_stale' = [c_stale EXCEPT ![h] = FALSE]
    BY <1>9 DEF C!Spawn
  <2>3. \A g \in HelloThread : ~C!Live(g)
    BY <2>1
  <2>4. \A g \in HelloThread : C!Live(g)' => g = h
    BY <2>2, <2>3
  <2>5. C!LiveOnce' /\ C!LiveInStep'
    BY <2>1, <2>2, <2>4
  <2>6. C!StaleQuiet'
    BY <2>2, <2>3
  <2>7. C!MainInStep' /\ C!OfferKept'
    BY <2>1, <2>2
  <2> QED
    BY <2>5, <2>6, <2>7
<1>10. ASSUME NEW m \in C!Answer \cup {C!Silence}, C!ReceiveNoAck(m) \/ C!ReceiveInfo(m) \/ C!ReceiveGarbled(m)
       PROVE  C!Session'
  BY <1>10 DEF C!ReceiveNoAck, C!ReceiveInfo, C!ReceiveGarbled
<1>11. ASSUME NEW m \in C!Answer, C!ReceiveAck(m) PROVE C!Session'
  BY <1>11 DEF C!ReceiveAck
<1>12. CASE C!Quit
  BY <1>12 DEF C!Quit, C!exit_server
<1>13. ASSUME NEW h \in HelloThread, C!HelloStep(h) PROVE C!Session'
  <2>1. CASE C!HelloBegin(h)
    BY <2>1 DEF C!HelloBegin
  <2>2. CASE C!HelloLoop(h)
    BY <2>2 DEF C!HelloLoop, C!Finish
  <2>3. CASE C!HelloLook(h)
    BY <2>3 DEF C!HelloLook, C!ValidState
  <2>4. CASE C!HelloStop(h)
    BY <2>4 DEF C!HelloStop, C!Finish
  <2>5. CASE C!HelloSend(h) \/ C!HelloReject(h)
    BY <2>5 DEF C!HelloSend, C!HelloReject
  <2>6. CASE C!HelloSilence(h)
    BY <2>6 DEF C!HelloSilence
  <2>7. CASE C!HelloGreet(h)
    BY <2>7 DEF C!HelloGreet
  <2>8. CASE C!HelloRejected(h)
    BY <2>8 DEF C!HelloRejected
  <2>9. CASE C!HelloDropPort(h)
    BY <2>9 DEF C!HelloDropPort
  <2>10. CASE C!HelloDropRandom(h)
    BY <2>10 DEF C!HelloDropRandom
  <2>11. CASE C!HelloDropState(h)
    <3>1. C!Live(h) /\ (c_mpc \in C!Resting \/ C!MainOver)
      BY <2>11 DEF C!HelloDropState
    <3>2. \A g \in HelloThread : C!Alive(g) /\ g # h => c_stale[g] /\ c_hpc[g] \in {"loop", "look", "stop"}
      BY <3>1
    <3>3. c_hpc' = [c_hpc EXCEPT ![h] = "loop"] /\ c_state' = "DISCONNECTED" /\ c_mpc' = c_mpc
      BY <2>11 DEF C!HelloDropState
    <3>4. \A g \in HelloThread : C!Alive(g) => c_stale'[g]
      BY <2>11 DEF C!HelloDropState
    <3>5. \A g \in HelloThread : c_hpc'[g] # "ended" => c_stale'[g] /\ c_hpc'[g] \in {"loop", "look", "stop"}
      BY <3>1, <3>2, <3>3, <3>4
    <3>6. C!LiveOnce' /\ C!LiveInStep' /\ C!StaleQuiet'
      BY <3>5
    <3>7. C!MainInStep' /\ C!OfferKept'
      BY <3>1, <3>3
    <3> QED
      BY <3>6, <3>7
  <2> QED
    BY <1>13, <2>1, <2>2, <2>3, <2>4, <2>5, <2>6, <2>7, <2>8, <2>9, <2>10, <2>11 DEF C!HelloStep
<1>14. ASSUME NEW h \in HelloThread, NEW m \in C!Answer, C!HelloReceive(h, m)
       PROVE  C!Session'
  BY <1>14 DEF C!HelloReceive, C!Finish
<1>15. CASE UNCHANGED C!vars
  BY <1>15
<1> QED
  BY <1>1, <1>2, <1>3, <1>4, <1>5, <1>6, <1>7, <1>8, <1>9, <1>10, <1>11, <1>12, <1>13,
     <1>14, <1>15 DEF C!Next, C!MainStep, C!MainReceive

-----------------------------------------------------------------------------
(* What is on the wire.                                                    *)

\* A HELLO on its way to the server was sent by the client.
HeardDatagram == {m \in Datagram : m.type = "HELLO" => m.random \in greeted}

\* An INFO_ACK or HELLO on its way to the client was sent by the server.
HeardAnswer ==
  {m \in C!Answer : /\ m.type = "INFO_ACK" => m.random \in confirmed
                    /\ m.type = "HELLO" => m.random \in echoed}

OnWire ==
  /\ requests \in [Ports -> Seq(HeardDatagram)]
  /\ answers \in Seq(HeardAnswer)

\* What is heard stays heard.
LEMMA ToldStays ==
  ASSUME Records
  PROVE  /\ confirmed \subseteq confirmed' /\ greeted \subseteq greeted' /\ echoed \subseteq echoed'
         /\ HeardDatagram \subseteq HeardDatagram' /\ HeardAnswer \subseteq HeardAnswer'
<1>1. confirmed \subseteq confirmed' /\ greeted \subseteq greeted' /\ echoed \subseteq echoed'
  BY DEF Records
<1> QED
  BY <1>1 DEF HeardDatagram, HeardAnswer

\* A queue of such is a queue of more.
LEMMA SeqGrows ==
  ASSUME NEW S, NEW T, S \subseteq T, NEW q \in Seq(S)
  PROVE  q \in Seq(T)
  OBVIOUS

\* What the client sends is heard.
LEMMA PostedHeard ==
  ASSUME Records, c_sent' \in SUBSET C!Requests, NEW p
  PROVE  Posted(p) \in SUBSET HeardDatagram'
<1> SUFFICES ASSUME NEW r \in c_sent'
             PROVE  DatagramOf(r).type = "HELLO" => DatagramOf(r).random \in greeted'
  BY PostedType DEF Posted, HeardDatagram
<1> SUFFICES ASSUME r.type = "HELLO"
             PROVE  r.random \in greeted'
  BY DEF DatagramOf
<1> QED
  BY DEF Records, NumbersIn

\* So is what the server sends.
LEMMA AnsweredHeard ==
  ASSUME Records, PortDrawn, Next, out' \in SUBSET Replies
  PROVE  Answered \in SUBSET HeardAnswer'
<1> SUFFICES ASSUME NEW r \in out'
             PROVE  /\ AnswerOf(r).type = "INFO_ACK" => AnswerOf(r).random \in confirmed'
                    /\ AnswerOf(r).type = "HELLO" => AnswerOf(r).random \in echoed'
  BY AnsweredType DEF Answered, HeardAnswer
<1>1. r.type \in {"SUBS_ACK", "SUBS_REJ", "INFO_ACK", "HELLO", "HELLO_REJ"}
  BY DEF Replies
<1>2. CASE r.type \in {"SUBS_ACK", "SUBS_REJ", "HELLO_REJ"}
  BY <1>2 DEF AnswerOf
<1>3. CASE r.type = "INFO_ACK"
  <2>1. r.random \in confirmed'
    BY <1>3 DEF Records, NumbersIn
  <2> QED
    BY <1>3, <2>1 DEF AnswerOf
<1>4. CASE r.type = "HELLO"
  <2>1. r.random \in echoed'
    BY <1>4 DEF Records, NumbersIn
  <2> QED
    BY <1>4, <2>1 DEF AnswerOf
<1> QED
  BY <1>1, <1>2, <1>3, <1>4

\* A step leaves nothing else on the wire.
LEMMA WireStep ==
  ASSUME SystemInv, SystemTypeOK', PortDrawn, OnWire, SystemNext, Records
  PROVE  OnWire'
<1> USE ToldStays DEF OnWire
<1>0. requests \in [Ports -> Seq(HeardDatagram')] /\ answers \in Seq(HeardAnswer')
  BY SeqGrows
<1>1. answers' \in Seq(HeardAnswer')
  <2>1. CASE Next /\ ServerDoes
    <3>1. Answered \in SUBSET HeardAnswer'
      BY <2>1, AnsweredHeard DEF SystemTypeOK, TypeOK
    <3> QED
      BY <1>0, <2>1, <3>1, EnqueueType DEF ServerDoes
  <2>2. CASE \/ UNCHANGED answers \/ (answers # <<>> /\ answers' = Tail(answers))
             \/ (Len(answers) > 1 /\ answers' = Swapped(answers))
    BY <1>0, <2>2, TailType, SwappedType
  <2> QED
    BY <2>1, <2>2, ServerSteps DEF SystemInv
<1>2. requests' \in [Ports -> Seq(HeardDatagram')]
  <2>1. CASE UNCHANGED requests
    BY <1>0, <2>1
  <2>2. ASSUME NEW p \in Ports, Queued(p), Read(p)
        PROVE  requests' \in [Ports -> Seq(HeardDatagram')]
    <3>1. Tail(requests[p]) \in Seq(HeardDatagram')
      BY <1>0, <2>2, TailType DEF Queued
    <3> QED
      BY <1>0, <2>2, <3>1 DEF Read
  <2>3. CASE ClientDoes
    <3>1. c_sent' \in SUBSET C!Requests
      BY DEF SystemTypeOK, C!TypeOK
    <3>2. \A p \in Ports : Enqueue(requests[p], Posted(p)) \in Seq(HeardDatagram')
      BY <1>0, <3>1, PostedHeard, EnqueueType
    <3> QED
      BY <2>3, <3>2 DEF ClientDoes
  <2>4. ASSUME NEW p \in Ports, Len(requests[p]) > 1,
               requests' = [requests EXCEPT ![p] = Swapped(@)]
        PROVE  requests' \in [Ports -> Seq(HeardDatagram')]
    <3>1. Swapped(requests[p]) \in Seq(HeardDatagram')
      BY <1>0, <2>4, SwappedType
    <3> QED
      BY <1>0, <2>4, <3>1
  <2> QED
    BY <2>1, <2>2, <2>3, <2>4, RequestSteps DEF SystemInv
<1> QED
  BY <1>1, <1>2

-----------------------------------------------------------------------------
(* The server takes nobody for running who has not said HELLO.             *)

\* In an undisturbed session of c with a number not in G there is no HELLO yet.
GreetedWith(c, G) ==
  ~disturbed[c] =>
    /\ state[c] = "SEND_HELLO" => random_num[c] \in G
    /\ \A t \in Thread : Serves(t, c) /\ tpc[t] = "hello_first" => random_num[c] \in G

\* A step by which a HELLO arrives, if one does, whose number is in G.
HearsOnly(G) ==
  \/ Tick \/ MainStep
  \/ \E m \in Datagram : MainReceive(m)
  \/ \E t \in Thread : HandlerStep(t)
  \/ \E t \in Thread, m \in Datagram :
       HandlerReceive(t, m) /\ (m.type = "HELLO" => m.random \in G)

\* Such a step keeps it so.
LEMMA GreetedStep ==
  ASSUME TypeOK, Placed, Sessions, NEW c \in Controller, NEW G, GreetedWith(c, G), HearsOnly(G)
  PROVE  GreetedWith(c, G)'
<1> SUFFICES ASSUME ~disturbed'[c]
             PROVE  /\ state'[c] = "SEND_HELLO" => random_num'[c] \in G
                    /\ \A t \in Thread : Serves(t, c)' /\ tpc'[t] = "hello_first" => random_num'[c] \in G
  BY DEF GreetedWith
<1> USE TableAssumption
<1> USE DEF TypeOK, Placed, table, kernel, main, threads, history, vars, Sessions,
            Session, MainAlone, ServedOnce, InStep, Offering,
            Handing, Dropping, Unserved, Serves, StateAt, InfoPoints, HelloPoints,
            TearDown, GreetedWith
<1>1. CASE Tick
  BY <1>1 DEF Tick
<1>2. CASE MainStep
  <2>1. CASE MainDropState \/ MainDropSocket \/ MainDropRandom
    BY <2>1 DEF MainDropState, MainDropSocket, MainDropRandom, set_state_controller,
       DropSocket, DropRandom
  <2>2. CASE MainRoll
    BY <2>2 DEF MainRoll
  <2>3. CASE MainBind \/ MainBindBusy \/ MainNoSocket \/ MainAck \/ MainSave \/ MainNoThread
    BY <2>3 DEF MainBind, MainBindBusy, MainNoSocket, MainAck, MainSave, MainNoThread
  <2>4. CASE MainNoTimeout
    BY <2>4 DEF MainNoTimeout, set_state_controller, DropSocket, DropRandom
  <2>5. CASE MainWaitInfo
    BY <2>5 DEF MainWaitInfo, set_state_controller
  <2>6. ASSUME NEW t \in Thread, MainSpawn(t)
        PROVE  /\ state'[c] = "SEND_HELLO" => random_num'[c] \in G
               /\ \A u \in Thread : Serves(u, c)' /\ tpc'[u] = "hello_first" => random_num'[c] \in G
    BY <2>6 DEF MainSpawn
  <2> QED
    BY <1>2, <2>1, <2>2, <2>3, <2>4, <2>5, <2>6 DEF MainStep
<1>3. ASSUME NEW m \in Datagram, MainReceive(m)
      PROVE  /\ state'[c] = "SEND_HELLO" => random_num'[c] \in G
             /\ \A t \in Thread : Serves(t, c)' /\ tpc'[t] = "hello_first" => random_num'[c] \in G
  <2>1. CASE MainIgnore(m) \/ MainReject(m)
    BY <2>1 DEF MainIgnore, MainReject
  <2>2. CASE MainOffer(m) /\ m.mac = c
    BY <2>2 DEF MainOffer, Registered, MayOffer, Disturb
  <2>3. CASE MainOffer(m) /\ m.mac # c
    BY <2>3 DEF MainOffer, Disturb
  <2>4. CASE MainEvict(m)
    BY <2>4 DEF MainEvict, Disturb
  <2> QED
    BY <1>3, <2>1, <2>2, <2>3, <2>4 DEF MainReceive
<1>4. ASSUME NEW t \in Thread, HandlerStep(t)
      PROVE  /\ state'[c] = "SEND_HELLO" => random_num'[c] \in G
             /\ \A u \in Thread : Serves(u, c)' /\ tpc'[u] = "hello_first" => random_num'[c] \in G
  <2>1. CASE HandlerStart(t)
    BY <2>1 DEF HandlerStart, At, Goto, Disturb
  <2>2. CASE HandlerMark(t) \/ InfoSet(t)
    BY <2>2 DEF HandlerMark, InfoSet, set_state_controller, At, Goto
  <2>3. CASE InfoCall(t) \/ InfoTimeout(t) \/ InfoAck(t) \/ HelloCheck(t) \/ HelloExpire(t) \/ HelloLeave(t)
             \/ HelloCall(t) \/ HelloTimeout(t) \/ HelloReply(t)
    BY <2>3 DEF InfoCall, InfoTimeout, InfoAck, HelloCheck, HelloExpire, HelloLeave, HelloCall,
       HelloTimeout, HelloReply, At, Goto
  <2>4. CASE InfoGiveUp(t) \/ HandlerClose(t)
    BY <2>4 DEF InfoGiveUp, HandlerClose, Return, At, Goto
  <2>5. CASE HelloFirst(t)
    BY <2>5 DEF HelloFirst, set_state_controller, At, Goto
  <2>6. CASE HandlerDropState(t) \/ HandlerDropSocket(t) \/ HandlerDropRandom(t)
    BY <2>6 DEF HandlerDropState, HandlerDropSocket, HandlerDropRandom, set_state_controller,
       DropSocket, DropRandom, At, Goto
  <2> QED
    BY <1>4, <2>1, <2>2, <2>3, <2>4, <2>5, <2>6 DEF HandlerStep
<1>5. ASSUME NEW t \in Thread, NEW m \in Datagram, HandlerReceive(t, m),
             m.type = "HELLO" => m.random \in G
      PROVE  /\ state'[c] = "SEND_HELLO" => random_num'[c] \in G
             /\ \A u \in Thread : Serves(u, c)' /\ tpc'[u] = "hello_first" => random_num'[c] \in G
  <2>1. CASE InfoReceive(t, m)
    BY <2>1 DEF InfoReceive, At, Goto
  <2>2. CASE HelloReceive(t, m)
    BY <1>5, <2>2 DEF HelloReceive, Matches, At, Goto
  <2> QED
    BY <1>5, <2>1, <2>2 DEF HandlerReceive
<1> QED
  BY <1>1, <1>2, <1>3, <1>4, <1>5 DEF HearsOnly

\* A HELLO that arrives has been sent.
LEMMA ServerHears ==
  ASSUME SystemTypeOK, OnWire, SystemNext
  PROVE  HearsOnly(greeted) \/ UNCHANGED vars
<1>1. CASE SystemTick \/ ServerMain \/ \E t \in Thread : ServerHandler(t)
  BY <1>1 DEF SystemTick, ServerMain, ServerHandler, HearsOnly
<1>2. ASSUME NEW p \in Ports, Queued(p), MainTakes(Head(requests[p]))
      PROVE  HearsOnly(greeted)
  BY <1>2, NetworkType DEF MainTakes, HearsOnly, MainReceive
<1>3. ASSUME NEW t \in Thread, sock[t] \in Port, Queued(sock[t]),
             HandlerReceive(t, Head(requests[sock[t]]))
      PROVE  HearsOnly(greeted)
  <2>1. Head(requests[sock[t]]) \in HeardDatagram
    BY <1>3, TailType DEF OnWire, Queued, Ports
  <2> QED
    BY <1>3, <2>1 DEF HearsOnly, HeardDatagram
<1>4. CASE ServerMainReceives \/ \E t \in Thread : ServerHandlerReceives(t)
  BY <1>2, <1>3, <1>4 DEF ServerMainReceives, ServerHandlerReceives, Ports
<1>5. CASE \/ ClientMain \/ ClientReceives \/ ClientQuit \/ Undeliverable \/ Lose \/ Reorder
           \/ \E h \in HelloThread : ClientHello(h)
  BY <1>5 DEF ClientMain, ClientReceives, ClientQuit, Undeliverable, Lose, Reorder,
     ClientHello, ClientDoes
<1>6. CASE Duplicate
  BY <1>2, <1>3, <1>6 DEF Duplicate, ClientDoes, Ports
<1> QED
  BY <1>1, <1>4, <1>5, <1>6 DEF SystemNext, Faulty

-----------------------------------------------------------------------------
(* The client takes no session for running that the server has not heard   *)
(* of.                                                                     *)

\* The number of a client that is, or is about to be, subscribed is in I, of one
\* in SEND_HELLO in E.
AgreedWith(I, E) ==
  ~c_haunted =>
    /\ c_mpc = "subscribed" => c_random_num \in I
    /\ c_state \in {"SUBSCRIBED", "SEND_HELLO"} /\ NotDropping => c_random_num \in I
    /\ \A h \in HelloThread : c_hpc[h] = "greet" => c_random_num \in E
    /\ c_state = "SEND_HELLO" /\ NotDropping => c_random_num \in E

\* A step by which an INFO_ACK with a number in I arrives, or a HELLO with one in
\* E, if either does.
Answers(I, E) ==
  \/ C!MainStep \/ C!Quit
  \/ \E h \in HelloThread : C!HelloStep(h)
  \/ \E m \in C!Answer :
       /\ m.type = "INFO_ACK" => m.random \in I
       /\ m.type = "HELLO" => m.random \in E
       /\ C!MainReceive(m) \/ \E h \in HelloThread : C!HelloReceive(h, m)

\* Such a step keeps it so.
LEMMA AgreedStep ==
  ASSUME C!TypeOK, C!UnhauntedSession, c_haunted => c_haunted', NEW I, NEW E, AgreedWith(I, E), Answers(I, E)
  PROVE  AgreedWith(I, E)'
<1> SUFFICES ASSUME ~c_haunted'
             PROVE  AgreedWith(I, E)'
  BY DEF AgreedWith
<1> USE DEF C!TypeOK, C!UnhauntedSession, C!Session, C!LiveOnce, C!LiveInStep, C!StaleQuiet, C!MainInStep,
            C!OfferKept, C!Live, C!Alive, C!Resting, C!MainOver, C!object, C!flags, C!main, C!hellos,
            C!history, C!vars, C!Goto, C!States, C!DropPoints,
            C!change_state_client, C!HelloGoto, AgreedWith, NotDropping
<1>1. CASE \/ C!MainSleep \/ C!MainTop \/ C!MainReset \/ C!MainSubscribes \/ C!MainConnects
           \/ C!Connected \/ C!ConnectTimeout
  BY <1>1 DEF C!MainSleep, C!MainTop, C!MainReset, C!MainSubscribes, C!MainConnects, C!Connected,
     C!ConnectTimeout
<1>2. CASE C!StartProcess \/ C!StartLeave \/ C!SendReq \/ C!ProcessFail \/ C!SendInfo
  BY <1>2 DEF C!StartProcess, C!StartLeave, C!SendReq, C!ProcessFail, C!SendInfo
<1>3. CASE C!Subscribed
  BY <1>3 DEF C!Subscribed
<1>4. CASE C!UndoPort \/ C!UndoRandom \/ C!Judge
  BY <1>4 DEF C!UndoPort, C!UndoRandom, C!Judge, C!JudgeRefused, C!JudgeNack, C!JudgeMissing
<1>5. CASE C!Restart \/ C!Again \/ C!Result \/ C!Exit \/ C!Quit
  BY <1>5 DEF C!Restart, C!Again, C!Result, C!Exit, C!Quit, C!exit_server
<1>6. ASSUME NEW h \in HelloThread, C!Spawn(h) PROVE AgreedWith(I, E)'
  BY <1>6 DEF C!Spawn
<1>7. CASE C!ReceiveNoAck(C!Silence) \/ C!ReceiveInfo(C!Silence)
  BY <1>7 DEF C!ReceiveNoAck, C!ReceiveInfo, C!Silence
<1>8. ASSUME NEW m \in C!Answer, m.type = "INFO_ACK" => m.random \in I, C!MainReceive(m)
      PROVE  AgreedWith(I, E)'
  <2>1. CASE C!ReceiveAck(m)
    BY <2>1 DEF C!ReceiveAck
  <2>2. CASE C!ReceiveInfo(m)
    BY <1>8, <2>2 DEF C!ReceiveInfo, C!check_info_ack_data
  <2>3. CASE C!ReceiveNoAck(m) \/ C!ReceiveGarbled(m)
    BY <2>3 DEF C!ReceiveNoAck, C!ReceiveGarbled
  <2> QED
    BY <1>8, <2>1, <2>2, <2>3 DEF C!MainReceive
<1>9. ASSUME NEW h \in HelloThread, C!HelloStep(h) PROVE AgreedWith(I, E)'
  <2>1. CASE C!HelloBegin(h) \/ C!HelloLoop(h) \/ C!HelloStop(h)
    BY <2>1 DEF C!HelloBegin, C!HelloLoop, C!HelloStop, C!Finish
  <2>2. CASE C!HelloLook(h)
    BY <2>2 DEF C!HelloLook
  <2>3. CASE C!HelloSend(h) \/ C!HelloReject(h) \/ C!HelloRejected(h) \/ C!HelloSilence(h)
    BY <2>3 DEF C!HelloSend, C!HelloReject, C!HelloRejected, C!HelloSilence
  <2>4. CASE C!HelloGreet(h)
    BY <2>4 DEF C!HelloGreet
  <2>5. CASE C!HelloDropPort(h) \/ C!HelloDropRandom(h)
    BY <2>5 DEF C!HelloDropPort, C!HelloDropRandom
  <2>6. CASE C!HelloDropState(h)
    BY <2>6 DEF C!HelloDropState
  <2> QED
    BY <1>9, <2>1, <2>2, <2>3, <2>4, <2>5, <2>6 DEF C!HelloStep
<1>10. ASSUME NEW h \in HelloThread, NEW m \in C!Answer, C!HelloReceive(h, m),
              m.type = "HELLO" => m.random \in E
       PROVE  AgreedWith(I, E)'
  BY <1>10 DEF C!HelloReceive, C!check_hello_recived, C!Finish
<1> QED
  BY <1>1, <1>2, <1>3, <1>4, <1>5, <1>6, <1>7, <1>8, <1>9, <1>10 DEF Answers, C!MainStep

\* An answer that arrives has been sent.
LEMMA ClientHears ==
  ASSUME SystemTypeOK, OnWire, SystemNext
  PROVE  Answers(confirmed, echoed) \/ UNCHANGED client
<1>1. CASE \/ SystemTick \/ ServerMain \/ ServerMainReceives
           \/ \E t \in Thread : ServerHandler(t) \/ ServerHandlerReceives(t)
           \/ Undeliverable \/ Lose \/ Reorder
  BY <1>1 DEF SystemTick, ServerMain, ServerMainReceives, ServerHandler,
     ServerHandlerReceives, Undeliverable, Lose, Reorder, ServerDoes
<1>2. CASE ClientMain \/ ClientQuit \/ \E h \in HelloThread : ClientHello(h)
  BY <1>2 DEF ClientMain, ClientQuit, ClientHello, Answers
<1>3. ASSUME answers # <<>>, ClientTakes(Head(answers))
      PROVE  Answers(confirmed, echoed)
  <2>1. Head(answers) \in HeardAnswer
    BY <1>3, TailType DEF OnWire
  <2> QED
    BY <1>3, <2>1 DEF ClientTakes, Answers, HeardAnswer, C!HelloStep
<1>4. CASE ClientReceives
  BY <1>3, <1>4 DEF ClientReceives
<1>5. CASE Duplicate
  BY <1>3, <1>5 DEF Duplicate, ServerDoes
<1> QED
  BY <1>1, <1>2, <1>4, <1>5 DEF SystemNext, Faulty

\* HELLO is sent with a number in I.
LEMMA GreetsWith ==
  ASSUME C!TypeOK, C!UnhauntedSession, ~c_haunted, NEW I, NEW E, AgreedWith(I, E), Answers(I, E)
  PROVE  NumbersIn(c_sent', "HELLO") \subseteq I
<1>1. CASE c_sent' = {}
  BY <1>1 DEF NumbersIn
<1>2. ASSUME NEW h \in HelloThread, C!HelloSend(h)
      PROVE  NumbersIn(c_sent', "HELLO") \subseteq I
  <2>1. C!Live(h)
    BY <1>2 DEF C!HelloSend, C!UnhauntedSession, C!Session, C!StaleQuiet, C!Live, C!Alive
  <2>2. c_state \in {"SUBSCRIBED", "SEND_HELLO"}
    BY <1>2, <2>1 DEF C!HelloSend, C!UnhauntedSession, C!Session, C!LiveInStep
  <2>3. NotDropping
    <3>1. \A g \in HelloThread : C!Alive(g) => C!Live(g) \/ c_hpc[g] \in {"loop", "look", "stop"}
      BY DEF C!UnhauntedSession, C!Session, C!StaleQuiet, C!Live
    <3>2. \A g \in HelloThread : C!Live(g) => g = h
      BY <2>1 DEF C!UnhauntedSession, C!Session, C!LiveOnce
    <3> QED
      BY <1>2, <3>1, <3>2 DEF NotDropping, C!DropPoints, C!Alive, C!HelloSend
  <2>4. c_random_num \in I
    BY <2>2, <2>3 DEF AgreedWith
  <2>5. \A r \in c_sent' : r.random = c_random_num
    BY <1>2, SendParts DEF C!HelloSend, C!TypeOK
  <2> QED
    BY <2>4, <2>5 DEF NumbersIn
<1>3. ASSUME NEW h \in HelloThread, C!HelloReject(h)
      PROVE  NumbersIn(c_sent', "HELLO") \subseteq I
  BY <1>3, SendParts DEF C!HelloReject, C!TypeOK, NumbersIn
<1>4. CASE C!SendReq \/ C!SendInfo
  BY <1>4, SendParts DEF C!SendReq, C!SendInfo, C!TypeOK, NumbersIn
<1>5. \/ c_sent' = {} \/ C!SendReq \/ C!SendInfo
      \/ \E h \in HelloThread : C!HelloSend(h) \/ C!HelloReject(h)
  BY DEF Answers, C!MainStep, C!MainReceive, C!HelloStep, C!MainSleep, C!MainTop, C!MainReset,
     C!MainSubscribes, C!MainConnects, C!Connected, C!ConnectTimeout, C!StartProcess, C!StartLeave,
     C!ProcessFail, C!Subscribed, C!UndoPort, C!UndoRandom, C!Judge, C!Restart, C!Again, C!Result, C!Exit,
     C!Spawn, C!Quit, C!ReceiveAck, C!ReceiveNoAck, C!ReceiveInfo, C!ReceiveGarbled, C!HelloBegin,
     C!HelloLoop, C!HelloLook, C!HelloStop, C!HelloSilence, C!HelloGreet, C!HelloRejected,
     C!HelloDropPort, C!HelloDropRandom, C!HelloDropState, C!HelloReceive
<1> QED
  BY <1>1, <1>2, <1>3, <1>4, <1>5

-----------------------------------------------------------------------------
(* The invariant and what follows from it.                                 *)

\* Each side in its sessions, what is on the wire sent, and what each side takes
\* for running heard of by the other.
AgreementInv ==
  /\ SystemInv /\ Sessions /\ C!UnhauntedSession
  /\ OnWire
  /\ NumbersIn(c_sent, "HELLO") \subseteq greeted
  /\ GreetedWith(Me, greeted)
  /\ AgreedWith(confirmed, echoed)
  /\ GreetsConfirmed

\* Every step keeps the invariant.
LEMMA AgreementStep ==
  ASSUME AgreementInv, SystemNext, Records
  PROVE  AgreementInv'
<1> PICK G, I, E : G = greeted /\ I = confirmed /\ E = echoed
  OBVIOUS
<1>1. SystemInv' /\ [Next]_vars /\ [C!Next]_(C!vars)
  BY SystemStep DEF AgreementInv
<1>2. Sessions'
  BY <1>1, SessionsStep DEF AgreementInv, SystemInv, SystemTypeOK
<1>3. c_haunted => c_haunted'
  BY <1>1, ClientHauntedStays DEF AgreementInv, SystemInv, SystemTypeOK
<1>4. C!UnhauntedSession'
  BY <1>1, <1>3, ClientSessionStep DEF AgreementInv, SystemInv, SystemTypeOK, C!UnhauntedSession
<1>5. OnWire'
  BY <1>1, WireStep DEF AgreementInv, SystemInv
<1>6. GreetedWith(Me, greeted)'
  <2>1. GreetedWith(Me, G) /\ G \subseteq greeted'
    BY ToldStays DEF AgreementInv
  <2>2. CASE UNCHANGED vars
    <3>1. UNCHANGED <<state, random_num, disturbed, tpc, pos, meant>>
      BY <2>2 DEF vars, table, threads, history
    <3> QED
      BY <2>1, <3>1 DEF GreetedWith, Serves
  <2>3. CASE HearsOnly(G)
    <3>1. GreetedWith(Me, G)'
      BY <2>1, <2>3, GreetedStep, MeAssumption DEF AgreementInv, SystemInv, SystemTypeOK
    <3> QED
      BY <2>1, <3>1 DEF GreetedWith
  <2> QED
    BY <2>2, <2>3, ServerHears DEF AgreementInv, SystemInv
<1>7. AgreedWith(confirmed, echoed)'
  <2>1. AgreedWith(I, E) /\ I \subseteq confirmed' /\ E \subseteq echoed'
    BY ToldStays DEF AgreementInv
  <2>2. CASE UNCHANGED client
    <3>1. UNCHANGED <<c_state, c_random_num, c_mpc, c_hpc, c_haunted>>
      BY <2>2 DEF client
    <3> QED
      BY <2>1, <3>1 DEF AgreedWith, NotDropping
  <2>3. CASE Answers(I, E)
    <3>1. AgreedWith(I, E)'
      BY <1>3, <2>1, <2>3, AgreedStep DEF AgreementInv, SystemInv, SystemTypeOK
    <3> QED
      BY <2>1, <3>1 DEF AgreedWith
  <2> QED
    BY <2>2, <2>3, ClientHears DEF AgreementInv, SystemInv
<1>8. NumbersIn(c_sent, "HELLO")' \subseteq greeted'
  BY DEF Records, NumbersIn
<1>9. GreetsConfirmed'
  <2> SUFFICES ASSUME ~c_haunted'
               PROVE  greeted' \subseteq confirmed'
    BY DEF GreetsConfirmed
  <2>1. greeted \subseteq confirmed /\ confirmed \subseteq confirmed'
    BY <1>3, ToldStays DEF AgreementInv, GreetsConfirmed
  <2>2. CASE UNCHANGED client
    <3>1. c_sent' = c_sent
      BY <2>2 DEF client
    <3> QED
      BY <2>1, <3>1 DEF Records, AgreementInv
  <2>3. CASE Answers(confirmed, echoed)
    <3>1. NumbersIn(c_sent', "HELLO") \subseteq confirmed
      BY <1>3, <2>3, GreetsWith DEF AgreementInv, SystemInv, SystemTypeOK
    <3> QED
      BY <2>1, <3>1 DEF Records
  <2> QED
    BY <2>2, <2>3, ClientHears DEF AgreementInv, SystemInv
<1> QED
  BY <1>1, <1>2, <1>4, <1>5, <1>6, <1>7, <1>8, <1>9 DEF AgreementInv

\* The initial states satisfy it.
LEMMA AgreementInitially == AgreementInit => AgreementInv
<1> SUFFICES ASSUME AgreementInit PROVE AgreementInv
  OBVIOUS
<1>1. SystemInv
  BY SystemInitially DEF AgreementInit
<1>2. Sessions
  BY Initially DEF AgreementInit, SystemInit, IInv
<1>3. C!UnhauntedSession
  BY DEF AgreementInit, SystemInit, C!Init, C!UnhauntedSession, C!Session, C!LiveOnce, C!LiveInStep,
     C!StaleQuiet, C!MainInStep, C!OfferKept, C!Live, C!Alive, C!Resting
<1>4. OnWire
  BY DEF AgreementInit, SystemInit, OnWire
<1>5. NumbersIn(c_sent, "HELLO") \subseteq greeted
  BY DEF AgreementInit, SystemInit, C!Init, NumbersIn
<1>6. GreetedWith(Me, greeted)
  BY MeAssumption DEF AgreementInit, SystemInit, Init, GreetedWith, Serves
<1>7. AgreedWith(confirmed, echoed)
  BY DEF AgreementInit, SystemInit, C!Init, AgreedWith
<1>8. GreetsConfirmed
  BY DEF AgreementInit, GreetsConfirmed
<1> QED
  BY <1>1, <1>2, <1>3, <1>4, <1>5, <1>6, <1>7, <1>8 DEF AgreementInv

\* AgreementInv is an invariant of the system with its record of what was said.
THEOREM AgreementInvariant == AgreementSpec => []AgreementInv
<1>1. ASSUME AgreementInv, [AgreementNext]_<<allVars, told>> PROVE AgreementInv'
  <2>1. CASE AgreementNext
    BY <1>1, <2>1, AgreementStep DEF AgreementNext
  <2>2. CASE UNCHANGED <<allVars, told>>
    <3>1. UNCHANGED allVars /\ UNCHANGED <<confirmed, greeted, echoed>>
      BY <2>2 DEF told
    <3>2. SystemInv' /\ [Next]_vars /\ [C!Next]_(C!vars)
      BY <1>1, <3>1, SystemStep DEF AgreementInv
    <3>3. UNCHANGED client /\ UNCHANGED vars /\ UNCHANGED network
      BY <3>1 DEF allVars
    <3>4. Sessions'
      BY <1>1, <3>2, SessionsStep DEF AgreementInv, SystemInv, SystemTypeOK
    <3>5. C!UnhauntedSession'
      BY <1>1, <3>2, <3>3, ClientHauntedStays, ClientSessionStep
         DEF AgreementInv, SystemInv, SystemTypeOK, C!UnhauntedSession
    <3>6. OnWire'
      BY <1>1, <3>1, <3>3 DEF AgreementInv, OnWire, HeardDatagram, HeardAnswer, network
    <3>7. NumbersIn(c_sent, "HELLO")' \subseteq greeted'
      BY <1>1, <3>1, <3>3 DEF AgreementInv, client, NumbersIn
    <3>8. GreetedWith(Me, greeted)'
      BY <1>1, <3>1, <3>3 DEF AgreementInv, GreetedWith, Serves, vars, table, threads, history
    <3>9. AgreedWith(confirmed, echoed)' /\ GreetsConfirmed'
      BY <1>1, <3>1, <3>3 DEF AgreementInv, AgreedWith, NotDropping, GreetsConfirmed, client
    <3> QED
      BY <3>2, <3>4, <3>5, <3>6, <3>7, <3>8, <3>9 DEF AgreementInv
  <2> QED
    BY <1>1, <2>1, <2>2
<1> QED
  BY <1>1, AgreementInitially, PTL DEF AgreementSpec

\* Whatever the network does, a controller the server takes for running has sent
\* a HELLO of this session.
THEOREM Greeted == AgreementSpec => []GreetedFirst
<1>1. AgreementInv => GreetedFirst
  BY DEF AgreementInv, GreetedWith, GreetedFirst
<1> QED
  BY <1>1, AgreementInvariant, PTL

\* Whatever the network does, a client that is subscribed is so in a session the
\* server has confirmed.
THEOREM Confirmed == AgreementSpec => []ConfirmedFirst
<1>1. AgreementInv => ConfirmedFirst
  BY DEF AgreementInv, AgreedWith, ConfirmedFirst
<1> QED
  BY <1>1, AgreementInvariant, PTL

\* A client in SEND_HELLO is so in a session in which the server has answered a
\* HELLO.
THEOREM Echoed == AgreementSpec => []EchoedFirst
<1>1. AgreementInv => EchoedFirst
  BY DEF AgreementInv, AgreedWith, EchoedFirst
<1> QED
  BY <1>1, AgreementInvariant, PTL

\* The client sends HELLO in sessions the server has confirmed.
THEOREM Greets == AgreementSpec => []GreetsConfirmed
<1>1. AgreementInv => GreetsConfirmed
  BY DEF AgreementInv
<1> QED
  BY <1>1, AgreementInvariant, PTL

\* The client's sessions stay in order before this server, too: at most one hello
\* thread belongs to the session, and the Client object keeps its offer.
THEOREM ClientKeeps == SystemSpec => []C!UnhauntedSession
<1>1. SystemInit => C!UnhauntedSession
  BY DEF SystemInit, C!Init, C!UnhauntedSession, C!Session, C!LiveOnce, C!LiveInStep,
     C!StaleQuiet, C!MainInStep, C!OfferKept, C!Live, C!Alive, C!Resting
<1>2. ASSUME SystemInv, SystemInv', C!UnhauntedSession, [SystemNext]_allVars
      PROVE  C!UnhauntedSession'
  <2>1. [C!Next]_(C!vars)
    BY <1>2, SystemStep
  <2> QED
    BY <1>2, <2>1, ClientHauntedStays, ClientSessionStep DEF SystemInv, SystemTypeOK, C!UnhauntedSession
<1> QED
  BY <1>1, <1>2, SystemInvariant, PTL DEF SystemSpec
=============================================================================
