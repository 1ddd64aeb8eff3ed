---------------------------- MODULE SystemProofs ----------------------------
(***************************************************************************)
(* Each side of System runs as its own module says: System implements      *)
(* Server and Client, so that what is proved of them holds when they are   *)
(* joined, whatever the network does and however many faults it makes.     *)
(***************************************************************************)
EXTENDS System, ServerProofs

-----------------------------------------------------------------------------
(* The client's types.  (What ClientProofs proves of Client is about its   *)
(* own variables; here they are those of the instance.)                    *)

\* The type of an answer, and what the fields of a SUBS_ACK are.
LEMMA AnswerParts ==
  ASSUME NEW m \in C!Answer
  PROVE  /\ m.type \in C!AnswerTypes \cup {"GARBLED"}
         /\ m.type = "SUBS_ACK" => m.mac \in {SrvMac} /\ m.random \in RandomNum /\ m.port \in Port
  BY DEF C!Answer, C!AnswerTypes

\* Silence has a type too.
LEMMA SilenceType == C!Silence.type = "" /\ "" \in C!AnswerTypes
  BY DEF C!Silence, C!AnswerTypes

\* Send sends a request with the values of the Client object, or nothing.
LEMMA SendParts ==
  ASSUME NEW type \in {"SUBS_REQ", "SUBS_INFO", "HELLO", "HELLO_REJ"},
         c_random_num \in RandomNum, c_port \in Port \cup {SrvUDP}, C!Send(type)
  PROVE  /\ c_sent' \in SUBSET C!Requests
         /\ \A r \in c_sent' : r.type = type /\ r.random = c_random_num /\ r.port = c_port
  BY DEF C!Send, C!Requests

\* A hello thread that ends leaves its locals in their types.
LEMMA FinishType ==
  ASSUME C!TypeOK, NEW h \in HelloThread, C!Finish(h)
  PROVE  /\ c_hpc' \in [HelloThread -> C!HelloPoints] /\ c_s' \in [HelloThread -> Int]
         /\ c_first' \in [HelloThread -> BOOLEAN] /\ c_stale' \in [HelloThread -> BOOLEAN]
  BY DEF C!TypeOK, C!Finish, C!HelloGoto, C!HelloPoints

\* A step keeps every variable in its type, and a process runs only while
\* subscription_start has one left.
LEMMA ClientTypesStep ==
  ASSUME C!TypeOK, C!Counting, [C!Next]_(C!vars)
  PROVE  C!TypeOK' /\ C!Counting'
<1> USE DrawAssumption, ClientAssumption
<1> USE DEF C!TypeOK, C!Counting, C!object, C!flags, C!main, C!hellos, C!history, C!vars, C!Goto,
            C!States, C!MainPoints, C!SubscriptionPoints, C!HelloPoints, C!DropPoints, C!MAX_SUBCRIPTIONS,
            C!change_state_client, C!HelloGoto
<1>1. CASE C!MainSleep \/ C!MainTop \/ C!MainReset
  BY <1>1 DEF C!MainSleep, C!MainTop, C!MainReset
<1>2. CASE C!MainSubscribes \/ C!MainConnects \/ C!Connected \/ C!ConnectTimeout
  <2>1. CASE C!MainSubscribes
    <3>1. c_tcp' \in BOOLEAN
      BY <2>1 DEF C!MainSubscribes
    <3>2. /\ c_mpc' = "start" /\ c_o' = C!MAX_SUBCRIPTIONS /\ c_n' \in Attempts /\ c_sent' = {}
          /\ UNCHANGED <<C!object, c_hello_thread, c_run_main, c_open, c_count, c_answer, C!hellos, C!history>>
      BY <2>1 DEF C!MainSubscribes
    <3> QED
      BY <3>1, <3>2
  <2>2. CASE C!Connected
    <3>1. c_tcp' \in BOOLEAN
      BY <2>2 DEF C!Connected
    <3>2. /\ c_mpc' = "sleep" /\ c_sent' = {}
          /\ UNCHANGED <<C!object, c_hello_thread, c_run_main, c_open, c_count, c_n, c_o, c_answer, C!hellos, C!history>>
      BY <2>2 DEF C!Connected
    <3> QED
      BY <3>1, <3>2
  <2>3. CASE C!MainConnects \/ C!ConnectTimeout
    BY <2>3 DEF C!MainConnects, C!ConnectTimeout
  <2> QED
    BY <1>2, <2>1, <2>2, <2>3
<1>3. CASE C!StartProcess \/ C!StartLeave
  BY <1>3 DEF C!StartProcess, C!StartLeave
<1>4. CASE C!SendReq \/ C!SendInfo
  BY <1>4, SendParts DEF C!SendReq, C!SendInfo
<1>5. CASE C!ProcessFail \/ C!Subscribed \/ C!UndoPort \/ C!UndoRandom
  BY <1>5 DEF C!ProcessFail, C!Subscribed, C!UndoPort, C!UndoRandom
<1>6. CASE C!Judge
  <2>1. c_mpc = "judge" /\ c_count' = c_count + 1
    BY <1>6 DEF C!Judge, C!Count
  <2>2. c_state' \in C!States /\ c_mpc' \in {"restart", "attempt"}
    BY <1>6 DEF C!Judge, C!JudgeRefused, C!JudgeNack, C!JudgeMissing
  <2>3. UNCHANGED <<c_random_num, c_server_mac, c_port, C!flags, c_n, c_o, C!hellos, C!history>> /\ c_sent' = {}
    BY <1>6 DEF C!Judge
  <2>4. c_answer' \in C!AnswerTypes
    BY <1>6 DEF C!Judge, C!AnswerTypes
  <2> QED
    BY <2>1, <2>2, <2>3, <2>4
<1>7. CASE C!Restart \/ C!Again
  BY <1>7 DEF C!Restart, C!Again
<1>8. CASE C!Result \/ C!Exit
  <2>1. CASE C!Result
    BY <2>1 DEF C!Result
  <2>2. CASE C!Exit
    <3>1. c_hello_thread' \in BOOLEAN /\ c_run_main' \in BOOLEAN /\ c_open' \in BOOLEAN
      BY <2>2 DEF C!Exit, C!exit_server
    <3>2. c_mpc' = "exited" /\ UNCHANGED <<C!object, c_tcp, c_count, c_n, c_o, c_answer, C!hellos, C!history>> /\ c_sent' = {}
      BY <2>2 DEF C!Exit
    <3> QED
      BY <3>1, <3>2
  <2> QED
    BY <1>8, <2>1, <2>2
<1>9. ASSUME NEW h \in HelloThread, C!Spawn(h) PROVE C!TypeOK' /\ C!Counting'
  <2>1. c_mpc' = "sleep" /\ c_count' = 0 /\ c_o' = 0 /\ c_answer' \in C!AnswerTypes /\ c_sent' = {}
    BY <1>9 DEF C!Spawn, C!AnswerTypes
  <2>2. c_hpc' \in [HelloThread -> C!HelloPoints] /\ c_stale' \in [HelloThread -> BOOLEAN]
    BY <1>9 DEF C!Spawn
  <2>3. UNCHANGED <<C!object, C!flags, c_n, c_s, c_first, c_offer, c_haunted>>
    BY <1>9 DEF C!Spawn
  <2> QED
    BY <2>1, <2>2, <2>3
<1>10. ASSUME NEW m \in C!Answer \cup {C!Silence}, C!ReceiveNoAck(m) \/ C!ReceiveInfo(m) \/ C!ReceiveGarbled(m)
       PROVE  C!TypeOK' /\ C!Counting'
  <2>1. m.type \in C!AnswerTypes \cup {"GARBLED"}
    BY AnswerParts, SilenceType
  <2>2. CASE C!ReceiveNoAck(m)
    BY <2>1, <2>2 DEF C!ReceiveNoAck
  <2>3. CASE C!ReceiveInfo(m)
    BY <2>1, <2>3 DEF C!ReceiveInfo
  <2>4. CASE C!ReceiveGarbled(m)
    BY <2>4 DEF C!ReceiveGarbled
  <2> QED
    BY <1>10, <2>2, <2>3, <2>4
<1>11. ASSUME NEW m \in C!Answer, C!ReceiveAck(m) PROVE C!TypeOK' /\ C!Counting'
  BY <1>11, AnswerParts DEF C!ReceiveAck
<1>12. CASE C!Quit
  <2>1. c_hello_thread' \in BOOLEAN /\ c_run_main' \in BOOLEAN /\ c_open' \in BOOLEAN
    BY <1>12 DEF C!Quit, C!exit_server
  <2>2. UNCHANGED <<C!object, c_tcp, C!main, C!hellos, C!history>> /\ c_sent' = {}
    BY <1>12 DEF C!Quit
  <2> QED
    BY <2>1, <2>2
<1>13. ASSUME NEW h \in HelloThread, C!HelloStep(h) PROVE C!TypeOK' /\ C!Counting'
  <2>1. CASE C!HelloBegin(h)
    BY <2>1 DEF C!HelloBegin
  <2>2. CASE C!HelloLoop(h)
    <3>1. UNCHANGED <<C!object, C!flags, C!main, c_offer, c_haunted>> /\ c_sent' = {}
      BY <2>2 DEF C!HelloLoop
    <3>2. CASE C!HelloGoto(h, "look") /\ UNCHANGED <<c_s, c_first, c_stale>>
      BY <3>1, <3>2
    <3> QED
      BY <2>2, <3>1, <3>2, FinishType DEF C!HelloLoop
  <2>3. CASE C!HelloLook(h)
    <3>1. c_haunted' \in BOOLEAN
      BY <2>3 DEF C!HelloLook
    <3>2. /\ c_hpc' \in [HelloThread -> C!HelloPoints] /\ c_sent' = {}
          /\ UNCHANGED <<C!object, C!flags, C!main, c_s, c_first, c_offer, c_stale>>
      BY <2>3 DEF C!HelloLook
    <3> QED
      BY <3>1, <3>2
  <2>4. CASE C!HelloStop(h)
    <3>1. c_hello_thread' \in BOOLEAN
      BY <2>4 DEF C!HelloStop
    <3>2. /\ C!Finish(h) /\ c_sent' = {}
          /\ UNCHANGED <<C!object, c_run_main, c_open, c_tcp, C!main, c_offer, c_haunted>>
      BY <2>4 DEF C!HelloStop
    <3> QED
      BY <3>1, <3>2, FinishType
  <2>5. CASE C!HelloSend(h) \/ C!HelloReject(h)
    BY <2>5, SendParts DEF C!HelloSend, C!HelloReject
  <2>6. CASE C!HelloSilence(h)
    BY <2>6 DEF C!HelloSilence
  <2>7. CASE C!HelloGreet(h)
    BY <2>7 DEF C!HelloGreet
  <2>8. CASE C!HelloRejected(h)
    BY <2>8 DEF C!HelloRejected
  <2>9. CASE C!HelloDropPort(h)
    BY <2>9 DEF C!HelloDropPort
  <2>10. CASE C!HelloDropRandom(h)
    BY <2>10 DEF C!HelloDropRandom
  <2>11. CASE C!HelloDropState(h)
    <3>1. c_stale' \in [HelloThread -> BOOLEAN]
      BY <2>11 DEF C!HelloDropState
    <3>2. /\ c_hpc' \in [HelloThread -> C!HelloPoints] /\ c_sent' = {} /\ c_state' = "DISCONNECTED"
          /\ UNCHANGED <<c_random_num, c_server_mac, c_port, C!flags, C!main, c_s, c_first, c_offer, c_haunted>>
      BY <2>11 DEF C!HelloDropState
    <3> QED
      BY <3>1, <3>2
  <2> QED
    BY <1>13, <2>1, <2>2, <2>3, <2>4, <2>5, <2>6, <2>7, <2>8, <2>9, <2>10, <2>11 DEF C!HelloStep
<1>14. ASSUME NEW h \in HelloThread, NEW m \in C!Answer, C!HelloReceive(h, m)
       PROVE  C!TypeOK' /\ C!Counting'
  <2>1. UNCHANGED <<C!object, C!flags, C!main, c_offer, c_haunted>> /\ c_sent' = {}
    BY <1>14 DEF C!HelloReceive
  <2>2. CASE C!Finish(h)
    BY <2>1, <2>2, FinishType
  <2>3. CASE ~C!Finish(h)
    <3>1. /\ c_hpc' \in [HelloThread -> C!HelloPoints] /\ c_s' \in [HelloThread -> Int]
          /\ UNCHANGED <<c_first, c_stale>>
      BY <1>14, <2>3 DEF C!HelloReceive
    <3> QED
      BY <2>1, <3>1
  <2> QED
    BY <2>2, <2>3
<1>15. CASE UNCHANGED C!vars
  BY <1>15
<1> QED
  BY <1>1, <1>2, <1>3, <1>4, <1>5, <1>6, <1>7, <1>8, <1>9, <1>10, <1>11, <1>12, <1>13,
     <1>14, <1>15 DEF C!Next, C!MainStep, C!MainReceive

-----------------------------------------------------------------------------
(* Queues.                                                                 *)

\* Taking the first of a queue.
LEMMA TailType ==
  ASSUME NEW S, NEW q \in Seq(S), q # <<>>
  PROVE  Head(q) \in S /\ Tail(q) \in Seq(S)
  OBVIOUS

\* A queue takes what its datagrams may be.
LEMMA EnqueueType ==
  ASSUME NEW S, NEW q \in Seq(S), NEW new \in SUBSET S
  PROVE  Enqueue(q, new) \in Seq(S)
<1>1. CASE new = {} \/ Len(q) >= Backlog
  BY <1>1 DEF Enqueue
<1>2. CASE ~(new = {} \/ Len(q) >= Backlog)
  <2>1. (CHOOSE m \in new : TRUE) \in S
    BY <1>2
  <2> QED
    BY <1>2, <2>1 DEF Enqueue
<1> QED
  BY <1>1, <1>2

\* Overtaking keeps a queue a queue.
LEMMA SwappedType ==
  ASSUME NEW S, NEW q \in Seq(S), Len(q) > 1
  PROVE  Swapped(q) \in Seq(S)
<1>1. q[1] \in S /\ q[2] \in S
  OBVIOUS
<1>2. SubSeq(q, 3, Len(q)) \in Seq(S)
  OBVIOUS
<1>3. <<q[2], q[1]>> \in Seq(S)
  BY <1>1
<1> QED
  BY <1>2, <1>3 DEF Swapped

-----------------------------------------------------------------------------
(* What one side sends the other expects.                                  *)

\* What the client sends, the server can receive.
LEMMA PostedType ==
  ASSUME c_sent' \in SUBSET C!Requests, NEW p
  PROVE  Posted(p) \in SUBSET Datagram
<1> SUFFICES ASSUME NEW r \in C!Requests
             PROVE  DatagramOf(r) \in Datagram
  BY DEF Posted
<1> USE MeAssumption, DrawAssumption
<1>1. /\ r.type \in {"SUBS_REQ", "SUBS_INFO", "HELLO", "HELLO_REJ"}
      /\ r.random \in RandomNum
  BY DEF C!Requests
<1>2. CASE r.type \in {"SUBS_REQ", "HELLO_REJ"}
  BY <1>2 DEF DatagramOf, Datagram
<1>3. CASE r.type \in {"SUBS_INFO", "HELLO"}
  BY <1>1, <1>3 DEF DatagramOf, Datagram
<1> QED
  BY <1>1, <1>2, <1>3

\* Main has drawn a port when it sends SUBS_ACK.
PortDrawn == mpc = "ack" => udp_port[mc] \in Port

\* Main keeps the port it has drawn until SUBS_ACK is sent.
LEMMA PortStep ==
  ASSUME TypeOK, Placed, PortDrawn, [Next]_vars
  PROVE  PortDrawn'
<1>1. CASE MainBind
  <2>1. mc \in Controller /\ mc' = mc /\ udp_port' = [udp_port EXCEPT ![mc] = assign_udp_port]
    BY <1>1 DEF MainBind, Placed
  <2>2. assign_udp_port \in Port
    BY DrawAssumption DEF assign_udp_port, TypeOK
  <2> QED
    BY <2>1, <2>2 DEF TypeOK, PortDrawn
<1>2. CASE UNCHANGED <<mpc, mc, udp_port>>
  BY <1>2 DEF PortDrawn
<1>3. CASE mpc' # "ack"
  BY <1>3 DEF PortDrawn
<1>4. MainBind \/ UNCHANGED <<mpc, mc, udp_port>> \/ mpc' # "ack"
  <2>1. CASE MainStep
    BY <2>1 DEF MainStep, MainDropState, MainDropSocket, MainDropRandom, MainRoll,
       MainBindBusy, MainNoSocket, MainAck, MainNoTimeout, MainWaitInfo, MainSave,
       MainSpawn, MainNoThread, main, table
  <2>2. ASSUME NEW m \in Datagram, MainReceive(m)
        PROVE  UNCHANGED <<mpc, mc, udp_port>> \/ mpc' # "ack"
    BY <2>2 DEF MainReceive, MainIgnore, MainReject, MainOffer, MainEvict, main, table
  <2>3. ASSUME NEW t \in Thread, HandlerStep(t)
        PROVE  UNCHANGED <<mpc, mc, udp_port>>
    BY <2>3 DEF HandlerStep, HandlerStart, HandlerMark, InfoCall, InfoGiveUp, InfoTimeout,
       InfoAck, InfoSet, HelloCheck, HelloExpire, HelloLeave, HelloCall, HelloTimeout,
       HelloFirst, HelloReply, HandlerDropState, HandlerDropSocket, HandlerDropRandom,
       HandlerClose, main, table
  <2>4. ASSUME NEW t \in Thread, NEW m \in Datagram, HandlerReceive(t, m)
        PROVE  UNCHANGED <<mpc, mc, udp_port>>
    BY <2>4 DEF HandlerReceive, InfoReceive, HelloReceive, main, table
  <2>5. CASE Tick \/ UNCHANGED vars
    BY <2>5 DEF Tick, vars, main, table
  <2> QED
    BY <2>1, <2>2, <2>3, <2>4, <2>5 DEF Next
<1> QED
  BY <1>1, <1>2, <1>3, <1>4

\* A SUBS_ACK names a port.
LEMMA AckNamesPort ==
  ASSUME PortDrawn, Next
  PROVE  \A r \in out' : r.type = "SUBS_ACK" => r.port \in Port
<1>1. CASE MainAck
  BY <1>1 DEF MainAck, PortDrawn, Reply
<1>2. CASE MainStep /\ ~MainAck
  BY <1>2 DEF MainStep, MainDropState, MainDropSocket, MainDropRandom, MainRoll, MainBind,
     MainBindBusy, MainNoSocket, MainNoTimeout, MainWaitInfo, MainSave, MainSpawn,
     MainNoThread
<1>3. CASE Tick
  BY <1>3 DEF Tick
<1>4. ASSUME NEW m \in Datagram, MainReceive(m)
      PROVE  \A r \in out' : r.type # "SUBS_ACK"
  BY <1>4 DEF MainReceive, MainIgnore, MainReject, MainOffer, MainEvict, Reply
<1>5. ASSUME NEW t \in Thread, HandlerStep(t)
      PROVE  \A r \in out' : r.type # "SUBS_ACK"
  BY <1>5 DEF HandlerStep, HandlerStart, HandlerMark, InfoCall, InfoGiveUp, InfoTimeout,
     InfoAck, InfoSet, HelloCheck, HelloExpire, HelloLeave, HelloCall, HelloTimeout,
     HelloFirst, HelloReply, HandlerDropState, HandlerDropSocket, HandlerDropRandom,
     HandlerClose, SendOn, Reply
<1>6. ASSUME NEW t \in Thread, NEW m \in Datagram, HandlerReceive(t, m)
      PROVE  \A r \in out' : r.type # "SUBS_ACK"
  <2>1. CASE InfoReceive(t, m)
    BY <2>1 DEF InfoReceive, SendOn, Reply
  <2>2. CASE HelloReceive(t, m)
    BY <2>2 DEF HelloReceive, SendOn, Reply
  <2> QED
    BY <1>6, <2>1, <2>2 DEF HandlerReceive
<1> QED
  BY <1>1, <1>2, <1>3, <1>4, <1>5, <1>6 DEF Next

\* What the server sends, the client can receive.
LEMMA AnsweredType ==
  ASSUME PortDrawn, Next, out' \in SUBSET Replies
  PROVE  Answered \in SUBSET C!Answer
<1> SUFFICES ASSUME NEW r \in Replies, r.type = "SUBS_ACK" => r.port \in Port
             PROVE  AnswerOf(r) \in C!Answer
  BY AckNamesPort DEF Answered
<1>1. /\ r.type \in {"SUBS_ACK", "SUBS_REJ", "INFO_ACK", "HELLO", "HELLO_REJ"}
      /\ r.random \in RandomNum
  BY DEF Replies
<1>2. CASE r.type = "SUBS_ACK"
  BY <1>1, <1>2 DEF AnswerOf, C!Answer
<1>3. CASE r.type \in {"INFO_ACK", "HELLO"}
  BY <1>1, <1>3 DEF AnswerOf, C!Answer
<1>4. CASE r.type \in {"SUBS_REJ", "HELLO_REJ"}
  BY <1>4 DEF AnswerOf, C!Answer
<1> QED
  BY <1>1, <1>2, <1>3, <1>4

-----------------------------------------------------------------------------
(* The invariant.                                                          *)

SystemInv == SystemTypeOK /\ Placed /\ PortDrawn /\ C!Counting

\* Types of the network, for the steps that read from it.
LEMMA NetworkType ==
  ASSUME SystemTypeOK
  PROVE  /\ \A p \in Ports : Queued(p) => Head(requests[p]) \in Datagram
         /\ answers # <<>> => Head(answers) \in C!Answer
  BY TailType DEF SystemTypeOK, Queued

\* A step of the system is a step of the server or leaves it alone.
LEMMA ServerSteps ==
  ASSUME SystemTypeOK, SystemNext
  PROVE  \/ Next /\ ServerDoes
         \/ UNCHANGED vars /\ (UNCHANGED answers \/ (answers # <<>> /\ answers' = Tail(answers))
                                \/ (Len(answers) > 1 /\ answers' = Swapped(answers)))
<1> USE DEF Ports
<1>1. CASE SystemTick \/ ServerMain \/ \E t \in Thread : ServerHandler(t)
  BY <1>1 DEF SystemTick, ServerMain, ServerHandler, Next
<1>2. ASSUME NEW p \in Ports, Queued(p), MainTakes(Head(requests[p])), ServerDoes
      PROVE  Next /\ ServerDoes
  BY <1>2, NetworkType DEF MainTakes, Next, MainReceive
<1>3. ASSUME NEW t \in Thread, sock[t] \in Port, Queued(sock[t]),
             HandlerReceive(t, Head(requests[sock[t]])), ServerDoes
      PROVE  Next /\ ServerDoes
  BY <1>3, NetworkType DEF Next
<1>4. CASE ServerMainReceives \/ \E t \in Thread : ServerHandlerReceives(t)
  BY <1>2, <1>3, <1>4 DEF ServerMainReceives, ServerHandlerReceives
<1>5. CASE \/ ClientMain \/ ClientReceives \/ ClientQuit \/ Undeliverable \/ Lose \/ Reorder
           \/ \E h \in HelloThread : ClientHello(h)
  BY <1>5 DEF ClientMain, ClientReceives, ClientQuit, Undeliverable, Lose, Reorder,
     ClientHello, ClientDoes
<1>6. CASE Duplicate
  BY <1>2, <1>3, <1>6 DEF Duplicate, ClientDoes
<1> QED
  BY <1>1, <1>4, <1>5, <1>6 DEF SystemNext, Faulty

\* It is a step of the client or leaves that alone.
LEMMA ClientSteps ==
  ASSUME SystemTypeOK, SystemNext
  PROVE  \/ C!Next /\ ClientDoes
         \/ UNCHANGED client
<1>1. CASE \/ SystemTick \/ ServerMain \/ ServerMainReceives
           \/ \E t \in Thread : ServerHandler(t) \/ ServerHandlerReceives(t)
           \/ Undeliverable \/ Lose \/ Reorder
  BY <1>1 DEF SystemTick, ServerMain, ServerMainReceives, ServerHandler,
     ServerHandlerReceives, Undeliverable, Lose, Reorder, ServerDoes
<1>2. CASE ClientMain \/ ClientQuit \/ \E h \in HelloThread : ClientHello(h)
  BY <1>2 DEF ClientMain, ClientQuit, ClientHello, C!Next
<1>3. ASSUME answers # <<>>, ClientTakes(Head(answers)), ClientDoes
      PROVE  C!Next /\ ClientDoes
  BY <1>3, NetworkType DEF ClientTakes, C!Next, C!HelloStep
<1>4. CASE ClientReceives
  BY <1>3, <1>4 DEF ClientReceives
<1>5. CASE Duplicate
  BY <1>3, <1>5 DEF Duplicate, ServerDoes
<1> QED
  BY <1>1, <1>2, <1>4, <1>5 DEF SystemNext, Faulty

\* What a step does to the datagrams on their way to the server.
LEMMA RequestSteps ==
  ASSUME SystemTypeOK, SystemNext
  PROVE  \/ UNCHANGED requests
         \/ \E p \in Ports : Queued(p) /\ Read(p)
         \/ ClientDoes
         \/ \E p \in Ports : /\ Len(requests[p]) > 1
                             /\ requests' = [requests EXCEPT ![p] = Swapped(@)]
<1>1. CASE \/ SystemTick \/ ServerMain \/ \E t \in Thread : ServerHandler(t)
           \/ ClientMain \/ ClientReceives \/ ClientQuit
           \/ \E h \in HelloThread : ClientHello(h)
  BY <1>1 DEF SystemTick, ServerMain, ServerHandler, ClientMain, ClientReceives, ClientQuit,
     ClientHello
<1>2. CASE ServerMainReceives \/ \E t \in Thread : ServerHandlerReceives(t)
  BY <1>2 DEF ServerMainReceives, ServerHandlerReceives, Ports
<1>3. CASE Undeliverable \/ Lose \/ Reorder
  BY <1>3 DEF Undeliverable, Lose, Reorder
<1>4. CASE Duplicate
  BY <1>4 DEF Duplicate
<1> QED
  BY <1>1, <1>2, <1>3, <1>4 DEF SystemNext, Faulty

\* A step makes one fault at most, and none when they are used up.
LEMMA FaultSteps ==
  ASSUME SystemNext
  PROVE  NoFault \/ Fault
  BY DEF SystemNext, SystemTick, ServerMain, ServerMainReceives, ServerHandler,
     ServerHandlerReceives, ClientMain, ClientReceives, ClientQuit, ClientHello,
     Undeliverable, Faulty, Lose, Reorder, Duplicate, Patient

\* Every step keeps the invariant.
LEMMA SystemStep ==
  ASSUME SystemInv, [SystemNext]_allVars
  PROVE  SystemInv' /\ [Next]_vars /\ [C!Next]_(C!vars)
<1>1. CASE UNCHANGED allVars
  <2>1. UNCHANGED vars /\ UNCHANGED C!vars /\ UNCHANGED network
    BY <1>1 DEF allVars, client, C!vars, C!object, C!flags, C!main, C!hellos, C!history
  <2>2. TypeOK' /\ Placed' /\ PortDrawn'
    BY <2>1, TypesStep, PortStep DEF SystemInv, SystemTypeOK
  <2>3. C!TypeOK' /\ C!Counting'
    BY <2>1, ClientTypesStep DEF SystemInv, SystemTypeOK
  <2> QED
    BY <2>1, <2>2, <2>3 DEF SystemInv, SystemTypeOK, network
<1>2. CASE SystemNext
  <2>1. [Next]_vars
    BY <1>2, ServerSteps DEF SystemInv
  <2>2. [C!Next]_(C!vars)
    BY <1>2, ClientSteps DEF SystemInv, client, C!vars, C!object, C!flags, C!main, C!hellos, C!history
  <2>3. TypeOK' /\ Placed' /\ PortDrawn'
    BY <2>1, TypesStep, PortStep DEF SystemInv, SystemTypeOK
  <2>4. C!TypeOK' /\ C!Counting'
    BY <2>2, ClientTypesStep DEF SystemInv, SystemTypeOK
  <2>5. answers' \in Seq(C!Answer)
    <3>1. CASE Next /\ ServerDoes
      <4>1. Answered \in SUBSET C!Answer
        BY <3>1, <2>3, AnsweredType DEF SystemInv, TypeOK
      <4> QED
        BY <3>1, <4>1, EnqueueType DEF ServerDoes, SystemInv, SystemTypeOK
    <3>2. CASE \/ UNCHANGED answers \/ (answers # <<>> /\ answers' = Tail(answers))
               \/ (Len(answers) > 1 /\ answers' = Swapped(answers))
      BY <3>2, TailType, SwappedType DEF SystemInv, SystemTypeOK
    <3> QED
      BY <1>2, <3>1, <3>2, ServerSteps DEF SystemInv
  <2>6. requests' \in [Ports -> Seq(Datagram)]
    <3> USE DEF SystemInv, SystemTypeOK
    <3>1. CASE UNCHANGED requests
      BY <3>1
    <3>2. ASSUME NEW p \in Ports, Queued(p), Read(p)
          PROVE  requests' \in [Ports -> Seq(Datagram)]
      <4>1. Tail(requests[p]) \in Seq(Datagram)
        BY <3>2, TailType DEF Queued
      <4> QED
        BY <3>2, <4>1 DEF Read
    <3>3. CASE ClientDoes
      <4>1. c_sent' \in SUBSET C!Requests
        BY <2>4 DEF C!TypeOK
      <4>2. \A p \in Ports : Enqueue(requests[p], Posted(p)) \in Seq(Datagram)
        BY <4>1, PostedType, EnqueueType
      <4> QED
        BY <3>3, <4>2 DEF ClientDoes
    <3>4. ASSUME NEW p \in Ports, Len(requests[p]) > 1,
                 requests' = [requests EXCEPT ![p] = Swapped(@)]
          PROVE  requests' \in [Ports -> Seq(Datagram)]
      <4>1. Swapped(requests[p]) \in Seq(Datagram)
        BY <3>4, SwappedType
      <4> QED
        BY <3>4, <4>1
    <3> QED
      BY <1>2, <3>1, <3>2, <3>3, <3>4, RequestSteps
  <2>7. faults' \in 0 .. MaxFaults
    BY <1>2, FaultSteps, BoundsAssumption DEF NoFault, Fault, SystemInv, SystemTypeOK
  <2> QED
    BY <2>1, <2>2, <2>3, <2>4, <2>5, <2>6, <2>7 DEF SystemInv, SystemTypeOK
<1> QED
  BY <1>1, <1>2

\* The initial states of client and network satisfy it.
LEMMA SystemInitially == SystemInit => SystemInv
<1> SUFFICES ASSUME SystemInit PROVE SystemInv
  OBVIOUS
<1>1. TypeOK /\ Placed
  BY Initially DEF SystemInit, IInv
<1>2. PortDrawn
  BY DEF SystemInit, Init, PortDrawn
<1>3. C!TypeOK
  <2>1. /\ c_hello_thread \in BOOLEAN /\ c_run_main \in BOOLEAN /\ c_open \in BOOLEAN
        /\ c_tcp \in BOOLEAN /\ c_haunted \in BOOLEAN
    BY DEF SystemInit, C!Init
  <2>2. c_first \in [HelloThread -> BOOLEAN] /\ c_stale \in [HelloThread -> BOOLEAN]
    BY DEF SystemInit, C!Init
  <2>3. /\ c_state \in C!States /\ c_mpc \in C!MainPoints /\ c_answer \in C!AnswerTypes
        /\ c_hpc \in [HelloThread -> C!HelloPoints]
    BY DEF SystemInit, C!Init, C!States, C!MainPoints, C!HelloPoints, C!AnswerTypes
  <2>4. /\ c_random_num \in RandomNum /\ c_server_mac \in {SrvMac} \cup {NoMac}
        /\ c_port \in Port \cup {SrvUDP} /\ c_sent \in SUBSET C!Requests
        /\ c_offer \in [random : RandomNum, port : Port \cup {SrvUDP}]
    BY DrawAssumption DEF SystemInit, C!Init
  <2>5. c_count \in Nat /\ c_n \in Attempts /\ c_s \in [HelloThread -> Int]
    <3>1. c_count = 0 /\ c_n \in Attempts /\ c_s = [h \in HelloThread |-> 0]
      BY DEF SystemInit, C!Init
    <3> QED
      BY <3>1
  <2>6. c_o \in 0 .. C!MAX_SUBCRIPTIONS
    <3>1. c_o = 0
      BY DEF SystemInit, C!Init
    <3> QED
      BY <3>1 DEF C!MAX_SUBCRIPTIONS
  <2> QED
    BY <2>1, <2>2, <2>3, <2>4, <2>5, <2>6 DEF C!TypeOK
<1>4. C!Counting
  BY DEF SystemInit, C!Init, C!Counting, C!SubscriptionPoints
<1>5. requests \in [Ports -> Seq(Datagram)] /\ answers \in Seq(C!Answer)
  BY DEF SystemInit
<1>6. faults \in 0 .. MaxFaults
  BY BoundsAssumption DEF SystemInit
<1> QED
  BY <1>1, <1>2, <1>3, <1>4, <1>5, <1>6 DEF SystemInv, SystemTypeOK

\* SystemInv is an invariant of the system.
THEOREM SystemInvariant == SystemSpec => []SystemInv
<1>1. SystemInv /\ [SystemNext]_allVars => SystemInv'
  BY SystemStep
<1> QED
  BY <1>1, SystemInitially, PTL DEF SystemSpec

\* Each side is handed only what its module expects, and stays within its
\* types, for every number of handler and hello threads, faults and datagrams.
THEOREM SystemTypes == SystemSpec => []SystemTypeOK
<1>1. SystemInv => SystemTypeOK
  BY DEF SystemInv
<1> QED
  BY <1>1, SystemInvariant, PTL

\* The server of the system is a server: what holds of it among any clients
\* holds beside this one.
THEOREM ServerRuns == SystemSpec => Spec
<1>1. SystemInit => Init
  BY DEF SystemInit
<1>2. SystemInv /\ [SystemNext]_allVars => [Next]_vars
  BY SystemStep
<1> QED
  BY <1>1, <1>2, SystemInvariant, PTL DEF SystemSpec, Spec

\* Beside this client, too, INFO_ACK and HELLO carry the number of SUBS_ACK, and
\* every change of a controller's state is a step of the cycle.
THEOREM ServerKeeps ==
  SystemSpec => []RepliesCarryOffer /\ ImplementsRegistration /\ HandlersNear
  BY ServerRuns, CarryOffer, Implements, Nears, PTL

\* The client of the system is a client: what holds of it before any server
\* holds before this one.
THEOREM ClientRuns == SystemSpec => C!Spec
<1>1. SystemInit => C!Init
  BY DEF SystemInit
<1>2. SystemInv /\ [SystemNext]_allVars => [C!Next]_(C!vars)
  BY SystemStep
<1> QED
  BY <1>1, <1>2, SystemInvariant, PTL DEF SystemSpec, C!Spec
=============================================================================
