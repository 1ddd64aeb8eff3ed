------------------------------- MODULE Client -------------------------------
(***************************************************************************)
(* The Python client: the main thread, which subscribes (subscription_start*)
(* and subscription_process), and the threads that keep_communication runs *)
(* in, one for every subscription.  They share the Client object, the UDP  *)
(* socket, whose destination port each of them changes, and the flag       *)
(* common.hello_thread, of which there is one for all hello threads.       *)
(*                                                                         *)
(* The server is the environment: any datagram may be the answer to any    *)
(* request, and none may come; a TCP connection may be made, refused or    *)
(* time out.  Durations are left out: an answer comes or a timeout         *)
(* expires, and a thread that sleeps takes its next step later.            *)
(*                                                                         *)
(* `offer', `stale' and `haunted' are history variables.                   *)
(***************************************************************************)
EXTENDS Integers, FiniteSets

CONSTANTS
  HelloThread,  \* the hello threads that can be alive at once
  Mac,          \* the addresses a datagram can claim to come from
  NoMac,        \* server_mac before the first SUBS_ACK
  RandomNum,    \* random numbers, "00000000" among them
  Zeros,        \* "00000000"
  Port,         \* ports a SUBS_ACK can name
  SrvUDP,       \* the port of the server's main loop
  Attempts      \* the values n can have in subscription_start

ASSUME MacAssumption == NoMac \notin Mac
ASSUME ZerosAssumption == Zeros \in RandomNum
ASSUME AttemptsAssumption == Attempts # {} /\ Attempts \subseteq Nat

MAX_SUBCRIPTIONS == 3

States == {"DISCONNECTED", "NOT_SUBSCRIBED", "WAIT_ACK_SUBS", "WAIT_ACK_INFO",
           "SUBSCRIBED", "SEND_HELLO"}

\* What the client tells apart of an answer.  "OTHER" is a type that it sends
\* itself and never expects, and of which it reads nothing else; a HELLO whose
\* data differ from those sent counts with those whose random number differs;
\* "GARBLED" is whatever raises an exception when it is read: an unknown type, a
\* port that is no number.
Answer ==
  [type : {"SUBS_ACK"}, mac : Mac, random : RandomNum, port : Port]
  \cup [type : {"INFO_ACK", "HELLO"}, mac : Mac, random : RandomNum]
  \cup [type : {"SUBS_REJ", "SUBS_NACK", "HELLO_REJ", "OTHER", "GARBLED"}]

Silence == [type |-> ""]

AnswerTypes == {"", "SUBS_ACK", "INFO_ACK", "HELLO", "SUBS_REJ", "SUBS_NACK",
                "HELLO_REJ", "OTHER"}

Requests == [type : {"SUBS_REQ", "SUBS_INFO", "HELLO", "HELLO_REJ"},
             random : RandomNum, port : Port \cup {SrvUDP}]

VARIABLES
  \* the Client object and the destination of the UDP socket
  state, random_num, server_mac, port,
  \* the flags of common.py, whether the UDP socket is open, and whether
  \* there is a socket_tcp
  hello_thread, run_main, open, tcp,
  \* main: control point, count and n of subscription_process, o of
  \* subscription_start, and the type of the last answer
  mpc, count, n, o, answer,
  \* each hello thread: control point, s and first
  hpc, s, first,
  \* the datagrams sent by the last step
  sent,
  \* history: the offer of the last SUBS_ACK, the hello threads that have seen
  \* their session end, and whether one of them went on all the same
  offer, stale, haunted

object == <<state, random_num, server_mac, port>>
flags == <<hello_thread, run_main, open, tcp>>
main == <<mpc, count, n, o, answer>>
hellos == <<hpc, s, first>>
history == <<offer, stale, haunted>>
vars == <<object, flags, main, hellos, sent, history>>

SubscriptionPoints == {"start", "attempt", "ack_recv", "info_send", "info_recv",
                       "subscribed", "undo_port", "undo_random", "judge",
                       "again", "restart"}
MainPoints == {"sleep", "top", "reset", "look", "connect", "result", "spawn", "exit",
               "exited", "crashed"}
                \cup SubscriptionPoints
DropPoints == {"drop_port", "drop_random", "drop_state"}
HelloPoints == {"ended", "begin", "loop", "look", "stop", "send", "recv", "greet",
                "reject", "rejected"} \cup DropPoints

Alive(h) == hpc[h] # "ended"

\* The main thread has returned, or died of an exception it does not catch.
MainOver == mpc \in {"exited", "crashed"}

-----------------------------------------------------------------------------
Init ==
  /\ state = "NOT_SUBSCRIBED"
  /\ random_num = Zeros
  /\ server_mac = NoMac
  /\ port = SrvUDP
  /\ hello_thread = TRUE /\ run_main = TRUE /\ open = TRUE /\ tcp = FALSE
  /\ mpc = "sleep" /\ count = 0 /\ n \in Attempts /\ o = 0 /\ answer = ""
  /\ hpc = [h \in HelloThread |-> "ended"]
  /\ s = [h \in HelloThread |-> 0]
  /\ first = [h \in HelloThread |-> FALSE]
  /\ sent = {}
  /\ offer = [random |-> Zeros, port |-> SrvUDP]
  /\ stale = [h \in HelloThread |-> FALSE]
  /\ haunted = FALSE

change_state_client(st) == state' = st

\* A request built from the Client object, sent to the socket's destination;
\* nothing leaves a closed socket.
Send(type) ==
  sent' = IF open THEN {[type |-> type, random |-> random_num, port |-> port]} ELSE {}

\* recvData returns an answer only if the socket is open.
Receivable(m) == m = Silence \/ open

-----------------------------------------------------------------------------
(* main                                                                    *)

Goto(point) == mpc' = point

\* while common.run_main: time.sleep(1)
MainSleep ==
  /\ mpc = "sleep"
  /\ Goto(IF run_main THEN "top" ELSE "exited")
  /\ sent' = {}
  /\ UNCHANGED <<object, flags, count, n, o, answer, hellos, history>>

\* As if only a session that got its TCP connection were set back.
MainTopIfConnected ==
  /\ mpc = "top"
  /\ Goto(IF state = "DISCONNECTED" /\ tcp THEN "reset" ELSE "look")
  /\ sent' = {}
  /\ UNCHANGED <<object, flags, count, n, o, answer, hellos, history>>

MainTop ==
  /\ mpc = "top"
  /\ Goto(IF state = "DISCONNECTED" THEN "reset" ELSE "look")
  /\ sent' = {}
  /\ UNCHANGED <<object, flags, count, n, o, answer, hellos, history>>

MainReset ==
  /\ mpc = "reset"
  /\ state' = "NOT_SUBSCRIBED"
  /\ Goto("look")
  /\ sent' = {}
  /\ UNCHANGED <<random_num, server_mac, port, flags, count, n, o, answer, hellos, history>>

\* The TCP connection of the last session is closed and subscription_start
\* called.
MainSubscribes ==
  /\ mpc = "look"
  /\ state = "NOT_SUBSCRIBED"
  /\ tcp' = FALSE
  /\ o' = MAX_SUBCRIPTIONS /\ n' \in Attempts
  /\ Goto("start")
  /\ sent' = {}
  /\ UNCHANGED <<object, hello_thread, run_main, open, count, answer, hellos, history>>

\* Once in SEND_HELLO a connection is tried, once a session.
MainConnects ==
  /\ mpc = "look"
  /\ state # "NOT_SUBSCRIBED"
  /\ Goto(IF ~tcp /\ state = "SEND_HELLO" THEN "connect" ELSE "sleep")
  /\ sent' = {}
  /\ UNCHANGED <<object, flags, count, n, o, answer, hellos, history>>

\* setup_tcp: connect returns, or ConnectionRefusedError is caught.
Connected ==
  /\ mpc = "connect"
  /\ tcp' = TRUE
  /\ Goto("sleep")
  /\ sent' = {}
  /\ UNCHANGED <<object, hello_thread, run_main, open, count, n, o, answer, hellos, history>>

\* No answer to connect, as when the queue of a server that never accepts is
\* full: nobody catches TimeoutError, and the other threads go on alone.
ConnectTimeout ==
  /\ mpc = "connect"
  /\ Goto("crashed")
  /\ sent' = {}
  /\ UNCHANGED <<object, flags, count, n, o, answer, hellos, history>>

\* As if the bound were passed: o >= 0.
StartProcessOnceMore ==
  /\ mpc = "start"
  /\ state = "NOT_SUBSCRIBED" /\ o >= 0
  /\ count' = 0
  /\ Goto("attempt")
  /\ sent' = {}
  /\ UNCHANGED <<object, flags, n, o, answer, hellos, history>>

\* while client.get_current_state() == "NOT_SUBSCRIBED" and o > 0
StartProcess ==
  /\ mpc = "start"
  /\ state = "NOT_SUBSCRIBED" /\ o > 0
  /\ count' = 0
  /\ Goto("attempt")
  /\ sent' = {}
  /\ UNCHANGED <<object, flags, n, o, answer, hellos, history>>

StartLeave ==
  /\ mpc = "start"
  /\ state # "NOT_SUBSCRIBED" \/ o <= 0
  /\ Goto("result")
  /\ sent' = {}
  /\ UNCHANGED <<object, flags, count, n, o, answer, hellos, history>>

\* The next SUBS_REQ.
SendReq ==
  /\ mpc = "attempt"
  /\ count < n
  /\ change_state_client("WAIT_ACK_SUBS")
  /\ Send("SUBS_REQ")
  /\ Goto("ack_recv")
  /\ UNCHANGED <<random_num, server_mac, port, flags, count, n, o, answer, hellos, history>>

\* As if the state were left as it is.
ProcessFailKeepsState ==
  /\ mpc = "attempt"
  /\ count >= n
  /\ Goto("again")
  /\ sent' = {}
  /\ UNCHANGED <<object, flags, count, n, o, answer, hellos, history>>

\* n attempts have failed.
ProcessFail ==
  /\ mpc = "attempt"
  /\ count >= n
  /\ state' = "NOT_SUBSCRIBED"
  /\ Goto("again")
  /\ sent' = {}
  /\ UNCHANGED <<random_num, server_mac, port, flags, count, n, o, answer, hellos, history>>

\* SUBS_ACK: set_server_data and socket.set_port.
ReceiveAck(m) ==
  /\ mpc = "ack_recv"
  /\ Receivable(m)
  /\ m.type = "SUBS_ACK"
  /\ random_num' = m.random
  /\ server_mac' = m.mac
  /\ port' = m.port
  /\ offer' = [random |-> m.random, port |-> m.port]
  /\ Goto("info_send")
  /\ sent' = {}
  /\ UNCHANGED <<state, flags, count, n, o, answer, hellos, stale, haunted>>

ReceiveNoAck(m) ==
  /\ mpc = "ack_recv"
  /\ Receivable(m)
  /\ m.type \notin {"SUBS_ACK", "GARBLED"}
  /\ answer' = m.type
  /\ Goto("judge")
  /\ sent' = {}
  /\ UNCHANGED <<object, flags, count, n, o, hellos, history>>

SendInfo ==
  /\ mpc = "info_send"
  /\ change_state_client("WAIT_ACK_INFO")
  /\ Send("SUBS_INFO")
  /\ Goto("info_recv")
  /\ UNCHANGED <<random_num, server_mac, port, flags, count, n, o, answer, hellos, history>>

check_info_ack_data(m) == m.random = random_num /\ m.mac = server_mac

\* As if the type of the answer were not looked at.
ReceiveInfoOfAnyType(m) ==
  /\ mpc = "info_recv"
  /\ Receivable(m)
  /\ m.type # "GARBLED"
  /\ answer' = m.type
  /\ Goto(IF m.type \in {"SUBS_ACK", "INFO_ACK"} /\ check_info_ack_data(m)
          THEN "subscribed" ELSE "undo_port")
  /\ sent' = {}
  /\ UNCHANGED <<object, flags, count, n, o, hellos, history>>

ReceiveInfo(m) ==
  /\ mpc = "info_recv"
  /\ Receivable(m)
  /\ m.type # "GARBLED"
  /\ answer' = m.type
  /\ Goto(IF m.type = "INFO_ACK" /\ check_info_ack_data(m) THEN "subscribed" ELSE "undo_port")
  /\ sent' = {}
  /\ UNCHANGED <<object, flags, count, n, o, hellos, history>>

\* pdu_from_datagram returns None and get_attrs of it fails, or int does;
\* nobody catches the exception.
ReceiveGarbled(m) ==
  /\ mpc \in {"ack_recv", "info_recv"}
  /\ Receivable(m)
  /\ m.type = "GARBLED"
  /\ Goto("crashed")
  /\ sent' = {}
  /\ UNCHANGED <<object, flags, count, n, o, answer, hellos, history>>

Subscribed ==
  /\ mpc = "subscribed"
  /\ change_state_client("SUBSCRIBED")
  /\ Goto("again")
  /\ sent' = {}
  /\ UNCHANGED <<random_num, server_mac, port, flags, count, n, o, answer, hellos, history>>

\* disconnect_client_values
UndoPort ==
  /\ mpc = "undo_port"
  /\ port' = SrvUDP
  /\ Goto("undo_random")
  /\ sent' = {}
  /\ UNCHANGED <<state, random_num, server_mac, flags, count, n, o, answer, hellos, history>>

UndoRandom ==
  /\ mpc = "undo_random"
  /\ random_num' = Zeros
  /\ Goto("judge")
  /\ sent' = {}
  /\ UNCHANGED <<state, server_mac, port, flags, count, n, o, answer, hellos, history>>

\* What the last answer means for the process.  The two comparisons with
\* client.get_current_state, which is not called, never hold: a SUBS_ACK or
\* INFO_ACK out of place is treated like silence.
JudgeRefused ==
  /\ answer \in {"SUBS_REJ", "HELLO", "HELLO_REJ", "OTHER"}
  /\ change_state_client("NOT_SUBSCRIBED")
  /\ Goto("restart")

JudgeNack ==
  /\ answer = "SUBS_NACK"
  /\ change_state_client("NOT_SUBSCRIBED")
  /\ Goto("attempt")

JudgeMissing ==
  /\ answer \in {"", "SUBS_ACK", "INFO_ACK"}
  /\ Goto("attempt")
  /\ UNCHANGED state

\* As if count were not increased.
CountNot == UNCHANGED count

Count == count' = count + 1

\* The answer has been judged, and is not looked at again.
Judge ==
  /\ mpc = "judge"
  /\ Count
  /\ JudgeRefused \/ JudgeNack \/ JudgeMissing
  /\ answer' = ""
  /\ sent' = {}
  /\ UNCHANGED <<random_num, server_mac, port, flags, n, o, hellos, history>>

\* subscription_process has returned True, or False.
Restart ==
  /\ mpc = "restart"
  /\ o' = MAX_SUBCRIPTIONS
  /\ Goto("start")
  /\ sent' = {}
  /\ UNCHANGED <<object, flags, count, n, answer, hellos, history>>

Again ==
  /\ mpc = "again"
  /\ o' = o - 1
  /\ Goto("start")
  /\ sent' = {}
  /\ UNCHANGED <<object, flags, count, n, answer, hellos, history>>

\* subscription_start looks at the state once more to tell success.
Result ==
  /\ mpc = "result"
  /\ Goto(IF state = "SUBSCRIBED" THEN "spawn" ELSE "exit")
  /\ sent' = {}
  /\ UNCHANGED <<object, flags, count, n, o, answer, hellos, history>>

\* subscription_start returns, and its locals are gone: a new hello thread.
Spawn(h) ==
  /\ mpc = "spawn"
  /\ ~Alive(h)
  /\ hpc' = [hpc EXCEPT ![h] = "begin"]
  /\ stale' = [stale EXCEPT ![h] = FALSE]
  /\ count' = 0 /\ o' = 0 /\ answer' = ""
  /\ Goto("sleep")
  /\ sent' = {}
  /\ UNCHANGED <<object, flags, n, s, first, offer, haunted>>

\* The flags are cleared and the sockets closed; the sys.exit at the end is
\* swallowed by the except around it.
exit_server == hello_thread' = FALSE /\ run_main' = FALSE /\ open' = FALSE

\* Subscription failed: the main thread ends.
Exit ==
  /\ mpc = "exit"
  /\ exit_server
  /\ Goto("exited")
  /\ sent' = {}
  /\ UNCHANGED <<object, tcp, count, n, o, answer, hellos, history>>

\* Ctrl+C at any time, or the command quit.
Quit ==
  /\ run_main
  /\ exit_server
  /\ sent' = {}
  /\ UNCHANGED <<object, tcp, main, hellos, history>>

MainStep ==
  \/ MainSleep \/ MainTop \/ MainReset \/ MainSubscribes \/ MainConnects
  \/ Connected \/ ConnectTimeout \/ StartProcess \/ StartLeave
  \/ SendReq \/ ProcessFail \/ SendInfo \/ Subscribed \/ UndoPort \/ UndoRandom
  \/ Judge \/ Restart \/ Again \/ Result \/ Exit
  \/ \E h \in HelloThread : Spawn(h)
  \/ ReceiveNoAck(Silence) \/ ReceiveInfo(Silence)

MainReceive(m) ==
  ReceiveAck(m) \/ ReceiveNoAck(m) \/ ReceiveInfo(m) \/ ReceiveGarbled(m)

-----------------------------------------------------------------------------
(* keep_communication                                                      *)

HelloGoto(h, point) == hpc' = [hpc EXCEPT ![h] = point]

\* The thread ends, and its locals are gone.
Finish(h) == /\ HelloGoto(h, "ended")
             /\ s' = [s EXCEPT ![h] = 0]
             /\ first' = [first EXCEPT ![h] = FALSE]
             /\ stale' = [stale EXCEPT ![h] = FALSE]

HelloBegin(h) ==
  /\ hpc[h] = "begin"
  /\ hello_thread' = TRUE
  /\ s' = [s EXCEPT ![h] = 3]
  /\ first' = [first EXCEPT ![h] = TRUE]
  /\ HelloGoto(h, "loop")
  /\ sent' = {}
  /\ UNCHANGED <<object, run_main, open, tcp, main, history>>

\* while common.hello_thread
HelloLoop(h) ==
  /\ hpc[h] = "loop"
  /\ \/ hello_thread /\ HelloGoto(h, "look") /\ UNCHANGED <<s, first, stale>>
     \/ ~hello_thread /\ Finish(h)
  /\ sent' = {}
  /\ UNCHANGED <<object, flags, main, offer, haunted>>

ValidState(h) == state = "SEND_HELLO" \/ (first[h] /\ state = "SUBSCRIBED")

HelloLook(h) ==
  /\ hpc[h] = "look"
  /\ HelloGoto(h, IF ValidState(h) THEN "send" ELSE "stop")
  /\ haunted' = (haunted \/ (stale[h] /\ ValidState(h)))
  /\ sent' = {}
  /\ UNCHANGED <<object, flags, main, s, first, offer, stale>>

\* As if the branch at the end of the loop only went round again.
HelloStopGoesOn(h) ==
  /\ hpc[h] = "stop"
  /\ HelloGoto(h, "loop")
  /\ sent' = {}
  /\ UNCHANGED <<object, flags, main, s, first, history>>

\* common.hello_thread = False ends this thread, and every other.
HelloStop(h) ==
  /\ hpc[h] = "stop"
  /\ hello_thread' = FALSE
  /\ Finish(h)
  /\ sent' = {}
  /\ UNCHANGED <<object, run_main, open, tcp, main, offer, haunted>>

HelloSend(h) ==
  /\ hpc[h] = "send"
  /\ Send("HELLO")
  /\ HelloGoto(h, "recv")
  /\ UNCHANGED <<object, flags, main, s, first, history>>

\* No answer in time.
HelloSilence(h) ==
  /\ hpc[h] = "recv"
  /\ s' = [s EXCEPT ![h] = @ - 1]
  /\ HelloGoto(h, IF s[h] <= 1 THEN "drop_port" ELSE "loop")
  /\ sent' = {}
  /\ UNCHANGED <<object, flags, main, first, history>>

\* As if the data were not compared either.
check_hello_no_data(m) ==
  m.type \in {"HELLO", "INFO_ACK"} /\ m.mac = server_mac /\ m.random = random_num

\* Address, random number and data are compared, not the type, but a HELLO is
\* the only one of which the client reads all three.
check_hello_recived(m) ==
  m.type = "HELLO" /\ m.mac = server_mac /\ m.random = random_num

\* An exception ends this thread, and the state is left as it is.
HelloReceive(h, m) ==
  /\ hpc[h] = "recv"
  /\ open
  /\ \/ /\ m.type = "HELLO_REJ"
        /\ HelloGoto(h, "drop_port")
        /\ UNCHANGED <<s, first, stale>>
     \/ /\ m.type # "HELLO_REJ"
        /\ check_hello_recived(m)
        /\ s' = [s EXCEPT ![h] = 3]
        /\ HelloGoto(h, IF first[h] THEN "greet" ELSE "loop")
        /\ UNCHANGED <<first, stale>>
     \/ /\ m.type \notin {"HELLO_REJ", "GARBLED"}
        /\ ~check_hello_recived(m)
        /\ HelloGoto(h, "reject")
        /\ UNCHANGED <<s, first, stale>>
     \/ m.type = "GARBLED" /\ Finish(h)
  /\ sent' = {}
  /\ UNCHANGED <<object, flags, main, offer, haunted>>

HelloGreet(h) ==
  /\ hpc[h] = "greet"
  /\ change_state_client("SEND_HELLO")
  /\ first' = [first EXCEPT ![h] = FALSE]
  /\ HelloGoto(h, "loop")
  /\ sent' = {}
  /\ UNCHANGED <<random_num, server_mac, port, flags, main, s, history>>

\* HELLO_REJ is sent, and an answer to it awaited and thrown away.
HelloReject(h) ==
  /\ hpc[h] = "reject"
  /\ Send("HELLO_REJ")
  /\ HelloGoto(h, "rejected")
  /\ UNCHANGED <<object, flags, main, s, first, history>>

HelloRejected(h) ==
  /\ hpc[h] = "rejected"
  /\ HelloGoto(h, "drop_port")
  /\ sent' = {}
  /\ UNCHANGED <<object, flags, main, s, first, history>>

\* As if the state were changed before disconnect_client_values.
HelloDropPortLate(h) ==
  /\ hpc[h] = "drop_port"
  /\ port' = SrvUDP
  /\ change_state_client("DISCONNECTED")
  /\ HelloGoto(h, "drop_random")
  /\ sent' = {}
  /\ UNCHANGED <<random_num, server_mac, flags, main, s, first, history>>

\* disconnect_client_values, then the new state.
HelloDropPort(h) ==
  /\ hpc[h] = "drop_port"
  /\ port' = SrvUDP
  /\ HelloGoto(h, "drop_random")
  /\ sent' = {}
  /\ UNCHANGED <<state, random_num, server_mac, flags, main, s, first, history>>

HelloDropRandom(h) ==
  /\ hpc[h] = "drop_random"
  /\ random_num' = Zeros
  /\ HelloGoto(h, "drop_state")
  /\ sent' = {}
  /\ UNCHANGED <<state, server_mac, port, flags, main, s, first, history>>

\* As if the client went straight to a new subscription.
HelloDropStateStraight(h) ==
  /\ hpc[h] = "drop_state"
  /\ change_state_client("NOT_SUBSCRIBED")
  /\ HelloGoto(h, "loop")
  /\ stale' = [g \in HelloThread |-> stale[g] \/ Alive(g)]
  /\ sent' = {}
  /\ UNCHANGED <<random_num, server_mac, port, flags, main, s, first, offer, haunted>>

HelloDropState(h) ==
  /\ hpc[h] = "drop_state"
  /\ change_state_client("DISCONNECTED")
  /\ HelloGoto(h, "loop")
  /\ stale' = [g \in HelloThread |-> stale[g] \/ Alive(g)]
  /\ sent' = {}
  /\ UNCHANGED <<random_num, server_mac, port, flags, main, s, first, offer, haunted>>

HelloStep(h) ==
  \/ HelloBegin(h) \/ HelloLoop(h) \/ HelloLook(h) \/ HelloStop(h) \/ HelloSend(h)
  \/ HelloSilence(h) \/ HelloGreet(h) \/ HelloReject(h) \/ HelloRejected(h)
  \/ HelloDropPort(h) \/ HelloDropRandom(h) \/ HelloDropState(h)

-----------------------------------------------------------------------------
Next ==
  \/ MainStep
  \/ Quit
  \/ \E m \in Answer : MainReceive(m)
  \/ \E h \in HelloThread : HelloStep(h)
  \/ \E h \in HelloThread, m \in Answer : HelloReceive(h, m)

Spec == Init /\ [][Next]_vars

\* Python runs every thread that can run; every wait has a timeout.
Fairness ==
  /\ WF_vars(MainStep)
  /\ \A h \in HelloThread : WF_vars(HelloStep(h))

-----------------------------------------------------------------------------
(* Types.  s may fall below zero: a thread that was not stopped between two *)
(* sessions keeps counting down.                                           *)
TypeOK ==
  /\ state \in States
  /\ random_num \in RandomNum
  /\ server_mac \in Mac \cup {NoMac}
  /\ port \in Port \cup {SrvUDP}
  /\ hello_thread \in BOOLEAN /\ run_main \in BOOLEAN
  /\ open \in BOOLEAN /\ tcp \in BOOLEAN
  /\ mpc \in MainPoints
  /\ count \in Nat
  /\ n \in Attempts
  /\ o \in 0 .. MAX_SUBCRIPTIONS
  /\ answer \in AnswerTypes
  /\ hpc \in [HelloThread -> HelloPoints]
  /\ s \in [HelloThread -> Int]
  /\ first \in [HelloThread -> BOOLEAN]
  /\ sent \in SUBSET Requests
  /\ offer \in [random : RandomNum, port : Port \cup {SrvUDP}]
  /\ stale \in [HelloThread -> BOOLEAN]
  /\ haunted \in BOOLEAN

\* Every HELLO goes to the port and bears the random number of the last
\* SUBS_ACK, although main and the hello threads set both without a lock,
\* unless a hello thread has outlived its session.
HelloBearsOffer ==
  ~haunted => \A r \in sent : r.type = "HELLO" => /\ r.random = offer.random
                                                /\ r.port = offer.port

\* The states of common.py follow one another as the protocol has them, with
\* main and the hello threads each setting some, unless a hello thread has
\* outlived its session.
Moves ==
  {<<"NOT_SUBSCRIBED", "WAIT_ACK_SUBS">>, <<"WAIT_ACK_SUBS", "NOT_SUBSCRIBED">>,
   <<"WAIT_ACK_SUBS", "WAIT_ACK_INFO">>, <<"WAIT_ACK_INFO", "WAIT_ACK_SUBS">>,
   <<"WAIT_ACK_INFO", "NOT_SUBSCRIBED">>, <<"WAIT_ACK_INFO", "SUBSCRIBED">>,
   <<"SUBSCRIBED", "SEND_HELLO">>, <<"SUBSCRIBED", "DISCONNECTED">>,
   <<"SEND_HELLO", "DISCONNECTED">>, <<"DISCONNECTED", "NOT_SUBSCRIBED">>}

FollowsProtocol == [][~haunted' => <<state, state'>> \in Moves]_state

\* A client that nobody told to quit gives up only after MAX_SUBCRIPTIONS
\* processes without success, unless a hello thread has outlived its session.
GivesUpLast == mpc = "exit" /\ run_main /\ ~haunted => o = 0

\* Subscription ends, in success or failure, once no more answers come: the
\* nested loops of subscription_start and subscription_process are bounded.
SubscriptionEnds == mpc \in SubscriptionPoints ~> mpc \notin SubscriptionPoints

\* The steps main takes at most until subscription_start returns, if no answer
\* comes: from its loop with k processes left, from that of subscription_process
\* after k attempts, and from any point.
LoopLeft(k) == k * (3 * n + 3) + 1

ProcessLeft(k) == 3 * (n - k) + 2 + LoopLeft(o - 1)

\* The answer makes subscription_start begin anew.
Refused == answer \in {"SUBS_REJ", "HELLO", "HELLO_REJ", "OTHER"}

JudgedLeft == IF Refused THEN 2 + LoopLeft(MAX_SUBCRIPTIONS) ELSE 1 + ProcessLeft(count + 1)

SubscriptionLeft ==
  CASE mpc \notin SubscriptionPoints -> 0
    [] mpc = "start"       -> LoopLeft(o)
    [] mpc = "attempt"     -> ProcessLeft(count)
    [] mpc = "ack_recv"    -> 2 + ProcessLeft(count + 1)
    [] mpc = "info_send"   -> 5 + ProcessLeft(count + 1)
    [] mpc = "info_recv"   -> 4 + ProcessLeft(count + 1)
    [] mpc = "undo_port"   -> 2 + JudgedLeft
    [] mpc = "undo_random" -> 1 + JudgedLeft
    [] mpc = "judge"       -> JudgedLeft
    [] mpc = "restart"     -> 1 + LoopLeft(MAX_SUBCRIPTIONS)
    [] mpc = "subscribed"  -> 2 + LoopLeft(o - 1)
    [] mpc = "again"       -> 1 + LoopLeft(o - 1)

\* Every step of main brings subscription_start nearer its end, whatever the hello
\* threads do to the state meanwhile; only an answer takes it further away, as one
\* that makes it begin anew does.
SubscriptionNears ==
  [][/\ mpc \in SubscriptionPoints /\ MainStep =>
          SubscriptionLeft' \in Nat /\ SubscriptionLeft' < SubscriptionLeft
     /\ SubscriptionLeft' > SubscriptionLeft =>
          MainSubscribes \/ \E m \in Answer : MainReceive(m)]_vars

\* After exit_server every thread ends, although main goes on where it was
\* and a hello thread that only starts now sets the flag again.
QuitEnds == ~run_main ~> (MainOver /\ \A h \in HelloThread : ~Alive(h))

\* A session that is over is followed by a new subscription, whatever main was
\* doing when a hello thread ended it, unless the main thread has died or a hello
\* thread has outlived its session: that one may set SEND_HELLO again before
\* main, asleep for a second at a time, has seen the state.
Resubscribes ==
  state = "DISCONNECTED" ~>
    mpc \in SubscriptionPoints \/ ~run_main \/ mpc = "crashed" \/ haunted

-----------------------------------------------------------------------------
(* What comments of the repository say and the code does not do.           *)

\* common.py:54: in SEND_HELLO the controller is sending HELLO packets; one
\* hello thread may clear common.hello_thread for the one that replaced it.
KeepsSendingHello ==
  state = "SEND_HELLO" ~> (state # "SEND_HELLO" \/ ~run_main \/ \E h \in HelloThread : hpc[h] = "send")
=============================================================================
