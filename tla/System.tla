------------------------------- MODULE System -------------------------------
(***************************************************************************)
(* One Python client and the C server, joined by the network: what the     *)
(* client sends is a datagram to main's port or to the port of a handler,  *)
(* what the server sends is an answer in the client's one UDP socket.      *)
(*                                                                         *)
(* The variables of Server keep their names, those of Client get c_.  The  *)
(* network may lose, duplicate, reorder and delay; it makes at most        *)
(* MaxFaults faults, where a fault is a datagram lost or delivered twice,  *)
(* and a timeout that expires although an answer is still to come.  An     *)
(* answer that comes after such a timeout stays in the client's socket and *)
(* is read as the answer to a later request.                               *)
(***************************************************************************)
EXTENDS Server, Sequences

CONSTANTS
  Me,           \* the controller the client is
  SrvMac,       \* the address of the server
  NoMac, HelloThread, SrvUDP, Attempts,  \* as in Client
  Backlog,      \* the datagrams a socket's buffer holds
  MaxFaults     \* the faults the network may make

ASSUME MeAssumption == Me \in Controller
ASSUME ClientAssumption == /\ NoMac # SrvMac
                           /\ Attempts # {} /\ Attempts \subseteq Nat
ASSUME SrvUDPAssumption == SrvUDP \notin Port
ASSUME BoundsAssumption == Backlog \in Nat \ {0} /\ MaxFaults \in Nat

VARIABLES
  c_state, c_random_num, c_server_mac, c_port, c_hello_thread, c_run_main, c_open, c_tcp,
  c_mpc, c_count, c_n, c_o, c_answer, c_hpc, c_s, c_first, c_sent,
  c_offer, c_stale, c_haunted,
  requests,  \* the datagrams under way to each port of the server, or queued there
  answers,   \* those under way to the client, or queued in its socket
  faults     \* made so far

C == INSTANCE ClientInvariant WITH
  Mac <- {SrvMac},
  state <- c_state, random_num <- c_random_num, server_mac <- c_server_mac,
  port <- c_port, hello_thread <- c_hello_thread, run_main <- c_run_main,
  open <- c_open, tcp <- c_tcp, mpc <- c_mpc, count <- c_count, n <- c_n, o <- c_o,
  answer <- c_answer, hpc <- c_hpc, s <- c_s, first <- c_first, sent <- c_sent,
  offer <- c_offer, stale <- c_stale, haunted <- c_haunted

network == <<requests, answers, faults>>
client == <<c_state, c_random_num, c_server_mac, c_port, c_hello_thread, c_run_main, c_open,
            c_tcp, c_mpc, c_count, c_n, c_o, c_answer, c_hpc, c_s, c_first, c_sent,
            c_offer, c_stale, c_haunted>>
allVars == <<vars, client, network>>

-----------------------------------------------------------------------------
(* What one side sends, as the other side reads it.                        *)

\* As if a datagram were packed before the random number of SUBS_ACK is taken.
DatagramOfZeros(r) ==
  [type |-> r.type, mac |-> IF r.type = "HELLO_REJ" THEN Stranger ELSE Me, random |-> Zeros]

\* get_packet, then get_type_package and the validate functions.  The address
\* in a HELLO_REJ is the server's own; nothing looks at it.
DatagramOf(r) ==
  [type |-> r.type,
   mac |-> IF r.type = "HELLO_REJ" THEN Stranger ELSE Me,
   random |-> IF r.type \in {"SUBS_INFO", "HELLO"} THEN r.random ELSE Zeros]

Posted(p) == {DatagramOf(r) : r \in {x \in c_sent' : x.port = p}}

\* The create_pdu functions, then pdu_from_datagram.  The data of a HELLO are
\* those of the client's last, hence equal.
AnswerOf(r) ==
  CASE r.type = "SUBS_ACK" ->
         [type |-> "SUBS_ACK", mac |-> SrvMac, random |-> r.random, port |-> r.port]
    [] r.type \in {"INFO_ACK", "HELLO"} ->
         [type |-> r.type, mac |-> SrvMac, random |-> r.random]
    [] OTHER -> [type |-> r.type]

Answered == {AnswerOf(r) : r \in out'}

-----------------------------------------------------------------------------
(* Faults and timeouts.                                                    *)

NoFault == UNCHANGED faults

Fault == faults < MaxFaults /\ faults' = faults + 1

\* Somebody may still read from port p.
Readable(p) ==
  \/ p = SrvUDP
  \/ \E t \in Thread : sock[t] = p
  \/ \E f \in Fd : bound[f] = p /\ (f = mfd \/ \E c \in Controller : socket_child[c] = f)

Queued(p) == requests[p] # <<>>

\* Main draws another port only in another second.
Redrawing == mpc = "bind" /\ (InUse(assign_udp_port) \/ \A f \in Fd : bound[f] # Closed)

ServerBusy ==
  \/ mpc \notin {"recv", "exited"} /\ ~Redrawing
  \/ mpc = "recv" /\ Queued(SrvUDP)
  \/ mpc # "exited" /\ \E t \in Thread :
       \/ tpc[t] \notin {"free", "info_recv", "hello_recv"}
       \/ sock[t] \in Port /\ Queued(sock[t])

\* An answer is in the socket, or the server may still send one.
AnswerToCome == answers # <<>> \/ ServerBusy

\* The client will send to port p before its own next timeout.
ClientTalksTo(p) ==
  /\ c_open
  /\ c_port = p
  /\ \/ \E h \in HelloThread : C!Alive(h) /\ (c_hpc[h] = "recv" => AnswerToCome)
     \/ c_mpc \in {"info_send", "subscribed", "again", "start", "result", "spawn"}
     \/ c_mpc = "info_recv" /\ AnswerToCome

\* It has been offered a session and does not know yet.
ClientLearns == c_open /\ c_mpc = "ack_recv" /\ answers # <<>>

RequestToCome(t) ==
  \/ sock[t] \in Port /\ Queued(sock[t])
  \/ ClientTalksTo(sock[t])
  \/ ClientLearns

\* A step that waits lasts until its timeout; if what it waits for would
\* still have come, that is a fault of the network.
Patient(waits, toCome) == IF waits /\ toCome THEN Fault ELSE NoFault

-----------------------------------------------------------------------------
Ports == Port \cup {SrvUDP}

\* A step sends one datagram at most; it is dropped if the buffer is full.
Enqueue(queue, new) ==
  IF new = {} \/ Len(queue) >= Backlog THEN queue ELSE Append(queue, CHOOSE m \in new : TRUE)

SystemInit ==
  /\ Init
  /\ C!Init
  /\ requests = [p \in Ports |-> <<>>] /\ answers = <<>> /\ faults = 0

ServerDoes == answers' = Enqueue(answers, Answered) /\ UNCHANGED client

ClientDoes ==
  /\ requests' = [p \in Ports |-> Enqueue(requests[p], Posted(p))]
  /\ UNCHANGED vars

\* The first datagram at port p is read.
Read(p) == requests' = [requests EXCEPT ![p] = Tail(@)]

SystemTick == Tick /\ NoFault /\ ServerDoes /\ UNCHANGED requests

ServerMain == MainStep /\ NoFault /\ ServerDoes /\ UNCHANGED requests

\* The client is in the table, and is found there.
MainTakes(m) == MainIgnore(m) \/ MainOffer(m) \/ MainEvict(m)

ServerMainReceives ==
  /\ Queued(SrvUDP)
  /\ MainTakes(Head(requests[SrvUDP]))
  /\ NoFault
  /\ Read(SrvUDP)
  /\ ServerDoes

ServerHandler(t) ==
  /\ HandlerStep(t)
  /\ Patient(tpc[t] \in {"info_recv", "hello_recv"}, RequestToCome(t))
  /\ ServerDoes
  /\ UNCHANGED requests

ServerHandlerReceives(t) ==
  /\ sock[t] \in Port /\ Queued(sock[t])
  /\ HandlerReceive(t, Head(requests[sock[t]]))
  /\ NoFault
  /\ Read(sock[t])
  /\ ServerDoes

ClientMain ==
  /\ C!MainStep
  /\ Patient(c_open /\ c_mpc \in {"ack_recv", "info_recv"}, AnswerToCome)
  /\ ClientDoes
  /\ UNCHANGED answers

ClientHello(h) ==
  /\ C!HelloStep(h)
  /\ Patient(c_open /\ c_hpc[h] \in {"recv", "rejected"}, AnswerToCome)
  /\ ClientDoes
  /\ UNCHANGED answers

\* An answer is read; the answer to HELLO_REJ is not looked at.
ClientTakes(m) ==
  \/ C!MainReceive(m)
  \/ \E h \in HelloThread : C!HelloReceive(h, m) \/ (c_open /\ C!HelloRejected(h))

ClientReceives ==
  /\ answers # <<>>
  /\ ClientTakes(Head(answers))
  /\ NoFault
  /\ answers' = Tail(answers)
  /\ ClientDoes

ClientQuit == C!Quit /\ NoFault /\ ClientDoes /\ UNCHANGED answers

\* The socket a datagram was for is closed, or nobody holds it any more.
Undeliverable ==
  /\ \/ /\ \E p \in Ports : Queued(p) /\ ~Readable(p) /\ Read(p)
        /\ UNCHANGED answers
     \/ /\ answers # <<>> /\ ~c_open
        /\ answers' = Tail(answers)
        /\ UNCHANGED requests
  /\ NoFault
  /\ UNCHANGED <<vars, client>>

Lose ==
  /\ \/ \E p \in Ports : Queued(p) /\ Read(p) /\ UNCHANGED answers
     \/ answers # <<>> /\ answers' = Tail(answers) /\ UNCHANGED requests
  /\ Fault
  /\ UNCHANGED <<vars, client>>

Swapped(queue) == <<queue[2], queue[1]>> \o SubSeq(queue, 3, Len(queue))

\* The second datagram overtakes the first.
Reorder ==
  /\ \/ \E p \in Ports : /\ Len(requests[p]) > 1
                         /\ requests' = [requests EXCEPT ![p] = Swapped(@)]
                         /\ UNCHANGED answers
     \/ Len(answers) > 1 /\ answers' = Swapped(answers) /\ UNCHANGED requests
  /\ Fault
  /\ UNCHANGED <<vars, client>>

\* The first datagram comes twice: it is read, and still there.
Duplicate ==
  /\ \/ /\ \/ Queued(SrvUDP) /\ MainTakes(Head(requests[SrvUDP]))
           \/ \E t \in Thread : /\ sock[t] \in Port /\ Queued(sock[t])
                                /\ HandlerReceive(t, Head(requests[sock[t]]))
        /\ ServerDoes
        /\ UNCHANGED requests
     \/ /\ answers # <<>> /\ ClientTakes(Head(answers))
        /\ ClientDoes
        /\ UNCHANGED answers
  /\ Fault

Faulty == Lose \/ Reorder \/ Duplicate

SystemNext ==
  \/ SystemTick
  \/ ServerMain \/ ServerMainReceives
  \/ \E t \in Thread : ServerHandler(t) \/ ServerHandlerReceives(t)
  \/ ClientMain \/ ClientReceives \/ ClientQuit
  \/ \E h \in HelloThread : ClientHello(h)
  \/ Undeliverable
  \/ Faulty

SystemSpec == SystemInit /\ [][SystemNext]_allVars

\* Every thread of the server and every hello thread runs when it can, the
\* network delivers what it does not lose, and seconds pass while main draws
\* ports.
OthersFairness ==
  /\ WF_allVars(ServerMain)
  /\ WF_allVars(ServerMainReceives)
  /\ WF_allVars(Redrawing /\ SystemTick)
  /\ \A t \in Thread : WF_allVars(NoFault /\ (ServerHandler(t) \/ ServerHandlerReceives(t)))
  /\ WF_allVars(ClientReceives)
  /\ \A h \in HelloThread : WF_allVars(NoFault /\ ClientHello(h))
  /\ WF_allVars(Undeliverable)

\* So does the main thread of the client.
SystemFairness == OthersFairness /\ WF_allVars(NoFault /\ ClientMain)

-----------------------------------------------------------------------------
\* Each side is handed only what its module expects to receive, and stays
\* within its own types: the two modules fit together.
SystemTypeOK ==
  /\ TypeOK /\ C!TypeOK
  /\ requests \in [Ports -> Seq(Datagram)]
  /\ answers \in Seq(C!Answer)
  /\ faults \in 0 .. MaxFaults

\* The client has its INFO_ACK, the server a HELLO, and neither is undoing it.
BothSubscribed ==
  /\ c_state \in {"SUBSCRIBED", "SEND_HELLO"} /\ state[Me] = "SEND_HELLO"
  /\ \A h \in HelloThread : c_hpc[h] \notin C!DropPoints
  /\ \A t \in Thread : Serves(t, Me) => tpc[t] \notin TearDown

\* Two sides that both take the controller for subscribed mean the same
\* session: what the client has is what the server's table has, although each
\* learns it from datagrams that may be lost, late or repeated.
SameSession ==
  BothSubscribed /\ ~disturbed[Me] /\ ~c_haunted
    => c_random_num = random_num[Me] /\ c_port = udp_port[Me]

InSession == c_state = "SEND_HELLO" /\ state[Me] = "SEND_HELLO"

\* On a network that answers in time a client gets into a session and stays there,
\* unless it is told to quit or the server ends, and never gives up: neither its
\* own attempts nor the server's evictions use up what the other side allows.
GetsThrough ==
  /\ [](c_mpc = "exit" /\ c_run_main => mpc = "exited" \/ faults > 0)
  /\ <>[](InSession \/ mpc = "exited" \/ ~c_run_main \/ faults > 0)

\* The client is in a session that a hello thread keeps up.
Greeting == c_state = "SEND_HELLO" /\ c_run_main /\ \E h \in HelloThread : C!Alive(h)

\* Once the faults are over no side greets the other in vain: the server's retries
\* and the client's notice a dead session, one that the client has quit included,
\* and what is late in the sockets does not keep them apart for ever.  A client
\* left in SEND_HELLO without a hello thread (KeepsSendingHello) greets nobody.
EndInStep == <>[](state[Me] = "SEND_HELLO" <=> Greeting)
=============================================================================
