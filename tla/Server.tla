------------------------------- MODULE Server -------------------------------
(***************************************************************************)
(* The C server: the main loop of server.c (it answers SUBS_REQ and offers *)
(* a session), the controller_handler threads it creates, and what they    *)
(* share: the table of controllers and the process's socket descriptors.   *)
(*                                                                         *)
(* The clients are the environment: any datagram may arrive at any time on *)
(* any socket of the server.  A step of the module touches one cell that   *)
(* another thread may be writing, or several only where no interleaving of *)
(* the accesses could be told apart; disconnect_controller, whose three    *)
(* assignments other threads do see between, is three steps.               *)
(*                                                                         *)
(* `offered', `disturbed' and `calm' are history variables: no step of the *)
(* server depends on them.                                                 *)
(***************************************************************************)
EXTENDS Integers, FiniteSets

CONSTANTS
  Controller,  \* the controllers of controllers.dat
  Stranger,    \* stands for every sender that is not in controllers.dat
  Thread,      \* the handler threads pthread_create can have running at once
  NumFds,      \* descriptors the process may still open for sessions
  Port,        \* the UDP ports assign_udp_port can draw
  RandomNum,   \* random numbers, "00000000" among them
  Zeros,       \* "00000000"
  Seed,        \* the values of time(NULL), one per second
  PortOf,      \* the port rand() yields after srand(seed)
  RandomOf     \* the random number it yields

Fd == 1 .. NumFds
NoFd == -1
Closed == "closed"
Unbound == "unbound"
NoPort == "no port"

ASSUME TableAssumption == Stranger \notin Controller
ASSUME FdAssumption == NumFds \in Nat
ASSUME PortAssumption == {Closed, Unbound, NoPort} \cap Port = {}
ASSUME DrawAssumption == /\ Zeros \in RandomNum
                         /\ PortOf \in [Seed -> Port]
                         /\ RandomOf \in [Seed -> RandomNum]

ClientStates == {"DISCONNECTED", "WAIT_INFO", "SUBSCRIBED", "SEND_HELLO"}

\* What the server tells apart of a datagram: its type, who sent it, and, in
\* SUBS_INFO and HELLO alone, the session it claims to belong to.  "OTHER" is
\* every type neither main nor a handler expects.
Datagram ==
  [type : {"SUBS_REQ", "HELLO_REJ", "OTHER"},
   mac : Controller \cup {Stranger}, random : {Zeros}]
  \cup [type : {"SUBS_INFO", "HELLO"},
        mac : Controller \cup {Stranger}, random : RandomNum]

Reply(type, to, random, port) ==
  [type |-> type, to |-> to, random |-> random, port |-> port]

Replies ==
  [type : {"SUBS_ACK", "SUBS_REJ", "INFO_ACK", "HELLO", "HELLO_REJ"},
   to : Controller \cup {Stranger}, random : RandomNum, port : Port \cup {NoPort}]

VARIABLES
  \* the table: one ControllerInfo per controller
  state, random_num, udp_port, socket_child,
  \* the kernel: what each descriptor is bound to, and the current second
  bound, seed,
  \* main: its control point, the controller and socket in hand, and the one
  \* ControllerHandlerArgs on its stack that every new thread is pointed at
  mpc, mc, mfd, args_pos,
  \* each thread: control point, controller, the socket it is blocked on and
  \* whether that call has no timeout, the retries left (s, then x), `first',
  \* and the controller it is for
  tpc, pos, sock, forever, tries, first, meant,
  \* the datagrams sent by the last step
  out,
  \* history: the random number SUBS_ACK last offered to each controller,
  \* whether anything but its own handler and client has touched its session,
  \* and whether no session was ever touched so
  offered, disturbed, calm

table == <<state, random_num, udp_port, socket_child>>
kernel == <<bound, seed>>
main == <<mpc, mc, mfd, args_pos>>
threads == <<tpc, pos, sock, forever, tries, first, meant>>
history == <<offered, disturbed, calm>>
vars == <<table, kernel, main, threads, out, history>>

MainPoints == {"recv", "roll", "bind", "ack", "wait", "save", "spawn",
               "drop1", "drop2", "drop3", "exited"}
InfoPoints == {"info_call", "info_recv"}
HelloPoints == {"hello_check", "hello_call", "hello_recv", "hello_first", "hello_reply"}
TearDown == {"drop1", "drop2", "drop3", "close"}
ThreadPoints == {"free", "start", "mark", "info_ack", "info_set"}
                  \cup InfoPoints \cup HelloPoints \cup TearDown

\* Thread t is running on account of controller c.
Serves(t, c) ==
  /\ tpc[t] # "free"
  /\ c = IF tpc[t] = "start" THEN meant[t] ELSE pos[t]

-----------------------------------------------------------------------------
(* read_controllers_file leaves every controller DISCONNECTED.             *)
Init ==
  /\ state = [c \in Controller |-> "DISCONNECTED"]
  /\ random_num = [c \in Controller |-> Zeros]
  /\ udp_port = [c \in Controller |-> NoPort]
  /\ socket_child = [c \in Controller |-> NoFd]
  /\ bound = [f \in Fd |-> Closed]
  /\ seed \in Seed
  /\ mpc = "recv" /\ mc = Stranger /\ mfd = NoFd /\ args_pos = Stranger
  /\ tpc = [t \in Thread |-> "free"]
  /\ pos = [t \in Thread |-> Stranger]
  /\ sock = [t \in Thread |-> NoPort]
  /\ forever = [t \in Thread |-> FALSE]
  /\ tries = [t \in Thread |-> 0]
  /\ first = [t \in Thread |-> TRUE]
  /\ meant = [t \in Thread |-> Stranger]
  /\ out = {}
  /\ offered = [c \in Controller |-> Zeros]
  /\ disturbed = [c \in Controller |-> FALSE]
  /\ calm = TRUE

\* A session is disturbed when SUBS_REQ comes again while its handler runs,
\* when it is offered before the last handler of that controller has finished,
\* and when a handler reads the position of another controller.
Disturb(d) == /\ disturbed' = d
              /\ calm' = (calm /\ \A c \in Controller : ~d[c])

\* The second changes: the next draws start from another seed.
Tick ==
  /\ seed' \in Seed \ {seed}
  /\ out' = {}
  /\ UNCHANGED <<table, bound, main, threads, history>>

-----------------------------------------------------------------------------
(* The main loop.                                                          *)

set_state_controller(c, s) == state' = [state EXCEPT ![c] = s]

DropSocket(c) == socket_child' = [socket_child EXCEPT ![c] = NoFd]

DropRandom(c) == random_num' = [random_num EXCEPT ![c] = Zeros]

\* recvfrom returns a datagram that is not a SUBS_REQ: main ignores it.
MainIgnore(m) ==
  /\ mpc = "recv"
  /\ m.type # "SUBS_REQ"
  /\ out' = {}
  /\ UNCHANGED <<table, kernel, main, threads, history>>

\* validate_sub_req finds no controller.  It may also miss a registered one:
\* mac_to_check[13] = '\0' writes past its array, and what it overwrites is
\* the compiler's choice (the offset total_bytes, in some builds).
MainReject(m) ==
  /\ mpc = "recv"
  /\ m.type = "SUBS_REQ"
  /\ out' = {Reply("SUBS_REJ", m.mac, Zeros, NoPort)}
  /\ UNCHANGED <<table, kernel, main, threads, history>>

\* validate_sub_req finds the sender in the table.
Registered(m) == m.mac \in Controller

\* As if main did not look at the state.
MayOfferAlways(c) == TRUE

MayOffer(c) == state[c] = "DISCONNECTED"

\* A registered controller that is DISCONNECTED: main starts a session.
MainOffer(m) ==
  /\ mpc = "recv"
  /\ m.type = "SUBS_REQ"
  /\ Registered(m)
  /\ MayOffer(m.mac)
  /\ mpc' = "roll"
  /\ mc' = m.mac
  /\ Disturb([c \in Controller |->
                IF c = m.mac
                THEN \E t \in Thread : /\ Serves(t, c)
                                       /\ disturbed[c] \/ tpc[t] \in TearDown
                ELSE disturbed[c]])
  /\ out' = {}
  /\ UNCHANGED <<table, kernel, mfd, args_pos, threads, offered>>

\* A registered controller in any other state: main disconnects it and does
\* not answer.
MainEvict(m) ==
  /\ mpc = "recv"
  /\ m.type = "SUBS_REQ"
  /\ Registered(m)
  /\ state[m.mac] # "DISCONNECTED"
  /\ mpc' = "drop1"
  /\ mc' = m.mac
  /\ Disturb([c \in Controller |->
                disturbed[c] \/ (c = m.mac /\ \E t \in Thread : Serves(t, c))])
  /\ out' = {}
  /\ UNCHANGED <<table, kernel, mfd, args_pos, threads, offered>>

MainDropState ==
  /\ mpc = "drop1"
  /\ set_state_controller(mc, "DISCONNECTED")
  /\ mpc' = "drop2"
  /\ out' = {}
  /\ UNCHANGED <<random_num, udp_port, socket_child, kernel, mc, mfd, args_pos,
                 threads, history>>

MainDropSocket ==
  /\ mpc = "drop2"
  /\ DropSocket(mc)
  /\ mpc' = "drop3"
  /\ out' = {}
  /\ UNCHANGED <<state, random_num, udp_port, kernel, mc, mfd, args_pos,
                 threads, history>>

MainDropRandom ==
  /\ mpc = "drop3"
  /\ DropRandom(mc)
  /\ mpc' = "recv"
  /\ mc' = Stranger
  /\ out' = {}
  /\ UNCHANGED <<state, udp_port, socket_child, kernel, mfd, args_pos,
                 threads, history>>

\* Both call srand(time(NULL)) before they draw.
generate_random_number == RandomOf[seed]
assign_udp_port == PortOf[seed]

MainRoll ==
  /\ mpc = "roll"
  /\ random_num' = [random_num EXCEPT ![mc] = generate_random_number]
  /\ mpc' = "bind"
  /\ out' = {}
  /\ UNCHANGED <<state, udp_port, socket_child, kernel, mc, mfd, args_pos,
                 threads, history>>

\* As if SO_REUSEPORT were set before bind.
InUseNever(p) == FALSE

\* A port is free once no descriptor is left for its socket and no recvfrom is
\* under way on it.
InUse(p) == (\E f \in Fd : bound[f] = p) \/ (\E t \in Thread : sock[t] = p)

\* The descriptor socket() returns: the lowest one that is closed.
LowestFree(f) == /\ bound[f] = Closed
                 /\ \A g \in Fd : bound[g] = Closed => f <= g

\* create_udp_socket(assign_udp_port()) succeeds.
MainBind ==
  /\ mpc = "bind"
  /\ udp_port' = [udp_port EXCEPT ![mc] = assign_udp_port]
  /\ ~InUse(assign_udp_port)
  /\ \E f \in Fd : /\ LowestFree(f)
                   /\ bound' = [bound EXCEPT ![f] = assign_udp_port]
                   /\ mfd' = f
  /\ mpc' = "ack"
  /\ out' = {}
  /\ UNCHANGED <<state, random_num, socket_child, seed, mc, args_pos, threads, history>>

\* The port is in use: bind fails, the socket just opened stays open with
\* nobody holding it (the caller closes -1), and main draws again.
MainBindBusy ==
  /\ mpc = "bind"
  /\ udp_port' = [udp_port EXCEPT ![mc] = assign_udp_port]
  /\ InUse(assign_udp_port)
  /\ \E f \in Fd : /\ LowestFree(f)
                   /\ bound' = [bound EXCEPT ![f] = Unbound]
  /\ out' = {}
  /\ UNCHANGED <<state, random_num, socket_child, seed, main, threads, history>>

\* No descriptor is left: socket() fails and main draws again.
MainNoSocket ==
  /\ mpc = "bind"
  /\ udp_port' = [udp_port EXCEPT ![mc] = assign_udp_port]
  /\ \A f \in Fd : bound[f] # Closed
  /\ out' = {}
  /\ UNCHANGED <<state, random_num, socket_child, kernel, main, threads, history>>

\* SO_RCVTIMEO is set and SUBS_ACK is sent.
MainAck ==
  /\ mpc = "ack"
  /\ bound[mfd] # Closed
  /\ out' = {Reply("SUBS_ACK", mc, random_num[mc], udp_port[mc])}
  /\ offered' = [offered EXCEPT ![mc] = random_num[mc]]
  /\ mpc' = "wait"
  /\ UNCHANGED <<table, kernel, mc, mfd, args_pos, threads, disturbed, calm>>

\* setsockopt fails, as it must when a handler has closed the descriptor: the
\* session is undone and the server exits.
MainNoTimeout ==
  /\ mpc = "ack"
  /\ set_state_controller(mc, "DISCONNECTED")
  /\ DropSocket(mc)
  /\ DropRandom(mc)
  /\ bound' = [bound EXCEPT ![mfd] = Closed]
  /\ mpc' = "exited"
  /\ out' = {}
  /\ UNCHANGED <<udp_port, seed, mc, mfd, args_pos, threads, history>>

MainWaitInfo ==
  /\ mpc = "wait"
  /\ set_state_controller(mc, "WAIT_INFO")
  /\ mpc' = "save"
  /\ out' = {}
  /\ UNCHANGED <<random_num, udp_port, socket_child, kernel, mc, mfd, args_pos,
                 threads, history>>

MainSave ==
  /\ mpc = "save"
  /\ socket_child' = [socket_child EXCEPT ![mc] = mfd]
  /\ mpc' = "spawn"
  /\ out' = {}
  /\ UNCHANGED <<state, random_num, udp_port, kernel, mc, mfd, args_pos,
                 threads, history>>

\* argsThread.pos is set and pthread_create starts the handler, which is
\* given the address of argsThread.
MainSpawn(t) ==
  /\ mpc = "spawn"
  /\ tpc[t] = "free"
  /\ tpc' = [tpc EXCEPT ![t] = "start"]
  /\ meant' = [meant EXCEPT ![t] = mc]
  /\ args_pos' = mc
  /\ mpc' = "recv"
  /\ mc' = Stranger
  /\ mfd' = NoFd
  /\ out' = {}
  /\ UNCHANGED <<table, kernel, pos, sock, forever, tries, first, history>>

\* pthread_create fails: the server exits.
MainNoThread ==
  /\ mpc = "spawn"
  /\ \A t \in Thread : tpc[t] # "free"
  /\ mpc' = "exited"
  /\ args_pos' = mc
  /\ out' = {}
  /\ UNCHANGED <<table, kernel, mc, mfd, threads, history>>

MainStep ==
  \/ MainDropState \/ MainDropSocket \/ MainDropRandom
  \/ MainRoll \/ MainBind \/ MainBindBusy \/ MainNoSocket
  \/ MainAck \/ MainNoTimeout \/ MainWaitInfo \/ MainSave
  \/ \E t \in Thread : MainSpawn(t)
  \/ MainNoThread

MainReceive(m) == MainIgnore(m) \/ MainReject(m) \/ MainOffer(m) \/ MainEvict(m)

-----------------------------------------------------------------------------
(* controller_handler, one thread per session offered.                     *)

\* The thread runs unless the process has exited.
At(t, point) == mpc # "exited" /\ tpc[t] = point

Goto(t, point) == tpc' = [tpc EXCEPT ![t] = point]

Return(t) ==
  /\ Goto(t, "free")
  /\ pos' = [pos EXCEPT ![t] = Stranger]
  /\ sock' = [sock EXCEPT ![t] = NoPort]
  /\ forever' = [forever EXCEPT ![t] = FALSE]
  /\ tries' = [tries EXCEPT ![t] = 0]
  /\ first' = [first EXCEPT ![t] = TRUE]
  /\ meant' = [meant EXCEPT ![t] = Stranger]

\* The socket a descriptor refers to when recvfrom is called with it.
FileOf(f) == IF f \in Fd /\ bound[f] \in Port THEN bound[f] ELSE NoPort

\* A socket main has not yet given its timeout, or left behind unbound.
Untimed(f) == f \in Fd /\ (bound[f] = Unbound \/ (mpc = "ack" /\ mfd = f))

\* recvfrom is called, and returns.
Block(t) ==
  /\ sock' = [sock EXCEPT ![t] = FileOf(socket_child[pos[t]])]
  /\ forever' = [forever EXCEPT ![t] = Untimed(socket_child[pos[t]])]

Unblock(t) == /\ sock' = [sock EXCEPT ![t] = NoPort]
              /\ forever' = [forever EXCEPT ![t] = FALSE]

\* sendto on controller->socket_child; its result is not looked at.
SendOn(c, reply) ==
  out' = IF socket_child[c] \in Fd /\ bound[socket_child[c]] # Closed THEN {reply} ELSE {}

\* As if the retries were not counted down.
UseTryNot(t) == UNCHANGED tries

\* As if they were counted down twice.
UseTryTwice(t) == tries' = [tries EXCEPT ![t] = @ - 2]

\* One attempt is used up.
UseTry(t) == tries' = [tries EXCEPT ![t] = @ - 1]

\* The check shared by validate_sub_info and validate_hello.
Matches(m, c) == m.mac = c /\ m.random = random_num[c]

\* args->pos is read; main may have pointed argsThread at another controller
\* since it created this thread.
HandlerStart(t) ==
  /\ At(t, "start")
  /\ pos' = [pos EXCEPT ![t] = args_pos]
  /\ Goto(t, "mark")
  /\ Disturb([c \in Controller |->
                disturbed[c] \/ (args_pos # meant[t] /\ c \in {args_pos, meant[t]})])
  /\ out' = {}
  /\ UNCHANGED <<table, kernel, main, sock, forever, tries, first, meant, offered>>

HandlerMark(t) ==
  /\ At(t, "mark")
  /\ set_state_controller(pos[t], "SUBSCRIBED")
  /\ tries' = [tries EXCEPT ![t] = 2]
  /\ Goto(t, "info_call")
  /\ out' = {}
  /\ UNCHANGED <<random_num, udp_port, socket_child, kernel, main, pos, sock, forever,
                 first, meant, history>>

InfoCall(t) ==
  /\ At(t, "info_call")
  /\ tries[t] > 0
  /\ Block(t)
  /\ Goto(t, "info_recv")
  /\ out' = {}
  /\ UNCHANGED <<table, kernel, main, pos, tries, first, meant, history>>

\* No valid SUBS_INFO came: the thread returns and changes nothing.
InfoGiveUp(t) ==
  /\ At(t, "info_call")
  /\ tries[t] <= 0
  /\ Return(t)
  /\ out' = {}
  /\ UNCHANGED <<table, kernel, main, history>>

\* recvfrom returns -1: two seconds went by, or the descriptor is no socket.
InfoTimeout(t) ==
  /\ At(t, "info_recv")
  /\ ~forever[t]
  /\ UseTry(t)
  /\ Unblock(t)
  /\ Goto(t, "info_call")
  /\ out' = {}
  /\ UNCHANGED <<table, kernel, main, pos, first, meant, history>>

InfoReceive(t, m) ==
  /\ At(t, "info_recv")
  /\ sock[t] \in Port
  /\ Unblock(t)
  /\ \/ /\ m.type # "SUBS_INFO"
        /\ UseTry(t)
        /\ Goto(t, "info_call")
        /\ out' = {}
     \/ /\ m.type = "SUBS_INFO"
        /\ Matches(m, pos[t])
        /\ UseTry(t)
        /\ Goto(t, "info_ack")
        /\ out' = {}
     \/ /\ m.type = "SUBS_INFO"
        /\ ~Matches(m, pos[t])
        /\ SendOn(pos[t], Reply("SUBS_REJ", m.mac, Zeros, NoPort))
        /\ Goto(t, "drop1")
        /\ UNCHANGED tries
  /\ UNCHANGED <<table, kernel, main, pos, first, meant, history>>

InfoAck(t) ==
  /\ At(t, "info_ack")
  /\ SendOn(pos[t], Reply("INFO_ACK", pos[t], random_num[pos[t]], NoPort))
  /\ Goto(t, "info_set")
  /\ UNCHANGED <<table, kernel, main, pos, sock, forever, tries, first, meant, history>>

\* As if a controller that sent SUBS_INFO were in SEND_HELLO already.
InfoSetGreets(t) ==
  /\ At(t, "info_set")
  /\ set_state_controller(pos[t], "SEND_HELLO")
  /\ tries' = [tries EXCEPT ![t] = 3]
  /\ first' = [first EXCEPT ![t] = TRUE]
  /\ Goto(t, "hello_check")
  /\ out' = {}
  /\ UNCHANGED <<random_num, udp_port, socket_child, kernel, main, pos, sock, forever,
                 meant, history>>

InfoSet(t) ==
  /\ At(t, "info_set")
  /\ set_state_controller(pos[t], "SUBSCRIBED")
  /\ tries' = [tries EXCEPT ![t] = 3]
  /\ first' = [first EXCEPT ![t] = TRUE]
  /\ Goto(t, "hello_check")
  /\ out' = {}
  /\ UNCHANGED <<random_num, udp_port, socket_child, kernel, main, pos, sock, forever,
                 meant, history>>

HelloCheck(t) ==
  /\ At(t, "hello_check")
  /\ tries[t] > 0
  /\ state[pos[t]] \in {"SUBSCRIBED", "SEND_HELLO"}
  /\ Goto(t, "hello_call")
  /\ out' = {}
  /\ UNCHANGED <<table, kernel, main, pos, sock, forever, tries, first, meant, history>>

\* Three attempts in a row brought no valid HELLO: disconnect the controller.
HelloExpire(t) ==
  /\ At(t, "hello_check")
  /\ tries[t] <= 0
  /\ Goto(t, "drop1")
  /\ out' = {}
  /\ UNCHANGED <<table, kernel, main, pos, sock, forever, tries, first, meant, history>>

\* Somebody else has taken the controller out of the states being served.
HelloLeave(t) ==
  /\ At(t, "hello_check")
  /\ tries[t] > 0
  /\ state[pos[t]] \notin {"SUBSCRIBED", "SEND_HELLO"}
  /\ Goto(t, "close")
  /\ out' = {}
  /\ UNCHANGED <<table, kernel, main, pos, sock, forever, tries, first, meant, history>>

HelloCall(t) ==
  /\ At(t, "hello_call")
  /\ Block(t)
  /\ Goto(t, "hello_recv")
  /\ out' = {}
  /\ UNCHANGED <<table, kernel, main, pos, tries, first, meant, history>>

HelloTimeout(t) ==
  /\ At(t, "hello_recv")
  /\ ~forever[t]
  /\ UseTry(t)
  /\ Unblock(t)
  /\ Goto(t, "hello_check")
  /\ out' = {}
  /\ UNCHANGED <<table, kernel, main, pos, first, meant, history>>

HelloReceive(t, m) ==
  /\ At(t, "hello_recv")
  /\ sock[t] \in Port
  /\ Unblock(t)
  /\ \/ /\ m.type = "HELLO"
        /\ Matches(m, pos[t])
        /\ Goto(t, IF first[t] THEN "hello_first" ELSE "hello_reply")
        /\ out' = {}
        /\ UNCHANGED tries
     \/ /\ m.type = "HELLO"
        /\ ~Matches(m, pos[t])
        /\ SendOn(pos[t], Reply("HELLO_REJ", m.mac, Zeros, NoPort))
        /\ Goto(t, "drop1")
        /\ UNCHANGED tries
     \/ /\ m.type = "HELLO_REJ"
        /\ Goto(t, "drop1")
        /\ out' = {}
        /\ UNCHANGED tries
     \/ /\ m.type \notin {"HELLO", "HELLO_REJ"}
        /\ UseTry(t)
        /\ Goto(t, "hello_check")
        /\ out' = {}
  /\ UNCHANGED <<table, kernel, main, pos, first, meant, history>>

\* As if first were not reset.
HelloFirstForgets(t) ==
  /\ At(t, "hello_first")
  /\ set_state_controller(pos[t], "SEND_HELLO")
  /\ Goto(t, "hello_reply")
  /\ out' = {}
  /\ UNCHANGED <<random_num, udp_port, socket_child, kernel, main, pos, sock, forever,
                 tries, first, meant, history>>

HelloFirst(t) ==
  /\ At(t, "hello_first")
  /\ set_state_controller(pos[t], "SEND_HELLO")
  /\ first' = [first EXCEPT ![t] = FALSE]
  /\ Goto(t, "hello_reply")
  /\ out' = {}
  /\ UNCHANGED <<random_num, udp_port, socket_child, kernel, main, pos, sock, forever,
                 tries, meant, history>>

HelloReply(t) ==
  /\ At(t, "hello_reply")
  /\ tries' = [tries EXCEPT ![t] = 3]
  /\ SendOn(pos[t], Reply("HELLO", pos[t], random_num[pos[t]], NoPort))
  /\ Goto(t, "hello_check")
  /\ UNCHANGED <<table, kernel, main, pos, sock, forever, first, meant, history>>

\* The three assignments of disconnect_controller, then close of whatever
\* controller->socket_child holds by then.
HandlerDropState(t) ==
  /\ At(t, "drop1")
  /\ set_state_controller(pos[t], "DISCONNECTED")
  /\ Goto(t, "drop2")
  /\ out' = {}
  /\ UNCHANGED <<random_num, udp_port, socket_child, kernel, main, pos, sock, forever,
                 tries, first, meant, history>>

HandlerDropSocket(t) ==
  /\ At(t, "drop2")
  /\ DropSocket(pos[t])
  /\ Goto(t, "drop3")
  /\ out' = {}
  /\ UNCHANGED <<state, random_num, udp_port, kernel, main, pos, sock, forever,
                 tries, first, meant, history>>

HandlerDropRandom(t) ==
  /\ At(t, "drop3")
  /\ DropRandom(pos[t])
  /\ Goto(t, "close")
  /\ out' = {}
  /\ UNCHANGED <<state, udp_port, socket_child, kernel, main, pos, sock, forever,
                 tries, first, meant, history>>

HandlerClose(t) ==
  /\ At(t, "close")
  /\ bound' = [f \in Fd |-> IF f = socket_child[pos[t]] THEN Closed ELSE bound[f]]
  /\ Return(t)
  /\ out' = {}
  /\ UNCHANGED <<table, seed, main, history>>

HandlerStep(t) ==
  \/ HandlerStart(t) \/ HandlerMark(t)
  \/ InfoCall(t) \/ InfoGiveUp(t) \/ InfoTimeout(t) \/ InfoAck(t) \/ InfoSet(t)
  \/ HelloCheck(t) \/ HelloExpire(t) \/ HelloLeave(t) \/ HelloCall(t)
  \/ HelloTimeout(t) \/ HelloFirst(t) \/ HelloReply(t)
  \/ HandlerDropState(t) \/ HandlerDropSocket(t) \/ HandlerDropRandom(t)
  \/ HandlerClose(t)

HandlerReceive(t, m) == InfoReceive(t, m) \/ HelloReceive(t, m)

-----------------------------------------------------------------------------
(* Any datagram may come at any time; a datagram that is lost is one that  *)
(* never comes.                                                            *)
Next ==
  \/ Tick
  \/ MainStep
  \/ \E m \in Datagram : MainReceive(m)
  \/ \E t \in Thread : HandlerStep(t)
  \/ \E t \in Thread, m \in Datagram : HandlerReceive(t, m)

Spec == Init /\ [][Next]_vars

\* Main and the handlers are threads of one process, which the system runs as
\* long as they can run; a handler's recvfrom returns after two seconds.
Fairness ==
  /\ WF_vars(Tick)
  /\ WF_vars(MainStep)
  /\ \A t \in Thread : WF_vars(HandlerStep(t))

-----------------------------------------------------------------------------
(* Types of the variables; tries runs down from 2 (SUBS_INFO) or 3 (HELLO). *)
TypeOK ==
  /\ state \in [Controller -> ClientStates]
  /\ random_num \in [Controller -> RandomNum]
  /\ udp_port \in [Controller -> Port \cup {NoPort}]
  /\ socket_child \in [Controller -> Fd \cup {NoFd}]
  /\ bound \in [Fd -> Port \cup {Closed, Unbound}]
  /\ seed \in Seed
  /\ mpc \in MainPoints
  /\ mc \in Controller \cup {Stranger}
  /\ mfd \in Fd \cup {NoFd}
  /\ args_pos \in Controller \cup {Stranger}
  /\ tpc \in [Thread -> ThreadPoints]
  /\ pos \in [Thread -> Controller \cup {Stranger}]
  /\ sock \in [Thread -> Port \cup {NoPort}]
  /\ forever \in [Thread -> BOOLEAN]
  /\ tries \in [Thread -> 0 .. 3]
  /\ first \in [Thread -> BOOLEAN]
  /\ meant \in [Thread -> Controller \cup {Stranger}]
  /\ out \in SUBSET Replies
  /\ offered \in [Controller -> RandomNum]
  /\ disturbed \in [Controller -> BOOLEAN]
  /\ calm \in BOOLEAN

\* Checking state against DISCONNECTED before a session is offered
\* (server.c:317) keeps a controller from being served by two threads, unless
\* its session was disturbed.
ExclusiveService ==
  \A c \in Controller : ~disturbed[c] =>
    \A t, u \in Thread : Serves(t, c) /\ Serves(u, c) => t = u

\* The INFO_ACK and HELLO a client gets in an undisturbed session carry the
\* random number of its SUBS_ACK, although the handler copies it from the
\* table again each time, seconds after it checked the client's.
RepliesCarryOffer ==
  \A r \in out : /\ r.type \in {"INFO_ACK", "HELLO"}
                 /\ ~disturbed[r.to]
                 => r.random = offered[r.to]

\* A handler that has its controller's socket to use finds it open, bound to
\* the port SUBS_ACK named, and shared with no other handler's controller, as
\* long as no session was ever disturbed.
NeedsSocket(t) == tpc[t] \notin {"free", "start", "drop3", "close"}

SocketIntact ==
  calm => \A t \in Thread : NeedsSocket(t) =>
            /\ socket_child[pos[t]] \in Fd
            /\ bound[socket_child[pos[t]]] = udp_port[pos[t]]
            /\ \A u \in Thread : NeedsSocket(u) /\ udp_port[pos[u]] = udp_port[pos[t]] => u = t

\* Once no more datagrams come, every handler returns: the receive timeout and
\* the two retry counters (server.c:135, 176) leave no loop without an end.  Only
\* where a session was disturbed may a handler stay: it called recvfrom on a
\* descriptor main had opened anew and not yet given its timeout (server.c:324,
\* 337), and waits for ever.
HandlersDrain ==
  <>[](mpc = "exited" \/ \A t \in Thread : tpc[t] = "free" \/ (forever[t] /\ ~calm))

\* The steps t takes at most until it returns, if no datagram comes.
StepsLeft(t) ==
  CASE tpc[t] = "free"                     -> 0
    [] tpc[t] = "start"                    -> 7
    [] tpc[t] = "mark"                     -> 6
    [] tpc[t] = "info_call"                -> 2 * tries[t] + 1
    [] tpc[t] = "info_recv"                -> 2 * tries[t]
    [] tpc[t] \in {"info_ack", "hello_first"} -> 16
    [] tpc[t] \in {"info_set", "hello_reply"} -> 15
    [] tpc[t] = "hello_check"              -> 3 * tries[t] + 5
    [] tpc[t] = "hello_call"               -> 3 * tries[t] + 4
    [] tpc[t] = "hello_recv"               -> 3 * tries[t] + 3
    [] tpc[t] = "drop1"                    -> 4
    [] tpc[t] = "drop2"                    -> 3
    [] tpc[t] = "drop3"                    -> 2
    [] tpc[t] = "close"                    -> 1

\* Every step of a handler brings it nearer its return, whatever main and the other
\* handlers do to its controller meanwhile; only a datagram takes it further away.
HandlersNear ==
  [][\A t \in Thread :
       /\ HandlerStep(t) => StepsLeft(t)' \in Nat /\ StepsLeft(t)' < StepsLeft(t)
       /\ StepsLeft(t)' > StepsLeft(t) =>
            MainSpawn(t) \/ \E m \in Datagram : HandlerReceive(t, m)]_vars

-----------------------------------------------------------------------------
(* What comments of the repository say and the code does not do.           *)

\* server.c:358: a new thread is created to handle the client just accepted;
\* the thread may read the position of the next one instead.
ServesItsOwn ==
  \A t \in Thread : tpc[t] \notin {"free", "start"} => pos[t] = meant[t]

\* common.py:51: in WAIT_INFO the server is waiting for SUBS_INFO; server.c:127
\* makes the controller SUBSCRIBED before it begins to wait.
WaitsInWaitInfo ==
  \A t \in Thread :
    tpc[t] \in InfoPoints /\ ~disturbed[pos[t]] => state[pos[t]] = "WAIT_INFO"

\* server.c:155, 220, 231 and 247, "Close section": once a handler has closed the
\* session, no socket is left on the session's port.
CloseSectionCloses ==
  [][\A t \in Thread :
       calm /\ HandlerClose(t) => \A f \in Fd : bound'[f] # udp_port[pos[t]]]_vars

\* server.c:322: when the port is in use, main retries until it has a socket.
RetryFindsSocket == mpc = "bind" ~> mpc # "bind"
=============================================================================
