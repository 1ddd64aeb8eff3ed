--------------------------- MODULE ServerInvariant --------------------------
(* The inductive invariant of Server: TypeOK, what every control point may *)
(* rely on (Placed), of each controller whose session is undisturbed, who  *)
(* acts for it and what the table then says of it (Session), and, if no    *)
(* session was ever disturbed, who holds which socket (Sockets).           *)
EXTENDS Server

\* A control point holds the controllers it works for, and a thread that
\* waits for a datagram has an attempt left.
Placed ==
  /\ mpc \notin {"recv", "exited"} => mc \in Controller
  /\ \A t \in Thread :
       /\ tpc[t] # "free" => meant[t] \in Controller
       /\ tpc[t] = "start" => args_pos \in Controller
       /\ tpc[t] \notin {"free", "start"} => pos[t] \in Controller
       /\ tpc[t] \in {"info_recv", "hello_call", "hello_recv"} => tries[t] > 0

Offering == {"roll", "bind", "ack", "wait"}
Handing == {"save", "spawn"}
Dropping == {"drop1", "drop2", "drop3"}

Unserved(c) == \A t \in Thread : ~Serves(t, c)

\* Main acts for a controller that no handler serves, and knows its state.
MainAlone(c) ==
  mc = c =>
    /\ mpc \in Offering => Unserved(c) /\ state[c] = "DISCONNECTED"
    /\ mpc \in Handing => Unserved(c) /\ state[c] = "WAIT_INFO"
    /\ mpc \in Dropping => Unserved(c)
    /\ mpc = "drop1" => state[c] \in {"SUBSCRIBED", "SEND_HELLO"}
    /\ mpc \in {"drop2", "drop3"} => state[c] = "DISCONNECTED"

\* At most one handler serves a controller.
ServedOnce(c) == \A t, u \in Thread : Serves(t, c) /\ Serves(u, c) => t = u

\* The state a controller has while the handler at this point serves it.
StateAt(point, s, isFirst) ==
  /\ point \in {"start", "mark"} => s = "WAIT_INFO"
  /\ point \in InfoPoints \cup {"info_ack", "info_set", "hello_first"} => s = "SUBSCRIBED"
  /\ point \in HelloPoints \ {"hello_first", "hello_reply"} =>
       s = IF isFirst THEN "SUBSCRIBED" ELSE "SEND_HELLO"
  /\ point = "hello_first" => isFirst
  /\ point = "hello_reply" => s = "SEND_HELLO" /\ ~isFirst
  /\ point = "drop1" => s \in {"SUBSCRIBED", "SEND_HELLO"}
  /\ point \in TearDown \ {"drop1"} => s = "DISCONNECTED"

InStep(c) ==
  \A t \in Thread : Serves(t, c) => StateAt(tpc[t], state[c], first[t])

\* WAIT_INFO does not outlive the start of the handler.
WaitShort(c) ==
  state[c] = "WAIT_INFO" =>
    \/ mpc = "exited"
    \/ mc = c /\ mpc \in Handing
    \/ \E t \in Thread : Serves(t, c) /\ tpc[t] \in {"start", "mark"}

\* The table holds the random number offered for as long as it is needed.
OfferHeld(c) ==
  /\ mc = c /\ mpc \in {"wait"} \cup Handing => random_num[c] = offered[c]
  /\ \A t \in Thread : Serves(t, c) /\ tpc[t] \notin TearDown => random_num[c] = offered[c]

Session(c) ==
  /\ MainAlone(c)
  /\ ServedOnce(c)
  /\ InStep(c)
  /\ WaitShort(c)
  /\ OfferHeld(c)

Sessions == \A c \in Controller : ~disturbed[c] => Session(c)

\* Main's new socket is its own until the table has it.
MainHolds ==
  /\ mpc \in {"ack", "wait", "save", "spawn"} =>
       mfd \in Fd /\ bound[mfd] \in Port /\ bound[mfd] = udp_port[mc]
  /\ mpc \in {"ack", "wait", "save"} => \A c \in Controller : socket_child[c] # mfd
  /\ mpc = "spawn" => socket_child[mc] = mfd

\* No two controllers share a descriptor, nor two descriptors a port, also of
\* sessions nobody serves any more and of sockets nobody has in the table.
Apart ==
  /\ \A c \in Controller : socket_child[c] \in Fd => bound[socket_child[c]] \in Port
  /\ \A c, d \in Controller :
       socket_child[c] \in Fd /\ socket_child[c] = socket_child[d] => c = d
  /\ \A f, g \in Fd : bound[f] \in Port /\ bound[f] = bound[g] => f = g

\* A handler's socket is in the table until it drops it.
HandlerHolds ==
  \A t \in Thread, c \in Controller : Serves(t, c) =>
    IF tpc[t] \in {"drop3", "close"} THEN socket_child[c] = NoFd
    ELSE socket_child[c] \in Fd /\ bound[socket_child[c]] = udp_port[c]

\* The descriptors stay apart as long as no session was ever disturbed: every
\* one a thread uses was opened for its session, and none of them is closed.
Sockets ==
  calm => /\ \A c \in Controller : ~disturbed[c]
          /\ MainHolds /\ Apart /\ HandlerHolds

IInv == TypeOK /\ Placed /\ Sessions /\ Sockets /\ RepliesCarryOffer
=============================================================================
