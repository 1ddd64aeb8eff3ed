---------------------------- MODULE ServerProofs ----------------------------
(***************************************************************************)
(* Server keeps IInv, and so TypeOK, ExclusiveService, RepliesCarryOffer   *)
(* and SocketIntact, and implements Registration, for every number of      *)
(* controllers, threads, descriptors, ports, random numbers and seeds.     *)
(***************************************************************************)
EXTENDS ServerInvariant, ServerRefinement, TLAPS

-----------------------------------------------------------------------------
(* Datagrams and replies.                                                  *)

\* Whoever sent a datagram is a controller or a stranger.
LEMMA DatagramType == ASSUME NEW m \in Datagram PROVE m.mac \in Controller \cup {Stranger}
  BY DEF Datagram

\* What Reply builds is a reply.
LEMMA ReplyType ==
  ASSUME NEW type \in {"SUBS_ACK", "SUBS_REJ", "INFO_ACK", "HELLO", "HELLO_REJ"},
         NEW to \in Controller \cup {Stranger}, NEW random \in RandomNum,
         NEW port \in Port \cup {NoPort}
  PROVE  Reply(type, to, random, port) \in Replies
  BY DEF Reply, Replies

\* sendto sends the reply or nothing.
LEMMA SendOnType ==
  ASSUME NEW c, NEW r \in Replies, SendOn(c, r)
  PROVE  out' \in SUBSET Replies
  BY DEF SendOn

\* Disturb keeps the history variables Boolean.
LEMMA DisturbType ==
  ASSUME NEW d \in [Controller -> BOOLEAN], calm \in BOOLEAN, Disturb(d)
  PROVE  disturbed' \in [Controller -> BOOLEAN] /\ calm' \in BOOLEAN
  BY DEF Disturb

-----------------------------------------------------------------------------
(* TypeOK and Placed.                                                      *)

\* A step keeps every variable in its type and every control point supplied
\* with the controller it works for.
LEMMA TypesStep ==
  ASSUME TypeOK, Placed, [Next]_vars
  PROVE  TypeOK' /\ Placed'
<1> USE DrawAssumption, TableAssumption, PortAssumption, FdAssumption
<1> USE DEF TypeOK, Placed, table, kernel, main, threads, history, vars, Fd, NoFd,
            ClientStates, MainPoints, InfoPoints, HelloPoints, TearDown, ThreadPoints
<1>1. CASE Tick
  BY <1>1 DEF Tick
<1>2. CASE MainDropState
  BY <1>2 DEF MainDropState, set_state_controller
<1>3. CASE MainDropSocket
  BY <1>3 DEF MainDropSocket, DropSocket
<1>4. CASE MainDropRandom
  BY <1>4 DEF MainDropRandom, DropRandom
<1>5. CASE MainRoll
  BY <1>5 DEF MainRoll, generate_random_number
<1>6. CASE MainBind
  BY <1>6 DEF MainBind, LowestFree, assign_udp_port
<1>7. CASE MainBindBusy
  BY <1>7 DEF MainBindBusy, LowestFree, assign_udp_port
<1>8. CASE MainNoSocket
  BY <1>8 DEF MainNoSocket, assign_udp_port
<1>9. CASE MainAck
  BY <1>9 DEF MainAck, Reply, Replies
<1>10. CASE MainNoTimeout
  <2>1. bound' \in [Fd -> Port \cup {Closed, Unbound}]
    BY <1>10 DEF MainNoTimeout
  <2>2. /\ state' \in [Controller -> ClientStates]
        /\ random_num' \in [Controller -> RandomNum]
        /\ socket_child' \in [Controller -> Fd \cup {NoFd}]
    BY <1>10 DEF MainNoTimeout, set_state_controller, DropSocket, DropRandom
  <2> QED BY <1>10, <2>1, <2>2 DEF MainNoTimeout
<1>11. CASE MainWaitInfo
  BY <1>11 DEF MainWaitInfo, set_state_controller
<1>12. CASE MainSave
  BY <1>12 DEF MainSave
<1>13. CASE MainNoThread
  BY <1>13 DEF MainNoThread
<1>14. ASSUME NEW t \in Thread, MainSpawn(t) PROVE TypeOK' /\ Placed'
  BY <1>14 DEF MainSpawn
<1>15. ASSUME NEW t \in Thread, HandlerStart(t)
       PROVE  TypeOK' /\ Placed'
  BY <1>15 DEF HandlerStart, Disturb, At, Goto
<1>16. ASSUME NEW t \in Thread, HandlerMark(t)
       PROVE  TypeOK' /\ Placed'
  BY <1>16 DEF HandlerMark, set_state_controller, At, Goto
<1>17. ASSUME NEW t \in Thread, InfoCall(t) PROVE TypeOK' /\ Placed'
  BY <1>17 DEF InfoCall, Block, FileOf, Untimed, At, Goto
<1>18. ASSUME NEW t \in Thread, InfoGiveUp(t) PROVE TypeOK' /\ Placed'
  BY <1>18 DEF InfoGiveUp, Return, At, Goto
<1>19. ASSUME NEW t \in Thread, InfoTimeout(t)
       PROVE  TypeOK' /\ Placed'
  BY <1>19 DEF InfoTimeout, UseTry, Unblock, At, Goto
<1>20. ASSUME NEW t \in Thread, InfoAck(t) PROVE TypeOK' /\ Placed'
  BY <1>20 DEF InfoAck, SendOn, Reply, Replies, At, Goto
<1>21. ASSUME NEW t \in Thread, InfoSet(t) PROVE TypeOK' /\ Placed'
  BY <1>21 DEF InfoSet, set_state_controller, At, Goto
<1>22. ASSUME NEW t \in Thread, HelloCheck(t) PROVE TypeOK' /\ Placed'
  BY <1>22 DEF HelloCheck, At, Goto
<1>23. ASSUME NEW t \in Thread, HelloExpire(t)
       PROVE  TypeOK' /\ Placed'
  BY <1>23 DEF HelloExpire, At, Goto
<1>24. ASSUME NEW t \in Thread, HelloLeave(t) PROVE TypeOK' /\ Placed'
  BY <1>24 DEF HelloLeave, At, Goto
<1>25. ASSUME NEW t \in Thread, HelloCall(t) PROVE TypeOK' /\ Placed'
  BY <1>25 DEF HelloCall, Block, FileOf, Untimed, At, Goto
<1>26. ASSUME NEW t \in Thread, HelloTimeout(t)
       PROVE  TypeOK' /\ Placed'
  BY <1>26 DEF HelloTimeout, UseTry, Unblock, At, Goto
<1>27. ASSUME NEW t \in Thread, HelloFirst(t) PROVE TypeOK' /\ Placed'
  BY <1>27 DEF HelloFirst, set_state_controller, At, Goto
<1>28. ASSUME NEW t \in Thread, HelloReply(t) PROVE TypeOK' /\ Placed'
  BY <1>28 DEF HelloReply, SendOn, Reply, Replies, At, Goto
<1>29. ASSUME NEW t \in Thread, HandlerDropState(t)
       PROVE  TypeOK' /\ Placed'
  BY <1>29 DEF HandlerDropState, set_state_controller, At, Goto
<1>30. ASSUME NEW t \in Thread, HandlerDropSocket(t)
       PROVE  TypeOK' /\ Placed'
  BY <1>30 DEF HandlerDropSocket, DropSocket, At, Goto
<1>31. ASSUME NEW t \in Thread, HandlerDropRandom(t)
       PROVE  TypeOK' /\ Placed'
  BY <1>31 DEF HandlerDropRandom, DropRandom, At, Goto
<1>32. ASSUME NEW t \in Thread, HandlerClose(t)
       PROVE  TypeOK' /\ Placed'
  BY <1>32 DEF HandlerClose, Return, At, Goto
<1>33. ASSUME NEW m \in Datagram, MainIgnore(m)
       PROVE  TypeOK' /\ Placed'
  BY <1>33 DEF MainIgnore
<1>34. ASSUME NEW m \in Datagram, MainReject(m)
       PROVE  TypeOK' /\ Placed'
  BY <1>34 DEF MainReject, Reply, Replies, Datagram
<1>35. ASSUME NEW m \in Datagram, MainOffer(m)
       PROVE  TypeOK' /\ Placed'
  <2>1. disturbed' \in [Controller -> BOOLEAN] /\ calm' \in BOOLEAN
    BY <1>35, DisturbType DEF MainOffer
  <2> QED BY <1>35, <2>1 DEF MainOffer, MayOffer, Registered
<1>36. ASSUME NEW m \in Datagram, MainEvict(m)
       PROVE  TypeOK' /\ Placed'
  BY <1>36 DEF MainEvict, Registered, Disturb
<1>37. ASSUME NEW t \in Thread, NEW m \in Datagram, InfoReceive(t, m)
       PROVE  TypeOK' /\ Placed'
  <2>1. out' \in SUBSET Replies
    <3>1. Reply("SUBS_REJ", m.mac, Zeros, NoPort) \in Replies
      BY DatagramType, ReplyType
    <3> QED BY <3>1, <1>37, SendOnType DEF InfoReceive
  <2>2. sock' \in [Thread -> Port \cup {NoPort}]
    BY <1>37 DEF InfoReceive, Unblock
  <2>3. tpc[t] = "info_recv" /\ tries[t] > 0 /\ tries' \in [Thread -> 0 .. 3]
    BY <1>37 DEF InfoReceive, UseTry, At
  <2>4. /\ tpc' \in [Thread -> ThreadPoints]
        /\ \E p \in {"info_call", "info_ack", "drop1"} :
             tpc' = [tpc EXCEPT ![t] = p]
    BY <1>37 DEF InfoReceive, Goto
  <2>5. TypeOK'
    BY <1>37, <2>1, <2>2, <2>3, <2>4 DEF InfoReceive, Unblock
  <2>6. mpc' = mpc /\ mc' = mc /\ args_pos' = args_pos /\ pos' = pos /\ meant' = meant
    BY <1>37 DEF InfoReceive
  <2>7. \A u \in Thread : u # t => tries'[u] = tries[u] /\ tpc'[u] = tpc[u]
    BY <1>37, <2>4 DEF InfoReceive, UseTry
  <2>8. Placed'
    BY <2>3, <2>4, <2>6, <2>7
  <2> QED BY <2>5, <2>8
<1>38. ASSUME NEW t \in Thread, NEW m \in Datagram, HelloReceive(t, m)
       PROVE  TypeOK' /\ Placed'
  <2>1. out' \in SUBSET Replies
    <3>1. Reply("HELLO_REJ", m.mac, Zeros, NoPort) \in Replies
      BY DatagramType, ReplyType
    <3> QED BY <3>1, <1>38, SendOnType DEF HelloReceive
  <2>2. sock' \in [Thread -> Port \cup {NoPort}]
    BY <1>38 DEF HelloReceive, Unblock
  <2>3. tpc[t] = "hello_recv" /\ tries[t] > 0 /\ tries' \in [Thread -> 0 .. 3]
    BY <1>38 DEF HelloReceive, UseTry, At
  <2>4. /\ tpc' \in [Thread -> ThreadPoints]
        /\ \E p \in {"hello_first", "hello_reply", "hello_check", "drop1"} :
             tpc' = [tpc EXCEPT ![t] = p]
    BY <1>38 DEF HelloReceive, Goto
  <2>5. TypeOK'
    BY <1>38, <2>1, <2>2, <2>3, <2>4 DEF HelloReceive, Unblock
  <2>6. mpc' = mpc /\ mc' = mc /\ args_pos' = args_pos /\ pos' = pos /\ meant' = meant
    BY <1>38 DEF HelloReceive
  <2>7. \A u \in Thread : u # t => tries'[u] = tries[u] /\ tpc'[u] = tpc[u]
    BY <1>38, <2>4 DEF HelloReceive, UseTry
  <2>8. Placed'
    BY <2>3, <2>4, <2>6, <2>7
  <2> QED BY <2>5, <2>8
<1>39. CASE UNCHANGED vars
  BY <1>39 DEF vars
<1> QED
  BY <1>1, <1>2, <1>3, <1>4, <1>5, <1>6, <1>7, <1>8, <1>9, <1>10, <1>11, <1>12,
     <1>13, <1>14, <1>15, <1>16, <1>17, <1>18, <1>19, <1>20, <1>21, <1>22, <1>23,
     <1>24, <1>25, <1>26, <1>27, <1>28, <1>29, <1>30, <1>31, <1>32, <1>33, <1>34,
     <1>35, <1>36, <1>37, <1>38, <1>39
     DEF Next, MainStep, MainReceive, HandlerStep, HandlerReceive

-----------------------------------------------------------------------------
(* Sessions.                                                               *)

\* A step keeps every session that stays undisturbed in order.
LEMMA SessionsStep ==
  ASSUME TypeOK, Placed, Sessions, [Next]_vars
  PROVE  Sessions'
<1> SUFFICES ASSUME NEW c \in Controller, ~disturbed'[c]
             PROVE  Session(c)'
  BY DEF Sessions
<1> USE TableAssumption
<1> USE DEF TypeOK, Placed, table, kernel, main, threads, history, vars, Sessions,
            Session, MainAlone, ServedOnce, InStep, WaitShort, OfferHeld, Offering,
            Handing, Dropping, Unserved, Serves, StateAt, InfoPoints, HelloPoints,
            TearDown
<1>1. CASE Tick
  BY <1>1 DEF Tick
<1>2. CASE MainDropState
  BY <1>2 DEF MainDropState, set_state_controller
<1>3. CASE MainDropSocket
  BY <1>3 DEF MainDropSocket, DropSocket
<1>4. CASE MainDropRandom
  BY <1>4 DEF MainDropRandom, DropRandom
<1>5. CASE MainRoll
  BY <1>5 DEF MainRoll, generate_random_number
<1>6. CASE MainBind
  BY <1>6 DEF MainBind, LowestFree, assign_udp_port
<1>7. CASE MainBindBusy
  BY <1>7 DEF MainBindBusy, LowestFree, assign_udp_port
<1>8. CASE MainNoSocket
  BY <1>8 DEF MainNoSocket, assign_udp_port
<1>9. CASE MainAck
  BY <1>9 DEF MainAck, Reply, Replies
<1>10. CASE MainNoTimeout
  BY <1>10 DEF MainNoTimeout, set_state_controller, DropSocket, DropRandom
<1>11. CASE MainWaitInfo
  BY <1>11 DEF MainWaitInfo, set_state_controller
<1>12. CASE MainSave
  BY <1>12 DEF MainSave
<1>13. CASE MainNoThread
  BY <1>13 DEF MainNoThread
<1>14. ASSUME NEW t \in Thread, MainSpawn(t) PROVE Session(c)'
  BY <1>14 DEF MainSpawn
<1>15. ASSUME NEW t \in Thread, HandlerStart(t) PROVE Session(c)'
  <2>1. ~disturbed[c] /\ (c \in {args_pos, meant[t]} => args_pos = meant[t])
    BY <1>15 DEF HandlerStart, Disturb
  <2>2. Session(c)
    BY <2>1
  <2>3. \A u \in Thread : Serves(u, c)' <=> Serves(u, c)
    BY <1>15, <2>1 DEF HandlerStart, At, Goto
  <2>4. tpc[t] = "start" /\ tpc' = [tpc EXCEPT ![t] = "mark"]
    BY <1>15 DEF HandlerStart, At, Goto
  <2>5. UNCHANGED <<state, random_num, offered, mpc, mc, first>>
    BY <1>15 DEF HandlerStart
  <2> QED
    BY <2>2, <2>3, <2>4, <2>5
<1>16. ASSUME NEW t \in Thread, HandlerMark(t) PROVE Session(c)'
  BY <1>16 DEF HandlerMark, set_state_controller, At, Goto
<1>17. ASSUME NEW t \in Thread, InfoCall(t) PROVE Session(c)'
  BY <1>17 DEF InfoCall, Block, FileOf, Untimed, At, Goto
<1>18. ASSUME NEW t \in Thread, InfoGiveUp(t) PROVE Session(c)'
  BY <1>18 DEF InfoGiveUp, Return, At, Goto
<1>19. ASSUME NEW t \in Thread, InfoTimeout(t) PROVE Session(c)'
  BY <1>19 DEF InfoTimeout, UseTry, Unblock, At, Goto
<1>20. ASSUME NEW t \in Thread, InfoAck(t) PROVE Session(c)'
  BY <1>20 DEF InfoAck, SendOn, Reply, Replies, At, Goto
<1>21. ASSUME NEW t \in Thread, InfoSet(t) PROVE Session(c)'
  BY <1>21 DEF InfoSet, set_state_controller, At, Goto
<1>22. ASSUME NEW t \in Thread, HelloCheck(t) PROVE Session(c)'
  BY <1>22 DEF HelloCheck, At, Goto
<1>23. ASSUME NEW t \in Thread, HelloExpire(t) PROVE Session(c)'
  <2>1. tpc[t] = "hello_check" /\ tpc' = [tpc EXCEPT ![t] = "drop1"]
    BY <1>23 DEF HelloExpire, At, Goto
  <2>2. UNCHANGED <<state, random_num, mpc, mc, pos, first, meant, offered, disturbed>>
    BY <1>23 DEF HelloExpire
  <2> QED
    BY <2>1, <2>2
<1>24. ASSUME NEW t \in Thread, HelloLeave(t) PROVE Session(c)'
  BY <1>24 DEF HelloLeave, At, Goto
<1>25. ASSUME NEW t \in Thread, HelloCall(t) PROVE Session(c)'
  BY <1>25 DEF HelloCall, Block, FileOf, Untimed, At, Goto
<1>26. ASSUME NEW t \in Thread, HelloTimeout(t) PROVE Session(c)'
  BY <1>26 DEF HelloTimeout, UseTry, Unblock, At, Goto
<1>27. ASSUME NEW t \in Thread, HelloFirst(t) PROVE Session(c)'
  BY <1>27 DEF HelloFirst, set_state_controller, At, Goto
<1>28. ASSUME NEW t \in Thread, HelloReply(t) PROVE Session(c)'
  BY <1>28 DEF HelloReply, SendOn, Reply, Replies, At, Goto
<1>29. ASSUME NEW t \in Thread, HandlerDropState(t) PROVE Session(c)'
  BY <1>29 DEF HandlerDropState, set_state_controller, At, Goto
<1>30. ASSUME NEW t \in Thread, HandlerDropSocket(t) PROVE Session(c)'
  BY <1>30 DEF HandlerDropSocket, DropSocket, At, Goto
<1>31. ASSUME NEW t \in Thread, HandlerDropRandom(t) PROVE Session(c)'
  BY <1>31 DEF HandlerDropRandom, DropRandom, At, Goto
<1>32. ASSUME NEW t \in Thread, HandlerClose(t) PROVE Session(c)'
  BY <1>32 DEF HandlerClose, Return, At, Goto
<1>33. ASSUME NEW m \in Datagram, MainIgnore(m) PROVE Session(c)'
  BY <1>33 DEF MainIgnore
<1>34. ASSUME NEW m \in Datagram, MainReject(m) PROVE Session(c)'
  BY <1>34 DEF MainReject, Reply, Replies, Datagram
<1>35. ASSUME NEW m \in Datagram, MainOffer(m) PROVE Session(c)'
  <2>1. m.mac \in Controller /\ state[m.mac] = "DISCONNECTED"
    BY <1>35 DEF MainOffer, MayOffer, Registered
  <2>2. CASE c = m.mac
    <3>1. \A t \in Thread : Serves(t, c) => ~disturbed[c] /\ tpc[t] \notin TearDown
      BY <1>35, <2>1, <2>2 DEF MainOffer, Disturb
    <3>2. Unserved(c)
      BY <3>1, <2>1, <2>2 DEF ThreadPoints
    <3> QED
      BY <1>35, <2>1, <2>2, <3>2 DEF MainOffer
  <2>3. CASE c # m.mac
    <3>1. ~disturbed[c]
      BY <1>35, <2>3 DEF MainOffer, Disturb
    <3> QED
      BY <1>35, <2>1, <2>3, <3>1 DEF MainOffer
  <2> QED
    BY <2>2, <2>3
<1>36. ASSUME NEW m \in Datagram, MainEvict(m) PROVE Session(c)'
  <2>1. ~disturbed[c] /\ (c = m.mac => Unserved(c))
    BY <1>36 DEF MainEvict, Disturb, Registered
  <2>2. mpc = "recv" /\ mpc' = "drop1" /\ mc' = m.mac /\ state[m.mac] # "DISCONNECTED"
    BY <1>36 DEF MainEvict, Registered
  <2>3. UNCHANGED <<state, random_num, offered, args_pos, tpc, pos, meant, first>>
    BY <1>36 DEF MainEvict, Registered
  <2>4. CASE c = m.mac
    <3>1. state[c] \in {"SUBSCRIBED", "SEND_HELLO"}
      BY <2>1, <2>2, <2>4 DEF ClientStates
    <3> QED
      BY <2>1, <2>2, <2>3, <2>4, <3>1
  <2>5. CASE c # m.mac
    BY <2>1, <2>2, <2>3, <2>5
  <2> QED
    BY <2>4, <2>5
<1>37. ASSUME NEW t \in Thread, NEW m \in Datagram, InfoReceive(t, m)
       PROVE  Session(c)'
  <2>1. /\ tpc[t] = "info_recv"
        /\ \E p \in {"info_call", "info_ack", "drop1"} : tpc' = [tpc EXCEPT ![t] = p]
    BY <1>37 DEF InfoReceive, At, Goto
  <2>2. UNCHANGED <<state, random_num, offered, disturbed, mpc, mc, args_pos, pos,
                    meant, first>>
    BY <1>37 DEF InfoReceive
  <2> QED
    BY <2>1, <2>2
<1>38. ASSUME NEW t \in Thread, NEW m \in Datagram, HelloReceive(t, m)
       PROVE  Session(c)'
  <2>1. /\ tpc[t] = "hello_recv"
        /\ \E p \in {"hello_check", "drop1"}
                   \cup {IF first[t] THEN "hello_first" ELSE "hello_reply"} :
             tpc' = [tpc EXCEPT ![t] = p]
    BY <1>38 DEF HelloReceive, At, Goto
  <2>2. UNCHANGED <<state, random_num, offered, disturbed, mpc, mc, args_pos, pos,
                    meant, first>>
    BY <1>38 DEF HelloReceive
  <2> QED
    BY <2>1, <2>2
<1>39. CASE UNCHANGED vars
  BY <1>39 DEF vars
<1> QED
  BY <1>1, <1>2, <1>3, <1>4, <1>5, <1>6, <1>7, <1>8, <1>9, <1>10, <1>11, <1>12,
     <1>13, <1>14, <1>15, <1>16, <1>17, <1>18, <1>19, <1>20, <1>21, <1>22, <1>23,
     <1>24, <1>25, <1>26, <1>27, <1>28, <1>29, <1>30, <1>31, <1>32, <1>33, <1>34,
     <1>35, <1>36, <1>37, <1>38, <1>39
     DEF Next, MainStep, MainReceive, HandlerStep, HandlerReceive

-----------------------------------------------------------------------------
(* Sockets.                                                                *)

\* In an execution without disturbance a step leaves the sockets apart.
LEMMA SocketsStep ==
  ASSUME TypeOK, Placed, Sessions, Sockets, [Next]_vars
  PROVE  Sockets'
<1> SUFFICES ASSUME calm'
             PROVE  /\ \A c \in Controller : ~disturbed'[c]
                    /\ MainHolds' /\ Apart' /\ HandlerHolds'
  BY DEF Sockets
<1>0. calm /\ \A c \in Controller : ~disturbed'[c]
  BY DEF Sockets, Next, MainStep, MainReceive, HandlerStep, HandlerReceive, Tick, Disturb,
     MainDropState, MainDropSocket, MainDropRandom, MainRoll, MainBind, MainBindBusy,
     MainNoSocket, MainAck, MainNoTimeout, MainWaitInfo, MainSave, MainSpawn, MainNoThread,
     MainIgnore, MainReject, MainOffer, MainEvict, HandlerStart, HandlerMark, InfoCall,
     InfoGiveUp, InfoTimeout, InfoReceive, InfoAck, InfoSet, HelloCheck, HelloExpire,
     HelloLeave, HelloCall, HelloTimeout, HelloReceive, HelloFirst, HelloReply,
     HandlerDropState, HandlerDropSocket, HandlerDropRandom, HandlerClose, vars, history
<1>a. /\ \A c \in Controller : ~disturbed[c] /\ Session(c)
      /\ MainHolds /\ Apart /\ HandlerHolds
  BY <1>0 DEF Sockets, Sessions
<1> HIDE DEF Sockets, Sessions
<1> SUFFICES MainHolds' /\ Apart' /\ HandlerHolds'
  BY <1>0
<1> USE TableAssumption, PortAssumption
<1> USE DEF TypeOK, Placed, table, kernel, main, threads, history, vars, Fd, NoFd,
            MainHolds, Apart, HandlerHolds, Serves
<1>1. CASE Tick
  BY <1>a, <1>1 DEF Tick
<1>2. CASE MainDropState \/ MainDropRandom \/ MainRoll \/ MainAck \/ MainWaitInfo
  <2>1. UNCHANGED <<udp_port, socket_child, bound, mfd, tpc, pos, meant>>
    BY <1>2 DEF MainDropState, MainDropRandom, MainRoll, MainAck, MainWaitInfo
  <2>2. \/ mpc' \notin {"ack", "wait", "save", "spawn"}
        \/ /\ mpc \in {"ack", "wait"} /\ mpc' \in {"wait", "save"}
           /\ mc' = mc
    BY <1>2 DEF MainDropState, MainDropRandom, MainRoll, MainAck, MainWaitInfo
  <2> QED
    BY <1>a, <2>1, <2>2
<1>3. CASE MainDropSocket
  <2>1. Unserved(mc)
    BY <1>a, <1>3 DEF MainDropSocket, Session, MainAlone, Dropping
  <2> QED
    BY <1>a, <1>3, <2>1 DEF MainDropSocket, DropSocket, Unserved
<1>4. CASE MainBind
  <2>1. mpc = "bind" /\ Unserved(mc)
    BY <1>a, <1>4 DEF MainBind, Session, MainAlone, Offering
  <2>2. PICK f \in Fd : /\ bound[f] = Closed
                        /\ bound' = [bound EXCEPT ![f] = assign_udp_port]
                        /\ mfd' = f
    BY <1>4 DEF MainBind, LowestFree
  <2>3. assign_udp_port \in Port /\ \A g \in Fd : bound[g] # assign_udp_port
    BY <1>4, DrawAssumption DEF MainBind, InUse, assign_udp_port
  <2>4. /\ UNCHANGED <<socket_child, mc, tpc, pos, meant>>
        /\ mpc' = "ack"
        /\ udp_port' = [udp_port EXCEPT ![mc] = assign_udp_port]
    BY <1>4 DEF MainBind
  <2>5. \A c \in Controller : socket_child[c] # f
    BY <1>a, <2>2
  <2>6. Apart'
    BY <1>a, <2>2, <2>3, <2>4, <2>5
  <2>7. MainHolds'
    BY <2>1, <2>2, <2>3, <2>4, <2>5
  <2>8. HandlerHolds'
    <3> SUFFICES ASSUME NEW t \in Thread, NEW c \in Controller, Serves(t, c)'
                 PROVE  IF tpc'[t] \in {"drop3", "close"} THEN socket_child'[c] = NoFd
                        ELSE socket_child'[c] \in Fd /\ bound'[socket_child'[c]] = udp_port'[c]
      OBVIOUS
    <3>1. Serves(t, c) /\ c # mc
      BY <2>1, <2>4 DEF Unserved
    <3> QED
      BY <1>a, <2>2, <2>4, <2>5, <3>1
  <2> QED
    BY <2>6, <2>7, <2>8
<1>5. CASE MainBindBusy \/ MainNoSocket
  <2>1. mpc = "bind" /\ mpc' = "bind" /\ mc' = mc /\ Unserved(mc)
    BY <1>a, <1>5 DEF MainBindBusy, MainNoSocket, Session, MainAlone, Offering
  <2>2. /\ UNCHANGED <<socket_child, tpc, pos, meant>>
        /\ \A c \in Controller : c # mc => udp_port'[c] = udp_port[c]
    BY <1>5 DEF MainBindBusy, MainNoSocket
  <2>3. \A f \in Fd : bound'[f] = bound[f] \/ (bound[f] = Closed /\ bound'[f] = Unbound)
    BY <1>5 DEF MainBindBusy, MainNoSocket, LowestFree
  <2>4. \A c \in Controller : socket_child[c] \in Fd => bound'[socket_child[c]] = bound[socket_child[c]]
    BY <1>a, <2>3
  <2> QED
    BY <1>a, <2>1, <2>2, <2>3, <2>4 DEF Unserved
<1>6. CASE MainNoTimeout
  <2>1. Unserved(mc)
    BY <1>a, <1>6 DEF MainNoTimeout, Session, MainAlone, Offering
  <2>2. /\ mfd \in Fd /\ \A c \in Controller : socket_child[c] # mfd
        /\ bound' = [bound EXCEPT ![mfd] = Closed]
        /\ socket_child' = [socket_child EXCEPT ![mc] = NoFd]
        /\ mpc' = "exited"
        /\ UNCHANGED <<udp_port, tpc, pos, meant>>
    BY <1>a, <1>6 DEF MainNoTimeout, DropSocket
  <2> QED
    BY <1>a, <2>1, <2>2 DEF Unserved
<1>7. CASE MainSave
  <2>1. Unserved(mc)
    BY <1>a, <1>7 DEF MainSave, Session, MainAlone, Handing
  <2> QED
    BY <1>a, <1>7, <2>1 DEF MainSave, Unserved
<1>8. CASE MainNoThread
  BY <1>a, <1>8 DEF MainNoThread
<1>9. ASSUME NEW t \in Thread, MainSpawn(t) PROVE MainHolds' /\ Apart' /\ HandlerHolds'
  BY <1>a, <1>9 DEF MainSpawn
<1>10. ASSUME NEW t \in Thread, HandlerStart(t) PROVE MainHolds' /\ Apart' /\ HandlerHolds'
  <2>1. args_pos = meant[t]
    BY <1>0, <1>10 DEF HandlerStart, Disturb, At
  <2> QED
    BY <1>a, <1>10, <2>1 DEF HandlerStart, At, Goto
<1>11. ASSUME NEW t \in Thread,
              \/ HandlerMark(t) \/ InfoCall(t) \/ InfoTimeout(t) \/ InfoAck(t) \/ InfoSet(t)
              \/ HelloCheck(t) \/ HelloExpire(t) \/ HelloCall(t) \/ HelloTimeout(t)
              \/ HelloFirst(t) \/ HelloReply(t) \/ HandlerDropState(t)
              \/ (\E m \in Datagram : InfoReceive(t, m) \/ HelloReceive(t, m))
       PROVE  MainHolds' /\ Apart' /\ HandlerHolds'
  <2>1. /\ tpc[t] \notin {"free", "start", "drop3", "close"}
        /\ \E point \in ThreadPoints \ {"free", "start", "drop3", "close"} :
             tpc' = [tpc EXCEPT ![t] = point]
    BY <1>11 DEF HandlerMark, InfoCall, InfoTimeout, InfoAck, InfoSet, HelloCheck,
       HelloExpire, HelloCall, HelloTimeout, HelloFirst, HelloReply, HandlerDropState,
       InfoReceive, HelloReceive, At, Goto, ThreadPoints, InfoPoints, HelloPoints, TearDown
  <2>2. UNCHANGED <<udp_port, socket_child, bound, main, pos, meant>>
    BY <1>11 DEF HandlerMark, InfoCall, InfoTimeout, InfoAck, InfoSet, HelloCheck,
       HelloExpire, HelloCall, HelloTimeout, HelloFirst, HelloReply, HandlerDropState,
       InfoReceive, HelloReceive
  <2> QED
    BY <1>a, <2>1, <2>2
<1>12. ASSUME NEW t \in Thread, InfoGiveUp(t) \/ HelloLeave(t)
       PROVE  MainHolds' /\ Apart' /\ HandlerHolds'
  <2>1. CASE InfoGiveUp(t)
    BY <1>a, <2>1 DEF InfoGiveUp, Return, At, Goto
  <2>2. CASE HelloLeave(t)
    <3>1. /\ tpc[t] = "hello_check" /\ pos[t] \in Controller /\ Serves(t, pos[t])
          /\ state[pos[t]] \notin {"SUBSCRIBED", "SEND_HELLO"}
      BY <2>2 DEF HelloLeave, At
    <3>2. state[pos[t]] \in {"SUBSCRIBED", "SEND_HELLO"}
      BY <1>a, <3>1 DEF Session, InStep, StateAt, HelloPoints
    <3> QED
      BY <3>1, <3>2
  <2> QED
    BY <1>12, <2>1, <2>2
<1>13. ASSUME NEW t \in Thread, HandlerDropSocket(t) PROVE MainHolds' /\ Apart' /\ HandlerHolds'
  <2>1. /\ tpc[t] = "drop2" /\ tpc' = [tpc EXCEPT ![t] = "drop3"]
        /\ pos[t] \in Controller /\ Serves(t, pos[t])
        /\ socket_child' = [socket_child EXCEPT ![pos[t]] = NoFd]
        /\ UNCHANGED <<udp_port, bound, main, pos, meant>>
    BY <1>13 DEF HandlerDropSocket, DropSocket, At, Goto
  <2>2. \A u \in Thread : Serves(u, pos[t]) => u = t
    BY <1>a, <2>1 DEF Session, ServedOnce
  <2>3. HandlerHolds'
    BY <1>a, <2>1, <2>2
  <2>4. mpc = "spawn" => mc # pos[t]
    BY <1>a, <2>1 DEF Session, MainAlone, Handing, Unserved
  <2> QED
    BY <1>a, <2>1, <2>3, <2>4
<1>14. ASSUME NEW t \in Thread, HandlerDropRandom(t) PROVE MainHolds' /\ Apart' /\ HandlerHolds'
  BY <1>a, <1>14 DEF HandlerDropRandom, At, Goto
<1>15. ASSUME NEW t \in Thread, HandlerClose(t) PROVE MainHolds' /\ Apart' /\ HandlerHolds'
  <2>1. socket_child[pos[t]] = NoFd
    BY <1>a, <1>15 DEF HandlerClose, At
  <2>2. bound' = bound
    BY <1>15, <2>1 DEF HandlerClose
  <2> QED
    BY <1>a, <1>15, <2>2 DEF HandlerClose, Return, At, Goto
<1>16. ASSUME NEW m \in Datagram, MainReceive(m) PROVE MainHolds' /\ Apart' /\ HandlerHolds'
  <2>1. UNCHANGED <<udp_port, socket_child, bound, mfd, tpc, pos, meant>>
    BY <1>16 DEF MainReceive, MainIgnore, MainReject, MainOffer, MainEvict
  <2>2. mpc' \in {"recv", "roll", "drop1"}
    BY <1>16 DEF MainReceive, MainIgnore, MainReject, MainOffer, MainEvict
  <2> QED
    BY <1>a, <2>1, <2>2
<1>17. CASE UNCHANGED vars
  BY <1>a, <1>17
<1> QED
  BY <1>1, <1>2, <1>3, <1>4, <1>5, <1>6, <1>7, <1>8, <1>9, <1>10, <1>11, <1>12, <1>13,
     <1>14, <1>15, <1>16, <1>17 DEF Next, MainStep, HandlerStep, HandlerReceive

\* Whoever needs a socket finds it.
LEMMA SocketsIntact ==
  ASSUME TypeOK, Placed, Sessions, Sockets
  PROVE  SocketIntact
<1> SUFFICES ASSUME calm, NEW t \in Thread, NeedsSocket(t)
             PROVE  /\ socket_child[pos[t]] \in Fd
                    /\ bound[socket_child[pos[t]]] = udp_port[pos[t]]
                    /\ \A u \in Thread :
                         NeedsSocket(u) /\ udp_port[pos[u]] = udp_port[pos[t]] => u = t
  BY DEF SocketIntact
<1>1. \A u \in Thread : NeedsSocket(u) =>
        /\ pos[u] \in Controller /\ Serves(u, pos[u])
        /\ socket_child[pos[u]] \in Fd /\ bound[socket_child[pos[u]]] = udp_port[pos[u]]
  BY DEF Sockets, HandlerHolds, NeedsSocket, Placed, Serves
<1>2. ASSUME NEW u \in Thread, NeedsSocket(u), udp_port[pos[u]] = udp_port[pos[t]]
      PROVE  u = t
  <2>1. socket_child[pos[u]] = socket_child[pos[t]]
    BY <1>1, <1>2 DEF Sockets, Apart
  <2>2. pos[u] = pos[t]
    BY <1>1, <1>2, <2>1 DEF Sockets, Apart
  <2> QED
    BY <1>1, <1>2, <2>2 DEF Sockets, Sessions, Session, ServedOnce
<1> QED
  BY <1>1, <1>2

-----------------------------------------------------------------------------
(* RepliesCarryOffer.                                                      *)

\* Two actions alone send a reply that carries the offered random number.
LEMMA OtherReplies ==
  ASSUME Next, ~\E t \in Thread : InfoAck(t) \/ HelloReply(t)
  PROVE  \A r \in out' : r.type \notin {"INFO_ACK", "HELLO"}
<1>1. CASE Tick
  BY <1>1 DEF Tick
<1>2. CASE MainStep
  BY <1>2 DEF MainStep, MainDropState, MainDropSocket, MainDropRandom, MainRoll,
       MainBind, MainBindBusy, MainNoSocket, MainAck, MainNoTimeout, MainWaitInfo,
       MainSave, MainSpawn, MainNoThread, Reply
<1>3. ASSUME NEW m \in Datagram, MainReceive(m)
      PROVE  \A r \in out' : r.type \notin {"INFO_ACK", "HELLO"}
  BY <1>3 DEF MainReceive, MainIgnore, MainReject, MainOffer, MainEvict, Reply
<1>4. ASSUME NEW t \in Thread, HandlerStep(t), ~InfoAck(t), ~HelloReply(t)
      PROVE  \A r \in out' : r.type \notin {"INFO_ACK", "HELLO"}
  BY <1>4 DEF HandlerStep, HandlerStart, HandlerMark, InfoCall, InfoGiveUp, InfoTimeout,
       InfoSet, HelloCheck, HelloExpire, HelloLeave, HelloCall, HelloTimeout, HelloFirst,
       HandlerDropState, HandlerDropSocket, HandlerDropRandom, HandlerClose
<1>5. ASSUME NEW t \in Thread, NEW m \in Datagram, HandlerReceive(t, m)
      PROVE  \A r \in out' : r.type \notin {"INFO_ACK", "HELLO"}
  <2>1. CASE InfoReceive(t, m)
    BY <2>1 DEF InfoReceive, SendOn, Reply
  <2>2. CASE HelloReceive(t, m)
    BY <2>2 DEF HelloReceive, SendOn, Reply
  <2> QED
    BY <1>5, <2>1, <2>2 DEF HandlerReceive
<1> QED
  BY <1>1, <1>2, <1>3, <1>4, <1>5 DEF Next

\* What these two send, the table still holds as it was offered.
LEMMA RepliesStep ==
  ASSUME TypeOK, Placed, Sessions, RepliesCarryOffer, [Next]_vars
  PROVE  RepliesCarryOffer'
<1>1. CASE UNCHANGED vars
  BY <1>1 DEF vars, history, RepliesCarryOffer
<1>2. ASSUME NEW t \in Thread, InfoAck(t) \/ HelloReply(t)
      PROVE  RepliesCarryOffer'
  <2>1. /\ tpc[t] \in {"info_ack", "hello_reply"}
        /\ \A r \in out' : r.to = pos[t] /\ r.random = random_num[pos[t]]
        /\ UNCHANGED <<offered, disturbed>>
    BY <1>2 DEF InfoAck, HelloReply, At, SendOn, Reply, history
  <2>2. pos[t] \in Controller /\ Serves(t, pos[t])
    BY <2>1 DEF Placed, Serves
  <2>3. ~disturbed[pos[t]] => random_num[pos[t]] = offered[pos[t]]
    BY <2>1, <2>2 DEF Sessions, Session, OfferHeld, TearDown
  <2> QED
    BY <2>1, <2>3 DEF RepliesCarryOffer
<1>3. CASE Next /\ ~\E t \in Thread : InfoAck(t) \/ HelloReply(t)
  BY <1>3, OtherReplies DEF RepliesCarryOffer
<1> QED
  BY <1>1, <1>2, <1>3

-----------------------------------------------------------------------------
(* The invariant and what follows from it.                                 *)

\* The initial states satisfy the invariant.
LEMMA Initially == Init => IInv
<1> SUFFICES ASSUME Init PROVE IInv
  OBVIOUS
<1>1. TypeOK /\ Placed /\ Sessions /\ RepliesCarryOffer
  BY DrawAssumption, TableAssumption
     DEF Init, TypeOK, Placed, Sessions, Session, MainAlone, ServedOnce, InStep,
         WaitShort, OfferHeld, RepliesCarryOffer, Serves, ClientStates, MainPoints,
         ThreadPoints, Fd, NoFd, Offering, Handing, Dropping, Replies, Unserved
<1>2. Sockets
  <2>1. MainHolds /\ HandlerHolds /\ \A c \in Controller : ~disturbed[c]
    BY DEF Init, MainHolds, HandlerHolds, Serves
  <2>2. Apart
    BY PortAssumption DEF Init, Apart, Fd, NoFd
  <2> QED
    BY <2>1, <2>2 DEF Sockets
<1> QED
  BY <1>1, <1>2 DEF IInv

\* IInv is an invariant of the server.
THEOREM Invariant == Spec => []IInv
<1>1. IInv /\ [Next]_vars => IInv'
  BY TypesStep, SessionsStep, SocketsStep, RepliesStep DEF IInv
<1> QED
  BY <1>1, Initially, PTL DEF Spec

\* Every variable keeps its type: in particular the retry counters of
\* controller_handler never fall below zero.
THEOREM TypeCorrect == Spec => []TypeOK
<1>1. IInv => TypeOK
  BY DEF IInv
<1> QED
  BY <1>1, Invariant, PTL

\* Two handlers serve the same controller only if its session was disturbed.
THEOREM Exclusive == Spec => []ExclusiveService
<1>1. IInv => ExclusiveService
  BY DEF IInv, Sessions, Session, ServedOnce, ExclusiveService
<1> QED
  BY <1>1, Invariant, PTL

\* Main and the handlers act for a controller one at a time, its state is that
\* of its handler's control point, and the table keeps its offer.
THEOREM InOrder == Spec => []Sessions
<1>1. IInv => Sessions
  BY DEF IInv
<1> QED
  BY <1>1, Invariant, PTL

\* As long as no session was ever disturbed, main's new socket is its own until
\* the table has it, no two controllers share a descriptor and no two
\* descriptors a port, and a handler's socket is in the table until it drops it.
THEOREM HeldApart == Spec => []Sockets
<1>1. IInv => Sockets
  BY DEF IInv
<1> QED
  BY <1>1, Invariant, PTL

\* The socket a handler needs is open, bound to its controller's port, and no
\* other handler's, as long as no session was ever disturbed.
THEOREM Intact == Spec => []SocketIntact
<1>1. IInv => SocketIntact
  BY SocketsIntact DEF IInv
<1> QED
  BY <1>1, Invariant, PTL

\* The random number a client is told in SUBS_ACK is the one it is told in
\* INFO_ACK and HELLO, if its session was not disturbed.
THEOREM CarryOffer == Spec => []RepliesCarryOffer
<1>1. IInv => RepliesCarryOffer
  BY DEF IInv
<1> QED
  BY <1>1, Invariant, PTL

-----------------------------------------------------------------------------
(* Server implements Registration.                                         *)

\* The life of an undisturbed controller, from its state and the control point of
\* the handler that serves it, "free" if none does.
LifeOf(point, s) ==
  IF point = "drop1" THEN "DISCONNECTED"
  ELSE IF s = "SUBSCRIBED" /\ point \notin HelloPoints THEN "WAIT_INFO"
  ELSE s

LEMMA LifeServed ==
  ASSUME NEW c \in Controller, ~disturbed[c], ServedOnce(c),
         NEW t \in Thread, Serves(t, c)
  PROVE  life[c] = LifeOf(tpc[t], state[c])
<1>1. \A u \in Thread : Serves(u, c) => u = t
  BY DEF ServedOnce
<1>2. Over(c) <=> tpc[t] = "drop1"
  BY <1>1 DEF Over
<1>3. Begun(c) <=> tpc[t] \in HelloPoints
  BY <1>1 DEF Begun
<1> QED
  BY <1>2, <1>3 DEF life, LifeOf

LEMMA LifeUnserved ==
  ASSUME NEW c \in Controller, ~disturbed[c], Unserved(c)
  PROVE  life[c] = LifeOf("free", state[c])
<1>1. ~Over(c) /\ ~Begun(c) /\ "free" \notin HelloPoints
  BY DEF Unserved, Over, Begun, HelloPoints
<1> QED
  BY <1>1 DEF life, LifeOf

\* The threads serve whom they served, at the points where they were.
SameService == UNCHANGED <<tpc, pos, meant>>

LEMMA LifeSame ==
  ASSUME UNCHANGED <<state, disturbed>>, SameService
  PROVE  UNCHANGED life
  BY DEF life, Over, Begun, Serves, SameService

\* A step that only disturbs sessions.
LEMMA LifeDisturb ==
  ASSUME UNCHANGED state, TypeOK, TypeOK',
         \A c \in Controller : disturbed[c] => disturbed'[c],
         \A c \in Controller : ~disturbed'[c] => (Over(c)' <=> Over(c)) /\ (Begun(c)' <=> Begun(c))
  PROVE  [Cycle!Next]_life
<1> DEFINE S == {c \in Controller : disturbed'[c]}
<1>1. ASSUME NEW c \in Controller
      PROVE  life'[c] = IF c \in S THEN "DISTURBED" ELSE life[c]
  BY <1>1 DEF life
<1>2. life' = [c \in Controller |-> life'[c]]
  BY DEF life
<1>3. Cycle!Disturb(S)
  BY <1>1, <1>2 DEF Cycle!Disturb
<1> QED
  BY <1>3 DEF Cycle!Next

\* Main changes the state of a controller nobody serves.
LEMMA MainLife ==
  ASSUME TypeOK, NEW c \in Controller, NEW s \in ClientStates,
         set_state_controller(c, s), UNCHANGED disturbed, SameService,
         ~disturbed[c] => Unserved(c)
  PROVE  /\ ~disturbed[c] => life[c] = LifeOf("free", state[c])
         /\ life' = IF disturbed[c] THEN life ELSE [life EXCEPT ![c] = LifeOf("free", s)]
<1>1. ~disturbed[c] => life[c] = LifeOf("free", state[c])
  BY LifeUnserved
<1>2. state'[c] = s /\ \A d \in Controller \ {c} : state'[d] = state[d]
  BY DEF set_state_controller, TypeOK
<1>3. \A d \in Controller : Over(d)' = Over(d) /\ Begun(d)' = Begun(d)
  BY DEF Over, Begun, Serves, SameService
<1>4. \A d \in Controller \ {c} : life'[d] = life[d]
  BY <1>2, <1>3 DEF life
<1>5. CASE disturbed[c]
  <2>1. life'[c] = life[c]
    BY <1>5 DEF life
  <2>2. life' = life
    BY <2>1, <1>4 DEF life
  <2> QED
    BY <1>1, <1>5, <2>2
<1>6. CASE ~disturbed[c]
  <2>1. ~Over(c)' /\ ~Begun(c)'
    BY <1>3, <1>6 DEF Unserved, Over, Begun
  <2>2. life'[c] = LifeOf("free", s)
    BY <1>2, <1>6, <2>1 DEF life, LifeOf, HelloPoints
  <2> QED
    BY <1>1, <1>4, <1>6, <2>2 DEF life
<1> QED
  BY <1>5, <1>6

\* A handler goes from one point to another and may change the state of the
\* controller it serves.
LEMMA HandlerLife ==
  ASSUME TypeOK, NEW t \in Thread, NEW c \in Controller, NEW p \in ThreadPoints,
         Sessions, c = pos[t], tpc[t] \notin {"free", "start"},
         Goto(t, p), p \notin {"free", "start"}, UNCHANGED <<pos, meant, disturbed>>,
         \A d \in Controller \ {c} : state'[d] = state[d]
  PROVE  /\ ~disturbed[c] => life[c] = LifeOf(tpc[t], state[c])
         /\ ~disturbed[c] => StateAt(tpc[t], state[c], first[t])
         /\ life' = IF disturbed[c] THEN life
                    ELSE [life EXCEPT ![c] = LifeOf(p, state'[c])]
<1>1. Serves(t, c) /\ Serves(t, c)' /\ tpc'[t] = p
  BY DEF Serves, Goto, TypeOK
<1>2. \A u \in Thread \ {t} : tpc'[u] = tpc[u]
  BY DEF Goto, TypeOK
<1>3. \A u \in Thread \ {t}, d \in Controller : Serves(u, d)' = Serves(u, d)
  BY <1>2 DEF Serves
<1>4. \A d \in Controller \ {c} : ~Serves(t, d) /\ ~Serves(t, d)'
  BY <1>1 DEF Serves
<1>5. \A d \in Controller \ {c} : Over(d)' = Over(d) /\ Begun(d)' = Begun(d)
  BY <1>2, <1>3, <1>4 DEF Over, Begun
<1>6. \A d \in Controller \ {c} : life'[d] = life[d]
  BY <1>5 DEF life
<1>7. CASE disturbed[c]
  <2>1. life'[c] = life[c]
    BY <1>7 DEF life
  <2> QED
    BY <1>6, <1>7, <2>1 DEF life
<1>8. CASE ~disturbed[c]
  <2>1. ServedOnce(c) /\ StateAt(tpc[t], state[c], first[t])
    BY <1>1, <1>8 DEF Sessions, Session, InStep
  <2>2. \A u \in Thread : Serves(u, c)' => u = t
    BY <1>1, <1>3, <2>1 DEF ServedOnce
  <2>3. (Over(c)' <=> p = "drop1") /\ (Begun(c)' <=> p \in HelloPoints)
    BY <1>1, <2>2 DEF Over, Begun
  <2>4. life'[c] = LifeOf(p, state'[c])
    BY <1>8, <2>3 DEF life, LifeOf
  <2>5. life[c] = LifeOf(tpc[t], state[c])
    BY <1>1, <1>8, <2>1, LifeServed
  <2> QED
    BY <1>6, <1>8, <2>1, <2>4, <2>5 DEF life
<1> QED
  BY <1>7, <1>8

\* What HandlerLife makes of a step of the cycle, or of none.
LEMMA LifeMoves ==
  ASSUME NEW c \in Controller, NEW new,
         life' = (IF disturbed[c] THEN life ELSE [life EXCEPT ![c] = new]),
         ~disturbed[c] =>
           \/ life[c] = new
           \/ life[c] = "DISCONNECTED" /\ new = "WAIT_INFO"
           \/ life[c] = "WAIT_INFO" /\ new = "SUBSCRIBED"
           \/ life[c] = "SUBSCRIBED" /\ new = "SEND_HELLO"
           \/ life[c] \in {"WAIT_INFO", "SUBSCRIBED", "SEND_HELLO"} /\ new = "DISCONNECTED"
  PROVE  [Cycle!Next]_life
<1>1. CASE disturbed[c]
  BY <1>1
<1>2. CASE ~disturbed[c] /\ life[c] = new
  BY <1>2 DEF life
<1>3. CASE ~disturbed[c] /\ life[c] # new
  <2>1. life' = [life EXCEPT ![c] = new]
    BY <1>3
  <2>2. Cycle!Offer(c) \/ Cycle!Subscribe(c) \/ Cycle!Greet(c) \/ Cycle!Leave(c)
    BY <1>3, <2>1 DEF Cycle!Offer, Cycle!Subscribe, Cycle!Greet, Cycle!Leave
  <2> QED
    BY <2>2 DEF Cycle!Next
<1> QED
  BY <1>1, <1>2, <1>3

\* Every step of main is a step of the cycle or a stutter.
LEMMA MainCycle ==
  ASSUME TypeOK, TypeOK', Placed, Sessions, MainStep
  PROVE  [Cycle!Next]_life
<1> USE DEF table, kernel, main, threads, history
<1>1. CASE UNCHANGED <<state, disturbed>> /\ SameService
  BY <1>1, LifeSame
<1>2. CASE MainDropState
  <2>1. mpc = "drop1" /\ mc \in Controller
    BY <1>2 DEF MainDropState, Placed
  <2>2. ~disturbed[mc] => Unserved(mc) /\ state[mc] \in {"SUBSCRIBED", "SEND_HELLO"}
    BY <2>1 DEF Sessions, Session, MainAlone, Dropping
  <2>3. /\ ~disturbed[mc] => life[mc] = LifeOf("free", state[mc])
        /\ life' = IF disturbed[mc] THEN life
                   ELSE [life EXCEPT ![mc] = LifeOf("free", "DISCONNECTED")]
    BY <1>2, <2>1, <2>2, MainLife DEF MainDropState, ClientStates, SameService
  <2> QED
    BY <2>1, <2>2, <2>3, LifeMoves DEF LifeOf
<1>3. CASE MainNoTimeout
  <2>1. mpc = "ack" /\ mc \in Controller
    BY <1>3 DEF MainNoTimeout, Placed
  <2>2. ~disturbed[mc] => Unserved(mc) /\ state[mc] = "DISCONNECTED"
    BY <2>1 DEF Sessions, Session, MainAlone, Offering
  <2>3. /\ ~disturbed[mc] => life[mc] = LifeOf("free", state[mc])
        /\ life' = IF disturbed[mc] THEN life
                   ELSE [life EXCEPT ![mc] = LifeOf("free", "DISCONNECTED")]
    BY <1>3, <2>1, <2>2, MainLife DEF MainNoTimeout, ClientStates, SameService
  <2> QED
    BY <2>1, <2>2, <2>3, LifeMoves DEF LifeOf
<1>4. CASE MainWaitInfo
  <2>1. mpc = "wait" /\ mc \in Controller
    BY <1>4 DEF MainWaitInfo, Placed
  <2>2. ~disturbed[mc] => Unserved(mc) /\ state[mc] = "DISCONNECTED"
    BY <2>1 DEF Sessions, Session, MainAlone, Offering
  <2>3. /\ ~disturbed[mc] => life[mc] = LifeOf("free", state[mc])
        /\ life' = IF disturbed[mc] THEN life
                   ELSE [life EXCEPT ![mc] = LifeOf("free", "WAIT_INFO")]
    BY <1>4, <2>1, <2>2, MainLife DEF MainWaitInfo, ClientStates, SameService
  <2> QED
    BY <2>1, <2>2, <2>3, LifeMoves DEF LifeOf
<1>5. ASSUME NEW t \in Thread, MainSpawn(t)
      PROVE  [Cycle!Next]_life
  <2>1. tpc[t] = "free" /\ tpc'[t] = "start" /\ \A u \in Thread \ {t} : tpc'[u] = tpc[u]
    BY <1>5 DEF MainSpawn, TypeOK
  <2>2. UNCHANGED <<state, disturbed, pos>> /\ \A u \in Thread \ {t} : meant'[u] = meant[u]
    BY <1>5 DEF MainSpawn, TypeOK
  <2>3. \A u \in Thread \ {t}, d \in Controller : Serves(u, d)' = Serves(u, d)
    BY <2>1, <2>2 DEF Serves
  <2>4. "start" \notin HelloPoints \cup {"drop1"} /\ "free" \notin HelloPoints \cup {"drop1"}
    BY DEF HelloPoints
  <2>5. \A d \in Controller : Over(d)' = Over(d) /\ Begun(d)' = Begun(d)
    BY <2>1, <2>3, <2>4 DEF Over, Begun
  <2>6. life' = life
    BY <2>2, <2>5 DEF life
  <2> QED
    BY <2>6
<1> QED
  <2>1. \/ MainDropState \/ MainNoTimeout \/ MainWaitInfo \/ \E t \in Thread : MainSpawn(t)
        \/ UNCHANGED <<state, disturbed>> /\ SameService
    BY DEF MainStep, MainDropSocket, MainDropRandom, MainRoll, MainBind, MainBindBusy,
         MainNoSocket, MainAck, MainSave, MainNoThread, SameService
  <2> QED
    BY <2>1, <1>1, <1>2, <1>3, <1>4, <1>5

\* A handler returns; the controller keeps its state.
LEMMA ReturnLife ==
  ASSUME TypeOK, NEW t \in Thread, NEW c \in Controller, c = pos[t],
         tpc[t] \in {"info_call", "close"}, Return(t), UNCHANGED <<state, disturbed>>
  PROVE  life' = life
<1>1. \A u \in Thread \ {t} : tpc'[u] = tpc[u] /\ pos'[u] = pos[u] /\ meant'[u] = meant[u]
  BY DEF Return, Goto, TypeOK
<1>2. \A u \in Thread \ {t}, d \in Controller : Serves(u, d)' = Serves(u, d)
  BY <1>1 DEF Serves
<1>3. tpc'[t] = "free" /\ "free" \notin HelloPoints /\ tpc[t] \notin HelloPoints
  BY DEF Return, Goto, TypeOK, HelloPoints
<1>4. \A d \in Controller : Over(d)' = Over(d) /\ Begun(d)' = Begun(d)
  BY <1>1, <1>2, <1>3 DEF Over, Begun
<1> QED
  BY <1>4 DEF life

\* Where a step of a handler takes it, and the state it leaves its controller in.
Moves(t, p, s) ==
  /\ Goto(t, p)
  /\ state' = [state EXCEPT ![pos[t]] = s]
  /\ UNCHANGED <<pos, meant, disturbed>>

\* A step of a handler that takes its controller along the cycle, or not.
LEMMA MovesCycle ==
  ASSUME TypeOK, Placed, Sessions, NEW t \in Thread, NEW p \in ThreadPoints,
         NEW s \in ClientStates, Moves(t, p, s),
         tpc[t] \notin {"free", "start"}, p \notin {"free", "start"},
         \A b \in BOOLEAN : StateAt(tpc[t], state[pos[t]], b) =>
           \/ LifeOf(tpc[t], state[pos[t]]) = LifeOf(p, s)
           \/ LifeOf(tpc[t], state[pos[t]]) = "WAIT_INFO" /\ LifeOf(p, s) = "SUBSCRIBED"
           \/ LifeOf(tpc[t], state[pos[t]]) = "SUBSCRIBED" /\ LifeOf(p, s) = "SEND_HELLO"
           \/ /\ LifeOf(tpc[t], state[pos[t]]) \in {"WAIT_INFO", "SUBSCRIBED", "SEND_HELLO"}
              /\ LifeOf(p, s) = "DISCONNECTED"
  PROVE  [Cycle!Next]_life
<1>1. PICK c \in Controller : c = pos[t]
  BY DEF Placed
<1>2. state'[c] = s /\ \A d \in Controller \ {c} : state'[d] = state[d]
  BY <1>1 DEF Moves, TypeOK
<1>3. /\ ~disturbed[c] => life[c] = LifeOf(tpc[t], state[c])
      /\ ~disturbed[c] => StateAt(tpc[t], state[c], first[t])
      /\ life' = IF disturbed[c] THEN life ELSE [life EXCEPT ![c] = LifeOf(p, state'[c])]
  BY <1>1, <1>2, HandlerLife DEF Moves
<1>4. first[t] \in BOOLEAN
  BY DEF TypeOK
<1>5. life' = IF disturbed[c] THEN life ELSE [life EXCEPT ![c] = LifeOf(p, s)]
  BY <1>2, <1>3
<1>6. ~disturbed[c] =>
        \/ life[c] = LifeOf(p, s)
        \/ life[c] = "WAIT_INFO" /\ LifeOf(p, s) = "SUBSCRIBED"
        \/ life[c] = "SUBSCRIBED" /\ LifeOf(p, s) = "SEND_HELLO"
        \/ life[c] \in {"WAIT_INFO", "SUBSCRIBED", "SEND_HELLO"} /\ LifeOf(p, s) = "DISCONNECTED"
  BY <1>1, <1>3, <1>4
<1> QED
  BY <1>5, <1>6, LifeMoves

\* A step of a handler that leaves the state of its controller alone.
LEMMA StaysMoves ==
  ASSUME TypeOK, Placed, NEW t \in Thread, NEW p, tpc[t] \notin {"free", "start"},
         Goto(t, p), UNCHANGED <<state, pos, meant, disturbed>>
  PROVE  Moves(t, p, state[pos[t]]) /\ state[pos[t]] \in ClientStates
<1>1. pos[t] \in Controller /\ state \in [Controller -> ClientStates]
  BY DEF Placed, TypeOK
<1> QED
  BY <1>1 DEF Moves

\* Every step of a handler is a step of the cycle or a stutter.
LEMMA HandlerCycle ==
  ASSUME TypeOK, TypeOK', Placed, Sessions, NEW t \in Thread, HandlerStep(t)
  PROVE  [Cycle!Next]_life
<1> USE DEF table, kernel, main, threads, history, At
<1>1. CASE HandlerStart(t)
  <2>1. /\ UNCHANGED state
        /\ \A c \in Controller : disturbed'[c] <=>
             disturbed[c] \/ (args_pos # meant[t] /\ c \in {args_pos, meant[t]})
    BY <1>1 DEF HandlerStart, Disturb, TypeOK
  <2>2. /\ tpc[t] = "start" /\ tpc'[t] = "mark" /\ pos'[t] = args_pos
        /\ \A u \in Thread \ {t} : tpc'[u] = tpc[u] /\ pos'[u] = pos[u]
        /\ meant' = meant
    BY <1>1 DEF HandlerStart, Goto, TypeOK
  <2>3. \A u \in Thread \ {t}, d \in Controller : Serves(u, d)' = Serves(u, d)
    BY <2>2 DEF Serves
  <2>4. {"start", "mark"} \cap (HelloPoints \cup {"drop1"}) = {}
    BY DEF HelloPoints
  <2>5. \A d \in Controller : Over(d)' = Over(d) /\ Begun(d)' = Begun(d)
    BY <2>2, <2>3, <2>4 DEF Over, Begun
  <2> QED
    BY <2>1, <2>5, LifeDisturb
<1>2. CASE HandlerMark(t)
  <2>1. tpc[t] = "mark" /\ Moves(t, "info_call", "SUBSCRIBED")
    BY <1>2 DEF HandlerMark, Moves, set_state_controller
  <2> QED
    BY <2>1, MovesCycle DEF StateAt, LifeOf, ThreadPoints, InfoPoints, HelloPoints,
       TearDown, ClientStates
<1>3. CASE InfoSet(t)
  <2>1. tpc[t] = "info_set" /\ Moves(t, "hello_check", "SUBSCRIBED")
    BY <1>3 DEF InfoSet, Moves, set_state_controller
  <2> QED
    BY <2>1, MovesCycle DEF StateAt, LifeOf, ThreadPoints, InfoPoints, HelloPoints,
       TearDown, ClientStates
<1>4. CASE HelloFirst(t)
  <2>1. tpc[t] = "hello_first" /\ Moves(t, "hello_reply", "SEND_HELLO")
    BY <1>4 DEF HelloFirst, Moves, set_state_controller
  <2> QED
    BY <2>1, MovesCycle DEF StateAt, LifeOf, ThreadPoints, InfoPoints, HelloPoints,
       TearDown, ClientStates
<1>5. CASE HandlerDropState(t)
  <2>1. tpc[t] = "drop1" /\ Moves(t, "drop2", "DISCONNECTED")
    BY <1>5 DEF HandlerDropState, Moves, set_state_controller
  <2> QED
    BY <2>1, MovesCycle DEF StateAt, LifeOf, ThreadPoints, InfoPoints, HelloPoints,
       TearDown, ClientStates
<1>6. CASE InfoGiveUp(t) \/ HandlerClose(t)
  <2>1. tpc[t] \in {"info_call", "close"} /\ Return(t) /\ UNCHANGED <<state, disturbed>>
    BY <1>6 DEF InfoGiveUp, HandlerClose
  <2>2. pos[t] \in Controller
    BY <2>1 DEF Placed
  <2> QED
    BY <2>1, <2>2, ReturnLife
<1>7. CASE HelloExpire(t)
  <2>1. tpc[t] = "hello_check" /\ Goto(t, "drop1") /\ UNCHANGED <<state, pos, meant, disturbed>>
    BY <1>7 DEF HelloExpire
  <2>2. Moves(t, "drop1", state[pos[t]]) /\ state[pos[t]] \in ClientStates
    BY <2>1, StaysMoves
  <2> QED
    BY <2>1, <2>2, MovesCycle DEF StateAt, LifeOf, ThreadPoints, InfoPoints, HelloPoints,
       TearDown, ClientStates
<1>8. CASE HelloLeave(t)
  <2>1. /\ tpc[t] = "hello_check" /\ Goto(t, "close")
        /\ UNCHANGED <<state, pos, meant, disturbed>>
        /\ state[pos[t]] \notin {"SUBSCRIBED", "SEND_HELLO"}
    BY <1>8 DEF HelloLeave
  <2>2. Moves(t, "close", state[pos[t]]) /\ state[pos[t]] \in ClientStates
    BY <2>1, StaysMoves
  <2> QED
    BY <2>1, <2>2, MovesCycle DEF StateAt, LifeOf, ThreadPoints, InfoPoints, HelloPoints,
       TearDown, ClientStates
<1>9. ASSUME NEW p \in ThreadPoints, Goto(t, p),
             UNCHANGED <<state, pos, meant, disturbed>>,
             \/ {tpc[t], p} \subseteq InfoPoints \cup {"info_ack", "info_set"}
             \/ {tpc[t], p} \subseteq HelloPoints
             \/ {tpc[t], p} \subseteq TearDown \ {"drop1"}
      PROVE  [Cycle!Next]_life
  <2>1. tpc[t] \notin {"free", "start"} /\ p \notin {"free", "start"}
    BY <1>9 DEF InfoPoints, HelloPoints, TearDown
  <2>2. Moves(t, p, state[pos[t]]) /\ state[pos[t]] \in ClientStates
    BY <1>9, <2>1, StaysMoves
  <2>3. LifeOf(tpc[t], state[pos[t]]) = LifeOf(p, state[pos[t]])
    BY <1>9 DEF LifeOf, InfoPoints, HelloPoints, TearDown
  <2> QED
    BY <2>1, <2>2, <2>3, MovesCycle
<1>10. \/ HandlerStart(t) \/ HandlerMark(t) \/ InfoSet(t) \/ HelloFirst(t)
       \/ HandlerDropState(t) \/ InfoGiveUp(t) \/ HandlerClose(t) \/ HelloExpire(t)
       \/ HelloLeave(t)
       \/ \E p \in ThreadPoints :
            /\ Goto(t, p)
            /\ UNCHANGED <<state, pos, meant, disturbed>>
            /\ \/ {tpc[t], p} \subseteq InfoPoints \cup {"info_ack", "info_set"}
               \/ {tpc[t], p} \subseteq HelloPoints
               \/ {tpc[t], p} \subseteq TearDown \ {"drop1"}
  BY DEF HandlerStep, InfoCall, InfoTimeout, InfoAck, HelloCheck, HelloCall, HelloTimeout,
     HelloReply, HandlerDropSocket, HandlerDropRandom, ThreadPoints, InfoPoints,
     HelloPoints, TearDown
<1> QED
  BY <1>1, <1>2, <1>3, <1>4, <1>5, <1>6, <1>7, <1>8, <1>9, <1>10

\* A datagram takes a handler on, or makes it disconnect its controller.
LEMMA ReceiveCycle ==
  ASSUME TypeOK, Placed, Sessions, NEW t \in Thread, NEW m \in Datagram, HandlerReceive(t, m)
  PROVE  [Cycle!Next]_life
<1>1. PICK p \in {"info_call", "info_ack", "hello_first", "hello_reply", "hello_check", "drop1"} :
        /\ Goto(t, p)
        /\ \/ tpc[t] = "info_recv" /\ p \in {"info_call", "info_ack", "drop1"}
           \/ tpc[t] = "hello_recv" /\ p \in {"hello_first", "hello_reply", "hello_check", "drop1"}
  BY DEF HandlerReceive, InfoReceive, HelloReceive, At
<1>2. UNCHANGED <<state, pos, meant, disturbed>>
  BY DEF HandlerReceive, InfoReceive, HelloReceive, table, history
<1>3. p \in ThreadPoints /\ p \notin {"free", "start"} /\ tpc[t] \notin {"free", "start"}
  BY <1>1 DEF ThreadPoints, InfoPoints, HelloPoints, TearDown
<1>4. Moves(t, p, state[pos[t]]) /\ state[pos[t]] \in ClientStates
  BY <1>1, <1>2, <1>3, StaysMoves
<1>5. \A b \in BOOLEAN : StateAt(tpc[t], state[pos[t]], b) =>
        \/ LifeOf(tpc[t], state[pos[t]]) = LifeOf(p, state[pos[t]])
        \/ /\ LifeOf(tpc[t], state[pos[t]]) \in {"WAIT_INFO", "SUBSCRIBED", "SEND_HELLO"}
           /\ LifeOf(p, state[pos[t]]) = "DISCONNECTED"
  BY <1>1 DEF StateAt, LifeOf, InfoPoints, HelloPoints
<1> QED
  BY <1>3, <1>4, <1>5, MovesCycle

\* Main begins a session afresh: a session that was disturbed recovers, or one
\* whose handler is still closing is disturbed.
LEMMA OfferCycle ==
  ASSUME TypeOK, TypeOK', Sessions, NEW m \in Datagram, MainOffer(m)
  PROVE  [Cycle!Next]_life
<1>1. /\ m.mac \in Controller /\ state[m.mac] = "DISCONNECTED"
      /\ UNCHANGED <<state, tpc, pos, meant>>
      /\ \A c \in Controller \ {m.mac} : disturbed'[c] = disturbed[c]
      /\ disturbed'[m.mac] =
           \E t \in Thread : Serves(t, m.mac) /\ (disturbed[m.mac] \/ tpc[t] \in TearDown)
  BY DEF MainOffer, MayOffer, Registered, Disturb, table, threads
<1>2. \A c \in Controller : Over(c)' = Over(c) /\ Begun(c)' = Begun(c)
  BY <1>1 DEF Over, Begun, Serves
<1>3. \A c \in Controller \ {m.mac} : life'[c] = life[c]
  BY <1>1, <1>2 DEF life
<1>4. CASE disturbed'[m.mac] = disturbed[m.mac]
  <2>1. life' = life
    BY <1>1, <1>2, <1>4 DEF life
  <2> QED
    BY <2>1
<1>5. CASE disturbed'[m.mac] /\ ~disturbed[m.mac]
  <2>1. \A c \in Controller : disturbed[c] => disturbed'[c]
    BY <1>1, <1>5
  <2> QED
    BY <1>1, <1>2, <2>1, LifeDisturb
<1>6. CASE ~disturbed'[m.mac] /\ disturbed[m.mac]
  <2>1. ~Over(m.mac)
    BY <1>1, <1>6 DEF Over
  <2>2. life[m.mac] = "DISTURBED" /\ life'[m.mac] = "DISCONNECTED"
    BY <1>1, <1>2, <1>6, <2>1 DEF life
  <2>3. life' = [life EXCEPT ![m.mac] = "DISCONNECTED"]
    BY <1>1, <1>3, <2>2 DEF life
  <2>4. Cycle!Recover(m.mac)
    BY <1>1, <2>2, <2>3 DEF Cycle!Recover
  <2> QED
    BY <1>1, <2>4 DEF Cycle!Next
<1>7. disturbed[m.mac] \in BOOLEAN /\ disturbed'[m.mac] \in BOOLEAN
  BY <1>1 DEF TypeOK
<1> QED
  BY <1>4, <1>5, <1>6, <1>7, Zenon

\* Main disconnects a controller under its handler.
LEMMA EvictCycle ==
  ASSUME TypeOK, TypeOK', NEW m \in Datagram, MainEvict(m)
  PROVE  [Cycle!Next]_life
<1>1. UNCHANGED <<state, tpc, pos, meant>> /\ \A c \in Controller : disturbed[c] => disturbed'[c]
  BY DEF MainEvict, Disturb, table, threads
<1>2. \A c \in Controller : Over(c)' = Over(c) /\ Begun(c)' = Begun(c)
  BY <1>1 DEF Over, Begun, Serves
<1> QED
  BY <1>1, <1>2, LifeDisturb

\* Every step of the server is a step of the cycle or a stutter.
LEMMA CycleStep ==
  ASSUME TypeOK, Placed, Sessions, TypeOK', [Next]_vars
  PROVE  [Cycle!Next]_life
<1>1. CASE UNCHANGED vars
  BY <1>1, LifeSame DEF vars, table, threads, history, SameService
<1>2. CASE Tick
  BY <1>2, LifeSame DEF Tick, table, threads, history, SameService
<1>3. CASE MainStep
  BY <1>3, MainCycle
<1>4. ASSUME NEW m \in Datagram, MainReceive(m)
      PROVE  [Cycle!Next]_life
  <2>1. CASE MainIgnore(m) \/ MainReject(m)
    BY <2>1, LifeSame DEF MainIgnore, MainReject, table, threads, history, SameService
  <2> QED
    BY <1>4, <2>1, OfferCycle, EvictCycle DEF MainReceive
<1> QED
  BY <1>1, <1>2, <1>3, <1>4, HandlerCycle, ReceiveCycle DEF Next

\* The initial table maps to the initial cycle.
LEMMA CycleInit == Init => Cycle!Init
<1>1. ASSUME Init PROVE \A c \in Controller : ~Over(c)
  BY <1>1 DEF Init, Over
<1> QED
  BY <1>1 DEF Init, Cycle!Init, life

\* The server implements Registration.
THEOREM Implements == Spec => ImplementsRegistration
<1>1. IInv /\ IInv' /\ [Next]_vars => [Cycle!Next]_life
  BY CycleStep DEF IInv
<1> QED
  BY <1>1, Invariant, CycleInit, PTL DEF Spec, Cycle!Spec, ImplementsRegistration

-----------------------------------------------------------------------------
(* Every handler draws near its return.                                    *)

\* What StepsLeft counts with is a number.
Measured == \A t \in Thread : StepsLeft(t) \in Nat

LEMMA MeasuredAlways == TypeOK => Measured
<1> SUFFICES ASSUME TypeOK, NEW t \in Thread PROVE StepsLeft(t) \in Nat
  BY DEF Measured
<1>1. tries[t] \in 0 .. 3 /\ tpc[t] \in ThreadPoints
  BY DEF TypeOK
<1>2. tpc[t] \in {"free", "start", "mark", "info_call", "info_recv", "info_ack", "info_set",
                  "hello_check", "hello_call", "hello_recv", "hello_first", "hello_reply",
                  "drop1", "drop2", "drop3", "close"}
  BY <1>1 DEF ThreadPoints, InfoPoints, HelloPoints, TearDown
<1> QED
  BY <1>1, <1>2 DEF StepsLeft

\* Every step of a handler leaves it fewer steps to take.
LEMMA StepNears ==
  ASSUME TypeOK, Placed, NEW t \in Thread, HandlerStep(t)
  PROVE  StepsLeft(t)' < StepsLeft(t)
<1> USE DEF StepsLeft, At, Goto
<1>1. tries[t] \in 0 .. 3 /\ tpc \in [Thread -> ThreadPoints] /\ tries \in [Thread -> 0 .. 3]
  BY DEF TypeOK
<1>2. CASE HandlerStart(t)
  BY <1>1, <1>2 DEF HandlerStart
<1>3. CASE HandlerMark(t)
  BY <1>1, <1>3 DEF HandlerMark
<1>4. CASE InfoCall(t)
  BY <1>1, <1>4 DEF InfoCall
<1>5. CASE InfoGiveUp(t)
  BY <1>1, <1>5 DEF InfoGiveUp, Return
<1>6. CASE InfoTimeout(t)
  BY <1>1, <1>6 DEF InfoTimeout, UseTry
<1>7. CASE InfoAck(t)
  BY <1>1, <1>7 DEF InfoAck
<1>8. CASE InfoSet(t)
  BY <1>1, <1>8 DEF InfoSet
<1>9. CASE HelloCheck(t)
  BY <1>1, <1>9 DEF HelloCheck
<1>10. CASE HelloExpire(t)
  BY <1>1, <1>10 DEF HelloExpire
<1>11. CASE HelloLeave(t)
  BY <1>1, <1>11 DEF HelloLeave
<1>12. CASE HelloCall(t)
  BY <1>1, <1>12 DEF HelloCall
<1>13. CASE HelloTimeout(t)
  BY <1>1, <1>13 DEF HelloTimeout, UseTry
<1>14. CASE HelloFirst(t)
  BY <1>1, <1>14 DEF HelloFirst
<1>15. CASE HelloReply(t)
  BY <1>1, <1>15 DEF HelloReply
<1>16. CASE HandlerDropState(t)
  BY <1>1, <1>16 DEF HandlerDropState
<1>17. CASE HandlerDropSocket(t)
  BY <1>1, <1>17 DEF HandlerDropSocket
<1>18. CASE HandlerDropRandom(t)
  BY <1>1, <1>18 DEF HandlerDropRandom
<1>19. CASE HandlerClose(t)
  BY <1>1, <1>19 DEF HandlerClose, Return
<1> QED
  BY <1>2, <1>3, <1>4, <1>5, <1>6, <1>7, <1>8, <1>9, <1>10, <1>11, <1>12, <1>13, <1>14,
     <1>15, <1>16, <1>17, <1>18, <1>19 DEF HandlerStep

\* Main and the other handlers leave it where it is.
LEMMA OthersLeave ==
  ASSUME TypeOK, NEW t \in Thread, [Next]_vars
  PROVE  \/ tpc'[t] = tpc[t] /\ tries'[t] = tries[t]
         \/ HandlerStep(t) \/ MainSpawn(t)
         \/ \E m \in Datagram : HandlerReceive(t, m)
<1> USE DEF TypeOK, main, threads, vars
<1>1. CASE Tick \/ UNCHANGED vars
  BY <1>1 DEF Tick
<1>2. ASSUME NEW u \in Thread, MainSpawn(u), u # t
      PROVE  tpc'[t] = tpc[t] /\ tries'[t] = tries[t]
  BY <1>2 DEF MainSpawn
<1>3. CASE \/ MainDropState \/ MainDropSocket \/ MainDropRandom \/ MainRoll \/ MainBind
           \/ MainBindBusy \/ MainNoSocket \/ MainAck \/ MainNoTimeout \/ MainWaitInfo
           \/ MainSave \/ MainNoThread
  BY <1>3 DEF MainDropState, MainDropSocket, MainDropRandom, MainRoll, MainBind,
     MainBindBusy, MainNoSocket, MainAck, MainNoTimeout, MainWaitInfo, MainSave, MainNoThread
<1>4. ASSUME NEW m \in Datagram, MainReceive(m)
      PROVE  tpc'[t] = tpc[t] /\ tries'[t] = tries[t]
  BY <1>4 DEF MainReceive, MainIgnore, MainReject, MainOffer, MainEvict
<1>5. ASSUME NEW u \in Thread, HandlerStep(u), u # t
      PROVE  tpc'[t] = tpc[t] /\ tries'[t] = tries[t]
  BY <1>5 DEF HandlerStep, HandlerStart, HandlerMark, InfoCall, InfoGiveUp, InfoTimeout,
     InfoAck, InfoSet, HelloCheck, HelloExpire, HelloLeave, HelloCall, HelloTimeout,
     HelloFirst, HelloReply, HandlerDropState, HandlerDropSocket, HandlerDropRandom,
     HandlerClose, Goto, Return, UseTry
<1>6. ASSUME NEW u \in Thread, NEW m \in Datagram, HandlerReceive(u, m), u # t
      PROVE  tpc'[t] = tpc[t] /\ tries'[t] = tries[t]
  BY <1>6 DEF HandlerReceive, InfoReceive, HelloReceive, Goto, UseTry
<1> QED
  BY <1>1, <1>2, <1>3, <1>4, <1>5, <1>6 DEF Next, MainStep

\* Every step of a handler brings it nearer its return, for every number of
\* controllers and handlers: the retry counters leave no loop without an end.
THEOREM Nears == Spec => HandlersNear
<1>1. ASSUME TypeOK, Placed, Measured, Measured', [Next]_vars
      PROVE  [\A t \in Thread :
                /\ HandlerStep(t) => StepsLeft(t)' \in Nat /\ StepsLeft(t)' < StepsLeft(t)
                /\ StepsLeft(t)' > StepsLeft(t) =>
                     MainSpawn(t) \/ \E m \in Datagram : HandlerReceive(t, m)]_vars
  <2> SUFFICES ASSUME NEW t \in Thread
               PROVE  /\ HandlerStep(t) => StepsLeft(t)' \in Nat /\ StepsLeft(t)' < StepsLeft(t)
                      /\ StepsLeft(t)' > StepsLeft(t) =>
                           MainSpawn(t) \/ \E m \in Datagram : HandlerReceive(t, m)
    OBVIOUS
  <2>1. StepsLeft(t) \in Nat /\ StepsLeft(t)' \in Nat
    BY <1>1 DEF Measured
  <2>2. HandlerStep(t) => StepsLeft(t)' < StepsLeft(t)
    BY <1>1, StepNears
  <2>3. ASSUME tpc'[t] = tpc[t], tries'[t] = tries[t]
        PROVE  StepsLeft(t)' = StepsLeft(t)
    BY <2>3 DEF StepsLeft
  <2> QED
    BY <1>1, <2>1, <2>2, <2>3, OthersLeave
<1>2. IInv => TypeOK /\ Placed /\ Measured
  BY MeasuredAlways DEF IInv
<1> QED
  BY <1>1, <1>2, Invariant, PTL DEF Spec, HandlersNear
=============================================================================
