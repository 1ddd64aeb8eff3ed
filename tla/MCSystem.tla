------------------------------ MODULE MCSystem ------------------------------
(***************************************************************************)
(* System with a bound on the sessions main offers: after the last, the    *)
(* main thread of the client sends no SUBS_REQ, as if it slept, and what   *)
(* is under way runs to its end.                                           *)
(*                                                                         *)
(* Until the network has made a fault all threads and datagrams interleave *)
(* freely.  After one, threads compute faster than datagrams travel: a     *)
(* thread that is not waiting goes before any datagram arrives, the        *)
(* server's before the client's; a hello thread that sleeps, as it does    *)
(* each time round its loop, wakes at any time.  The second changes where  *)
(* the server can tell: before a SUBS_REQ, and while main draws.           *)
(***************************************************************************)
EXTENDS Agreement, TLC

CONSTANTS c1, t1, t2, h1, h2, p1, p2, r1, r2, s1, s2, zeros, stranger, mainport, server, nomac,
          MaxOffers  \* the bound

VARIABLE offers

MCPortOf == s1 :> p1 @@ s2 :> p2
MCRandomOf == s1 :> r1 @@ s2 :> r2

\* The client has ended, and stutters.
Ended == C!MainOver /\ \A h \in HelloThread : ~C!Alive(h)

\* A thread of the server, or of the client, is not waiting for anything.
ServerComputes ==
  \/ mpc \notin {"recv", "exited"} /\ ~Redrawing
  \/ mpc # "exited" /\ \E t \in Thread : tpc[t] \notin {"free", "info_recv", "hello_recv"}

ClientComputes ==
  \/ c_mpc \notin {"sleep", "connect", "ack_recv", "info_recv", "exited", "crashed"}
  \/ \E h \in HelloThread : c_hpc[h] \notin {"ended", "loop", "recv", "rejected"}

\* The client has all the offers it will get.
Suspended == offers >= MaxOffers /\ c_mpc = "attempt" /\ c_count < c_n /\ c_run_main

MainRuns == ~Suspended /\ ClientMain

ServerMoves == ServerMain \/ \E t \in Thread : ServerHandler(t)

ClientMoves == MainRuns \/ \E h \in HelloThread : ClientHello(h)

Arrivals ==
  ServerMainReceives \/ (\E t \in Thread : ServerHandlerReceives(t)) \/ ClientReceives

Steps ==
  \/ ServerMoves /\ (faults = 0 \/ ServerComputes \/ ~ClientComputes)
  \/ ClientMoves /\ (faults = 0 \/ ~ServerComputes)
  \/ (Arrivals \/ Undeliverable \/ Faulty) /\ (faults = 0 \/ ~(ServerComputes \/ ClientComputes))
  \/ SystemTick /\ ~ServerComputes /\ (Redrawing \/ c_mpc = "attempt")
  \/ ClientQuit /\ faults = 0
  \/ Ended /\ UNCHANGED allVars

MCNext == Steps /\ offers' = offers + IF mpc = "recv" /\ mpc' = "roll" THEN 1 ELSE 0

MCInit == AgreementInit /\ offers = 0
MCSpec == MCInit /\ [][MCNext /\ Records]_<<allVars, told, offers>>
MCFairSpec == MCSpec /\ OthersFairness /\ WF_allVars(NoFault /\ MainRuns)
=============================================================================
