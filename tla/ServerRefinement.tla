-------------------------- MODULE ServerRefinement --------------------------
(***************************************************************************)
(* Server implements Registration.  The variable `state' alone does not    *)
(* tell where a controller is in its life: it reads SUBSCRIBED from the    *)
(* start of the handler on, while SUBS_INFO is still to come.              *)
(***************************************************************************)
EXTENDS Server

\* The handler of c has answered its SUBS_INFO.
Begun(c) == \E t \in Thread : Serves(t, c) /\ tpc[t] \in HelloPoints

\* The handler of c is about to disconnect it.
Over(c) == \E t \in Thread : Serves(t, c) /\ tpc[t] = "drop1"

life ==
  [c \in Controller |->
     IF disturbed[c] THEN "DISTURBED"
     ELSE IF Over(c) THEN "DISCONNECTED"
     ELSE IF state[c] = "SUBSCRIBED" /\ ~Begun(c) THEN "WAIT_INFO"
     ELSE state[c]]

Cycle == INSTANCE Registration WITH Controller <- Controller, life <- life

\* Every step of main and of the handlers moves a controller along the cycle
\* of Registration or leaves it where it is, one that never sends a valid
\* SUBS_INFO included; only sessions that were disturbed are exempt.
ImplementsRegistration == Cycle!Spec
=============================================================================
