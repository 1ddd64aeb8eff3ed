--------------------------- MODULE ClientInvariant --------------------------
(* The inductive invariant of Client: TypeOK, what subscription_start may  *)
(* rely on (Counting), and, as long as no hello thread has outlived its    *)
(* session, how the threads, the state and the offer agree (Session).      *)
EXTENDS Client

\* A process that runs was still allowed.
Counting == mpc \in SubscriptionPoints \ {"start"} => o > 0

\* An attempt under way is one of the n of its process.
Attempting ==
  /\ mpc = "attempt" => count <= n
  /\ mpc \in {"ack_recv", "info_send", "info_recv", "undo_port", "undo_random", "judge"}
       => count < n

Live(h) == Alive(h) /\ ~stale[h]

Resting == {"sleep", "top", "look", "connect"}

\* Only one hello thread belongs to the session.
LiveOnce == \A g, h \in HelloThread : Live(g) /\ Live(h) => g = h

\* It knows the state, and the Client object holds the offer until it drops it.
LiveInStep ==
  \A h \in HelloThread : Live(h) =>
    /\ mpc \in Resting \/ MainOver
    /\ hpc[h] # "stop"
    /\ hpc[h] = "begin" => state = "SUBSCRIBED"
    /\ hpc[h] # "begin" => state = IF first[h] THEN "SUBSCRIBED" ELSE "SEND_HELLO"
    /\ hpc[h] = "greet" => first[h]
    /\ hpc[h] \notin DropPoints =>
         random_num = offer.random /\ port = offer.port

\* Those of earlier sessions are about to find out.
StaleQuiet ==
  \A h \in HelloThread : Alive(h) /\ stale[h] => hpc[h] \in {"loop", "look", "stop"}

\* The state at each point of main.
MainInStep ==
  /\ mpc \in Resting =>
       state \in {"NOT_SUBSCRIBED", "DISCONNECTED", "SUBSCRIBED", "SEND_HELLO"}
  /\ mpc = "reset" => state = "DISCONNECTED"
  /\ mpc \in {"start", "again"} => state \in {"NOT_SUBSCRIBED", "SUBSCRIBED"}
  /\ mpc = "attempt" => state \in {"NOT_SUBSCRIBED", "WAIT_ACK_SUBS", "WAIT_ACK_INFO"}
  /\ mpc \in {"ack_recv", "info_send"} => state = "WAIT_ACK_SUBS"
  /\ mpc \in {"info_recv", "subscribed", "undo_port", "undo_random"} => state = "WAIT_ACK_INFO"
  /\ mpc = "judge" => state \in {"WAIT_ACK_SUBS", "WAIT_ACK_INFO"}
  /\ mpc \in {"restart", "exit"} => state = "NOT_SUBSCRIBED"
  /\ mpc = "spawn" => state = "SUBSCRIBED"
  /\ mpc = "result" => state = "SUBSCRIBED" \/ (state = "NOT_SUBSCRIBED" /\ o = 0)
  /\ mpc = "exit" => o = 0

\* Main leaves the offer in the Client object for the hello thread.
OfferKept ==
  \/ mpc \in {"info_send", "info_recv", "subscribed"}
  \/ mpc \in {"again", "start", "result", "spawn"} /\ state = "SUBSCRIBED"
  => random_num = offer.random /\ port = offer.port

Session == LiveOnce /\ LiveInStep /\ StaleQuiet /\ MainInStep /\ OfferKept

UnhauntedSession == ~haunted => Session

IInv == TypeOK /\ Counting /\ UnhauntedSession /\ HelloBearsOffer /\ GivesUpLast
=============================================================================
