---------------------------- MODULE Registration ----------------------------
(***************************************************************************)
(* The life of a controller in the states that common.py names: the server *)
(* waits for its SUBS_INFO (WAIT_INFO), it is subscribed and sends no      *)
(* HELLO (SUBSCRIBED), it sends HELLO (SEND_HELLO).  They form a cycle     *)
(* that is entered at the beginning only, walked one state at a time and   *)
(* left for DISCONNECTED only.                                             *)
(*                                                                         *)
(* The server keeps no promise about a controller whose session it has     *)
(* DISTURBED; once the controller is DISCONNECTED and its handlers are     *)
(* gone, or about to return, it can start afresh.                          *)
(***************************************************************************)
CONSTANT Controller

VARIABLE life

Lives == {"DISCONNECTED", "WAIT_INFO", "SUBSCRIBED", "SEND_HELLO", "DISTURBED"}

Init == life = [c \in Controller |-> "DISCONNECTED"]

\* SUBS_ACK has been sent.
Offer(c) == /\ life[c] = "DISCONNECTED"
            /\ life' = [life EXCEPT ![c] = "WAIT_INFO"]

\* Its SUBS_INFO was valid, and has been answered.
Subscribe(c) == /\ life[c] = "WAIT_INFO"
                /\ life' = [life EXCEPT ![c] = "SUBSCRIBED"]

\* The first HELLO was valid.
Greet(c) == /\ life[c] = "SUBSCRIBED"
            /\ life' = [life EXCEPT ![c] = "SEND_HELLO"]

\* The session is over.
Leave(c) == /\ life[c] \in {"WAIT_INFO", "SUBSCRIBED", "SEND_HELLO"}
            /\ life' = [life EXCEPT ![c] = "DISCONNECTED"]

\* Sessions are touched by somebody who is not serving them.
Disturb(S) ==
  life' = [c \in Controller |-> IF c \in S THEN "DISTURBED" ELSE life[c]]

Recover(c) == /\ life[c] = "DISTURBED"
              /\ life' = [life EXCEPT ![c] = "DISCONNECTED"]

Next ==
  \/ \E c \in Controller :
       Offer(c) \/ Subscribe(c) \/ Greet(c) \/ Leave(c) \/ Recover(c)
  \/ \E S \in SUBSET Controller : Disturb(S)

Spec == Init /\ [][Next]_life
=============================================================================
