------------------------------ MODULE Agreement ------------------------------
(***************************************************************************)
(* System with what each side has told the other, to say what holds        *)
(* between the two for any number of faults: neither takes a session for   *)
(* running that the other has not heard of, whatever the network loses,    *)
(* repeats or delivers late.                                               *)
(*                                                                         *)
(* `confirmed', `greeted' and `echoed' are history variables.              *)
(***************************************************************************)
EXTENDS System

VARIABLES
  confirmed,  \* the random numbers of the INFO_ACKs the server has sent,
  greeted,    \* of the HELLOs the client has sent,
  echoed      \* and of those the server has sent

told == <<confirmed, greeted, echoed>>

NumbersIn(datagrams, type) == {r.random : r \in {x \in datagrams : x.type = type}}

Records ==
  /\ confirmed' = confirmed \cup NumbersIn(out', "INFO_ACK")
  /\ greeted' = greeted \cup NumbersIn(c_sent', "HELLO")
  /\ echoed' = echoed \cup NumbersIn(out', "HELLO")

AgreementInit == SystemInit /\ confirmed = {} /\ greeted = {} /\ echoed = {}

AgreementNext == SystemNext /\ Records

AgreementSpec == AgreementInit /\ [][AgreementNext]_<<allVars, told>>

-----------------------------------------------------------------------------
\* A controller in SEND_HELLO has sent a HELLO with the number the table holds: no
\* HELLO with another, of an earlier session, makes the server take this one for
\* running, however late or often it comes (server.c:187).
GreetedFirst ==
  state[Me] = "SEND_HELLO" /\ ~disturbed[Me] => random_num[Me] \in greeted

\* No hello thread is undoing the session.
NotDropping == \A h \in HelloThread : c_hpc[h] \notin C!DropPoints

\* The number of a client that is subscribed is one the server has confirmed: no
\* INFO_ACK of an earlier session, and no other thread of the client, leaves it
\* another (class_manager.py:45).
ConfirmedFirst ==
  c_state \in {"SUBSCRIBED", "SEND_HELLO"} /\ ~c_haunted /\ NotDropping
    => c_random_num \in confirmed

\* The number of a client in SEND_HELLO is one the server has taken a HELLO with:
\* no late answer of another session, or to another request, passes for the
\* answer to its first HELLO.
EchoedFirst ==
  c_state = "SEND_HELLO" /\ ~c_haunted /\ NotDropping => c_random_num \in echoed

\* The client sends no HELLO with a number the server has not confirmed; with
\* GreetedFirst, a controller is in SEND_HELLO only after both have heard of
\* its session.
GreetsConfirmed == ~c_haunted => greeted \subseteq confirmed
=============================================================================
