------------------------------ MODULE MCClient ------------------------------
(* Client with a bound on the answers that may still come.                 *)
EXTENDS ClientInvariant

CONSTANTS h1, h2,
          MaxAnswers, \* the bound
  NotSent     \* types of answers that do not come

VARIABLE answers

MCInit == Init /\ answers = 0

Come(m) ==
  /\ m.type \notin NotSent
  /\ answers < MaxAnswers
  /\ answers' = answers + 1
  /\ MainReceive(m) \/ \E h \in HelloThread : HelloReceive(h, m)

\* Of two hello threads that could be started it is h1: they are alike.
InOrder == mpc = "spawn" /\ ~Alive(h1) => hpc'[h2] = hpc[h2]

\* The program has ended, and stutters.
Ended == MainOver /\ \A h \in HelloThread : ~Alive(h)

MCNext ==
  \/ MainStep /\ InOrder /\ UNCHANGED answers
  \/ Quit /\ UNCHANGED answers
  \/ \E h \in HelloThread : HelloStep(h) /\ UNCHANGED answers
  \/ \E m \in Answer : Come(m)
  \/ Ended /\ UNCHANGED <<vars, answers>>

MCSpec == MCInit /\ [][MCNext]_<<vars, answers>>
MCFairSpec == MCSpec /\ Fairness
=============================================================================
