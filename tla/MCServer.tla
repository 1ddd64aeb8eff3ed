------------------------------ MODULE MCServer ------------------------------
(* Server with a bound on the datagrams that may still arrive.             *)
EXTENDS ServerRefinement, ServerInvariant, TLC

CONSTANTS c1, c2, t1, t2, t3, p1, p2, r1, r2, s1, s2, zeros, stranger,
          MaxArrivals   \* the bound

VARIABLE arrivals

MCPortOf == s1 :> p1 @@ s2 :> p2
MCRandomOf == s1 :> r1 @@ s2 :> r2
Symmetry == Permutations(Thread) \cup Permutations(Controller)

MCInit == Init /\ arrivals = 0

Arrive(m) ==
  /\ arrivals < MaxArrivals
  /\ arrivals' = arrivals + 1
  /\ MainReceive(m) \/ \E t \in Thread : HandlerReceive(t, m)

MCNext ==
  \/ Tick /\ UNCHANGED arrivals
  \/ MainStep /\ UNCHANGED arrivals
  \/ \E t \in Thread : HandlerStep(t) /\ UNCHANGED arrivals
  \/ \E m \in Datagram : Arrive(m)

MCSpec == MCInit /\ [][MCNext]_<<vars, arrivals>>
MCFairSpec == MCSpec /\ Fairness
=============================================================================
