----------------------------- MODULE MCBalancer -----------------------------
(* Model-checking instances of Balancer and Latency; a run explores the     *)
(* behaviours of each with the other at rest.                               *)
EXTENDS Balancer, Latency, TLC

CONSTANTS e1, e2, e3

TwoBackends == <<e1, e2>>
OneBackend == <<e3>>
AllStrategies == {"RoundRobin", "Random", "WeightedRoundRobin"}

(* Timeouts of 2 to 9, four times the 95th percentile, 15 without samples.  *)
FourTimes == [min |-> 2, max |-> 9, mult |-> 4, default |-> 15]

VARIABLE focus   \* the component whose behaviour is explored

allVars == <<focus, vars, latencyVars>>

MCInit ==
  /\ focus \in {"balancer", "latency"}
  /\ focus = "latency" => strategy = "Random" /\ kind = [r \in Requests |-> "Do"]
  /\ Init /\ LatencyInit

MCNext ==
  \/ focus = "balancer" /\ Next /\ UNCHANGED <<focus, latencyVars>>
  \/ focus = "latency" /\ LatencyNext /\ UNCHANGED <<focus, vars>>

MCSpec == MCInit /\ [][MCNext]_allVars

Symmetry == Permutations(Requests)
=============================================================================
