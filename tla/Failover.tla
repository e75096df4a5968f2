------------------------------ MODULE Failover ------------------------------
(***************************************************************************)
(* FailoverManager (orchestrator/bimarz/failover.py): the pure decisions   *)
(* of automatic failover.  A round of health checks is a function from the *)
(* profiles to a latency, or None for a profile that could not be reached. *)
(* Profiles are numbered in the order of their ids.                        *)
(***************************************************************************)
EXTENDS Naturals

CONSTANTS Profiles, Latencies, Threshold, None

ASSUME ProfilesAssumption == Profiles \subseteq Nat /\ None \notin Profiles
ASSUME LatenciesAssumption == Latencies \subseteq Nat /\ None \notin Latencies
ASSUME ThresholdAssumption == Threshold \in Nat \ {0}

Results == [Profiles -> Latencies \cup {None}]

\* Failures in a row of the active profile after one more result.
Recorded(failures, latency) == IF latency = None THEN failures + 1 ELSE 0

ShouldFailover(failures) == failures >= Threshold

Candidates(active, results) == {p \in Profiles \ {active} : results[p] # None}

Before(results, p, q) == \/ results[p] < results[q]
                         \/ results[p] = results[q] /\ p <= q

\* The candidate of least latency, the first by id among equals.
PickBest(active, results) ==
    LET candidates == Candidates(active, results)
    IN IF candidates = {} THEN None
       ELSE CHOOSE p \in candidates : \A q \in candidates : Before(results, p, q)
=============================================================================
