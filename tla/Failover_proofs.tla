--------------------------- MODULE Failover_proofs ---------------------------
(***************************************************************************)
(* What pick_best_alternative chooses, for any profiles and any round of   *)
(* results.  Every nonempty set of numbers has a least one; the choice is  *)
(* the least id among the least latencies.                                 *)
(***************************************************************************)
EXTENDS Failover, TLAPS, WellFoundedInduction

LEMMA Least == ASSUME NEW S \in SUBSET Nat, S # {} PROVE \E m \in S : \A n \in S : m <= n
<1>1. \E m \in S : \A n \in S : ~ (<<n, m>> \in OpToRel(<, Nat))
  BY NatLessThanWellFounded, WFMin
<1>2. \A n, m \in Nat : n < m => <<n, m>> \in OpToRel(<, Nat)
  BY Zenon DEF OpToRel
<1>3. PICK m \in S : \A n \in S : ~ (<<n, m>> \in OpToRel(<, Nat))
  BY <1>1
<1>4. m \in Nat /\ \A n \in S : n \in Nat
  BY <1>3
<1>5. \A n \in S : ~ (n < m)
  BY <1>2, <1>3, <1>4
<1>6. \A n \in S : m <= n
  BY <1>4, <1>5
<1>. QED
  BY <1>3, <1>6

\* Some candidate is before all others: the least latency, and the least id with it.
LEMMA BestExists ==
    ASSUME NEW active0 \in Profiles, NEW results \in Results,
           Candidates(active0, results) # {}
    PROVE  \E p \in Candidates(active0, results) :
             \A q \in Candidates(active0, results) : Before(results, p, q)
<1>. DEFINE C == Candidates(active0, results)
            L == {results[p] : p \in C}
<1>1. C \subseteq Profiles /\ \A p \in C : results[p] \in Latencies
  BY DEF Candidates, Results
<1>2. L \subseteq Nat /\ L # {}
  BY <1>1, LatenciesAssumption
<1>3. PICK l \in L : \A n \in L : l <= n
  BY <1>2, Least
<1>. DEFINE M == {p \in C : results[p] = l}
<1>4. M \subseteq Nat /\ M # {}
  BY <1>1, <1>3, ProfilesAssumption
<1>5. PICK p \in M : \A n \in M : p <= n
  BY <1>4, Least
<1>6. ASSUME NEW q \in C PROVE Before(results, p, q)
  <2>1. results[q] \in Nat /\ l \in Nat /\ results[p] = l /\ l <= results[q]
    BY <1>2, <1>3, <1>5
  <2>2. results[q] = l => p <= q
    BY <1>5
  <2>. QED
    BY <2>1, <2>2 DEF Before
<1>. QED
  BY <1>5, <1>6

\* pick_best_alternative answers None only when no other profile could be
\* reached, and otherwise a reachable one that is not active and that no
\* candidate precedes in latency and id.
THEOREM PickBestIsBest ==
    ASSUME NEW active0 \in Profiles, NEW results \in Results
    PROVE  LET best0 == PickBest(active0, results)
               candidates == Candidates(active0, results)
           IN IF candidates = {} THEN best0 = None
              ELSE /\ best0 \in Profiles \ {active0} /\ results[best0] # None
                   /\ \A q \in candidates : Before(results, best0, q)
<1>1. CASE Candidates(active0, results) = {}
  BY <1>1 DEF PickBest
<1>2. CASE Candidates(active0, results) # {}
  <2>1. /\ PickBest(active0, results) \in Candidates(active0, results)
        /\ \A q \in Candidates(active0, results) :
             Before(results, PickBest(active0, results), q)
    BY <1>2, BestExists DEF PickBest
  <2>. QED
    BY <1>2, <2>1 DEF Candidates
<1>. QED
  BY <1>1, <1>2

LEMMA PickBestType ==
    ASSUME NEW active0 \in Profiles, NEW results \in Results
    PROVE  PickBest(active0, results) \in Profiles \cup {None}
  BY PickBestIsBest
=============================================================================
