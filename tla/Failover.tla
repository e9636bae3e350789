------------------------------ MODULE Failover ------------------------------
(***************************************************************************)
(* The two decisions of internal/health/failover.go that are functions of  *)
(* their arguments: which replica to promote, and whether the votes of the *)
(* witnesses allow it.  HealthChecker uses them inside Promote;            *)
(* CandidateLoop shows that the loop of the source computes the first.     *)
(***************************************************************************)
EXTENDS ShardMap

\* Positions of the replicas that are not known to be DOWN.  An unset status
\* counts as usable.
Usable(replicas) ==
    {i \in 1 .. Len(replicas) : replicas[i].status # "DOWN"}

\* selectPromotionCandidate: the position of the least-lagged usable replica,
\* the first one on a tie.  The set has one element, or none when no replica
\* qualifies (the ok = false of the code).
selectPromotionCandidate(replicas) ==
    {i \in Usable(replicas) : \A j \in Usable(replicas) :
        \/ replicas[i].lagMS < replicas[j].lagMS
        \/ replicas[i].lagMS = replicas[j].lagMS /\ i <= j}

\* A mutant: a tie no longer vetoes, and neither does total silence.
tieAllows(sawPrimary, cannotSee) == cannotSee * 2 >= sawPrimary + cannotSee

\* quorumAllowsPromotion: somebody answered, and a strict majority of those
\* who answered cannot see the primary.
quorumAllowsPromotion(sawPrimary, cannotSee) ==
    LET reachable == sawPrimary + cannotSee
    IN  reachable > 0 /\ cannotSee * 2 > reachable

\* A mutant: the candidate is promoted and left in the replica list.
keepsCandidate(shard, cand) ==
    [id       |-> shard.id,
     primary  |-> [addr |-> shard.replicas[cand].addr, status |-> "UP", lagMS |-> 0],
     replicas |-> shard.replicas]

\* The entry Promote installs: the candidate becomes the primary, UP and with
\* no lag; the deposed primary is in neither role.
Promoted(shard, cand) ==
    [id       |-> shard.id,
     primary  |-> [addr |-> shard.replicas[cand].addr, status |-> "UP", lagMS |-> 0],
     replicas |-> RemoveAt(shard.replicas, cand)]
=============================================================================
