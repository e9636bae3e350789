-------------------------- MODULE MCCandidateLoop --------------------------
(***************************************************************************)
(* selectPromotionCandidate on every list of at most MaxReplicas replicas, *)
(* the address of a replica being its position.                            *)
(***************************************************************************)
EXTENDS CandidateLoop

CONSTANTS MaxReplicas, MaxLag

Positioned(n) ==
    {s \in [1 .. n -> [addr : 1 .. n, status : Statuses, lagMS : 0 .. MaxLag]] :
        \A k \in 1 .. n : s[k].addr = k}

AllLists == UNION {Positioned(n) : n \in 0 .. MaxReplicas}
=============================================================================
