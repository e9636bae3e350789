--------------------------- MODULE CandidateLoop ---------------------------
(***************************************************************************)
(* The two loops of selectPromotionCandidate, iteration by iteration:      *)
(* "select" walks the replicas and keeps the best one so far, "collect"    *)
(* copies all the others.  Positions are counted from 1, so the best = -1  *)
(* of the source is best = 0 here.                                         *)
(***************************************************************************)
EXTENDS Failover

CONSTANT ReplicaLists   \* the replica lists it may be called with

ASSUME ReplicaListsType == ReplicaLists \subseteq Seq(Node)

VARIABLES
    replicas,   \* the argument
    pc,         \* "select", "collect" or "done"
    i,          \* the position the current loop is at
    best,       \* the best position so far, 0 for none
    remaining   \* the result list under construction

vars == <<replicas, pc, i, best, remaining>>

Init ==
    /\ replicas \in ReplicaLists
    /\ pc = "select" /\ i = 1 /\ best = 0 /\ remaining = <<>>

\* A mutant: a replica with the same lag as the best one replaces it.
laterOnTie ==
    /\ pc = "select" /\ i <= Len(replicas)
    /\ best' = IF replicas[i].status # "DOWN" /\ (best = 0 \/ replicas[i].lagMS <= replicas[best].lagMS)
               THEN i ELSE best
    /\ i' = i + 1
    /\ UNCHANGED <<replicas, pc, remaining>>

\* One iteration of the first loop.
SelectStep ==
    /\ pc = "select" /\ i <= Len(replicas)
    /\ best' = IF replicas[i].status # "DOWN" /\ (best = 0 \/ replicas[i].lagMS < replicas[best].lagMS)
               THEN i ELSE best
    /\ i' = i + 1
    /\ UNCHANGED <<replicas, pc, remaining>>

\* The first loop ends: return without a result, or go on.
SelectEnd ==
    /\ pc = "select" /\ i > Len(replicas)
    /\ pc' = IF best = 0 THEN "done" ELSE "collect"
    /\ i' = 1
    /\ UNCHANGED <<replicas, best, remaining>>

\* One iteration of the second loop.
CollectStep ==
    /\ pc = "collect" /\ i <= Len(replicas)
    /\ remaining' = IF i # best THEN Append(remaining, replicas[i]) ELSE remaining
    /\ i' = i + 1
    /\ UNCHANGED <<replicas, pc, best>>

CollectEnd ==
    /\ pc = "collect" /\ i > Len(replicas)
    /\ pc' = "done"
    /\ UNCHANGED <<replicas, i, best, remaining>>

Next == SelectStep \/ SelectEnd \/ CollectStep \/ CollectEnd

Spec == Init /\ [][Next]_vars

-----------------------------------------------------------------------------
(* The inductive invariant of the loops, and what it is for. *)

\* The first i - 1 replicas have been looked at, and best is the first of the
\* least-lagged ones among them that are not DOWN.
BestSoFar ==
    LET seen == {k \in Usable(replicas) : pc = "select" => k < i}
    IN  IF best = 0
        THEN seen = {}
        ELSE /\ best \in seen
             /\ \A k \in seen :
                   \/ replicas[best].lagMS < replicas[k].lagMS
                   \/ replicas[best].lagMS = replicas[k].lagMS /\ best <= k

\* The positions before i that the second loop has copied.
Copied == IF pc = "select" \/ best = 0 THEN 0
          ELSE IF best < i THEN i - 2 ELSE i - 1

\* What has been copied is the list with the best position left out.
RemainingSoFar ==
    /\ Len(remaining) = Copied
    /\ \A k \in 1 .. Copied :
          remaining[k] = IF k < best THEN replicas[k] ELSE replicas[k + 1]

LoopInv ==
    /\ replicas \in Seq(Node)
    /\ remaining \in Seq(Node)
    /\ pc \in {"select", "collect", "done"}
    /\ best \in 0 .. Len(replicas)
    /\ i \in 1 .. Len(replicas) + 1
    /\ pc = "collect" => best # 0
    /\ pc = "done" /\ best # 0 => i = Len(replicas) + 1
    /\ BestSoFar
    /\ RemainingSoFar

\* selectPromotionCandidate returns what its comment promises: the
\* least-lagged replica that is not DOWN, the first one on a tie, with exactly
\* the others left over; or no candidate, only if every replica is DOWN.
LoopSelectsCandidate ==
    pc = "done" =>
        IF best = 0
        THEN Usable(replicas) = {}
        ELSE /\ selectPromotionCandidate(replicas) = {best}
             /\ remaining = RemoveAt(replicas, best)
=============================================================================
