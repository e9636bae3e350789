------------------------------ MODULE MCRouter ------------------------------
(***************************************************************************)
(* Entries on which TLC checks Router: every combination of usable or      *)
(* DOWN and of lag of two replicas in one shard, and a second shard        *)
(* without replicas whose primary is DOWN.                                 *)
(***************************************************************************)
EXTENDS Router

CONSTANTS sh1, sh2, p1, p2, r1, r2

Replica(a) ==
    {[addr |-> a, status |-> st, lagMS |-> lag] :
        st \in {"unset", "DOWN"}, lag \in 0 .. 1}

WithReplicas ==
    {[id |-> sh1, primary |-> FreshNode(p1), replicas |-> <<a, b>>] :
        a \in Replica(r1), b \in Replica(r2)}

WithoutReplicas ==
    {[id |-> sh2, primary |-> [addr |-> p2, status |-> "DOWN", lagMS |-> 0],
      replicas |-> <<>>]}

AllEntries == WithReplicas \cup WithoutReplicas

\* No ceiling, the tightest one, and one every replica here meets.
SomeMaxLags == {-1, 0, 1}
=============================================================================
