-------------------------- MODULE MCHealthChecker --------------------------
(***************************************************************************)
(* Small clusters on which TLC checks HealthChecker.                       *)
(***************************************************************************)
EXTENDS HealthChecker

CONSTANTS sh1, sh2, p1, p2, r1, r2

\* One shard with a single replica, as in the chaos harness.
OneReplica == (sh1 :> [primary |-> p1, replicas |-> <<r1>>])

\* One shard with two replicas.
TwoReplicas == (sh1 :> [primary |-> p1, replicas |-> <<r1, r2>>])

\* The same shard beside one that has no replica.
TwoShards == TwoReplicas @@ (sh2 :> [primary |-> p2, replicas |-> <<>>])
=============================================================================
