----------------------------- MODULE Resolution -----------------------------
(***************************************************************************)
(* The choice Router.Resolve makes among the nodes of one entry, a         *)
(* function of the entry, the consistency level, the hash of the shard key *)
(* and the ceiling on the lag.  The router uses it on the map of the       *)
(* proxy, the simulator on a map of its own.                               *)
(***************************************************************************)
EXTENDS ShardMap, Integers, Slices

\* The levels the package declares, the empty one, and any other string.
Consistencies == {"strong", "unset", "eventual", "bounded_staleness", "other"}

\* A mutant: a DOWN replica is not skipped.
anyReplica(shard, h, max) ==
    LET usable == {r \in ToSet(shard.replicas) : max >= 0 => r.lagMS <= max}
        fits   == Filtered(shard.replicas, usable)
    IN  IF fits = <<>> THEN shard.primary ELSE fits[(h % Len(fits)) + 1]

\* pickReplica: the replicas that are not DOWN and, under a ceiling, not too
\* far behind; the key's hash picks one of them; the primary if there is none.
\* A negative ceiling is no ceiling.
pickReplica(shard, h, max) ==
    LET usable == {r \in ToSet(shard.replicas) :
                      r.status # "DOWN" /\ (max >= 0 => r.lagMS <= max)}
        fits   == Filtered(shard.replicas, usable)
    IN  IF fits = <<>> THEN shard.primary ELSE fits[(h % Len(fits)) + 1]

\* The switch of Resolve over the levels it knows.
Pick(shard, level, h, max) ==
    CASE level \in {"strong", "unset"} -> shard.primary
      [] level = "eventual"            -> pickReplica(shard, h, -1)
      [] level = "bounded_staleness"   -> pickReplica(shard, h, max)
=============================================================================
