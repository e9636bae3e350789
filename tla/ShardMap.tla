------------------------------ MODULE ShardMap ------------------------------
(***************************************************************************)
(* The routing table of internal/shardmap: which nodes own each shard and  *)
(* what the health checker last reported about them.                       *)
(*                                                                         *)
(* An entry is replaced as a whole (Map.Set) and never mutated, so a value *)
(* read with Get or All stays what it was when it was read.  TLA+ records  *)
(* have exactly that meaning; the pointers of the Go code need no model of *)
(* their own.                                                              *)
(***************************************************************************)
EXTENDS Naturals, Sequences, SequencesExt, ShardIDs

CONSTANT Addrs      \* addresses of the backend nodes

\* NodeStatus.  "unset" is the zero value a node has before its first sweep.
Statuses == {"unset", "UP", "SUSPECT", "DOWN"}

Node == [addr : Addrs, status : Statuses, lagMS : Nat]

Shard == [id : Shards, primary : Node, replicas : Seq(Node)]

\* A node as config.Load builds it: neither probed nor measured yet.
FreshNode(a) == [addr |-> a, status |-> "unset", lagMS |-> 0]

\* Position 0 is the primary, positions 1..Len(replicas) are the replicas.
NodeAt(shard, i) == IF i = 0 THEN shard.primary ELSE shard.replicas[i]

WithNodeAt(shard, i, n) ==
    IF i = 0 THEN [shard EXCEPT !.primary = n]
             ELSE [shard EXCEPT !.replicas[i] = n]

Positions(shard) == 0 .. Len(shard.replicas)

ReplicaAddrs(shard) ==
    {shard.replicas[i].addr : i \in 1 .. Len(shard.replicas)}

MemberAddrs(shard) == {shard.primary.addr} \cup ReplicaAddrs(shard)

\* Map.Set: the whole entry of one shard is replaced.
Set(map, s, shard) == [map EXCEPT ![s] = shard]

\* Map.All: the entries themselves, in no particular order (Go iterates the
\* underlying map randomly).
All(map) == {map[s] : s \in Shards}
=============================================================================
