--------------------------- MODULE ShardTopology ---------------------------
(***************************************************************************)
(* What the health checker promises to the readers of the shard map, one   *)
(* shard at a time.  Heartbeats change what is believed about the nodes of *)
(* a shard and never its membership; the only change of membership is a    *)
(* failover, which deposes a primary believed DOWN in favour of a replica  *)
(* that is not, and drops the deposed node for good.                       *)
(***************************************************************************)
CONSTANTS
    Shards,         \* shard IDs
    Addrs,          \* addresses of the backend nodes
    FirstPrimary,   \* shard ID -> its primary in the configuration
    FirstReplicas   \* shard ID -> the set of its replicas in the configuration

VARIABLE topology

Topologies == [primary : Addrs, replicas : SUBSET Addrs, down : SUBSET Addrs]

TopologyTypeOK == topology \in [Shards -> Topologies]

Init ==
    topology = [s \in Shards |-> [primary  |-> FirstPrimary[s],
                                  replicas |-> FirstReplicas[s],
                                  down     |-> {}]]

\* A round of heartbeats.
Observe(s, down) ==
    topology' = [topology EXCEPT ![s].down = down]

\* The believed-dead primary is replaced by a replica that is not.
Failover(s, r) ==
    LET t == topology[s]
    IN  /\ t.primary \in t.down
        /\ r \in t.replicas \ t.down
        /\ topology' = [topology EXCEPT ![s] =
              [primary  |-> r,
               replicas |-> t.replicas \ {r},
               down     |-> t.down \ {t.primary}]]

Next ==
    \E s \in Shards :
        \/ \E down \in SUBSET ({topology[s].primary} \cup topology[s].replicas) :
              Observe(s, down)
        \/ \E r \in topology[s].replicas : Failover(s, r)

Spec == Init /\ [][Next]_topology
=============================================================================
