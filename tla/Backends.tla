------------------------------ MODULE Backends ------------------------------
(***************************************************************************)
(* The PostgreSQL servers behind the proxy, as internal/health sees them   *)
(* through the backends interface, and the faults they are exposed to.     *)
(*                                                                         *)
(* The servers themselves are external.  What is kept of them is what the  *)
(* five calls of the interface can observe: whether a server runs, whether *)
(* it is still a standby, whether a promotion is under way on it, and      *)
(* whether its WAL receiver is streaming.  A standby streams from the      *)
(* primary of the configuration for as long as it is a standby: nothing in *)
(* the program repoints it.                                                *)
(***************************************************************************)
EXTENDS Failover

CONSTANTS
    Config,       \* shard ID -> [primary : address, replicas : addresses]
    LagValues,    \* the replication lags a standby may report, in ms
    Flaky,        \* nodes the proxy may fail to reach although they run
    Crashable,    \* nodes that may crash
    Restartable,  \* crashed nodes that may come back
    LossyLinks    \* standbys that may lose a running primary for a while

ConfiguredReplicas(s) ==
    {Config[s].replicas[i] : i \in 1 .. Len(Config[s].replicas)}

Members(s) == {Config[s].primary} \cup ConfiguredReplicas(s)

ASSUME ConfigType ==
    Config \in [Shards -> [primary : Addrs, replicas : Seq(Addrs)]]

\* No node serves two shards, nor two roles of one shard.
ASSUME DistinctMembers ==
    \A s \in Shards :
        /\ \A t \in Shards \ {s} : Members(s) \cap Members(t) = {}
        /\ Config[s].primary \notin ConfiguredReplicas(s)
        /\ \A i, j \in 1 .. Len(Config[s].replicas) :
              Config[s].replicas[i] = Config[s].replicas[j] => i = j

ASSUME FaultsType ==
    /\ LagValues \subseteq Nat
    /\ Flaky \subseteq Addrs
    /\ Crashable \subseteq Addrs
    /\ Restartable \subseteq Addrs
    /\ LossyLinks \subseteq Addrs

VARIABLES
    alive,      \* nodes that run
    standby,    \* nodes in recovery: they refuse writes
    promoting,  \* standbys on which pg_promote() has been issued
    streaming,  \* standbys whose WAL receiver is streaming
    crashed,    \* history: nodes that crashed at least once
    ctxDone     \* the context every call runs under has been cancelled

serverVars == <<alive, standby, promoting, streaming, crashed>>

Standbys == UNION {ConfiguredReplicas(s) : s \in Shards}

\* The server a standby streams from.
Upstream(a) == Config[CHOOSE s \in Shards : a \in ConfiguredReplicas(s)].primary

BackendsInit ==
    /\ alive = Addrs
    /\ standby = Standbys
    /\ promoting = {}
    /\ streaming = Standbys
    /\ crashed = {}
    /\ ctxDone = FALSE

BackendsTypeOK ==
    /\ alive \subseteq Addrs
    /\ standby \subseteq Standbys
    /\ promoting \subseteq standby
    /\ streaming \subseteq standby
    /\ crashed \subseteq Addrs
    /\ ctxDone \in BOOLEAN

-----------------------------------------------------------------------------
(* What the calls answer.  Each is the set of possible results. *)

\* A call fails for a node that is not running, one the proxy cannot reach in
\* time, or any node once the context is cancelled.
CallMayFail(a) == a \notin alive \/ a \in Flaky \/ ctxDone

\* Ping: a bare liveness check.
Ping(a) == {ok \in BOOLEAN : IF ok THEN a \in alive ELSE CallMayFail(a)}

\* ReplicationLagMS: a node that is not in recovery reports 0.
ReplicationLagMS(a) ==
    {r \in [ok : BOOLEAN, lagMS : LagValues \cup {0}] :
        IF r.ok THEN a \in alive /\ (a \notin standby => r.lagMS = 0)
                ELSE CallMayFail(a) /\ r.lagMS = 0}

\* WalReceiverStreaming: whether this node has an active WAL receiver.
WalReceiverStreaming(a) ==
    {r \in [ok : BOOLEAN, streaming : BOOLEAN] :
        IF r.ok THEN a \in alive /\ r.streaming = (a \in streaming)
                ELSE CallMayFail(a) /\ ~r.streaming}

-----------------------------------------------------------------------------
(* What the servers do by themselves. *)

\* A node crashes.  A promotion under way on it is forgotten: PostgreSQL
\* removes the promotion signal when it starts.
Crash(a) ==
    /\ a \in Crashable \cap alive
    /\ alive' = alive \ {a}
    /\ crashed' = crashed \cup {a}
    /\ promoting' = promoting \ {a}
    /\ streaming' = streaming \ {a}
    /\ UNCHANGED <<standby, ctxDone>>

\* A crashed node comes back in the role its data directory gives it.
Restart(a) ==
    /\ a \in Restartable \ alive
    /\ alive' = alive \cup {a}
    /\ UNCHANGED <<standby, promoting, streaming, crashed, ctxDone>>

\* A promotion completes: the node leaves recovery and accepts writes.
FinishPromotion(a) ==
    /\ a \in promoting \cap alive
    /\ standby' = standby \ {a}
    /\ promoting' = promoting \ {a}
    /\ streaming' = streaming \ {a}
    /\ UNCHANGED <<alive, crashed, ctxDone>>

\* A WAL receiver gives up on its primary: the primary is gone, the link
\* between the two is bad, or the standby is being promoted.
LoseStream(a) ==
    /\ a \in streaming
    /\ Upstream(a) \notin alive \/ a \in LossyLinks \/ a \in promoting
    /\ streaming' = streaming \ {a}
    /\ UNCHANGED <<alive, standby, promoting, crashed, ctxDone>>

\* A standby connects again to the primary it is configured with.
Reconnect(a) ==
    /\ a \in (standby \cap alive) \ (streaming \cup promoting)
    /\ Upstream(a) \in alive
    /\ streaming' = streaming \cup {a}
    /\ UNCHANGED <<alive, standby, promoting, crashed, ctxDone>>

ServerStep ==
    \E a \in Addrs :
        Crash(a) \/ Restart(a) \/ FinishPromotion(a) \/ LoseStream(a) \/ Reconnect(a)
=============================================================================
