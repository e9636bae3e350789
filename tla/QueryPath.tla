----------------------------- MODULE QueryPath -----------------------------
(***************************************************************************)
(* handleQuery across a failover: a client goroutine reads a query, asks   *)
(* the router for a node, asks the manager for the node's pool, and runs   *)
(* the query, while the checker observes the nodes, replaces the primary   *)
(* and drains the pool of the one it deposed.                              *)
(*                                                                         *)
(* The pools are those of PoolManager.  The shard map is ShardTopology,    *)
(* which HealthChecker implements as long as its sweeps do not overlap.    *)
(* Which replica a read gets is left open here; Router has the choice.     *)
(***************************************************************************)
EXTENDS PoolManager

CONSTANTS
    TheShard,       \* the shard all queries are for
    FirstPrimary,   \* its primary in the configuration
    Levels          \* the consistency levels in use

Level == {"strong", "eventual", "bounded_staleness"}

ASSUME QueryPathAssumption == FirstPrimary \in Addrs /\ Levels \subseteq Level

VARIABLES
    topology,   \* the shard map
    draining,   \* the deposed primary whose drain Promote has yet to come to
    query       \* client -> [level, addr, allowed]: see below

pathVars == <<vars, topology, draining, query>>

Map == INSTANCE ShardTopology WITH
    Shards        <- {TheShard},
    FirstPrimary  <- [s \in {TheShard} |-> FirstPrimary],
    FirstReplicas <- [s \in {TheShard} |-> Addrs \ {FirstPrimary}]

Primary == topology[TheShard].primary
Replicas == topology[TheShard].replicas
Members == {Primary} \cup Replicas

\* "addr" is what Resolve returned, if it has.  "allowed" is history: the nodes
\* that the level allowed at some moment since the query was read.
NoQuery == [level |-> None, addr |-> {}, allowed |-> {}]

PathTypeOK ==
    /\ TypeOK
    /\ Map!TopologyTypeOK
    /\ draining \subseteq Addrs
    /\ query \in [Clients -> [level : Level \cup {None}, addr : SUBSET Addrs,
                              allowed : SUBSET Addrs]]

PathInit ==
    /\ Init
    /\ Map!Init
    /\ draining = {}
    /\ query = [u \in Clients |-> NoQuery]

-----------------------------------------------------------------------------
(* A client goroutine *)

\* A query arrives, and consistencyFromQuery gives it a level.
ReadQuery(u, level) ==
    /\ query[u].level = None
    /\ query' = [query EXCEPT
          ![u].level = level,
          ![u].allowed = IF level = "strong" THEN {Primary} ELSE Members]
    /\ UNCHANGED <<vars, topology, draining>>

\* Resolve.  An eventual read falls back to the primary if all replicas are
\* DOWN; a bounded one also if they lag too far behind.
Resolve(u) ==
    LET usable == Replicas \ topology[TheShard].down
        choice == CASE query[u].level = "strong" -> {Primary}
                    [] query[u].level = "eventual" -> IF usable = {} THEN {Primary} ELSE usable
                    [] query[u].level = "bounded_staleness" -> usable \cup {Primary}
    IN  /\ query[u].level # None /\ query[u].addr = {}
        /\ \E a \in choice : query' = [query EXCEPT ![u].addr = {a}]
        /\ UNCHANGED <<vars, topology, draining>>

\* Get, on the address Resolve returned, however long ago.
Get(u) ==
    /\ \E a \in query[u].addr : Lookup(u, a)
    /\ UNCHANGED <<topology, draining, query>>

\* A mutant: the session remembers the node of its last query.
keepsRoute(u) == [query EXCEPT ![u].level = None]

\* The command is over; the next one is resolved anew.
Answered(u) == [query EXCEPT ![u] = NoQuery]

\* The rest of Get, and the query itself.
ClientStep(u) ==
    /\ UserStep(u)
    /\ query' = IF user'[u].pc = "idle" THEN Answered(u) ELSE query
    /\ UNCHANGED <<topology, draining>>

-----------------------------------------------------------------------------
(* The health checker *)

\* A call of the checker.  It has none under way when it swaps, and starts
\* none for this shard until it has drained.
Probe(h, a) ==
    /\ draining = {}
    /\ a \in Members
    /\ Lookup(h, a)
    /\ UNCHANGED <<topology, draining, query>>

ProbeStep(h) == UserStep(h) /\ UNCHANGED <<topology, draining, query>>

CheckerIsFree == shutdown = "running" /\ draining = {} /\ \A h \in Probes : user[h].pc = "idle"

\* A check writes its findings back.
Observe(down) ==
    /\ CheckerIsFree
    /\ Map!Observe(TheShard, down)
    /\ UNCHANGED <<vars, draining, query>>

\* Promote: the swap.
Swap(r) ==
    /\ CheckerIsFree
    /\ Map!Failover(TheShard, r)
    /\ draining' = {Primary}
    /\ query' = [u \in Clients |->
          IF query[u].level = "strong" THEN [query[u] EXCEPT !.allowed = @ \cup {r}] ELSE query[u]]
    /\ UNCHANGED vars

\* Promote: the drain that follows it.
Drain(a) ==
    /\ a \in draining
    /\ DrainAsync(a)
    /\ draining' = {}
    /\ UNCHANGED <<topology, query>>

-----------------------------------------------------------------------------
PoolStep(p) == CloseStep(p) /\ UNCHANGED <<topology, draining, query>>

\* The application stops: Close comes after the checker has returned.
ShutdownStep ==
    /\ Cancel \/ (draining = {} /\ Close)
    /\ UNCHANGED <<topology, draining, query>>

Return == CloseReturn /\ UNCHANGED <<topology, draining, query>>

PathNext ==
    \/ \E u \in Clients : \/ \E level \in Levels : ReadQuery(u, level)
                          \/ Resolve(u) \/ Get(u) \/ ClientStep(u)
    \/ \E h \in Probes : (\E a \in Addrs : Probe(h, a)) \/ ProbeStep(h)
    \/ \E down \in SUBSET Members : Observe(down)
    \/ \E a \in Addrs : Swap(a) \/ Drain(a)
    \/ \E p \in Pools : PoolStep(p)
    \/ ShutdownStep
    \/ Return

\* As in PoolManager: goroutines are scheduled and queries come to an end.
PathSpec ==
    /\ PathInit /\ [][PathNext]_pathVars
    /\ \A u \in Clients : WF_pathVars(Resolve(u) \/ Get(u) \/ ClientStep(u))
    /\ \A h \in Probes : WF_pathVars(ProbeStep(h))
    /\ \A p \in Pools : WF_pathVars(PoolStep(p))
    /\ WF_pathVars(Return)

-----------------------------------------------------------------------------
(* Properties *)

\* "New writes and strong reads go to the promoted node from the next Resolve":
\* the pool a query holds connects to a node that its level has allowed at some
\* moment since the query was read.  A node that had been deposed by then gets
\* none, whatever pools come and go (handleQuery, Get, DrainAsync).
QueriesFollowFailover ==
    \A u \in Clients : user[u].pc \in {"have", "using"} =>
        home[user[u].pool] \in query[u].allowed

\* Nothing cuts off the nodes in use: as long as the proxy runs, all goroutines
\* that have a pool of a node in the map have the same one, and it is the one
\* registered, so open (RegisteredPoolsWork).  Lost races in Get leave nobody
\* with a second pool, the drain of a failover takes the deposed node's pool
\* and no other, and the checker keeps its pools through the shutdown, because
\* app.Run waits for it before Manager.Close.
MembersKeepTheirPool ==
    \A u \in Users :
        /\ user[u].pc \in {"have", "using"}
        /\ u \in Probes \/ (shutdown = "running" /\ user[u].addr \in Members)
        => pools[user[u].addr] = user[u].pool

\* A deposed node falls silent: although a query that was resolved in time may
\* still build a pool for it after the drain, in the end none runs there any
\* more, nor begins to.  This rests on ShardTopology, in which a failover is
\* not undone, so on sweeps that do not overlap.
DeposedFallsSilent ==
    \A a \in Addrs :
        a \notin Members ~> [](\A u \in Clients : user[u].addr = a => user[u].pc = "idle")
=============================================================================
