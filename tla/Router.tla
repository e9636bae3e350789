------------------------------- MODULE Router -------------------------------
(***************************************************************************)
(* internal/router: Resolve maps a shard key and a consistency level to a  *)
(* node, through the ring and the shard map.  Each has a lock of its own,  *)
(* so a Resolve may run between the two halves of an AddShard, and the     *)
(* health checker may replace an entry between the two reads of a Resolve. *)
(***************************************************************************)
EXTENDS Ring, Resolution

CONSTANTS
    Entries,   \* the entries a shard may have in the shard map
    MaxLags    \* ceilings a bounded-staleness read may ask for

ASSUME RouterAssumption == Entries \subseteq Shard /\ MaxLags \subseteq Int

VARIABLES
    shardMap,   \* the shards in the map: a partial function to entries
    adding,     \* shards whose AddShard is between its two halves
    query       \* the one Resolve under way, or its outcome

vars == <<hash, hashToShard, sortedHashes, shardMap, adding, query>>

\* pc: "ring" before the lookup, "map" after it, then what Resolve returned.
\* "entry" is what Get read: the shard the answer was computed from.
Ask(h, c, max) == [pc |-> "ring", key |-> h, level |-> c, maxLagMS |-> max,
                   shardID |-> {}, entry |-> {}, node |-> {}]

Init ==
    /\ RingInit
    /\ shardMap = <<>>
    /\ adding = {}
    /\ \E h \in Points, c \in Consistencies, max \in MaxLags : query = Ask(h, c, max)

\* A mutant: the ring learns of a shard before the shard map does.
ringFirst(entry) ==
    /\ entry.id \notin adding
    /\ RingAddShard(entry.id)
    /\ adding' = adding \cup {entry.id}
    /\ UNCHANGED <<shardMap, query>>

\* AddShard, first half: shardMap.Set.  Adding a shard again is allowed.
AddToMap(entry) ==
    /\ entry.id \notin adding
    /\ shardMap' = [s \in DOMAIN shardMap \cup {entry.id} |->
                       IF s = entry.id THEN entry ELSE shardMap[s]]
    /\ adding' = adding \cup {entry.id}
    /\ UNCHANGED <<ringVars, query>>

\* AddShard, second half: ring.AddShard.
AddToRing(s) ==
    /\ s \in adding
    /\ RingAddShard(s)
    /\ adding' = adding \ {s}
    /\ UNCHANGED <<shardMap, query>>

\* The health checker replaces the entry of a shard.
Report(entry) ==
    /\ entry.id \in DOMAIN shardMap
    /\ shardMap' = [shardMap EXCEPT ![entry.id] = entry]
    /\ UNCHANGED <<ringVars, adding, query>>

\* Resolve, first read: ring.ShardFor.
ResolveRing ==
    /\ query.pc = "ring"
    /\ query' = IF ShardFor(query.key) = {}
                THEN [query EXCEPT !.pc = "no_shards"]
                ELSE [query EXCEPT !.pc = "map", !.shardID = ShardFor(query.key)]
    /\ UNCHANGED <<ringVars, shardMap, adding>>

\* Resolve, second read: shardMap.Get, and the choice of the node.
ResolveMap ==
    /\ query.pc = "map"
    /\ \E s \in query.shardID :
          query' = IF s \notin DOMAIN shardMap
                   THEN [query EXCEPT !.pc = "missing"]
                   ELSE IF query.level = "other"
                   THEN [query EXCEPT !.pc = "unknown_level"]
                   ELSE [query EXCEPT !.pc = "ok",
                                      !.entry = {shardMap[s]},
                                      !.node = {Pick(shardMap[s], query.level, query.key, query.maxLagMS)}]
    /\ UNCHANGED <<ringVars, shardMap, adding>>

Next ==
    \/ \E entry \in Entries : AddToMap(entry) \/ Report(entry)
    \/ \E s \in Shards : AddToRing(s)
    \/ ResolveRing
    \/ ResolveMap

Spec == Init /\ [][Next]_vars

-----------------------------------------------------------------------------
(* Properties *)

\* A shard that is on the ring is in the map, so Resolve never meets "on the
\* ring but missing from the shard map", not even while shards are being added
\* (the order of the two halves of AddShard).
NeverMissing == query.pc # "missing"

\* A replica answers only if it may: it is not known to be DOWN, the request
\* allows a replica at all, and a bounded one gets no replica beyond its
\* ceiling.  A lag equal to the ceiling will do, as in pickReplica and in the
\* comment on BoundedStaleness; the repository's README says "lag < X" (lines
\* 36 and 174), which does not hold.  The primary answers an eventual or bounded read only when no
\* replica of the same entry would do (pickReplica's fallback).
AnswerFitsRequest ==
    \A e \in query.entry, n \in query.node :
        LET Fits(r) == /\ query.level \in {"eventual", "bounded_staleness"}
                       /\ r.status # "DOWN"
                       /\ query.level = "bounded_staleness" /\ query.maxLagMS >= 0 =>
                             r.lagMS <= query.maxLagMS
            fitting == {r \in ToSet(e.replicas) : Fits(r)}
        IN  IF fitting = {} THEN n = e.primary ELSE n \in fitting
=============================================================================
