-------------------------------- MODULE Ring --------------------------------
(***************************************************************************)
(* The consistent-hash ring of internal/router/hash.go.  A shard occupies  *)
(* one point per virtual node; a key belongs to the shard of the first     *)
(* point at or after the key's hash, going round.                          *)
(*                                                                         *)
(* CRC-32 is replaced by an arbitrary function into a small circle, chosen *)
(* once: distinct virtual nodes may collide, within a shard and between    *)
(* shards, far more often than they do in 2^32 points.                     *)
(***************************************************************************)
EXTENDS Naturals, Sequences, SequencesExt, Slices, ShardIDs

CONSTANTS
    VNodes,    \* virtual nodes per shard
    RingSize   \* points on the circle (2^32 in the source)

ASSUME RingAssumption == VNodes \in Nat \ {0} /\ RingSize \in Nat \ {0}

Points == 0 .. RingSize - 1

VARIABLES
    hash,          \* <<shard, virtual node>> -> its point
    hashToShard,   \* occupied point -> the shard that owns it
    sortedHashes   \* the occupied points in ascending order

ringVars == <<hash, hashToShard, sortedHashes>>

RingInit ==
    /\ hash \in [Shards \X (0 .. VNodes - 1) -> Points]
    /\ hashToShard = <<>>
    /\ sortedHashes = <<>>

\* The points of a shard's virtual nodes that nobody occupies yet.
FreePoints(s) == {hash[<<s, i>>] : i \in 0 .. VNodes - 1} \ DOMAIN hashToShard

\* A mutant: the new points are appended and not sorted.
unsorted(s) ==
    LET free == FreePoints(s)
    IN  /\ hashToShard' = [h \in DOMAIN hashToShard \cup free |->
                              IF h \in free THEN s ELSE hashToShard[h]]
        /\ sortedHashes' = sortedHashes \o SetToSeq(free)
        /\ UNCHANGED hash

\* Ring.AddShard: occupy the free points, skip the others, sort.
RingAddShard(s) ==
    LET free == FreePoints(s)
    IN  /\ hashToShard' = [h \in DOMAIN hashToShard \cup free |->
                              IF h \in free THEN s ELSE hashToShard[h]]
        /\ sortedHashes' = Sorted(sortedHashes \o SetToSeq(free))
        /\ UNCHANGED hash

\* A mutant: the points of the virtual nodes are freed, whoever owns them.
freesByHash(s) ==
    LET kept == DOMAIN hashToShard \ {hash[<<s, i>>] : i \in 0 .. VNodes - 1}
    IN  /\ hashToShard' = [h \in kept |-> hashToShard[h]]
        /\ sortedHashes' = Filtered(sortedHashes, kept)
        /\ UNCHANGED hash

\* Ring.RemoveShard: free the points the shard owns, keep the order.
RingRemoveShard(s) ==
    LET kept == {h \in DOMAIN hashToShard : hashToShard[h] # s}
    IN  /\ hashToShard' = [h \in kept |-> hashToShard[h]]
        /\ sortedHashes' = Filtered(sortedHashes, kept)
        /\ UNCHANGED hash

\* A mutant: a key whose hash is a point goes to the next one.
strictlyAfter(h) ==
    LET n   == Len(sortedHashes)
        idx == Min({k \in 1 .. n : sortedHashes[k] > h} \cup {n + 1})
    IN  IF n = 0 THEN {}
        ELSE {hashToShard[sortedHashes[IF idx = n + 1 THEN 1 ELSE idx]]}

\* Ring.ShardFor, on a key's hash: sort.Search finds the first index whose
\* point is not below the hash, Len + 1 if there is none, which wraps to the
\* first.  The set is empty when the ring is (the ok = false of the source).
ShardFor(h) ==
    LET n   == Len(sortedHashes)
        idx == Min({k \in 1 .. n : sortedHashes[k] >= h} \cup {n + 1})
    IN  IF n = 0 THEN {}
        ELSE {hashToShard[sortedHashes[IF idx = n + 1 THEN 1 ELSE idx]]}

-----------------------------------------------------------------------------
(* The ring by itself. *)

RingNext == \E s \in Shards : RingAddShard(s) \/ RingRemoveShard(s)

RingSpec == RingInit /\ [][RingNext]_ringVars

\* The two tables of the ring agree: the sorted list holds every occupied
\* point once, in ascending order (the binary search of ShardFor needs it).
TablesAgree ==
    /\ ToSet(sortedHashes) = DOMAIN hashToShard
    /\ \A j, k \in 1 .. Len(sortedHashes) :
          j < k => sortedHashes[j] < sortedHashes[k]

\* The owner of a key by the definition of consistent hashing: the occupied
\* point at the least clockwise distance from the key's hash.
Owner(h) ==
    {hashToShard[p] : p \in {q \in DOMAIN hashToShard :
        \A r \in DOMAIN hashToShard :
            (q + RingSize - h) % RingSize <= (r + RingSize - h) % RingSize}}

\* ShardFor's search and wrap-around find the clockwise owner of every key.
ShardForIsOwner == \A h \in Points : ShardFor(h) = Owner(h)

\* "Adding or removing one shard only reshuffles the keys that land near its
\* vnodes": a key that moves when a shard is added moves to that shard, and a
\* key that moves when a shard is removed was on that shard, collisions or not;
\* no key stays there.
OnlyItsKeysMove ==
    [][\A s \in Shards, h \in Points :
          /\ RingAddShard(s) => ShardFor(h)' \in {ShardFor(h), {s}}
          /\ RingRemoveShard(s) => /\ ShardFor(h) \in {ShardFor(h)', {s}}
                                   /\ ShardFor(h)' # {s}]_ringVars
=============================================================================
