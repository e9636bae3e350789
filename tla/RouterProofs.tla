---------------------------- MODULE RouterProofs ----------------------------
(***************************************************************************)
(* Proofs about Ring and Router, for any number of shards, virtual nodes,  *)
(* points of the circle and entries of the shard map.                      *)
(***************************************************************************)
EXTENDS Router, ListFacts

RingTypes ==
    /\ hash \in [Shards \X (0 .. VNodes - 1) -> Points]
    /\ DOMAIN hashToShard \subseteq Points
    /\ hashToShard \in [DOMAIN hashToShard -> Shards]
    /\ sortedHashes \in Seq(Points)

RingInv == RingTypes /\ TablesAgree

LEMMA PointsFacts == Points \subseteq Nat /\ IsFiniteSet(Points)
  <1>1. RingSize - 1 \in Int
    BY RingAssumption
  <1> QED
    BY <1>1, FS_Interval DEF Points

LEMMA SortedIsInjective ==
    ASSUME RingInv
    PROVE  /\ Len(sortedHashes) \in Nat /\ DOMAIN sortedHashes = 1 .. Len(sortedHashes)
           /\ \A k \in 1 .. Len(sortedHashes) :
                 sortedHashes[k] \in Points /\ sortedHashes[k] \in Nat
           /\ Ascends(sortedHashes) /\ IsInjective(sortedHashes)
  <1>1. /\ Len(sortedHashes) \in Nat /\ DOMAIN sortedHashes = 1 .. Len(sortedHashes)
        /\ \A k \in 1 .. Len(sortedHashes) : sortedHashes[k] \in Points
    BY DEF RingInv, RingTypes
  <1>2. \A k \in 1 .. Len(sortedHashes) : sortedHashes[k] \in Nat
    BY <1>1, PointsFacts
  <1>3. Ascends(sortedHashes)
    BY DEF RingInv, TablesAgree, Ascends
  <1>4. IsInjective(sortedHashes)
    BY <1>1, <1>2, <1>3 DEF Ascends, IsInjective
  <1> QED
    BY <1>1, <1>2, <1>3, <1>4

LEMMA RingStarts == RingInit => RingInv
  <1> SUFFICES ASSUME RingInit PROVE RingInv
    OBVIOUS
  <1>1. DOMAIN hashToShard = {} /\ hashToShard \in [{} -> Shards]
    BY DEF RingInit
  <1>2. sortedHashes \in Seq(Points) /\ ToSet(sortedHashes) = {} /\ Len(sortedHashes) = 0
    BY DEF RingInit, ToSet
  <1> QED
    BY <1>1, <1>2 DEF RingInit, RingInv, RingTypes, TablesAgree

LEMMA AddKeepsRing ==
    ASSUME RingInv, NEW s \in Shards, RingAddShard(s)
    PROVE  RingInv'
  <1> DEFINE free == FreePoints(s)
             new == SetToSeq(free)
             all == sortedHashes \o new
             n == Len(sortedHashes)
             m == Len(new)
  <1>1. free \subseteq Points /\ free \cap DOMAIN hashToShard = {}
    <2>1. \A i \in 0 .. VNodes - 1 : hash[<<s, i>>] \in Points
      BY DEF RingInv, RingTypes
    <2> QED
      BY <2>1 DEF FreePoints
  <1>2. /\ hashToShard' = [h \in DOMAIN hashToShard \cup free |->
                              IF h \in free THEN s ELSE hashToShard[h]]
        /\ sortedHashes' = Sorted(all)
        /\ hash' = hash
    BY DEF RingAddShard
  <1>3. IsFiniteSet(free)
    BY <1>1, PointsFacts, FS_Subset
  <1>4. new \in Seq(free) /\ IsInjective(new) /\ ToSet(new) = free
    BY <1>3, SetToSeqFacts
  <1>5. /\ n \in Nat /\ DOMAIN sortedHashes = 1 .. n /\ IsInjective(sortedHashes)
        /\ \A k \in 1 .. n : sortedHashes[k] \in Points
        /\ sortedHashes \in Seq(Points) /\ ToSet(sortedHashes) = DOMAIN hashToShard
    BY SortedIsInjective DEF RingInv, RingTypes, TablesAgree
  <1> HIDE DEF free, new, n, m
  <1>6. m \in Nat /\ DOMAIN new = 1 .. m /\ \A k \in 1 .. m : new[k] \in free
    BY <1>4 DEF m
  <1>7. new \in Seq(Points)
    <2>1. new \in [1 .. m -> Points]
      BY <1>1, <1>4, <1>6 DEF m
    <2> QED
      BY <1>6, <2>1
  <1>8. /\ all \in Seq(Points) /\ Len(all) = n + m
        /\ \A k \in 1 .. n + m : all[k] = IF k <= n THEN sortedHashes[k] ELSE new[k - n]
    BY <1>5, <1>7, ConcatProperties DEF n, m
  <1>9. DOMAIN all = 1 .. n + m
    BY <1>8
  <1> HIDE DEF all
  <1>10. \A k \in 1 .. n : k \in 1 .. n + m /\ all[k] = sortedHashes[k]
    BY <1>5, <1>6, <1>8
  <1>11. \A k \in 1 .. m : n + k \in 1 .. n + m /\ all[n + k] = new[k]
    <2> TAKE k \in 1 .. m
    <2>1. n + k \in 1 .. n + m /\ ~(n + k <= n) /\ n + k - n = k
      BY <1>5, <1>6
    <2> QED
      <3>1. all[n + k] = IF n + k <= n THEN sortedHashes[n + k] ELSE new[n + k - n]
        BY <1>5, <1>6, <1>8, <2>1
      <3> QED
        BY <2>1, <3>1
  <1>12. \A k \in 1 .. n + m : k \in 1 .. n \/ \E j \in 1 .. m : k = n + j
    <2> TAKE k \in 1 .. n + m
    <2>1. k \in 1 .. n \/ (k - n \in 1 .. m /\ k = n + (k - n))
      BY <1>5, <1>6
    <2> QED
      BY <2>1
  <1>13. ToSet(all) = DOMAIN hashToShard \cup free
    <2>1. \A k \in 1 .. n : sortedHashes[k] \in ToSet(all)
      BY <1>9, <1>10 DEF ToSet
    <2>2. \A k \in 1 .. m : new[k] \in ToSet(all)
      BY <1>9, <1>11 DEF ToSet
    <2>3. \A k \in 1 .. n + m : all[k] \in ToSet(sortedHashes) \cup ToSet(new)
      <3> TAKE k \in 1 .. n + m
      <3>1. CASE k \in 1 .. n
        BY <1>5, <1>10, <3>1 DEF ToSet
      <3>2. CASE \E j \in 1 .. m : k = n + j
        BY <1>6, <1>11, <3>2 DEF ToSet
      <3> QED
        BY <1>12, <3>1, <3>2
    <2>4. ToSet(all) = ToSet(sortedHashes) \cup ToSet(new)
      BY <1>5, <1>6, <1>9, <2>1, <2>2, <2>3 DEF ToSet
    <2> QED
      BY <1>4, <1>5, <2>4
  <1>14. \A k \in 1 .. n : sortedHashes[k] \in DOMAIN hashToShard
    BY <1>5 DEF ToSet
  <1>15. IsInjective(all)
    <2> SUFFICES ASSUME NEW j \in 1 .. n + m, NEW k \in 1 .. n + m, all[j] = all[k]
                 PROVE  j = k
      BY <1>9 DEF IsInjective
    <2>1. CASE j \in 1 .. n /\ k \in 1 .. n
      BY <1>5, <1>10, <2>1 DEF IsInjective
    <2>2. CASE \E a \in 1 .. m, b \in 1 .. m : j = n + a /\ k = n + b
      <3>1. PICK a \in 1 .. m, b \in 1 .. m : j = n + a /\ k = n + b
        BY <2>2
      <3>2. new[a] = new[b]
        BY <1>11, <3>1
      <3> QED
        BY <1>4, <1>6, <3>1, <3>2 DEF IsInjective
    <2>3. CASE (j \in 1 .. n /\ \E b \in 1 .. m : k = n + b)
               \/ (k \in 1 .. n /\ \E b \in 1 .. m : j = n + b)
      BY <1>1, <1>6, <1>10, <1>11, <1>14, <2>3
    <2> QED
      BY <1>12, <2>1, <2>2, <2>3, Zenon
  <1>16. /\ Sorted(all) \in Seq(Points) /\ ToSet(Sorted(all)) = ToSet(all)
         /\ Ascends(Sorted(all))
    BY <1>8, <1>15, PointsFacts, SortedFacts
  <1>17. RingTypes'
    BY <1>1, <1>2, <1>16 DEF RingInv, RingTypes, Points
  <1>18. TablesAgree'
    BY <1>2, <1>13, <1>16 DEF TablesAgree, Ascends
  <1> QED
    BY <1>17, <1>18 DEF RingInv

LEMMA RemoveKeepsRing ==
    ASSUME RingInv, NEW s \in Shards, RingRemoveShard(s)
    PROVE  RingInv'
  <1> DEFINE kept == {h \in DOMAIN hashToShard : hashToShard[h] # s}
  <1>1. /\ hashToShard' = [h \in kept |-> hashToShard[h]]
        /\ sortedHashes' = Filtered(sortedHashes, kept)
        /\ hash' = hash
    BY DEF RingRemoveShard
  <1>2. sortedHashes \in Seq(Points) /\ ToSet(sortedHashes) = DOMAIN hashToShard
    BY DEF RingInv, RingTypes, TablesAgree
  <1>3. sortedHashes \in Seq(Nat)
    <2> DEFINE n == Len(sortedHashes)
    <2>1. n \in Nat /\ \A k \in 1 .. n : sortedHashes[k] \in Nat
      BY SortedIsInjective
    <2>2. sortedHashes \in [1 .. n -> Points]
      BY <1>2
    <2> HIDE DEF n
    <2>3. sortedHashes \in [1 .. n -> Nat]
      BY <2>1, <2>2
    <2> QED
      BY <2>1, <2>3
  <1>4. /\ Filtered(sortedHashes, kept) \in Seq(Points)
        /\ ToSet(Filtered(sortedHashes, kept)) = DOMAIN hashToShard \cap kept
    BY <1>2, FilteredFacts
  <1>5. Ascends(Filtered(sortedHashes, kept))
    BY <1>3, SortedIsInjective, FilteredAscends
  <1>6. DOMAIN hashToShard' = kept /\ DOMAIN hashToShard \cap kept = kept
    BY <1>1
  <1>7. RingTypes'
    BY <1>1, <1>4 DEF RingInv, RingTypes, Points
  <1>8. TablesAgree'
    BY <1>1, <1>4, <1>5, <1>6 DEF TablesAgree, Ascends
  <1> QED
    BY <1>7, <1>8 DEF RingInv

LEMMA RingStays == RingInv /\ [RingNext]_ringVars => RingInv'
  <1> SUFFICES ASSUME RingInv, [RingNext]_ringVars PROVE RingInv'
    OBVIOUS
  <1>1. ASSUME NEW s \in Shards, RingAddShard(s) PROVE RingInv'
    BY <1>1, AddKeepsRing
  <1>2. ASSUME NEW s \in Shards, RingRemoveShard(s) PROVE RingInv'
    BY <1>2, RemoveKeepsRing
  <1>3. CASE UNCHANGED ringVars
    BY <1>3 DEF ringVars, RingInv, RingTypes, TablesAgree, Points
  <1> QED
    BY <1>1, <1>2, <1>3 DEF RingNext

\* The sorted list and the table of owners of the ring hold the same points, and
\* the list is in ascending order, however many shards come and go and however
\* their virtual nodes collide.
THEOREM TablesDoAgree == RingSpec => []TablesAgree
  <1>1. RingInv => TablesAgree
    BY DEF RingInv
  <1> QED
    BY <1>1, RingStarts, RingStays, PTL DEF RingSpec

-----------------------------------------------------------------------------
(* The owner of a key. *)

\* The clockwise distance from h to the point q.
Dist(q, h) == IF q >= h THEN q - h ELSE q + RingSize - h

LEMMA Distance ==
    ASSUME NEW q \in Points, NEW h \in Points
    PROVE  (q + RingSize - h) % RingSize = Dist(q, h) /\ Dist(q, h) \in Nat
  <1>0. RingSize \in Nat \ {0} /\ q \in 0 .. RingSize - 1 /\ h \in 0 .. RingSize - 1
    BY RingAssumption DEF Points
  <1>1. CASE q >= h
    <2>1. q - h \in 0 .. RingSize - 1
      BY <1>0, <1>1
    <2>2. (q - h + RingSize) % RingSize = q - h
      BY <1>0, <2>1
    <2>3. q - h + RingSize = q + RingSize - h
      BY <1>0
    <2> QED
      BY <1>0, <1>1, <2>1, <2>2, <2>3 DEF Dist
  <1>2. CASE ~(q >= h)
    <2>1. q + RingSize - h \in 0 .. RingSize - 1
      BY <1>0, <1>2
    <2> QED
      BY <1>0, <1>2, <2>1 DEF Dist
  <1> QED
    BY <1>1, <1>2

LEMMA DistanceTellsApart ==
    ASSUME NEW q \in Points, NEW r \in Points, NEW h \in Points, Dist(q, h) = Dist(r, h)
    PROVE  q = r
  <1>0. RingSize \in Nat \ {0} /\ q \in 0 .. RingSize - 1 /\ r \in 0 .. RingSize - 1
           /\ h \in 0 .. RingSize - 1
    BY RingAssumption DEF Points
  <1> QED
    BY <1>0 DEF Dist

\* p is the first of the points D at or after h, going round.
First(p, h, D) == p \in D /\ \A r \in D : Dist(p, h) <= Dist(r, h)

LEMMA FirstIsOne ==
    ASSUME NEW D \in SUBSET Points, NEW h \in Points, NEW p, NEW q,
           First(p, h, D), First(q, h, D)
    PROVE  p = q
  <1>1. p \in Points /\ q \in Points /\ Dist(p, h) <= Dist(q, h) /\ Dist(q, h) <= Dist(p, h)
    BY DEF First
  <1>2. Dist(p, h) \in Nat /\ Dist(q, h) \in Nat
    BY <1>1, Distance
  <1>3. Dist(p, h) = Dist(q, h)
    BY <1>1, <1>2
  <1> QED
    BY <1>1, <1>3, DistanceTellsApart

\* What ShardFor's search and wrap-around return.
Found ==
    \A h \in Points :
        IF DOMAIN hashToShard = {} THEN ShardFor(h) = {}
        ELSE \E p : First(p, h, DOMAIN hashToShard) /\ ShardFor(h) = {hashToShard[p]}

LEMMA SearchFinds == RingInv => Found
  <1> SUFFICES ASSUME RingInv, NEW h \in Points
               PROVE  IF DOMAIN hashToShard = {} THEN ShardFor(h) = {}
                      ELSE \E p : First(p, h, DOMAIN hashToShard)
                                  /\ ShardFor(h) = {hashToShard[p]}
    BY DEF Found
  <1> DEFINE n == Len(sortedHashes)
             Above == {k \in 1 .. n : sortedHashes[k] >= h}
             idx == Min(Above \cup {n + 1})
             j == IF idx = n + 1 THEN 1 ELSE idx
             p == sortedHashes[j]
  <1>1. /\ n \in Nat /\ DOMAIN sortedHashes = 1 .. n
        /\ \A k \in 1 .. n : sortedHashes[k] \in Points /\ sortedHashes[k] \in Nat
        /\ Ascends(sortedHashes)
    BY SortedIsInjective
  <1>2. DOMAIN hashToShard = {sortedHashes[k] : k \in 1 .. n}
    BY <1>1 DEF RingInv, TablesAgree, ToSet
  <1>3. CASE n = 0
    <2>1. DOMAIN hashToShard = {}
      BY <1>2, <1>3
    <2> QED
      BY <1>3, <2>1 DEF ShardFor
  <1>4. CASE n # 0
    <2>1. ShardFor(h) = {hashToShard[p]}
      BY <1>4 DEF ShardFor
    <2>2. idx \in Above \cup {n + 1} /\ \A k \in Above \cup {n + 1} : idx <= k
      <3>1. Above \cup {n + 1} \in SUBSET Nat /\ Above \cup {n + 1} # {}
        BY <1>1
      <3> QED
        BY <3>1, MinOfSet
    <2> HIDE DEF idx
    <2>3. RingSize \in Nat /\ h \in 0 .. RingSize - 1
             /\ \A k \in 1 .. n : sortedHashes[k] \in 0 .. RingSize - 1
      BY <1>1, RingAssumption DEF Points
    <2>4. j \in 1 .. n
      BY <1>1, <1>4, <2>2
    <2>5. ASSUME NEW k \in 1 .. n PROVE Dist(p, h) <= Dist(sortedHashes[k], h)
      <3>1. CASE idx = n + 1
        <4>1. sortedHashes[k] < h /\ sortedHashes[1] < h
          BY <1>1, <1>4, <2>2, <2>3, <3>1
        <4>2. sortedHashes[1] <= sortedHashes[k]
          BY <1>1, <1>4 DEF Ascends
        <4>3. p = sortedHashes[1] /\ 1 \in 1 .. n
          BY <1>1, <1>4, <3>1
        <4> QED
          BY <2>3, <4>1, <4>2, <4>3 DEF Dist
      <3>2. CASE idx # n + 1
        <4>1. idx \in 1 .. n /\ sortedHashes[idx] >= h /\ p = sortedHashes[idx]
          BY <2>2, <3>2
        <4>2. CASE sortedHashes[k] >= h
          <5>1. idx <= k
            BY <2>2, <4>2
          <5>2. sortedHashes[idx] <= sortedHashes[k]
            BY <1>1, <4>1, <5>1 DEF Ascends
          <5> QED
            BY <2>3, <4>1, <4>2, <5>2 DEF Dist
        <4>3. CASE ~(sortedHashes[k] >= h)
          BY <2>3, <4>1, <4>3 DEF Dist
        <4> QED
          BY <4>2, <4>3
      <3> QED
        BY <3>1, <3>2
    <2>6. p \in DOMAIN hashToShard
      BY <1>2, <2>4
    <2> HIDE DEF p
    <2>7. First(p, h, DOMAIN hashToShard)
      BY <1>2, <2>5, <2>6 DEF First
    <2> QED
      BY <2>1, <2>6, <2>7
  <1> QED
    BY <1>3, <1>4

LEMMA FoundIsOwner == RingInv /\ Found => ShardForIsOwner
  <1> SUFFICES ASSUME RingInv, Found, NEW h \in Points PROVE ShardFor(h) = Owner(h)
    BY DEF ShardForIsOwner
  <1> DEFINE D == DOMAIN hashToShard
             Ps == {q \in D : \A r \in D :
                       (q + RingSize - h) % RingSize <= (r + RingSize - h) % RingSize}
  <1>0. D \subseteq Points
    BY DEF RingInv, RingTypes
  <1>1. Owner(h) = {hashToShard[p] : p \in Ps}
    BY DEF Owner
  <1>2. \A q \in D : (q + RingSize - h) % RingSize = Dist(q, h)
    BY <1>0, Distance
  <1>3. Ps = {q \in D : First(q, h, D)}
    BY <1>2 DEF First
  <1>4. CASE D = {}
    BY <1>1, <1>4 DEF Found
  <1>5. CASE D # {}
    <2>1. PICK p : First(p, h, D) /\ ShardFor(h) = {hashToShard[p]}
      BY <1>5 DEF Found
    <2>2. p \in D
      BY <2>1 DEF First
    <2> HIDE DEF D, Ps
    <2>3. Ps = {p}
      BY <1>0, <1>3, <2>1, <2>2, FirstIsOne
    <2> QED
      BY <1>1, <2>1, <2>3
  <1> QED
    BY <1>4, <1>5

\* Whatever shards were added and removed, ShardFor's binary search and
\* wrap-around give every key to the clockwise nearest virtual node.
THEOREM ShardForFindsTheOwner == RingSpec => []ShardForIsOwner
  <1>1. RingInv => ShardForIsOwner
    BY SearchFinds, FoundIsOwner
  <1> QED
    BY <1>1, RingStarts, RingStays, PTL DEF RingSpec

Moves ==
    \A s \in Shards, h \in Points :
        /\ RingAddShard(s) => ShardFor(h)' \in {ShardFor(h), {s}}
        /\ RingRemoveShard(s) => /\ ShardFor(h) \in {ShardFor(h)', {s}}
                                 /\ ShardFor(h)' # {s}

LEMMA FoundLater == RingInv' => Found'
  BY SearchFinds, PTL

LEMMA StepsMoveTheirKeys == RingInv /\ RingInv' => Moves
  <1> SUFFICES ASSUME RingInv, RingInv', NEW s \in Shards, NEW h \in Points
               PROVE  /\ RingAddShard(s) => ShardFor(h)' \in {ShardFor(h), {s}}
                      /\ RingRemoveShard(s) => /\ ShardFor(h) \in {ShardFor(h)', {s}}
                                               /\ ShardFor(h)' # {s}
    BY DEF Moves
  <1> DEFINE D == DOMAIN hashToShard
             E == DOMAIN hashToShard'
  <1>1. IF D = {} THEN ShardFor(h) = {}
        ELSE \E p : First(p, h, D) /\ ShardFor(h) = {hashToShard[p]}
    BY SearchFinds DEF Found
  <1>2. IF E = {} THEN ShardFor(h)' = {}
        ELSE \E p : First(p, h, E) /\ ShardFor(h)' = {hashToShard'[p]}
    BY FoundLater DEF Found, First, Dist, Points
  <1>3. D \subseteq Points /\ E \subseteq Points
    BY DEF RingInv, RingTypes, Points
  <1>4. ASSUME RingAddShard(s) PROVE ShardFor(h)' \in {ShardFor(h), {s}}
    <2> DEFINE free == FreePoints(s)
    <2>1. /\ E = D \cup free
          /\ \A p \in E : hashToShard'[p] = IF p \in free THEN s ELSE hashToShard[p]
      BY <1>4 DEF RingAddShard
    <2> HIDE DEF D, E, free
    <2>2. CASE E = {}
      BY <1>1, <1>2, <2>1, <2>2
    <2>3. CASE E # {}
      <3>1. PICK p : First(p, h, E) /\ ShardFor(h)' = {hashToShard'[p]}
        BY <1>2, <2>3
      <3>2. p \in E
        BY <3>1 DEF First
      <3>3. CASE p \in free
        BY <2>1, <3>1, <3>2, <3>3
      <3>4. CASE p \notin free
        <4>1. First(p, h, D)
          BY <2>1, <3>1, <3>2, <3>4 DEF First
        <4>2. PICK q : First(q, h, D) /\ ShardFor(h) = {hashToShard[q]}
          BY <1>1, <2>1, <3>2, <3>4
        <4>3. p = q
          BY <1>3, <4>1, <4>2, FirstIsOne
        <4> QED
          BY <2>1, <3>1, <3>2, <3>4, <4>2, <4>3
      <3> QED
        BY <3>3, <3>4
    <2> QED
      BY <2>2, <2>3
  <1>5. ASSUME RingRemoveShard(s)
        PROVE  ShardFor(h) \in {ShardFor(h)', {s}} /\ ShardFor(h)' # {s}
    <2>1. /\ E = {p \in D : hashToShard[p] # s}
          /\ \A p \in E : hashToShard'[p] = hashToShard[p]
      BY <1>5 DEF RingRemoveShard
    <2> HIDE DEF D, E
    <2>2. ShardFor(h)' # {s}
      BY <1>2, <2>1 DEF First
    <2>3. CASE D = {}
      BY <1>1, <1>2, <2>1, <2>3
    <2>4. CASE D # {}
      <3>1. PICK p : First(p, h, D) /\ ShardFor(h) = {hashToShard[p]}
        BY <1>1, <2>4
      <3>2. CASE hashToShard[p] = s
        BY <2>2, <3>1, <3>2
      <3>3. CASE hashToShard[p] # s
        <4>1. First(p, h, E) /\ p \in E
          BY <2>1, <3>1, <3>3 DEF First
        <4>2. PICK q : First(q, h, E) /\ ShardFor(h)' = {hashToShard'[q]}
          BY <1>2, <4>1
        <4>3. p = q
          BY <1>3, <4>1, <4>2, FirstIsOne
        <4> QED
          BY <2>1, <3>1, <4>1, <4>2, <4>3
      <3> QED
        BY <3>2, <3>3
    <2> QED
      BY <2>2, <2>3, <2>4
  <1> QED
    BY <1>4, <1>5

\* Adding a shard moves keys to it only, removing one moves its keys only, and
\* leaves it none.
THEOREM OnlyTheirKeysMove == RingSpec => OnlyItsKeysMove
  <1>1. RingInv /\ RingInv' /\ [RingNext]_ringVars => [Moves]_ringVars
    BY StepsMoveTheirKeys
  <1> QED
    BY <1>1, RingStarts, RingStays, PTL DEF RingSpec, OnlyItsKeysMove, Moves
-----------------------------------------------------------------------------
(* Resolve. *)

\* The part of Fits in AnswerFitsRequest, on the request it is asked about.
Usable(level, max, e) ==
    {r \in ToSet(e.replicas) :
        /\ level \in {"eventual", "bounded_staleness"}
        /\ r.status # "DOWN"
        /\ level = "bounded_staleness" /\ max >= 0 => r.lagMS <= max}

\* pickReplica returns one of the usable replicas, the primary if there is none.
LEMMA PickReplicaFits ==
    ASSUME NEW e \in Shard, NEW h \in Nat, NEW max \in Int,
           NEW fitting, fitting = {r \in ToSet(e.replicas) :
                                      r.status # "DOWN" /\ (max >= 0 => r.lagMS <= max)}
    PROVE  IF fitting = {} THEN pickReplica(e, h, max) = e.primary
           ELSE pickReplica(e, h, max) \in fitting
  <1> DEFINE fits == Filtered(e.replicas, fitting)
             n == Len(fits)
  <1>1. e.replicas \in Seq(Node)
    BY DEF Shard
  <1>2. fits \in Seq(Node) /\ ToSet(fits) = ToSet(e.replicas) \cap fitting
    BY <1>1, FilteredFacts
  <1>3. ToSet(fits) = fitting
    BY <1>2
  <1>4. pickReplica(e, h, max) = IF fits = <<>> THEN e.primary ELSE fits[(h % n) + 1]
    BY DEF pickReplica
  <1> HIDE DEF fits
  <1>5. n \in Nat /\ DOMAIN fits = 1 .. n /\ (fits = <<>> <=> n = 0)
    BY <1>2
  <1>6. CASE n = 0
    <2>1. fitting = {}
      BY <1>3, <1>5, <1>6 DEF ToSet
    <2> QED
      BY <1>4, <1>5, <1>6, <2>1
  <1>7. CASE n # 0
    <2>1. (h % n) + 1 \in 1 .. n
      BY <1>5, <1>7
    <2>2. fits[(h % n) + 1] \in fitting
      BY <1>3, <1>5, <2>1 DEF ToSet
    <2> QED
      BY <1>4, <1>5, <1>7, <2>2
  <1> QED
    BY <1>6, <1>7

LEMMA PickFits ==
    ASSUME NEW e \in Shard, NEW h \in Nat, NEW max \in Int,
           NEW level \in Consistencies, level # "other"
    PROVE  IF Usable(level, max, e) = {} THEN Pick(e, level, h, max) = e.primary
           ELSE Pick(e, level, h, max) \in Usable(level, max, e)
  <1>1. CASE level \in {"strong", "unset"}
    <2>1. Usable(level, max, e) = {}
      BY <1>1 DEF Usable
    <2>2. Pick(e, level, h, max) = e.primary
      BY <1>1 DEF Pick
    <2> QED
      BY <2>1, <2>2
  <1>2. CASE level = "eventual"
    <2>1. Pick(e, level, h, max) = pickReplica(e, h, -1)
      BY <1>2 DEF Pick
    <2>2. Usable(level, max, e) = {r \in ToSet(e.replicas) :
                                      r.status # "DOWN" /\ (-1 >= 0 => r.lagMS <= -1)}
      BY <1>2 DEF Usable
    <2>3. -1 \in Int
      OBVIOUS
    <2> HIDE DEF Usable
    <2> QED
      BY <2>1, <2>2, <2>3, PickReplicaFits
  <1>3. CASE level = "bounded_staleness"
    <2>1. Pick(e, level, h, max) = pickReplica(e, h, max)
      BY <1>3 DEF Pick
    <2>2. Usable(level, max, e) = {r \in ToSet(e.replicas) :
                                      r.status # "DOWN" /\ (max >= 0 => r.lagMS <= max)}
      BY <1>3 DEF Usable
    <2> HIDE DEF Usable
    <2> QED
      BY <2>1, <2>2, PickReplicaFits
  <1> QED
    BY <1>1, <1>2, <1>3 DEF Consistencies

\* A shard is in the map before it is on the ring, and the request under way
\* holds a shard that was on the ring.
MapInv ==
    /\ DOMAIN shardMap \subseteq Shards
    /\ \A s \in DOMAIN shardMap : shardMap[s] \in Shard
    /\ adding \subseteq DOMAIN shardMap
    /\ \A p \in DOMAIN hashToShard : hashToShard[p] \in DOMAIN shardMap

QueryInv ==
    /\ query \in [pc : {"ring", "no_shards", "map", "unknown_level", "ok"}, key : Points,
                   level : Consistencies, maxLagMS : MaxLags, shardID : SUBSET DOMAIN shardMap,
                   entry : SUBSET Shard, node : SUBSET Node]
    /\ AnswerFitsRequest

RouterInv == RingInv /\ MapInv /\ QueryInv
LEMMA RouterStarts == Init => RouterInv
  <1> SUFFICES ASSUME Init PROVE RouterInv
    OBVIOUS
  <1>1. RingInv
    BY RingStarts DEF Init
  <1>2. DOMAIN shardMap = {} /\ DOMAIN hashToShard = {} /\ adding = {}
    BY DEF Init, RingInit
  <1>3. PICK h \in Points, c \in Consistencies, max \in MaxLags : query = Ask(h, c, max)
    BY DEF Init
  <1>4. query \in [pc : {"ring", "no_shards", "map", "unknown_level", "ok"}, key : Points,
                   level : Consistencies, maxLagMS : MaxLags, shardID : SUBSET DOMAIN shardMap,
                   entry : SUBSET Shard, node : SUBSET Node]
    BY <1>3 DEF Ask
  <1>5. AnswerFitsRequest
    BY <1>3 DEF Ask, AnswerFitsRequest
  <1> QED
    BY <1>1, <1>2, <1>4, <1>5 DEF RouterInv, MapInv, QueryInv

\* A step that leaves the request alone and takes no shard off the map.
LEMMA QueryWaits ==
    ASSUME QueryInv, query' = query, DOMAIN shardMap \subseteq DOMAIN shardMap'
    PROVE  QueryInv'
  <1>1. (query \in [pc : {"ring", "no_shards", "map", "unknown_level", "ok"}, key : Points,
                   level : Consistencies, maxLagMS : MaxLags, shardID : SUBSET DOMAIN shardMap,
                   entry : SUBSET Shard, node : SUBSET Node])'
    BY DEF QueryInv, Points
  <1>2. AnswerFitsRequest'
    BY DEF QueryInv, AnswerFitsRequest
  <1> QED
    BY <1>1, <1>2 DEF QueryInv

LEMMA RingWaits ==
    ASSUME RingInv, UNCHANGED ringVars
    PROVE  RingInv'
  BY DEF RingInv, RingTypes, TablesAgree, ringVars, Points

LEMMA AddToMapKeeps ==
    ASSUME RouterInv, NEW entry \in Entries, AddToMap(entry) PROVE RouterInv'
  <1>1. entry \in Shard /\ entry.id \in Shards
    BY RouterAssumption DEF Shard
  <1>2. RingInv'
    BY RingWaits DEF RouterInv, AddToMap
  <1>3. /\ DOMAIN shardMap' = DOMAIN shardMap \cup {entry.id}
        /\ \A s \in DOMAIN shardMap' : shardMap'[s] = IF s = entry.id THEN entry ELSE shardMap[s]
        /\ adding' = adding \cup {entry.id} /\ hashToShard' = hashToShard /\ query' = query
    BY DEF AddToMap, ringVars
  <1>4. MapInv'
    BY <1>1, <1>3 DEF RouterInv, MapInv
  <1>5. QueryInv'
    BY <1>3, QueryWaits DEF RouterInv
  <1> QED
    BY <1>2, <1>4, <1>5 DEF RouterInv

LEMMA ReportKeeps ==
    ASSUME RouterInv, NEW entry \in Entries, Report(entry) PROVE RouterInv'
  <1>1. entry \in Shard
    BY RouterAssumption
  <1>2. RingInv'
    BY RingWaits DEF RouterInv, Report
  <1>3. /\ DOMAIN shardMap' = DOMAIN shardMap
        /\ \A s \in DOMAIN shardMap' : shardMap'[s] = IF s = entry.id THEN entry ELSE shardMap[s]
        /\ adding' = adding /\ hashToShard' = hashToShard /\ query' = query
    BY DEF Report, ringVars
  <1>4. MapInv'
    BY <1>1, <1>3 DEF RouterInv, MapInv
  <1>5. QueryInv'
    BY <1>3, QueryWaits DEF RouterInv
  <1> QED
    BY <1>2, <1>4, <1>5 DEF RouterInv

LEMMA AddToRingKeeps ==
    ASSUME RouterInv, NEW s \in Shards, AddToRing(s) PROVE RouterInv'
  <1>1. RingInv'
    BY AddKeepsRing DEF RouterInv, AddToRing
  <1>2. shardMap' = shardMap /\ adding' = adding \ {s} /\ query' = query /\ s \in adding
    BY DEF AddToRing
  <1>3. \A p \in DOMAIN hashToShard' :
           hashToShard'[p] = s \/ (p \in DOMAIN hashToShard /\ hashToShard'[p] = hashToShard[p])
    BY DEF AddToRing, RingAddShard
  <1>4. MapInv'
    BY <1>2, <1>3 DEF RouterInv, MapInv
  <1>5. QueryInv'
    BY <1>2, QueryWaits DEF RouterInv
  <1> QED
    BY <1>1, <1>4, <1>5 DEF RouterInv

LEMMA ResolveRingKeeps ==
    ASSUME RouterInv, ResolveRing PROVE RouterInv'
  <1>1. RingInv'
    BY RingWaits DEF RouterInv, ResolveRing
  <1>2. UNCHANGED <<ringVars, shardMap, adding>>
    BY DEF ResolveRing
  <1>3. MapInv'
    BY <1>2 DEF RouterInv, MapInv, ringVars
  <1>4. query.key \in Points
    BY DEF RouterInv, QueryInv
  <1>5. ShardFor(query.key) \subseteq DOMAIN shardMap
    <2> DEFINE D == DOMAIN hashToShard
               h == query.key
    <2>1. IF D = {} THEN ShardFor(h) = {}
          ELSE \E p : First(p, h, D) /\ ShardFor(h) = {hashToShard[p]}
      BY <1>4, SearchFinds DEF Found, RouterInv
    <2> HIDE DEF h
    <2> QED
      BY <2>1 DEF First, RouterInv, MapInv, h
  <1> DEFINE found == ShardFor(query.key)
  <1>6. query' = IF found = {} THEN [query EXCEPT !.pc = "no_shards"]
                 ELSE [query EXCEPT !.pc = "map", !.shardID = found]
    BY DEF ResolveRing
  <1> HIDE DEF found
  <1>7. found \in SUBSET DOMAIN shardMap
    BY <1>5 DEF found
  <1>8. query' \in [pc : {"ring", "no_shards", "map", "unknown_level", "ok"}, key : Points,
                   level : Consistencies, maxLagMS : MaxLags, shardID : SUBSET DOMAIN shardMap,
                   entry : SUBSET Shard, node : SUBSET Node]
    BY <1>6, <1>7 DEF RouterInv, QueryInv
  <1>9. /\ query'.entry = query.entry /\ query'.node = query.node
        /\ query'.level = query.level /\ query'.maxLagMS = query.maxLagMS
    BY <1>6 DEF RouterInv, QueryInv
  <1>10. AnswerFitsRequest'
    BY <1>9 DEF RouterInv, QueryInv, AnswerFitsRequest
  <1>11. QueryInv'
    BY <1>2, <1>8, <1>10 DEF QueryInv, Points
  <1> QED
    BY <1>1, <1>3, <1>11 DEF RouterInv

LEMMA ResolveMapKeeps ==
    ASSUME RouterInv, ResolveMap PROVE RouterInv'
  <1>1. RingInv'
    BY RingWaits DEF RouterInv, ResolveMap
  <1>2. UNCHANGED <<ringVars, shardMap, adding>>
    BY DEF ResolveMap
  <1>3. MapInv'
    BY <1>2 DEF RouterInv, MapInv, ringVars
  <1>4. PICK s \in query.shardID :
          query' = IF s \notin DOMAIN shardMap
                   THEN [query EXCEPT !.pc = "missing"]
                   ELSE IF query.level = "other"
                   THEN [query EXCEPT !.pc = "unknown_level"]
                   ELSE [query EXCEPT !.pc = "ok",
                                      !.entry = {shardMap[s]},
                                      !.node = {Pick(shardMap[s], query.level, query.key, query.maxLagMS)}]
    BY DEF ResolveMap
  <1>5. s \in DOMAIN shardMap /\ shardMap[s] \in Shard
    BY DEF RouterInv, QueryInv, MapInv
  <1> DEFINE e == shardMap[s]
             n == Pick(e, query.level, query.key, query.maxLagMS)
             T == [pc : {"ring", "no_shards", "map", "unknown_level", "ok"}, key : Points,
                   level : Consistencies, maxLagMS : MaxLags, shardID : SUBSET DOMAIN shardMap,
                   entry : SUBSET Shard, node : SUBSET Node]
  <1>6. query \in T /\ AnswerFitsRequest
    BY DEF RouterInv, QueryInv
  <1>7. CASE query.level = "other"
    <2>1. query' = [query EXCEPT !.pc = "unknown_level"]
      BY <1>4, <1>5, <1>7
    <2>2. query' \in T
      BY <1>6, <2>1
    <2>3. AnswerFitsRequest'
      BY <1>6, <2>1 DEF AnswerFitsRequest
    <2>4. QueryInv'
      BY <1>2, <2>2, <2>3 DEF QueryInv, Points
    <2> QED
      BY <1>1, <1>3, <2>4 DEF RouterInv
  <1>8. CASE query.level # "other"
    <2>1. query' = [query EXCEPT !.pc = "ok", !.entry = {e}, !.node = {n}]
      BY <1>4, <1>5, <1>8
    <2>2. query.key \in Nat /\ query.maxLagMS \in Int /\ query.level \in Consistencies
      BY <1>6, PointsFacts, RouterAssumption
    <2>3. e \in Shard
      BY <1>5
    <2> DEFINE level == query.level
               max == query.maxLagMS
               usable == Usable(level, max, e)
    <2>4. IF usable = {} THEN n = e.primary ELSE n \in usable
      BY <1>8, <2>2, <2>3, PickFits
    <2> HIDE DEF n, e
    <2>5. n \in Node
      <3>1. e.primary \in Node /\ e.replicas \in Seq(Node)
        BY <2>3 DEF Shard
      <3>2. ToSet(e.replicas) \subseteq Node
        BY <3>1 DEF ToSet
      <3> QED
        BY <2>4, <3>1, <3>2 DEF Usable
    <2>6. query' \in T
      BY <1>6, <2>1, <2>3, <2>5
    <2>7. /\ query'.entry = {e} /\ query'.node = {n}
          /\ query'.level = level /\ query'.maxLagMS = max
      BY <1>6, <2>1
    <2>8. AnswerFitsRequest'
      BY <2>4, <2>7 DEF AnswerFitsRequest, Usable
    <2>9. QueryInv'
      BY <1>2, <2>6, <2>8 DEF QueryInv, Points
    <2> QED
      BY <1>1, <1>3, <2>9 DEF RouterInv
  <1> QED
    BY <1>7, <1>8

LEMMA RouterStays == RouterInv /\ [Next]_vars => RouterInv'
  <1> SUFFICES ASSUME RouterInv, [Next]_vars PROVE RouterInv'
    OBVIOUS
  <1>1. CASE UNCHANGED vars
    <2>1. RingInv'
      BY <1>1, RingWaits DEF RouterInv, vars, ringVars
    <2>2. MapInv'
      BY <1>1 DEF RouterInv, MapInv, vars
    <2>3. QueryInv'
      BY <1>1, QueryWaits DEF RouterInv, vars
    <2> QED
      BY <2>1, <2>2, <2>3 DEF RouterInv
  <1> QED
    BY <1>1, AddToMapKeeps, ReportKeeps, AddToRingKeeps, ResolveRingKeeps, ResolveMapKeeps DEF Next

\* No Resolve meets a shard that is on the ring and not in the map, at whatever
\* point of how many AddShards it runs.
THEOREM NeverOnTheRingOnly == Spec => []NeverMissing
  <1>1. RouterInv => NeverMissing
    BY DEF RouterInv, QueryInv, NeverMissing
  <1> QED
    BY <1>1, RouterStarts, RouterStays, PTL DEF Spec

\* The node Resolve answers with fits the request and the entry it read, for
\* replica lists of any length: no DOWN replica, no replica beyond the ceiling,
\* and the primary only where no replica would do.
THEOREM AnswersFit == Spec => []AnswerFitsRequest
  <1>1. RouterInv => AnswerFitsRequest
    BY DEF RouterInv, QueryInv
  <1> QED
    BY <1>1, RouterStarts, RouterStays, PTL DEF Spec
=============================================================================
