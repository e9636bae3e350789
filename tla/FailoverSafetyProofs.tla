------------------------ MODULE FailoverSafetyProofs ------------------------
(***************************************************************************)
(* What failover never does, for every configuration, every number of      *)
(* overlapping sweeps and every choice of faults: list a node twice,       *)
(* depose a primary that was not confirmed DOWN, route writes to a         *)
(* standby, or promote because of a partition of the proxy.  Then, for     *)
(* sweeps that do not overlap (OneSweep), what the readers of the map may  *)
(* rely on: silence keeps the lag, a failover is final, the checker        *)
(* implements ShardTopology, and its pools follow the map.  The run        *)
(* hc_stale_snapshot shows why that hypothesis is needed.                  *)
(***************************************************************************)
EXTENDS HealthCheckerProofs

-----------------------------------------------------------------------------
(* The entries, wherever they are held. *)

\* An entry of shard s: its nodes are members of s and all different, and its
\* replicas are configured replicas.
EntryOK(e, s) ==
    /\ e.id = s
    /\ \A j \in Positions(e) : NodeAt(e, j).addr \in Members(s)
    /\ \A j \in Positions(e) \ {0} : NodeAt(e, j).addr \in ConfiguredReplicas(s)
    /\ \A j, k \in Positions(e) : NodeAt(e, j).addr = NodeAt(e, k).addr => j = k

\* In the map, in the snapshots, and in the hands of the checks.
EntriesOK ==
    /\ \A s \in Shards : EntryOK(shardMap[s], s)
    /\ \A w \in Sweeps : \A e \in todo[w] : EntryOK(e, e.id)
    /\ \A w \in Sweeps, s \in Shards : EntryOK(check[w][s].shard, s)

LEMMA SeedOK ==
    ASSUME NEW s \in Shards
    PROVE  EntryOK(Seed(s), s)
  <1> DEFINE q == Config[s].replicas
             e == Seed(s)
  <1>1. q \in Seq(Addrs)
    BY ConfigType
  <1>2. e.replicas = [i \in 1 .. Len(q) |-> FreshNode(q[i])] /\ e.id = s
    BY DEF Seed
  <1>3. Len(e.replicas) = Len(q)
    BY <1>1, <1>2
  <1>4. NodeAt(e, 0).addr = Config[s].primary
    BY DEF NodeAt, Seed, FreshNode
  <1>5. \A j \in 1 .. Len(q) : NodeAt(e, j).addr = q[j]
    BY <1>1, <1>2 DEF NodeAt, FreshNode
  <1>6. Positions(e) = 0 .. Len(q) /\ Len(q) \in Nat
    BY <1>1, <1>3 DEF Positions
  <1> HIDE DEF e
  <1>7. \A j \in Positions(e) \ {0} : j \in 1 .. Len(q)
    BY <1>6
  <1>8. \A j \in Positions(e) \ {0} :
           NodeAt(e, j).addr = q[j] /\ NodeAt(e, j).addr \in ConfiguredReplicas(s)
    BY <1>5, <1>7 DEF ConfiguredReplicas
  <1>9. \A j \in Positions(e) : NodeAt(e, j).addr \in Members(s)
    BY <1>4, <1>8 DEF Members
  <1>10. /\ Config[s].primary \notin ConfiguredReplicas(s)
         /\ \A i, j \in 1 .. Len(q) : q[i] = q[j] => i = j
    BY DistinctMembers
  <1>11. \A j, k \in Positions(e) : NodeAt(e, j).addr = NodeAt(e, k).addr => j = k
    BY <1>4, <1>7, <1>8, <1>10
  <1> QED
    BY <1>2, <1>8, <1>9, <1>11 DEF EntryOK, e

\* Promotion keeps an entry well formed: the candidate moves, the deposed
\* primary leaves.
LEMMA PromotedOK ==
    ASSUME NEW s \in Shards, NEW e \in Shard, EntryOK(e, s),
           NEW cand \in 1 .. Len(e.replicas)
    PROVE  /\ EntryOK(Promoted(e, cand), s)
           /\ Promoted(e, cand).primary.addr = e.replicas[cand].addr
           /\ ReplicaAddrs(Promoted(e, cand)) = ReplicaAddrs(e) \ {e.replicas[cand].addr}
  <1> DEFINE q == e.replicas
             p == Promoted(e, cand)
             Old(j) == IF j = 0 THEN cand ELSE IF j < cand THEN j ELSE j + 1
  <1>1. q \in Seq(Node) /\ Len(q) \in Nat
    BY DEF Shard
  <1>2. /\ p.replicas = RemoveAt(q, cand) /\ p.id = e.id
        /\ p.primary.addr = q[cand].addr
    BY DEF Promoted
  <1>3. /\ Len(p.replicas) = Len(q) - 1
        /\ \A k \in 1 .. Len(q) - 1 : p.replicas[k] = IF k < cand THEN q[k] ELSE q[k + 1]
    BY <1>1, <1>2, RemoveAtLemma
  <1> HIDE DEF p
  <1>4. Positions(p) = 0 .. Len(q) - 1 /\ Positions(e) = 0 .. Len(q)
    BY <1>1, <1>3 DEF Positions
  <1>5. \A j \in Positions(p) : Old(j) \in 1 .. Len(q) /\ Old(j) \in Positions(e) \ {0}
    BY <1>1, <1>4
  <1>6. \A j \in Positions(p) : NodeAt(p, j).addr = NodeAt(e, Old(j)).addr
    BY <1>1, <1>2, <1>3, <1>4 DEF NodeAt
  <1>7. \A j, k \in Positions(p) : Old(j) = Old(k) => j = k
    BY <1>1, <1>4
  <1> HIDE DEF Old
  <1>8. EntryOK(p, s)
    BY <1>2, <1>5, <1>6, <1>7 DEF EntryOK
  <1>9. ReplicaAddrs(p) = ReplicaAddrs(e) \ {q[cand].addr}
    <2>1. ASSUME NEW k \in 1 .. Len(p.replicas)
          PROVE  p.replicas[k].addr \in ReplicaAddrs(e) \ {q[cand].addr}
      <3>1. /\ k \in Positions(p) /\ k # 0 /\ 0 \in Positions(p)
            /\ NodeAt(p, k).addr = p.replicas[k].addr
            /\ NodeAt(p, 0).addr = q[cand].addr
        BY <1>1, <1>2, <1>3, <1>4 DEF NodeAt
      <3>2. p.replicas[k].addr # q[cand].addr
        BY <1>8, <3>1 DEF EntryOK
      <3>3. \E j \in 1 .. Len(q) : p.replicas[k].addr = q[j].addr
        BY <1>5, <1>6, <3>1 DEF NodeAt
      <3> QED
        BY <3>2, <3>3 DEF ReplicaAddrs
    <2>2. ASSUME NEW j \in 1 .. Len(q), q[j].addr # q[cand].addr
          PROVE  q[j].addr \in ReplicaAddrs(p)
      <3>1. CASE j < cand
        BY <1>1, <1>3, <3>1 DEF ReplicaAddrs
      <3>2. CASE j > cand
        <4>1. j - 1 \in 1 .. Len(p.replicas) /\ p.replicas[j - 1] = q[j]
          BY <1>1, <1>3, <3>2
        <4> QED
          BY <4>1 DEF ReplicaAddrs
      <3> QED
        BY <1>1, <2>2, <3>1, <3>2
    <2> QED
      BY <2>1, <2>2 DEF ReplicaAddrs
  <1> QED
    BY <1>2, <1>8, <1>9 DEF p

\* A heartbeat changes no address and no position.
LEMMA PingKeepsAddrs ==
    ASSUME TypeInv, NEW w \in Sweeps, NEW s \in Shards,
           NEW i \in Positions(check[w][s].shard), pingNode(w, s, i)
    PROVE  LET c == check[w][s]
               d == check'[w][s]
               n == NodeAt(c.shard, i)
           IN  /\ d.pc = "ping" /\ d.cannot = c.cannot
               /\ d.shard \in Shard
               /\ d.shard.id = c.shard.id
               /\ Positions(d.shard) = Positions(c.shard)
               /\ \A j \in Positions(c.shard) :
                     NodeAt(d.shard, j).addr = NodeAt(c.shard, j).addr
               /\ d.waiting = c.waiting \ {i}
               /\ i \in c.waiting
               /\ \A j \in Positions(c.shard) \ {i} : NodeAt(d.shard, j) = NodeAt(c.shard, j)
               /\ NodeAt(d.shard, i).status = statusFor(misses'[n.addr])
               /\ n.addr \in Addrs
               /\ \A a \in Addrs \ {n.addr} : misses'[a] = misses[a]
               /\ misses' \in [Addrs -> 0 .. MissCap]
  <1> DEFINE c == check[w][s]
             n == NodeAt(c.shard, i)
  <1>1. c \in Checks /\ c.shard \in Shard
    BY DEF TypeInv, TypeOK, Checks
  <1>2. n \in Node /\ n.addr \in Addrs
    BY <1>1, NodeAtType DEF Node
  <1>3. PICK beat \in Heartbeats(n, i # 0) :
           /\ misses' = [misses EXCEPT ![n.addr] = recordResult(n.addr, beat.ok)]
           /\ check' = [check EXCEPT
                  ![w][s].shard = WithNodeAt(c.shard, i,
                      [addr |-> n.addr, status |-> statusFor(recordResult(n.addr, beat.ok)),
                       lagMS |-> beat.lagMS]),
                  ![w][s].waiting = @ \ {i}]
    BY DEF pingNode
  <1> DEFINE m  == recordResult(n.addr, beat.ok)
             nn == [addr |-> n.addr, status |-> statusFor(m), lagMS |-> beat.lagMS]
             sh == WithNodeAt(c.shard, i, nn)
  <1>4. m \in 0 .. MissCap
    BY <1>2, Thresholds DEF recordResult, TypeInv, TypeOK
  <1>5. nn \in Node
    BY <1>2, HeartbeatType DEF Node, Statuses, statusFor
  <1>6. /\ sh \in Shard /\ sh.id = c.shard.id /\ Positions(sh) = Positions(c.shard)
        /\ \A j \in Positions(c.shard) :
              NodeAt(sh, j) = IF j = i THEN nn ELSE NodeAt(c.shard, j)
    BY <1>1, <1>5, WithNodeAtLemma
  <1>7. check'[w][s] = [c EXCEPT !.shard = sh, !.waiting = @ \ {i}]
    BY <1>3 DEF TypeInv, TypeOK
  <1>8. c.pc = "ping" /\ i \in c.waiting
    BY DEF pingNode
  <1>9. /\ misses'[n.addr] = m
        /\ \A a \in Addrs \ {n.addr} : misses'[a] = misses[a]
        /\ misses' \in [Addrs -> 0 .. MissCap]
    <2> HIDE DEF m, n
    <2> QED BY <1>2, <1>3, <1>4 DEF TypeInv, TypeOK, m
  <1>10. nn.addr = n.addr /\ nn.status = statusFor(m)
    OBVIOUS
  <1> HIDE DEF sh, m, nn
  <1>11. /\ check'[w][s].pc = "ping" /\ check'[w][s].shard = sh
         /\ check'[w][s].cannot = c.cannot
         /\ check'[w][s].waiting = c.waiting \ {i}
    BY <1>1, <1>7, <1>8 DEF Checks
  <1> QED
    BY <1>2, <1>6, <1>8, <1>9, <1>10, <1>11

\* What a step of a check may do to the entry of its shard and to its own:
\* nothing, re-measure it, write it back, read it, or promote.
LEMMA CheckStepEntries ==
    ASSUME OwnInv, NEW w \in Sweeps, NEW s \in Shards, CheckStep(w, s)
    PROVE  LET c == check[w][s]
               d == check'[w][s]
           IN  /\ \/ shardMap'[s] = shardMap[s]
                  \/ c.pc = "ping" /\ shardMap'[s] = c.shard
                  \/ /\ c.pc = "swap" /\ c.cand \in 1 .. Len(c.shard.replicas)
                     /\ shardMap'[s] = Promoted(c.shard, c.cand)
               /\ \/ d.shard = c.shard
                  \/ d.shard = Seed(s) /\ d.pc = "idle"
                  \/ \E i \in Positions(c.shard) : pingNode(w, s, i)
  <1> USE DEF OwnInv, ExclusionInv
  <1> DEFINE c == check[w][s]
  <1>c. c \in Checks /\ shardMap[s] \in Shard
    BY DEF TypeInv, TypeOK
  <1>f. /\ check \in [Sweeps -> [Shards -> Checks]]
        /\ shardMap \in [Shards -> Shard]
    BY DEF TypeInv, TypeOK
  <1>1. ASSUME NEW i \in Positions(c.shard), pingNode(w, s, i)
        PROVE  shardMap' = shardMap
    BY <1>1 DEF pingNode
  <1>2. CASE WriteBack(w, s)
    BY <1>2, <1>c, <1>f DEF WriteBack, Set, Checks
  <1>3. CASE Promote(w, s)
    <2>1. shardMap[s] = c.shard /\ shardMap' = shardMap
      BY <1>3 DEF Promote, OwnEntry
    <2>2. CASE check' = [check EXCEPT ![w][s].pc = "release"]
      BY <1>c, <1>f, <2>1, <2>2 DEF Checks
    <2>3. ASSUME NEW cand \in selectPromotionCandidate(shardMap[s].replicas),
                 check' = [check EXCEPT ![w][s] =
                    [pc      |-> IF QuorumGuard THEN "vote" ELSE AfterGuard,
                     shard   |-> shardMap[s],
                     waiting |-> IF QuorumGuard THEN Usable(shardMap[s].replicas) ELSE {},
                     saw     |-> 0, cannot |-> 0, cand |-> cand]]
          PROVE  check'[w][s].shard = shardMap[s]
      BY <1>f, <2>3
    <2> QED
      BY <1>3, <2>1, <2>2, <2>3 DEF Promote
  <1>4. ASSUME NEW i \in 1 .. Len(c.shard.replicas), WitnessVote(w, s, i)
        PROVE  shardMap' = shardMap /\ check'[w][s].shard = c.shard
    BY <1>4, <1>c, <1>f DEF WitnessVote, Checks
  <1>5. CASE Tally(w, s)
    BY <1>5, <1>c, <1>f DEF Tally, Checks
  <1>6. CASE PgPromoteSend(w, s)
    BY <1>6, <1>c, <1>f DEF PgPromoteSend, Checks
  <1>7. CASE PgPromoteUnsent(w, s)
    BY <1>7, <1>c, <1>f DEF PgPromoteUnsent, Checks
  <1>8. CASE PgPromoteDone(w, s)
    BY <1>8, <1>c, <1>f DEF PgPromoteDone, Checks
  <1>9. CASE PgPromoteFailed(w, s)
    BY <1>9, <1>c, <1>f DEF PgPromoteFailed, Checks
  <1>10. CASE Swap(w, s)
    BY <1>10, <1>c, <1>f DEF Swap, Set, Checks, TypeInv, CandidateInRange, Chosen
  <1>11. CASE Drain(w, s)
    BY <1>11, <1>c, <1>f DEF Drain, Checks
  <1>12. CASE release(w, s)
    BY <1>12, <1>c, <1>f DEF release, Idle
  <1> QED
    BY <1>1, <1>2, <1>3, <1>4, <1>5, <1>6, <1>7, <1>8, <1>9, <1>10, <1>11, <1>12 DEF CheckStep

EntriesInv == OwnInv /\ EntriesOK

LEMMA EntriesStep == EntriesInv /\ [Next]_vars => EntriesInv'
  <1> SUFFICES ASSUME EntriesInv, [Next]_vars PROVE EntriesOK'
    BY OwnStep DEF EntriesInv
  <1> USE DEF EntriesInv
  <1>t. TypeInv /\ TypeInv'
    BY NextType DEF OwnInv, ExclusionInv
  <1>1. ASSUME NEW w \in Sweeps, NEW s \in Shards, CheckStep(w, s)
        PROVE  EntriesOK'
    <2> DEFINE c == check[w][s]
    <2>1. c.shard \in Shard /\ EntryOK(c.shard, s) /\ EntryOK(shardMap[s], s)
      BY <1>t DEF TypeInv, TypeOK, Checks, EntriesOK
    <2>2. EntryOK(shardMap'[s], s)
      BY <1>1, <2>1, CheckStepEntries, PromotedOK
    <2>3. EntryOK(check'[w][s].shard, s)
      <3>1. ASSUME NEW i \in Positions(c.shard), pingNode(w, s, i)
            PROVE  EntryOK(check'[w][s].shard, s)
        <4>1. /\ check'[w][s].shard.id = c.shard.id
              /\ Positions(check'[w][s].shard) = Positions(c.shard)
              /\ \A j \in Positions(c.shard) :
                    NodeAt(check'[w][s].shard, j).addr = NodeAt(c.shard, j).addr
          BY <1>t, <3>1, PingKeepsAddrs
        <4> QED
          BY <2>1, <4>1 DEF EntryOK
      <3> QED
        BY <1>1, <2>1, <3>1, CheckStepEntries, SeedOK
    <2> QED
      BY <1>1, <1>t, <2>2, <2>3, CheckFrame DEF EntriesOK
  <1>2. ASSUME NEW w \in Sweeps, NEW shard \in todo[w], BeginCheck(w, shard)
        PROVE  EntriesOK'
    BY <1>2, <1>t, BeginFrame DEF EntriesOK
  <1>3. CASE /\ UNCHANGED <<shardMap, check>>
             /\ \A w \in Sweeps : todo'[w] \subseteq todo[w] \cup All(shardMap)
    <2>1. \A e \in All(shardMap) : EntryOK(e, e.id)
      <3> SUFFICES ASSUME NEW s \in Shards PROVE EntryOK(shardMap[s], shardMap[s].id)
        BY DEF All
      <3>1. EntryOK(shardMap[s], s)
        BY DEF EntriesOK
      <3>2. shardMap[s].id = s
        BY <3>1 DEF EntryOK
      <3> QED
        BY <3>1, <3>2
    <2> QED
      BY <1>3, <2>1 DEF EntriesOK
  <1> QED
    BY <1>1, <1>2, <1>3, <1>t, StepKinds

LEMMA EntriesInit == Init => EntriesInv
  <1> SUFFICES ASSUME Init PROVE EntriesInv
    OBVIOUS
  <1>1. OwnInv
    BY InitTypeInv DEF OwnInv, ExclusionInv, OneCheckPerShard, OwnEntry, Init, Idle
  <1>2. EntriesOK
    BY SeedOK DEF EntriesOK, Init, Idle
  <1> QED
    BY <1>1, <1>2 DEF EntriesInv

\* No entry ever lists a node twice, and it lists only nodes configured for its
\* shard: neither a failover nor a stale snapshot can corrupt the membership.
THEOREM MembershipIsSound == Spec => []NoNodeTwice
  <1>1. EntriesInv => NoNodeTwice
    BY DEF EntriesInv, EntriesOK, EntryOK, NoNodeTwice
  <1> QED
    BY <1>1, EntriesInit, EntriesStep, PTL DEF Spec

-----------------------------------------------------------------------------
(* Writes are never routed to a standby. *)

\* A server leaves recovery once and for all, and a crash is not forgotten.
LEMMA ServersProgress ==
    ASSUME TypeInv, [Next]_vars
    PROVE  standby' \subseteq standby /\ crashed \subseteq crashed'
  <1>1. ASSUME NEW w \in Sweeps, NEW s \in Shards, CheckStep(w, s)
        PROVE  standby' = standby /\ crashed' = crashed
    BY <1>1 DEF CheckStep, pingNode, WriteBack, Promote, WitnessVote, Tally, PgPromoteSend,
                PgPromoteUnsent, PgPromoteDone, PgPromoteFailed, Swap, Drain, release, serverVars
  <1>2. ASSUME NEW w \in Sweeps, SweepStep(w)
        PROVE  standby' = standby /\ crashed' = crashed
    BY <1>2 DEF SweepStep, Snapshot, SkipBusy, BeginCheck, SweepDone, serverVars
  <1>3. ASSUME NEW w \in Sweeps, Launch(w)
        PROVE  standby' = standby /\ crashed' = crashed
    BY <1>3 DEF Launch, serverVars
  <1>4. CASE Cancel \/ LoopExit \/ RunReturn
    BY <1>4 DEF Cancel, LoopExit, RunReturn, serverVars
  <1>5. CASE ServerStep
    BY <1>5 DEF ServerStep, Crash, Restart, FinishPromotion, LoseStream, Reconnect
  <1>6. CASE UNCHANGED vars
    BY <1>6 DEF vars, serverVars
  <1> QED
    BY <1>1, <1>2, <1>3, <1>4, <1>5, <1>6 DEF Next

\* Every primary that may still be written to the map has left recovery.
WritableOK ==
    PgPromote =>
        /\ \A s \in Shards : shardMap[s].primary.addr \notin standby
        /\ \A w \in Sweeps : \A e \in todo[w] : e.primary.addr \notin standby
        /\ \A w \in Sweeps, s \in Shards :
              /\ check[w][s].pc = "ping" => check[w][s].shard.primary.addr \notin standby
              /\ check[w][s].pc = "swap" => CandAddr(check[w][s]) \notin standby

WritableInv == EntriesInv /\ WritableOK

\* How a check gets to its pings and to its swap.
LEMMA CheckStepPhases ==
    ASSUME OwnInv, NEW w \in Sweeps, NEW s \in Shards, CheckStep(w, s)
    PROVE  LET c == check[w][s]
               d == check'[w][s]
           IN  /\ d.pc = "ping" => \E i \in Positions(c.shard) : pingNode(w, s, i)
               /\ d.pc = "swap" /\ PgPromote =>
                     CandAddr(d) = CandAddr(c) /\ CandAddr(c) \notin standby
  <1> USE DEF OwnInv, ExclusionInv
  <1> DEFINE c == check[w][s]
  <1>c. c \in Checks
    BY DEF TypeInv, TypeOK
  <1>f. check \in [Sweeps -> [Shards -> Checks]]
    BY DEF TypeInv, TypeOK
  <1>1. ASSUME NEW i \in Positions(c.shard), pingNode(w, s, i)
        PROVE  check'[w][s].pc = "ping"
    BY <1>1, <1>c, <1>f DEF pingNode, Checks
  <1>2. CASE WriteBack(w, s)
    BY <1>2, <1>c, <1>f DEF WriteBack, Checks
  <1>3. CASE Promote(w, s)
    BY <1>3, <1>c, <1>f DEF Promote, AfterGuard, Checks
  <1>4. ASSUME NEW i \in 1 .. Len(c.shard.replicas), WitnessVote(w, s, i)
        PROVE  check'[w][s].pc = "vote"
    BY <1>4, <1>c, <1>f DEF WitnessVote, Checks
  <1>5. CASE Tally(w, s)
    BY <1>5, <1>c, <1>f DEF Tally, AfterGuard, Checks
  <1>6. CASE PgPromoteSend(w, s)
    <2>1. CASE CandAddr(c) \in standby
      <3>1. check'[w][s].pc = "promoting"
        BY <1>6, <1>c, <1>f, <2>1 DEF PgPromoteSend, Checks
      <3> QED
        BY <3>1
    <2>2. CASE CandAddr(c) \notin standby
      <3>1. check'[w][s].pc = "swap" /\ CandAddr(check'[w][s]) = CandAddr(c)
        BY <1>6, <1>c, <1>f, <2>2 DEF PgPromoteSend, CandAddr, Checks
      <3> QED
        BY <2>2, <3>1
    <2> QED
      BY <2>1, <2>2
  <1>7. CASE PgPromoteUnsent(w, s)
    BY <1>7, <1>c, <1>f DEF PgPromoteUnsent, Checks
  <1>8. CASE PgPromoteDone(w, s)
    BY <1>8, <1>c, <1>f DEF PgPromoteDone, CandAddr, Checks
  <1>9. CASE PgPromoteFailed(w, s)
    BY <1>9, <1>c, <1>f DEF PgPromoteFailed, Checks
  <1>10. CASE Swap(w, s)
    BY <1>10, <1>c, <1>f DEF Swap, Checks
  <1>11. CASE Drain(w, s)
    BY <1>11, <1>c, <1>f DEF Drain, Checks
  <1>12. CASE release(w, s)
    BY <1>12, <1>c, <1>f DEF release, Idle
  <1> QED
    BY <1>1, <1>2, <1>3, <1>4, <1>5, <1>6, <1>7, <1>8, <1>9, <1>10, <1>11, <1>12 DEF CheckStep

LEMMA WritableStep == WritableInv /\ [Next]_vars => WritableInv'
  <1> SUFFICES ASSUME WritableInv, [Next]_vars, PgPromote PROVE WritableOK'
    BY EntriesStep DEF WritableInv, WritableOK
  <1> USE DEF WritableInv
  <1>t. TypeInv /\ OwnInv
    BY DEF EntriesInv, OwnInv, ExclusionInv
  <1>s. standby' \subseteq standby
    BY <1>t, ServersProgress
  <1>1. ASSUME NEW w \in Sweeps, NEW s \in Shards, CheckStep(w, s)
        PROVE  WritableOK'
    <2> DEFINE c == check[w][s]
               d == check'[w][s]
    <2>1. c.shard \in Shard /\ EntryOK(c.shard, s)
      BY <1>t DEF TypeInv, TypeOK, Checks, EntriesInv, EntriesOK
    <2>2. shardMap'[s].primary.addr \notin standby
      <3>1. CASE c.pc = "swap" /\ c.cand \in 1 .. Len(c.shard.replicas)
                 /\ shardMap'[s] = Promoted(c.shard, c.cand)
        BY <2>1, <3>1, PromotedOK DEF WritableOK, CandAddr
      <3> QED
        BY <1>1, <1>t, <3>1, CheckStepEntries DEF WritableOK
    <2>3. d.pc = "ping" => d.shard.primary.addr \notin standby
      <3>1. ASSUME NEW i \in Positions(c.shard), pingNode(w, s, i)
            PROVE  d.shard.primary.addr = c.shard.primary.addr /\ c.pc = "ping"
        <4>1. 0 \in Positions(c.shard)
          BY <2>1 DEF Positions, Shard
        <4>2. NodeAt(d.shard, 0).addr = NodeAt(c.shard, 0).addr
          BY <1>t, <3>1, <4>1, PingKeepsAddrs
        <4>3. c.pc = "ping"
          BY <3>1 DEF pingNode
        <4> QED
          BY <4>2, <4>3 DEF NodeAt
      <3> QED
        BY <1>1, <1>t, <3>1, CheckStepPhases DEF WritableOK
    <2>4. d.pc = "swap" => CandAddr(d) \notin standby
      BY <1>1, <1>t, CheckStepPhases
    <2> QED
      BY <1>1, <1>s, <1>t, <2>2, <2>3, <2>4, CheckFrame DEF WritableOK
  <1>2. ASSUME NEW w \in Sweeps, NEW shard \in todo[w], BeginCheck(w, shard)
        PROVE  WritableOK'
    BY <1>2, <1>s, <1>t, BeginFrame DEF WritableOK
  <1>3. CASE /\ UNCHANGED <<shardMap, check>>
             /\ \A w \in Sweeps : todo'[w] \subseteq todo[w] \cup All(shardMap)
    BY <1>3, <1>s DEF WritableOK, All
  <1> QED
    BY <1>1, <1>2, <1>3, <1>t, StepKinds

\* With pg_promote on, no entry ever names a standby as primary, however sweeps
\* overlap, promotions time out, and attempts are retried.
THEOREM WritesReachAPrimary == Spec => []RoutedPrimaryWritable
  <1>1. Init => WritableInv
    <2> SUFFICES ASSUME Init PROVE WritableOK
      BY EntriesInit DEF WritableInv
    <2>1. \A s \in Shards : Config[s].primary \notin Standbys
      BY DistinctMembers DEF Standbys, Members
    <2>2. standby = Standbys
      BY DEF Init, BackendsInit
    <2> QED
      BY <2>1, <2>2 DEF Init, WritableOK, Seed, FreshNode, Idle
  <1>2. WritableInv => RoutedPrimaryWritable
    BY DEF WritableInv, WritableOK, RoutedPrimaryWritable
  <1> QED
    BY <1>1, <1>2, WritableStep, PTL DEF Spec

-----------------------------------------------------------------------------
(* A failover is earned by consecutive misses of its primary. *)

\* Where a check has decided that the primary is DOWN.
Decided == {"promote", "vote", "pg_promote", "promoting", "swap", "drain"}

\* The status of a primary that has been pinged says how often it has missed,
\* and nobody resets the count behind the back of a failover.
DownOK ==
    \A w \in Sweeps, s \in Shards :
        LET c == check[w][s]
        IN  /\ c.pc = "ping" /\ 0 \notin c.waiting =>
                  c.shard.primary.status = statusFor(misses[c.shard.primary.addr])
            /\ c.pc \in Decided => misses[c.shard.primary.addr] >= DownAfterMisses

DownInv == EntriesInv /\ DownOK

\* How a check gets to its decision, and what it does to the misses.
LEMMA CheckStepDecides ==
    ASSUME OwnInv, NEW w \in Sweeps, NEW s \in Shards, CheckStep(w, s)
    PROVE  \/ \E i \in Positions(check[w][s].shard) : pingNode(w, s, i)
           \/ WriteBack(w, s)
           \/ /\ misses' = misses
              /\ check'[w][s].pc # "ping"
              /\ check'[w][s].pc \in Decided =>
                    check[w][s].pc \in Decided /\ check'[w][s].shard = check[w][s].shard
  <1> USE DEF OwnInv, ExclusionInv
  <1> DEFINE c == check[w][s]
  <1>c. c \in Checks
    BY DEF TypeInv, TypeOK
  <1>f. check \in [Sweeps -> [Shards -> Checks]]
    BY DEF TypeInv, TypeOK
  <1>3. CASE Promote(w, s)
    <2>1. /\ \/ check'[w][s].shard = c.shard
             \/ check'[w][s].shard = Seed(s) /\ check'[w][s].pc = "idle"
             \/ \E i \in Positions(c.shard) : pingNode(w, s, i)
          /\ c.pc = "promote" /\ misses' = misses
      BY <1>3, CheckStepEntries DEF CheckStep, Promote
    <2>2. check'[w][s].pc # "idle" /\ check'[w][s].pc # "ping"
      BY <1>3, <1>c, <1>f DEF Promote, AfterGuard, Checks
    <2> QED
      BY <2>1, <2>2 DEF Decided
  <1>4. ASSUME NEW i \in 1 .. Len(c.shard.replicas), WitnessVote(w, s, i)
        PROVE  /\ misses' = misses /\ c.pc = "vote"
               /\ check'[w][s].pc = "vote" /\ check'[w][s].shard = c.shard
    BY <1>4, <1>c, <1>f DEF WitnessVote, Checks
  <1>5. CASE Tally(w, s)
    BY <1>5, <1>c, <1>f DEF Tally, AfterGuard, Checks, Decided
  <1>6. CASE PgPromoteSend(w, s)
    BY <1>6, <1>c, <1>f DEF PgPromoteSend, Checks, Decided
  <1>7. CASE PgPromoteUnsent(w, s)
    BY <1>7, <1>c, <1>f DEF PgPromoteUnsent, Checks, Decided
  <1>8. CASE PgPromoteDone(w, s)
    BY <1>8, <1>c, <1>f DEF PgPromoteDone, Checks, Decided
  <1>9. CASE PgPromoteFailed(w, s)
    BY <1>9, <1>c, <1>f DEF PgPromoteFailed, Checks, Decided
  <1>10. CASE Swap(w, s)
    BY <1>10, <1>c, <1>f DEF Swap, Checks, Decided
  <1>11. CASE Drain(w, s)
    BY <1>11, <1>c, <1>f DEF Drain, Checks, Decided
  <1>12. CASE release(w, s)
    BY <1>12, <1>c, <1>f DEF release, Idle, Decided
  <1> QED
    BY <1>3, <1>4, <1>5, <1>6, <1>7, <1>8, <1>9, <1>10, <1>11, <1>12 DEF CheckStep, Decided

LEMMA DownStep == DownInv /\ [Next]_vars => DownInv'
  <1> SUFFICES ASSUME DownInv, [Next]_vars PROVE DownOK'
    BY EntriesStep DEF DownInv
  <1> USE DEF DownInv
  <1>t. TypeInv /\ OwnInv
    BY DEF EntriesInv, OwnInv, ExclusionInv
  <1>e. \A w \in Sweeps, s \in Shards :
           check[w][s].shard \in Shard /\ EntryOK(check[w][s].shard, s)
    BY <1>t DEF TypeInv, TypeOK, Checks, EntriesInv, EntriesOK
  <1>p. \A w \in Sweeps, s \in Shards :
           /\ 0 \in Positions(check[w][s].shard)
           /\ check[w][s].shard.primary.addr \in Members(s) \cap Addrs
    BY <1>e DEF Positions, Shard, Node, EntryOK, NodeAt
  <1>1. ASSUME NEW w \in Sweeps, NEW s \in Shards, CheckStep(w, s)
        PROVE  DownOK'
    <2> DEFINE c == check[w][s]
               d == check'[w][s]
    <2>1. ASSUME NEW i \in Positions(c.shard), pingNode(w, s, i)
          PROVE  DownOK'
      <3> DEFINE n == NodeAt(c.shard, i)
      <3>1. /\ d.pc = "ping" /\ c.pc = "ping"
            /\ NodeAt(d.shard, 0).addr = NodeAt(c.shard, 0).addr
            /\ d.waiting = c.waiting \ {i}
            /\ i # 0 => NodeAt(d.shard, 0) = NodeAt(c.shard, 0)
            /\ i = 0 => NodeAt(d.shard, 0).status = statusFor(misses'[n.addr])
            /\ \A a \in Addrs \ {n.addr} : misses'[a] = misses[a]
        <4>1. c.pc = "ping" /\ 0 \in Positions(c.shard)
          BY <1>p, <2>1 DEF pingNode
        <4>2. /\ d.pc = "ping"
              /\ \A j \in Positions(c.shard) :
                    NodeAt(d.shard, j).addr = NodeAt(c.shard, j).addr
              /\ d.waiting = c.waiting \ {i}
              /\ \A j \in Positions(c.shard) \ {i} : NodeAt(d.shard, j) = NodeAt(c.shard, j)
              /\ NodeAt(d.shard, i).status = statusFor(misses'[n.addr])
              /\ \A a \in Addrs \ {n.addr} : misses'[a] = misses[a]
          BY <1>t, <2>1, PingKeepsAddrs
        <4> QED
          BY <4>1, <4>2
      <3>2. n.addr \in Members(s)
        BY <1>e DEF EntryOK
      <3>3. i # 0 => n.addr # c.shard.primary.addr
        BY <1>e, <1>p DEF EntryOK, NodeAt
      <3>4. 0 \notin d.waiting =>
               d.shard.primary.status = statusFor(misses'[d.shard.primary.addr])
        <4>1. CASE i = 0
          BY <3>1, <4>1 DEF NodeAt
        <4>2. CASE i # 0
          BY <1>p, <3>1, <3>3, <4>2 DEF NodeAt, DownOK
        <4> QED
          BY <4>1, <4>2
      <3>5. ASSUME NEW v \in Sweeps, NEW u \in Shards, v # w \/ u # s
            PROVE  /\ check'[v][u] = check[v][u]
                   /\ \/ check[v][u].pc = "idle"
                      \/ misses'[check[v][u].shard.primary.addr] =
                             misses[check[v][u].shard.primary.addr]
        <4>1. check'[v][u] = check[v][u]
          BY <1>1, <1>t, <3>5, CheckFrame
        <4>2. CASE u = s
          <5>1. check[v][u].pc = "idle"
            BY <1>t, <3>1, <3>5, <4>2 DEF OwnInv, ExclusionInv, OneCheckPerShard
          <5> QED
            BY <4>1, <5>1
        <4>3. CASE u # s
          <5>1. check[v][u].shard.primary.addr # n.addr
            BY <1>p, <3>2, <4>3, DistinctMembers
          <5> QED
            BY <1>p, <3>1, <4>1, <5>1
        <4> QED
          BY <4>2, <4>3
      <3> QED
        BY <3>1, <3>4, <3>5 DEF DownOK, Decided
    <2>2. CASE WriteBack(w, s)
      <3>1. /\ c.pc = "ping" /\ c.waiting = {}
            /\ d.pc = IF c.shard.primary.status = "DOWN" THEN "promote" ELSE "release"
            /\ d.shard = c.shard
            /\ misses' = misses
        BY <1>t, <2>2 DEF WriteBack, TypeInv, TypeOK, Checks
      <3>2. c.shard.primary.status = "DOWN" =>
               misses[c.shard.primary.addr] >= DownAfterMisses
        BY <3>1 DEF DownOK, statusFor
      <3> QED
        BY <1>1, <1>t, <3>1, <3>2, CheckFrame DEF DownOK, Decided
    <2>3. CASE /\ misses' = misses
               /\ d.pc # "ping"
               /\ d.pc \in Decided => c.pc \in Decided /\ d.shard = c.shard
      BY <1>1, <1>t, <2>3, CheckFrame DEF DownOK
    <2> QED
      BY <1>1, <1>t, <2>1, <2>2, <2>3, CheckStepDecides
  <1>2. ASSUME NEW w \in Sweeps, NEW shard \in todo[w], BeginCheck(w, shard)
        PROVE  DownOK'
    <2>1. 0 \in Positions(shard)
      BY <1>2, <1>t, BeginFrame DEF Positions, Shard
    <2> QED
      BY <1>2, <1>t, <2>1, BeginFrame DEF DownOK, Decided
  <1>3. CASE UNCHANGED <<misses, check>>
    BY <1>3 DEF DownOK
  <1> QED
    BY <1>1, <1>2, <1>3, <1>t, StepKinds

\* While a failover is under way its primary has missed DownAfterMisses
\* heartbeats in a row, and no check of any shard has heard from it since.
THEOREM FailoverIsEarned == Spec => []DownConfirmed
  <1>1. Init => DownInv
    BY EntriesInit DEF DownInv, DownOK, Init, Idle, Decided
  <1>2. DownInv => DownConfirmed
    BY DEF DownInv, DownOK, DownConfirmed, Decided
  <1> QED
    BY <1>1, <1>2, DownStep, PTL DEF Spec

-----------------------------------------------------------------------------
(* The split-brain guard. *)

\* Past the guard.
PastGuard == {"pg_promote", "promoting", "swap", "drain"}

\* What is true of a shard none of whose nodes has crashed: its servers are as
\* they were configured, its primary is the configured one wherever an entry
\* is held, no witness has spoken against it, and no check is past the guard.
Undisturbed(s) ==
    /\ Members(s) \subseteq alive
    /\ ConfiguredReplicas(s) \subseteq (standby \cap streaming) \ promoting
    /\ shardMap[s].primary.addr = Config[s].primary
    /\ \A w \in Sweeps :
          /\ \A e \in todo[w] : e.id = s => e.primary.addr = Config[s].primary
          /\ check[w][s].shard.primary.addr = Config[s].primary
          /\ check[w][s].pc \notin PastGuard
          /\ check[w][s].pc = "vote" => check[w][s].cannot = 0

GuardOK ==
    QuorumGuard /\ LossyLinks = {} =>
        \A s \in Shards : Members(s) \cap crashed = {} => Undisturbed(s)

GuardInv == EntriesInv /\ GuardOK

\* The configuration tells apart whom a standby streams from.
LEMMA UpstreamLemma ==
    ASSUME NEW s \in Shards, NEW a \in ConfiguredReplicas(s)
    PROVE  Upstream(a) = Config[s].primary
  <1>1. \A t \in Shards : a \in ConfiguredReplicas(t) => t = s
    BY DistinctMembers DEF Members
  <1> QED
    BY <1>1 DEF Upstream

\* The servers of an undisturbed shard stay as they are, unless one crashes.
LEMMA GuardServerStep ==
    ASSUME NEW s \in Shards, Undisturbed(s), LossyLinks = {}, ServerStep,
           Members(s) \cap crashed' = {}
    PROVE  /\ Members(s) \subseteq alive'
           /\ ConfiguredReplicas(s) \subseteq (standby' \cap streaming') \ promoting'
  <1> USE DEF Undisturbed
  <1>1. PICK a \in Addrs :
           Crash(a) \/ Restart(a) \/ FinishPromotion(a) \/ LoseStream(a) \/ Reconnect(a)
    BY DEF ServerStep
  <1>2. CASE Crash(a)
    BY <1>2 DEF Crash, Members
  <1>3. CASE Restart(a)
    BY <1>3 DEF Restart
  <1>4. CASE FinishPromotion(a)
    BY <1>4 DEF FinishPromotion
  <1>5. CASE LoseStream(a)
    <2>1. a \notin ConfiguredReplicas(s)
      BY <1>5, UpstreamLemma DEF LoseStream, Members
    <2> QED
      BY <1>5, <2>1 DEF LoseStream
  <1>6. CASE Reconnect(a)
    BY <1>6 DEF Reconnect
  <1> QED
    BY <1>1, <1>2, <1>3, <1>4, <1>5, <1>6

\* A check of an undisturbed shard does not get past the guard.
LEMMA GuardCheckStep ==
    ASSUME EntriesInv, NEW w \in Sweeps, NEW s \in Shards, CheckStep(w, s),
           QuorumGuard, Undisturbed(s)
    PROVE  /\ check'[w][s].pc \notin PastGuard
           /\ check'[w][s].pc = "vote" => check'[w][s].cannot = 0
           /\ UNCHANGED serverVars
  <1> DEFINE c == check[w][s]
  <1>c. c \in Checks /\ c.shard \in Shard
    BY DEF EntriesInv, OwnInv, ExclusionInv, TypeInv, TypeOK, Checks
  <1>f. check \in [Sweeps -> [Shards -> Checks]]
    BY DEF EntriesInv, OwnInv, ExclusionInv, TypeInv, TypeOK
  <1>u. c.pc \notin PastGuard /\ (c.pc = "vote" => c.cannot = 0)
    BY DEF Undisturbed
  <1>1. ASSUME NEW i \in Positions(c.shard), pingNode(w, s, i)
        PROVE  check'[w][s].pc = "ping" /\ UNCHANGED serverVars
    BY <1>1, <1>c, <1>f DEF pingNode, Checks
  <1>2. CASE WriteBack(w, s)
    BY <1>2, <1>c, <1>f DEF WriteBack, Checks, PastGuard
  <1>3. CASE Promote(w, s)
    BY <1>3, <1>c, <1>f DEF Promote, Checks, PastGuard
  <1>4. ASSUME NEW i \in 1 .. Len(c.shard.replicas), WitnessVote(w, s, i)
        PROVE  /\ check'[w][s].pc = "vote" /\ check'[w][s].cannot = 0
               /\ UNCHANGED serverVars
    <2> DEFINE a == c.shard.replicas[i].addr
    <2>1. c.pc = "vote" /\ c.cannot = 0
      BY <1>4, <1>u DEF WitnessVote
    <2>2. PICK v \in WalReceiverStreaming(a) :
              check' = [check EXCEPT
                  ![w][s].waiting = @ \ {i},
                  ![w][s].saw     = IF v.ok /\ v.streaming THEN @ + 1 ELSE @,
                  ![w][s].cannot  = IF v.ok /\ ~v.streaming THEN @ + 1 ELSE @]
      BY <1>4 DEF WitnessVote
    <2>3. a \in ConfiguredReplicas(s)
      <3>1. EntryOK(c.shard, s)
        BY DEF EntriesInv, EntriesOK
      <3>2. i \in Positions(c.shard) \ {0} /\ NodeAt(c.shard, i).addr = a
        BY <1>c DEF Positions, NodeAt, Shard
      <3> QED
        BY <3>1, <3>2 DEF EntryOK
    <2>4. a \in streaming
      BY <2>3 DEF Undisturbed
    <2>5. ~(v.ok /\ ~v.streaming)
      BY <2>4 DEF WalReceiverStreaming
    <2>6. check'[w][s].pc = "vote" /\ check'[w][s].cannot = c.cannot
      BY <1>c, <1>f, <2>1, <2>2, <2>5 DEF Checks
    <2> QED
      BY <1>4, <2>1, <2>6 DEF WitnessVote
  <1>5. CASE Tally(w, s)
    <2>1. c.cannot = 0 /\ c.saw \in Nat
      BY <1>5, <1>c, <1>u DEF Tally, Checks
    <2>2. ~quorumAllowsPromotion(c.saw, c.cannot)
      BY <2>1 DEF quorumAllowsPromotion
    <2> QED
      BY <1>5, <1>c, <1>f, <2>2 DEF Tally, Checks, PastGuard
  <1>6. CASE \/ PgPromoteSend(w, s) \/ PgPromoteUnsent(w, s) \/ PgPromoteDone(w, s)
             \/ PgPromoteFailed(w, s) \/ Swap(w, s) \/ Drain(w, s)
    BY <1>6, <1>u DEF PgPromoteSend, PgPromoteUnsent, PgPromoteDone, PgPromoteFailed,
                      Swap, Drain, PastGuard
  <1>7. CASE release(w, s)
    BY <1>7, <1>c, <1>f DEF release, Idle, PastGuard
  <1> QED
    BY <1>1, <1>2, <1>3, <1>4, <1>5, <1>6, <1>7 DEF CheckStep, PastGuard

\* A check of another shard may promote there; that is all it does to servers.
LEMMA OtherCheckStep ==
    ASSUME EntriesInv, NEW w \in Sweeps, NEW u \in Shards, CheckStep(w, u)
    PROVE  /\ UNCHANGED <<alive, standby, streaming>>
           /\ promoting' \subseteq promoting \cup ConfiguredReplicas(u)
  <1> DEFINE c == check[w][u]
  <1>1. CASE PgPromoteSend(w, u)
    <2>1. c.pc \in Chosen /\ c.shard \in Shard /\ EntryOK(c.shard, u)
      BY <1>1 DEF PgPromoteSend, Chosen, EntriesInv, OwnInv, ExclusionInv, TypeInv, TypeOK,
                  Checks, EntriesOK
    <2>2. c.cand \in 1 .. Len(c.shard.replicas)
      BY <2>1 DEF EntriesInv, OwnInv, ExclusionInv, TypeInv, CandidateInRange
    <2>3. c.cand \in Positions(c.shard) \ {0} /\ NodeAt(c.shard, c.cand).addr = CandAddr(c)
      BY <2>1, <2>2 DEF Positions, NodeAt, Shard, CandAddr
    <2>4. CandAddr(c) \in ConfiguredReplicas(u)
      BY <2>1, <2>3 DEF EntryOK
    <2> QED
      BY <1>1, <2>4 DEF PgPromoteSend
  <1>2. CASE ~PgPromoteSend(w, u)
    BY <1>2 DEF CheckStep, pingNode, WriteBack, Promote, WitnessVote, Tally,
                PgPromoteUnsent, PgPromoteDone, PgPromoteFailed, Swap, Drain, release, serverVars
  <1> QED
    BY <1>1, <1>2

\* What a step of a check leaves of the primary of an undisturbed shard.
LEMMA GuardPrimary ==
    ASSUME EntriesInv, NEW w \in Sweeps, NEW s \in Shards, CheckStep(w, s), Undisturbed(s)
    PROVE  /\ shardMap'[s].primary.addr = Config[s].primary
           /\ check'[w][s].shard.primary.addr = Config[s].primary
  <1> DEFINE c == check[w][s]
             d == check'[w][s]
  <1>1. OwnInv /\ TypeInv /\ c.shard \in Shard
    BY DEF EntriesInv, OwnInv, ExclusionInv, TypeInv, TypeOK, Checks
  <1>2. /\ c.pc # "swap" /\ c.shard.primary.addr = Config[s].primary
        /\ shardMap[s].primary.addr = Config[s].primary
    BY DEF Undisturbed, PastGuard
  <1>3. Seed(s).primary.addr = Config[s].primary
    BY DEF Seed, FreshNode
  <1>4. ASSUME NEW i \in Positions(c.shard), pingNode(w, s, i)
        PROVE  d.shard.primary.addr = Config[s].primary
    <2>1. 0 \in Positions(c.shard)
      BY <1>1 DEF Positions, Shard
    <2>2. NodeAt(d.shard, 0).addr = NodeAt(c.shard, 0).addr
      BY <1>1, <1>4, <2>1, PingKeepsAddrs
    <2> QED
      BY <1>2, <2>2 DEF NodeAt
  <1> QED
    BY <1>1, <1>2, <1>3, <1>4, CheckStepEntries

LEMMA GuardStep == GuardInv /\ [Next]_vars => GuardInv'
  <1> SUFFICES ASSUME GuardInv, [Next]_vars, QuorumGuard, LossyLinks = {},
                      NEW s \in Shards, Members(s) \cap crashed' = {}
               PROVE  Undisturbed(s)'
    BY EntriesStep DEF GuardInv, GuardOK
  <1>t. EntriesInv /\ TypeInv
    BY DEF GuardInv, EntriesInv, OwnInv, ExclusionInv
  <1>u. Undisturbed(s)
    BY <1>t, ServersProgress DEF GuardInv, GuardOK
  <1>1. ASSUME NEW w \in Sweeps, NEW u \in Shards, CheckStep(w, u)
        PROVE  Undisturbed(s)'
    <2>1. CASE u = s
      <3>1. /\ UNCHANGED serverVars
            /\ check'[w][s].pc \notin PastGuard
            /\ check'[w][s].pc = "vote" => check'[w][s].cannot = 0
        BY <1>1, <1>t, <1>u, <2>1, GuardCheckStep
      <3>2. /\ shardMap'[s].primary.addr = Config[s].primary
            /\ check'[w][s].shard.primary.addr = Config[s].primary
        BY <1>1, <1>t, <1>u, <2>1, GuardPrimary
      <3>3. /\ \A v \in Sweeps : v # w => check'[v][s] = check[v][s]
            /\ todo' = todo
        BY <1>1, <1>t, <2>1, CheckFrame
      <3> QED
        BY <1>u, <3>1, <3>2, <3>3 DEF Undisturbed, serverVars
    <2>2. CASE u # s
      <3>1. /\ UNCHANGED <<alive, standby, streaming>>
            /\ promoting' \subseteq promoting \cup ConfiguredReplicas(u)
        BY <1>1, <1>t, OtherCheckStep
      <3>2. ConfiguredReplicas(s) \cap ConfiguredReplicas(u) = {}
        BY <2>2, DistinctMembers DEF Members
      <3>3. /\ \A v \in Sweeps : check'[v][s] = check[v][s]
            /\ shardMap'[s] = shardMap[s] /\ todo' = todo
        BY <1>1, <1>t, <2>2, CheckFrame
      <3> QED
        BY <1>u, <3>1, <3>2, <3>3 DEF Undisturbed
    <2> QED
      BY <2>1, <2>2
  <1>2. ASSUME NEW w \in Sweeps, NEW shard \in todo[w], BeginCheck(w, shard)
        PROVE  Undisturbed(s)'
    BY <1>2, <1>t, <1>u, BeginFrame DEF Undisturbed, serverVars, PastGuard
  <1>3. CASE /\ UNCHANGED <<shardMap, check>>
             /\ \A w \in Sweeps : todo'[w] \subseteq todo[w] \cup All(shardMap)
             /\ ServerStep \/ UNCHANGED serverVars
    <2>1. /\ Members(s) \subseteq alive'
          /\ ConfiguredReplicas(s) \subseteq (standby' \cap streaming') \ promoting'
      BY <1>3, <1>u, GuardServerStep DEF Undisturbed, serverVars
    <2>2. \A e \in All(shardMap) : e.id = s => e.primary.addr = Config[s].primary
      <3> SUFFICES ASSUME NEW t \in Shards, shardMap[t].id = s
                   PROVE  shardMap[t].primary.addr = Config[s].primary
        BY DEF All
      <3>1. shardMap[t].id = t
        BY <1>t DEF EntriesInv, EntriesOK, EntryOK
      <3> QED
        BY <1>u, <3>1 DEF Undisturbed
    <2> QED
      BY <1>3, <1>u, <2>1, <2>2 DEF Undisturbed
  <1>4. \/ \E w \in Sweeps, u \in Shards : CheckStep(w, u)
        \/ \E w \in Sweeps : \E shard \in todo[w] : BeginCheck(w, shard)
        \/ ServerStep \/ UNCHANGED serverVars
    BY DEF Next, SweepStep, Launch, Cancel, LoopExit, RunReturn, Snapshot, SkipBusy,
           SweepDone, vars
  <1> QED
    BY <1>1, <1>2, <1>3, <1>4, <1>t, StepKinds

\* With the guard on and no standby losing a primary that runs, a shard none of
\* whose nodes has crashed is never failed over: a partition between the proxy
\* and the primary is always vetoed.
THEOREM PartitionIsVetoed == Spec => []PartitionNeverPromotes
  <1>1. Init => GuardInv
    <2> SUFFICES ASSUME Init PROVE GuardOK
      BY EntriesInit DEF GuardInv
    <2> SUFFICES ASSUME NEW s \in Shards PROVE Undisturbed(s)
      BY DEF GuardOK
    <2>1. Members(s) \subseteq Addrs /\ ConfiguredReplicas(s) \subseteq Standbys
      BY StandbysType, ConfigType DEF Members, Standbys
    <2>2. Seed(s).primary.addr = Config[s].primary
      BY DEF Seed, FreshNode
    <2> QED
      BY <2>1, <2>2 DEF Undisturbed, Init, BackendsInit, Idle, PastGuard
  <1>2. GuardInv => PartitionNeverPromotes
    BY DEF GuardInv, GuardOK, Undisturbed, PartitionNeverPromotes
  <1> QED
    BY <1>1, <1>2, GuardStep, PTL DEF Spec
-----------------------------------------------------------------------------
(* What readers of the map see while sweeps do not overlap. *)

\* The steps of a check, by what they do to the map and to the pools.
LEMMA CheckStepKinds ==
    ASSUME OwnInv, NEW w \in Sweeps, NEW s \in Shards, CheckStep(w, s)
    PROVE  LET c == check[w][s]
               d == check'[w][s]
           IN  \/ \E i \in Positions(c.shard) : pingNode(w, s, i)
               \/ WriteBack(w, s)
               \/ Swap(w, s)
               \/ Drain(w, s)
               \/ /\ shardMap' = shardMap
                  /\ c.pc \notin {"ping", "swap", "drain"} /\ d.pc \notin {"ping", "drain"}
                  /\ d.pc \in Decided => c.pc \in Decided /\ d.shard = c.shard
                  /\ d.pc \in Chosen =>
                        \/ c.pc \in Chosen /\ d.cand = c.cand
                        \/ d.cand \in selectPromotionCandidate(d.shard.replicas)
                  /\ \/ pools' = pools
                     \/ /\ c.pc \in {"vote", "pg_promote"}
                        /\ \E j \in Positions(c.shard) :
                              pools' = pools \cup {NodeAt(c.shard, j).addr}
  <1> USE DEF OwnInv, ExclusionInv
  <1> DEFINE c == check[w][s]
             d == check'[w][s]
  <1>c. c \in Checks /\ check \in [Sweeps -> [Shards -> Checks]]
    BY DEF TypeInv, TypeOK
  <1>d. \/ \E i \in Positions(c.shard) : pingNode(w, s, i)
        \/ WriteBack(w, s)
        \/ d.pc \in Decided => c.pc \in Decided /\ d.shard = c.shard
    BY CheckStepDecides
  <1>r. c.pc \in Chosen =>
           c.cand \in Positions(c.shard) /\ NodeAt(c.shard, c.cand).addr = CandAddr(c)
    <2>1. c.pc \in Chosen => c.cand \in 1 .. Len(c.shard.replicas)
      BY DEF TypeInv, CandidateInRange
    <2> QED
      BY <2>1, <1>c DEF Positions, NodeAt, CandAddr, Checks, Shard
  <1>3. CASE Promote(w, s)
    <2>0. shardMap' = shardMap /\ pools' = pools /\ c.pc = "promote"
      BY <1>3 DEF Promote
    <2>1. CASE check' = [check EXCEPT ![w][s].pc = "release"]
      <3>1. d.pc = "release"
        BY <1>c, <2>1 DEF Checks
      <3> QED
        BY <2>0, <3>1 DEF Chosen, Decided
    <2>2. ASSUME NEW cand \in selectPromotionCandidate(shardMap[s].replicas),
                 check' = [check EXCEPT ![w][s] =
                    [pc      |-> IF QuorumGuard THEN "vote" ELSE AfterGuard,
                     shard   |-> shardMap[s],
                     waiting |-> IF QuorumGuard THEN Usable(shardMap[s].replicas) ELSE {},
                     saw     |-> 0, cannot |-> 0, cand |-> cand]]
          PROVE  /\ d.shard = shardMap[s] /\ d.cand = cand
                 /\ d.pc \in {"vote", "pg_promote", "swap"}
      BY <1>c, <2>2 DEF AfterGuard
    <2>3. shardMap[s] = c.shard
      BY <2>0 DEF OwnEntry
    <2> QED
      BY <1>3, <2>0, <2>1, <2>2, <2>3 DEF Promote, Decided
  <1>4. ASSUME NEW i \in 1 .. Len(c.shard.replicas), WitnessVote(w, s, i)
        PROVE  /\ shardMap' = shardMap /\ c.pc = "vote" /\ d.pc = "vote"
               /\ d.shard = c.shard /\ d.cand = c.cand
               /\ \E j \in Positions(c.shard) : pools' = pools \cup {NodeAt(c.shard, j).addr}
    <2>1. /\ shardMap' = shardMap /\ c.pc = "vote" /\ d.pc = "vote"
          /\ d.shard = c.shard /\ d.cand = c.cand
          /\ pools' = pools \cup {c.shard.replicas[i].addr}
      BY <1>4, <1>c DEF WitnessVote, Checks
    <2>2. i \in Positions(c.shard) /\ NodeAt(c.shard, i) = c.shard.replicas[i]
      BY <1>c DEF Positions, NodeAt, Checks, Shard
    <2> QED
      BY <2>1, <2>2
  <1>5. CASE Tally(w, s)
    <2>1. /\ shardMap' = shardMap /\ pools' = pools /\ c.pc = "vote" /\ d.cand = c.cand
          /\ d.shard = c.shard /\ d.pc \in {"pg_promote", "swap", "release"}
      BY <1>5, <1>c DEF Tally, AfterGuard, Checks
    <2> QED
      BY <2>1 DEF Decided, Chosen
  <1>6. CASE PgPromoteSend(w, s) \/ PgPromoteUnsent(w, s)
    <2>1. /\ shardMap' = shardMap /\ c.pc = "pg_promote" /\ d.cand = c.cand
          /\ d.shard = c.shard /\ d.pc \in {"promoting", "swap", "release"}
          /\ pools' = pools \cup {CandAddr(c)}
      BY <1>6, <1>c DEF PgPromoteSend, PgPromoteUnsent, Checks
    <2> QED
      BY <1>r, <2>1 DEF Decided, Chosen
  <1>8. CASE PgPromoteDone(w, s) \/ PgPromoteFailed(w, s)
    <2>1. /\ shardMap' = shardMap /\ pools' = pools /\ c.pc = "promoting" /\ d.cand = c.cand
          /\ d.shard = c.shard /\ d.pc \in {"swap", "release"}
      BY <1>8, <1>c DEF PgPromoteDone, PgPromoteFailed, Checks
    <2> QED
      BY <2>1 DEF Decided, Chosen
  <1>12. CASE release(w, s)
    <2>1. shardMap' = shardMap /\ pools' = pools /\ c.pc = "release" /\ d.pc = "idle"
      BY <1>12, <1>c DEF release, Idle
    <2> QED
      BY <2>1 DEF Decided, Chosen
  <1> QED
    BY <1>3, <1>4, <1>5, <1>6, <1>8, <1>12 DEF CheckStep, Chosen, Decided

\* A failover works on an entry whose primary is marked DOWN, in favour of a
\* replica that is not.
MarkedOK ==
    \A w \in Sweeps, s \in Shards :
        LET c == check[w][s]
        IN  /\ c.pc \in Decided => c.shard.primary.status = "DOWN"
            /\ c.pc \in Chosen => c.cand \in Usable(c.shard.replicas)

MarkedInv == EntriesInv /\ MarkedOK

LEMMA MarkedInit == Init => MarkedInv
  BY EntriesInit DEF MarkedInv, MarkedOK, Init, Idle, Decided, Chosen

LEMMA MarkedStep == MarkedInv /\ [Next]_vars => MarkedInv'
  <1> SUFFICES ASSUME MarkedInv, [Next]_vars PROVE MarkedOK'
    BY EntriesStep DEF MarkedInv
  <1> USE DEF MarkedInv
  <1>t. TypeInv /\ OwnInv
    BY DEF EntriesInv, OwnInv, ExclusionInv
  <1>1. ASSUME NEW w \in Sweeps, NEW s \in Shards, CheckStep(w, s)
        PROVE  MarkedOK'
    <2> DEFINE c == check[w][s]
               d == check'[w][s]
    <2>c. c \in Checks /\ check \in [Sweeps -> [Shards -> Checks]]
      BY <1>t DEF TypeInv, TypeOK
    <2>0. /\ c.pc \in Decided => c.shard.primary.status = "DOWN"
          /\ c.pc \in Chosen => c.cand \in Usable(c.shard.replicas) /\ c.pc \in Decided
      BY DEF MarkedOK, Chosen, Decided
    <2>1. /\ d.pc \in Decided => d.shard.primary.status = "DOWN"
          /\ d.pc \in Chosen => d.cand \in Usable(d.shard.replicas)
      <3>1. ASSUME NEW i \in Positions(c.shard), pingNode(w, s, i) PROVE d.pc = "ping"
        BY <1>t, <3>1, PingKeepsAddrs
      <3>2. CASE WriteBack(w, s)
        BY <2>c, <3>2 DEF WriteBack, Checks, Decided, Chosen
      <3>3. CASE Swap(w, s)
        BY <2>0, <2>c, <3>3 DEF Swap, Checks, Decided, Chosen
      <3>4. CASE Drain(w, s)
        BY <2>c, <3>4 DEF Drain, Checks, Decided, Chosen
      <3>5. CASE /\ d.pc \in Decided => c.pc \in Decided /\ d.shard = c.shard
                 /\ d.pc \in Chosen =>
                        \/ c.pc \in Chosen /\ d.cand = c.cand
                        \/ d.cand \in selectPromotionCandidate(d.shard.replicas)
        <4>1. d.pc \in Chosen => d.pc \in Decided
          BY DEF Chosen, Decided
        <4>2. d.cand \in selectPromotionCandidate(d.shard.replicas) =>
                 d.cand \in Usable(d.shard.replicas)
          BY DEF selectPromotionCandidate
        <4> QED
          BY <2>0, <3>5, <4>1, <4>2
      <3>6. d.pc = "ping" => d.pc \notin Decided /\ d.pc \notin Chosen
        BY DEF Decided, Chosen
      <3> QED
        BY <1>1, <1>t, <3>1, <3>2, <3>3, <3>4, <3>5, <3>6, CheckStepKinds
    <2> QED
      BY <1>1, <1>t, <2>1, CheckFrame DEF MarkedOK
  <1>2. ASSUME NEW w \in Sweeps, NEW shard \in todo[w], BeginCheck(w, shard)
        PROVE  MarkedOK'
    BY <1>2, <1>t, BeginFrame DEF MarkedOK, Decided, Chosen
  <1>3. CASE UNCHANGED check
    BY <1>3 DEF MarkedOK
  <1> QED
    BY <1>1, <1>2, <1>3, <1>t, StepKinds

\* Entry d is entry e after some of its heartbeats; those of the positions
\* "waiting" are outstanding.
Measured(e, d, waiting) ==
    /\ Positions(d) = Positions(e)
    /\ \A j \in Positions(e) : NodeAt(d, j).addr = NodeAt(e, j).addr
    /\ \A j \in Positions(e) \cap waiting : NodeAt(d, j) = NodeAt(e, j)
    /\ \A j \in Positions(e) \ {0} :
          NodeAt(d, j).status # "UP" => NodeAt(d, j).lagMS = NodeAt(e, j).lagMS

\* A heartbeat that leaves a replica marked other than UP failed, and keeps the
\* lag.
LEMMA PingKeepsLag ==
    ASSUME TypeInv, NEW w \in Sweeps, NEW s \in Shards,
           NEW i \in Positions(check[w][s].shard), pingNode(w, s, i), i # 0,
           NodeAt(check'[w][s].shard, i).status # "UP"
    PROVE  NodeAt(check'[w][s].shard, i).lagMS = NodeAt(check[w][s].shard, i).lagMS
  <1> DEFINE c == check[w][s]
             n == NodeAt(c.shard, i)
  <1>1. c \in Checks /\ c.shard \in Shard
    BY DEF TypeInv, TypeOK, Checks
  <1>2. n \in Node /\ n.addr \in Addrs
    BY <1>1, NodeAtType DEF Node
  <1>3. PICK beat \in Heartbeats(n, i # 0) :
           check' = [check EXCEPT
                  ![w][s].shard = WithNodeAt(c.shard, i,
                      [addr |-> n.addr, status |-> statusFor(recordResult(n.addr, beat.ok)),
                       lagMS |-> beat.lagMS]),
                  ![w][s].waiting = @ \ {i}]
    BY DEF pingNode
  <1> DEFINE m  == recordResult(n.addr, beat.ok)
             nn == [addr |-> n.addr, status |-> statusFor(m), lagMS |-> beat.lagMS]
             sh == WithNodeAt(c.shard, i, nn)
  <1>4. nn \in Node
    BY <1>2, HeartbeatType DEF Node, Statuses, statusFor
  <1>5. NodeAt(sh, i) = nn
    BY <1>1, <1>4, WithNodeAtLemma
  <1>6. check'[w][s].shard = sh
    BY <1>1, <1>3 DEF TypeInv, TypeOK, Checks
  <1>7. statusFor(m) # "UP"
    BY <1>5, <1>6
  <1>8. ~beat.ok
    <2>1. statusFor(0) = "UP"
      BY Thresholds DEF statusFor
    <2>2. beat.ok => m = 0
      BY DEF recordResult
    <2> QED
      BY <1>7, <2>1, <2>2
  <1>9. beat.lagMS = n.lagMS
    <2>1. PICK r \in ReplicationLagMS(n.addr) :
             beat = [ok |-> r.ok, lagMS |-> IF r.ok THEN r.lagMS ELSE n.lagMS]
      BY DEF Heartbeats
    <2> QED
      BY <1>8, <2>1
  <1> QED
    BY <1>5, <1>6, <1>9

\* A sweep does not begin before the previous one has ended.
OneSweep == \A v, w \in Sweeps : v = w

\* Without overlap, a snapshot is never stale: an entry still to be checked is
\* the one in the map, and a check measures the entry in the map.
FreshOK ==
    /\ \A w \in Sweeps : \A e \in todo[w] : e = shardMap[e.id] /\ check[w][e.id].pc = "idle"
    /\ \A w \in Sweeps, s \in Shards :
          LET c == check[w][s]
          IN  c.pc = "ping" => Measured(shardMap[s], c.shard, c.waiting)

FreshInv == MarkedInv /\ SweepsInv /\ FreshOK

LEMMA FreshInit == Init => FreshInv
  BY MarkedInit, SweepsInit DEF FreshInv, FreshOK, Init, Idle

LEMMA FreshStep ==
    ASSUME OneSweep
    PROVE  FreshInv /\ [Next]_vars => FreshInv'
  <1> SUFFICES ASSUME FreshInv, [Next]_vars PROVE FreshOK'
    BY MarkedStep, SweepsStep DEF FreshInv
  <1>t. TypeInv /\ OwnInv /\ EntriesInv /\ SweepsOK /\ TypeInv'
    BY NextType DEF FreshInv, MarkedInv, SweepsInv, EntriesInv, OwnInv, ExclusionInv
  <1>o. \A w \in Sweeps : todo[w] \subseteq Shard /\ \A e \in todo[w] : e.id \in Shards
    BY <1>t DEF TypeInv, TypeOK, Shard
  <1>1. ASSUME NEW w \in Sweeps, NEW s \in Shards, CheckStep(w, s)
        PROVE  FreshOK'
    <2> DEFINE c == check[w][s]
               d == check'[w][s]
    <2>1. /\ c.pc # "idle" /\ todo' = todo
          /\ \A t \in Shards : t # s => shardMap'[t] = shardMap[t] /\ check'[w][t] = check[w][t]
      BY <1>1, <1>t, CheckFrame
    <2>2. \A v \in Sweeps : \A e \in todo'[v] :
             e = shardMap'[e.id] /\ check'[v][e.id].pc = "idle"
      <3> SUFFICES ASSUME NEW v \in Sweeps, NEW e \in todo[v]
                   PROVE  e = shardMap'[e.id] /\ check'[v][e.id].pc = "idle"
        BY <2>1
      <3>1. v = w /\ e.id \in Shards
        BY <1>o DEF OneSweep
      <3>2. e = shardMap[e.id] /\ check[w][e.id].pc = "idle"
        BY <3>1 DEF FreshInv, FreshOK
      <3>3. e.id # s
        BY <2>1, <3>2
      <3> QED
        BY <2>1, <3>1, <3>2, <3>3
    <2>3. d.pc = "ping" => Measured(shardMap'[s], d.shard, d.waiting)
      <3> SUFFICES ASSUME d.pc = "ping" PROVE Measured(shardMap'[s], d.shard, d.waiting)
        OBVIOUS
      <3>1. PICK i \in Positions(c.shard) : pingNode(w, s, i)
        BY <1>1, <1>t, CheckStepPhases
      <3>2. shardMap' = shardMap /\ c.pc = "ping" /\ i \in c.waiting
        BY <3>1 DEF pingNode
      <3> DEFINE e == shardMap[s]
      <3>3. Measured(e, c.shard, c.waiting)
        BY <3>2 DEF FreshInv, FreshOK
      <3>4. /\ Positions(d.shard) = Positions(c.shard) /\ d.waiting = c.waiting \ {i}
            /\ \A j \in Positions(c.shard) : NodeAt(d.shard, j).addr = NodeAt(c.shard, j).addr
            /\ \A j \in Positions(c.shard) \ {i} : NodeAt(d.shard, j) = NodeAt(c.shard, j)
        BY <1>t, <3>1, PingKeepsAddrs
      <3>5. i # 0 /\ NodeAt(d.shard, i).status # "UP" =>
               NodeAt(d.shard, i).lagMS = NodeAt(c.shard, i).lagMS
        BY <1>t, <3>1, PingKeepsLag
      <3>6. NodeAt(c.shard, i) = NodeAt(e, i) /\ Positions(c.shard) = Positions(e)
        BY <3>2, <3>3 DEF Measured
      <3> HIDE DEF c, d, e
      <3>7. \A j \in Positions(e) : NodeAt(d.shard, j).addr = NodeAt(e, j).addr
        BY <3>3, <3>4, <3>6 DEF Measured
      <3>8. \A j \in Positions(e) \cap d.waiting : NodeAt(d.shard, j) = NodeAt(e, j)
        BY <3>3, <3>4, <3>6 DEF Measured
      <3>9. \A j \in Positions(e) \ {0} :
               NodeAt(d.shard, j).status # "UP" => NodeAt(d.shard, j).lagMS = NodeAt(e, j).lagMS
        BY <3>3, <3>4, <3>5, <3>6 DEF Measured
      <3>10. Measured(e, d.shard, d.waiting)
        BY <3>4, <3>6, <3>7, <3>8, <3>9 DEF Measured
      <3> QED
        BY <3>2, <3>10 DEF e
    <2>4. ASSUME NEW v \in Sweeps, NEW t \in Shards, check'[v][t].pc = "ping"
          PROVE  Measured(shardMap'[t], check'[v][t].shard, check'[v][t].waiting)
      <3>1. v = w
        BY DEF OneSweep
      <3>2. CASE t = s
        BY <2>3, <2>4, <3>1, <3>2
      <3>3. CASE t # s
        <4>1. check'[v][t] = check[v][t] /\ shardMap'[t] = shardMap[t]
          BY <2>1, <3>1, <3>3
        <4> QED
          BY <2>4, <4>1 DEF FreshInv, FreshOK
      <3> QED
        BY <3>2, <3>3
    <2> QED
      BY <2>2, <2>4 DEF FreshOK
  <1>2. ASSUME NEW w \in Sweeps, NEW shard \in todo[w], BeginCheck(w, shard)
        PROVE  FreshOK'
    <2> DEFINE s == shard.id
               d == check'[w][s]
    <2>1. /\ s \in Shards /\ shardMap' = shardMap
          /\ \A t \in Shards : t # s => check'[w][t] = check[w][t]
          /\ d.pc = "ping" /\ d.shard = shard /\ d.waiting = Positions(shard)
      BY <1>2, <1>t, BeginFrame
    <2>2. todo'[w] = todo[w] \ {shard}
      BY <1>2, <1>t DEF BeginCheck, TypeInv, TypeOK
    <2>3. shard = shardMap[s]
      BY DEF FreshInv, FreshOK
    <2>4. ASSUME NEW v \in Sweeps, NEW e \in todo'[v]
          PROVE  e = shardMap'[e.id] /\ check'[v][e.id].pc = "idle"
      <3>1. v = w
        BY DEF OneSweep
      <3>2. e \in todo[w] /\ e # shard /\ e.id \in Shards
        BY <1>o, <2>2, <3>1
      <3>3. e = shardMap[e.id] /\ check[w][e.id].pc = "idle"
        BY <3>2 DEF FreshInv, FreshOK
      <3>4. e.id # s
        BY <2>3, <3>2, <3>3
      <3> QED
        BY <2>1, <3>1, <3>2, <3>3, <3>4
    <2>5. ASSUME NEW v \in Sweeps, NEW t \in Shards, check'[v][t].pc = "ping"
          PROVE  Measured(shardMap'[t], check'[v][t].shard, check'[v][t].waiting)
      <3>1. v = w
        BY DEF OneSweep
      <3>2. CASE t = s
        BY <2>1, <2>3, <3>1, <3>2 DEF Measured
      <3>3. CASE t # s
        <4>1. check'[v][t] = check[v][t] /\ shardMap'[t] = shardMap[t]
          BY <2>1, <3>1, <3>3
        <4> QED
          BY <2>5, <4>1 DEF FreshInv, FreshOK
      <3> QED
        BY <3>2, <3>3
    <2> QED
      BY <2>4, <2>5 DEF FreshOK
  <1>3. ASSUME NEW w \in Sweeps, Snapshot(w) PROVE FreshOK'
    <2>1. /\ \A s \in Shards : check[w][s].pc = "idle"
          /\ todo'[w] = All(shardMap) /\ UNCHANGED <<shardMap, check>>
      BY <1>3, <1>t DEF Snapshot, SweepsOK, TypeInv, TypeOK
    <2>2. \A s \in Shards : shardMap[s].id = s
      BY <1>t DEF EntriesInv, EntriesOK, EntryOK
    <2>3. \A e \in All(shardMap) : e.id \in Shards /\ e = shardMap[e.id]
      BY <2>2 DEF All
    <2> QED
      BY <2>1, <2>3 DEF OneSweep, FreshInv, FreshOK
  <1>4. CASE UNCHANGED <<shardMap, check>> /\ \A w \in Sweeps : todo'[w] \subseteq todo[w]
    BY <1>4 DEF FreshInv, FreshOK
  <1>5. \/ \E w \in Sweeps, s \in Shards : CheckStep(w, s)
        \/ \E w \in Sweeps : \E shard \in todo[w] : BeginCheck(w, shard)
        \/ \E w \in Sweeps : Snapshot(w)
        \/ UNCHANGED <<shardMap, check>> /\ \A w \in Sweeps : todo'[w] \subseteq todo[w]
    <2>1. ASSUME NEW w \in Sweeps, NEW shard \in todo[w], SkipBusy(w, shard)
          PROVE  UNCHANGED <<shardMap, check>> /\ \A v \in Sweeps : todo'[v] \subseteq todo[v]
      BY <2>1, <1>t DEF SkipBusy, TypeInv, TypeOK
    <2>2. ASSUME NEW w \in Sweeps, Launch(w) \/ SweepDone(w)
          PROVE  UNCHANGED <<shardMap, check, todo>>
      BY <2>2 DEF Launch, SweepDone
    <2>3. CASE Cancel \/ LoopExit \/ RunReturn \/ UNCHANGED checkerVars \/ UNCHANGED vars
      BY <2>3 DEF Cancel, LoopExit, RunReturn, checkerVars, vars
    <2> QED
      BY <2>1, <2>2, <2>3 DEF Next, SweepStep
  <1> QED
    BY <1>1, <1>2, <1>3, <1>4, <1>5

\* What a step may do to the map: nothing, a round of heartbeats on the entry
\* of one shard, or its failover.
LEMMA MapSteps ==
    ASSUME FreshInv, [Next]_vars
    PROVE  \/ shardMap' = shardMap
           \/ \E s \in Shards :
                 /\ \A t \in Shards \ {s} : shardMap'[t] = shardMap[t]
                 /\ \/ Measured(shardMap[s], shardMap'[s], {})
                    \/ /\ shardMap[s].primary.status = "DOWN"
                       /\ \E cand \in Usable(shardMap[s].replicas) :
                             shardMap'[s] = Promoted(shardMap[s], cand)
  <1>t. TypeInv /\ OwnInv /\ MarkedOK
    BY DEF FreshInv, MarkedInv, EntriesInv, OwnInv, ExclusionInv
  <1>1. ASSUME NEW w \in Sweeps, NEW s \in Shards, CheckStep(w, s), shardMap' # shardMap
        PROVE  /\ \A t \in Shards \ {s} : shardMap'[t] = shardMap[t]
               /\ \/ Measured(shardMap[s], shardMap'[s], {})
                  \/ /\ shardMap[s].primary.status = "DOWN"
                     /\ \E cand \in Usable(shardMap[s].replicas) :
                           shardMap'[s] = Promoted(shardMap[s], cand)
    <2> DEFINE c == check[w][s]
    <2>0. \A t \in Shards \ {s} : shardMap'[t] = shardMap[t]
      BY <1>1, <1>t, CheckFrame
    <2>1. CASE WriteBack(w, s)
      <3>1. c.pc = "ping" /\ c.waiting = {} /\ shardMap'[s] = c.shard
        BY <1>t, <2>1 DEF WriteBack, Set, TypeInv, TypeOK
      <3>2. Measured(shardMap[s], c.shard, {})
        BY <3>1 DEF FreshInv, FreshOK
      <3> QED
        BY <2>0, <3>1, <3>2
    <2>2. CASE Swap(w, s)
      <3>1. c.pc = "swap" /\ shardMap'[s] = Promoted(c.shard, c.cand)
        BY <1>t, <2>2 DEF Swap, Set, TypeInv, TypeOK
      <3>2. shardMap[s] = c.shard
        BY <1>t, <3>1 DEF OwnInv, OwnEntry
      <3>3. c.shard.primary.status = "DOWN" /\ c.cand \in Usable(c.shard.replicas)
        BY <1>t, <3>1 DEF MarkedOK, Decided, Chosen
      <3> QED
        BY <2>0, <3>1, <3>2, <3>3
    <2>3. ~ \E i \in Positions(c.shard) : pingNode(w, s, i)
      BY <1>1 DEF pingNode
    <2>4. ~Drain(w, s)
      BY <1>1 DEF Drain
    <2> QED
      BY <1>1, <1>t, <2>1, <2>2, <2>3, <2>4, CheckStepKinds
  <1>2. ASSUME NEW w \in Sweeps, NEW shard \in todo[w], BeginCheck(w, shard)
        PROVE  shardMap' = shardMap
    BY <1>2 DEF BeginCheck
  <1> QED
    BY <1>1, <1>2, <1>t, StepKinds

LEMMA ReplicaPositions ==
    ASSUME NEW e \in Shard, NEW n \in ToSet(e.replicas)
    PROVE  \E j \in Positions(e) \ {0} : NodeAt(e, j) = n
  <1>1. e.replicas \in Seq(Node)
    BY DEF Shard
  <1>2. PICK j \in 1 .. Len(e.replicas) : n = e.replicas[j]
    BY <1>1 DEF ToSet
  <1>3. j \in Positions(e) \ {0} /\ NodeAt(e, j) = n
    BY <1>1, <1>2 DEF Positions, NodeAt
  <1> QED
    BY <1>3

\* A failover keeps the replicas that stay as they are.
LEMMA PromotedReplicas ==
    ASSUME NEW e \in Shard, NEW cand \in 1 .. Len(e.replicas)
    PROVE  /\ ToSet(Promoted(e, cand).replicas) \subseteq ToSet(e.replicas)
           /\ \A k \in 1 .. Len(e.replicas) : k # cand =>
                 e.replicas[k] \in ToSet(Promoted(e, cand).replicas)
  <1> DEFINE q == e.replicas
             r == RemoveAt(q, cand)
  <1>1. q \in Seq(Node) /\ Len(q) \in Nat /\ DOMAIN q = 1 .. Len(q)
    BY DEF Shard
  <1>2. /\ r \in Seq(Node) /\ Len(r) = Len(q) - 1
        /\ \A k \in 1 .. Len(q) - 1 : r[k] = IF k < cand THEN q[k] ELSE q[k + 1]
    BY <1>1, RemoveAtLemma
  <1>3. Promoted(e, cand).replicas = r
    BY DEF Promoted
  <1> HIDE DEF r
  <1>4. DOMAIN r = 1 .. Len(q) - 1
    BY <1>1, <1>2
  <1>5. \A k \in 1 .. Len(q) - 1 : r[k] \in ToSet(q)
    <2> TAKE k \in 1 .. Len(q) - 1
    <2>1. k \in 1 .. Len(q) /\ k + 1 \in 1 .. Len(q)
      BY <1>1
    <2> QED
      BY <1>1, <1>2, <2>1 DEF ToSet
  <1>6. ToSet(r) \subseteq ToSet(q)
    BY <1>4, <1>5 DEF ToSet
  <1>7. ASSUME NEW k \in 1 .. Len(q), k # cand PROVE q[k] \in ToSet(r)
    <2>1. CASE k < cand
      <3>1. k \in 1 .. Len(q) - 1 /\ r[k] = q[k]
        BY <1>1, <1>2, <2>1
      <3> QED
        BY <1>4, <3>1 DEF ToSet
    <2>2. CASE k > cand
      <3>1. k - 1 \in 1 .. Len(q) - 1 /\ r[k - 1] = q[k]
        BY <1>1, <1>2, <2>2
      <3> QED
        BY <1>4, <3>1 DEF ToSet
    <2> QED
      BY <1>1, <1>7, <2>1, <2>2
  <1> QED
    BY <1>3, <1>6, <1>7

LEMMA LagStep ==
    ASSUME FreshInv, FreshInv', [Next]_vars
    PROVE  \A s \in Shards :
              \A n \in ToSet(shardMap'[s].replicas), old \in ToSet(shardMap[s].replicas) :
                  n.addr = old.addr /\ n.status # "UP" => n.lagMS = old.lagMS
  <1> SUFFICES ASSUME NEW s \in Shards, NEW n \in ToSet(shardMap'[s].replicas),
                      NEW old \in ToSet(shardMap[s].replicas),
                      n.addr = old.addr, n.status # "UP"
               PROVE  n.lagMS = old.lagMS
    OBVIOUS
  <1> DEFINE e == shardMap[s]
             f == shardMap'[s]
  <1>1. e \in Shard /\ f \in Shard /\ EntryOK(e, s)
    BY DEF FreshInv, MarkedInv, EntriesInv, EntriesOK, OwnInv, ExclusionInv, TypeInv, TypeOK
  <1>2. PICK j \in Positions(e) \ {0} : NodeAt(e, j) = old
    BY <1>1, ReplicaPositions
  <1> DEFINE Same == \A k, l \in Positions(e) : NodeAt(e, k).addr = NodeAt(e, l).addr => k = l
  <1>3. Same
    BY <1>1 DEF EntryOK
  <1>4. ASSUME n \in ToSet(e.replicas) PROVE n.lagMS = old.lagMS
    <2>1. PICK k \in Positions(e) \ {0} : NodeAt(e, k) = n
      BY <1>1, <1>4, ReplicaPositions
    <2> QED
      BY <1>2, <1>3, <2>1
  <1>5. CASE f = e
    BY <1>4, <1>5
  <1>6. CASE Measured(e, f, {})
    <2>1. PICK k \in Positions(f) \ {0} : NodeAt(f, k) = n
      BY <1>1, ReplicaPositions
    <2>2. k \in Positions(e) \ {0} /\ NodeAt(e, k).addr = n.addr /\ n.lagMS = NodeAt(e, k).lagMS
      BY <1>6, <2>1 DEF Measured
    <2>3. k = j
      BY <1>2, <1>3, <2>2
    <2> QED
      BY <1>2, <2>2, <2>3
  <1>7. ASSUME NEW cand \in Usable(e.replicas), f = Promoted(e, cand) PROVE n.lagMS = old.lagMS
    <2>1. cand \in 1 .. Len(e.replicas)
      BY DEF Usable
    <2>2. n \in ToSet(e.replicas)
      BY <1>1, <1>7, <2>1, PromotedReplicas
    <2> QED
      BY <1>4, <2>2
  <1> QED
    BY <1>5, <1>6, <1>7, MapSteps

\* While sweeps do not overlap, a replica that is not UP keeps its last known
\* lag: no round of heartbeats and no failover, on entries of any size, makes a
\* silent replica look fresher than it was.
THEOREM SilentReplicasKeepTheirLag ==
    ASSUME OneSweep
    PROVE  Spec => SilenceKeepsLag
  <1>1. FreshInv /\ FreshInv' /\ [Next]_vars =>
           [\A s \in Shards :
              \A n \in ToSet(shardMap'[s].replicas), old \in ToSet(shardMap[s].replicas) :
                  n.addr = old.addr /\ n.status # "UP" => n.lagMS = old.lagMS]_vars
    BY LagStep
  <1>2. FreshInv /\ [Next]_vars => FreshInv'
    BY FreshStep
  <1> QED
    BY <1>1, <1>2, FreshInit, PTL DEF Spec, SilenceKeepsLag

-----------------------------------------------------------------------------
(* The refinement of ShardTopology. *)

DownAddrs(e) == {NodeAt(e, i).addr : i \in {j \in Positions(e) : NodeAt(e, j).status = "DOWN"}}

\* What a reader makes of an entry.
View(e) == [primary |-> e.primary.addr, replicas |-> ReplicaAddrs(e), down |-> DownAddrs(e)]

LEMMA ReplicaPositionAddrs ==
    ASSUME NEW e \in Shard
    PROVE  /\ ReplicaAddrs(e) = {NodeAt(e, j).addr : j \in Positions(e) \ {0}}
           /\ MemberAddrs(e) = {NodeAt(e, j).addr : j \in Positions(e)}
           /\ 0 \in Positions(e) /\ NodeAt(e, 0) = e.primary
  <1>1. Len(e.replicas) \in Nat
    BY DEF Shard
  <1>2. /\ 0 \in Positions(e) /\ Positions(e) \ {0} = 1 .. Len(e.replicas)
        /\ NodeAt(e, 0) = e.primary
        /\ \A j \in 1 .. Len(e.replicas) : NodeAt(e, j) = e.replicas[j]
    BY <1>1 DEF Positions, NodeAt
  <1> QED
    BY <1>2 DEF ReplicaAddrs, MemberAddrs

\* A round of heartbeats changes what is believed of the nodes, and only that.
LEMMA MeasuredView ==
    ASSUME NEW e \in Shard, NEW f \in Shard, Measured(e, f, {})
    PROVE  /\ f.primary.addr = e.primary.addr
           /\ ReplicaAddrs(f) = ReplicaAddrs(e)
           /\ DownAddrs(f) \subseteq {e.primary.addr} \cup ReplicaAddrs(e)
  <1>1. Positions(f) = Positions(e) /\ \A j \in Positions(e) : NodeAt(f, j).addr = NodeAt(e, j).addr
    BY DEF Measured
  <1>2. ReplicaAddrs(f) = ReplicaAddrs(e)
    <2>1. /\ ReplicaAddrs(e) = {NodeAt(e, j).addr : j \in Positions(e) \ {0}}
          /\ ReplicaAddrs(f) = {NodeAt(f, j).addr : j \in Positions(f) \ {0}}
      BY ReplicaPositionAddrs
    <2> QED
      BY <1>1, <2>1
  <1>3. f.primary.addr = e.primary.addr
    BY <1>1, ReplicaPositionAddrs
  <1>4. DownAddrs(f) \subseteq MemberAddrs(e)
    BY <1>1, ReplicaPositionAddrs DEF DownAddrs
  <1> QED
    BY <1>2, <1>3, <1>4 DEF MemberAddrs

\* A failover drops the deposed primary, and nothing else, from what is
\* believed DOWN.
LEMMA PromotedView ==
    ASSUME NEW s \in Shards, NEW e \in Shard, EntryOK(e, s),
           e.primary.status = "DOWN", NEW cand \in Usable(e.replicas)
    PROVE  LET r == e.replicas[cand].addr
           IN  /\ e.primary.addr \in DownAddrs(e)
               /\ r \in ReplicaAddrs(e) \ DownAddrs(e)
               /\ View(Promoted(e, cand)) =
                     [primary  |-> r, replicas |-> ReplicaAddrs(e) \ {r},
                      down     |-> DownAddrs(e) \ {e.primary.addr}]
  <1> DEFINE f == Promoted(e, cand)
             r == e.replicas[cand].addr
  <1>1. cand \in 1 .. Len(e.replicas) /\ e.replicas[cand].status # "DOWN"
    BY DEF Usable
  <1>2. cand \in Positions(e) \ {0} /\ NodeAt(e, cand) = e.replicas[cand]
    BY <1>1 DEF Positions, NodeAt, Shard
  <1>3. \A i, j \in Positions(e) : NodeAt(e, i).addr = NodeAt(e, j).addr => i = j
    BY DEF EntryOK
  <1>4. 0 \in Positions(e) /\ NodeAt(e, 0) = e.primary
    BY ReplicaPositionAddrs
  <1>5. e.primary.addr \in DownAddrs(e)
    BY <1>4 DEF DownAddrs
  <1>6. r \in ReplicaAddrs(e)
    BY <1>1 DEF ReplicaAddrs
  <1>7. r \notin DownAddrs(e)
    BY <1>1, <1>2, <1>3 DEF DownAddrs
  <1>8. f.primary.addr = r /\ ReplicaAddrs(f) = ReplicaAddrs(e) \ {r}
    BY <1>1, PromotedOK
  <1>9. f \in Shard /\ f.primary.status = "UP"
    BY <1>1, PromotedType DEF Promoted
  <1>10. f.primary = NodeAt(f, 0)
    BY <1>9, ReplicaPositionAddrs
  <1>a. DownAddrs(f) \subseteq DownAddrs(e) \ {e.primary.addr}
    <2> SUFFICES ASSUME NEW i \in Positions(f), NodeAt(f, i).status = "DOWN"
                 PROVE  NodeAt(f, i).addr \in DownAddrs(e) \ {e.primary.addr}
      BY DEF DownAddrs
    <2>1. i # 0
      BY <1>9, <1>10
    <2>2. NodeAt(f, i) \in ToSet(f.replicas)
      <3>1. i \in 1 .. Len(f.replicas) /\ NodeAt(f, i) = f.replicas[i] /\ f.replicas \in Seq(Node)
        BY <1>9, <2>1 DEF Positions, NodeAt, Shard
      <3> QED
        BY <3>1 DEF ToSet
    <2>3. NodeAt(f, i) \in ToSet(e.replicas)
      BY <1>1, <2>2, PromotedReplicas
    <2>4. PICK j \in Positions(e) \ {0} : NodeAt(e, j) = NodeAt(f, i)
      BY <2>3, ReplicaPositions
    <2>5. NodeAt(e, j).addr \in DownAddrs(e)
      BY <2>4 DEF DownAddrs
    <2>6. NodeAt(e, j).addr # e.primary.addr
      BY <1>3, <1>4, <2>4
    <2> QED
      BY <2>4, <2>5, <2>6
  <1>b. DownAddrs(e) \ {e.primary.addr} \subseteq DownAddrs(f)
    <2> SUFFICES ASSUME NEW k \in Positions(e), NodeAt(e, k).status = "DOWN",
                        NodeAt(e, k).addr # e.primary.addr
                 PROVE  NodeAt(e, k).addr \in DownAddrs(f)
      BY DEF DownAddrs
    <2>1. k # 0 /\ k # cand
      BY <1>1, <1>2, <1>4
    <2>2. k \in 1 .. Len(e.replicas) /\ NodeAt(e, k) = e.replicas[k]
      BY <2>1 DEF Positions, NodeAt, Shard
    <2>3. NodeAt(e, k) \in ToSet(f.replicas)
      BY <1>1, <2>1, <2>2, PromotedReplicas
    <2>4. PICK j \in Positions(f) \ {0} : NodeAt(f, j) = NodeAt(e, k)
      BY <1>9, <2>3, ReplicaPositions
    <2> QED
      BY <2>4 DEF DownAddrs
  <1>c. DownAddrs(f) = DownAddrs(e) \ {e.primary.addr}
    BY <1>a, <1>b
  <1> QED
    BY <1>5, <1>6, <1>7, <1>8, <1>c DEF View

\* To whoever reads the map, the initial states of the checker are those of
\* ShardTopology.
LEMMA TopologyInit == Init => Topology!Init
  <1> SUFFICES ASSUME Init PROVE Topology!Init
    OBVIOUS
  <1>1. ASSUME NEW s \in Shards
        PROVE  View(shardMap[s]) = [primary |-> Config[s].primary,
                                    replicas |-> ConfiguredReplicas(s), down |-> {}]
    <2> DEFINE q == Config[s].replicas
               e == Seed(s)
    <2>1. q \in Seq(Addrs) /\ shardMap[s] = e
      BY ConfigType DEF Init
    <2>2. /\ e.replicas = [i \in 1 .. Len(q) |-> FreshNode(q[i])]
          /\ e.primary = FreshNode(Config[s].primary)
      BY DEF Seed
    <2>3. Len(e.replicas) = Len(q)
      BY <2>1, <2>2
    <2>4. \A i \in Positions(e) : NodeAt(e, i).status = "unset"
      BY <2>1, <2>2, <2>3 DEF Positions, NodeAt, FreshNode
    <2>5. DownAddrs(e) = {}
      BY <2>4 DEF DownAddrs
    <2>6. ReplicaAddrs(e) = ConfiguredReplicas(s)
      BY <2>2, <2>3 DEF ReplicaAddrs, ConfiguredReplicas, FreshNode
    <2>7. e.primary.addr = Config[s].primary
      BY <2>2 DEF FreshNode
    <2> QED
      BY <2>1, <2>5, <2>6, <2>7 DEF View
  <1>2. [s \in Shards |-> View(shardMap[s])] =
           [s \in Shards |-> [primary |-> Config[s].primary,
                              replicas |-> ConfiguredReplicas(s), down |-> {}]]
    BY <1>1
  <1> QED
    BY <1>2 DEF Topology!Init, View, DownAddrs

\* Every step is a step of ShardTopology, or none.
LEMMA TopologyStep ==
    ASSUME FreshInv, FreshInv', [Next]_vars
    PROVE  [Topology!Next]_[s \in Shards |-> View(shardMap[s])]
  <1> DEFINE tb == [s \in Shards |-> View(shardMap[s])]
  <1>1. /\ \A s \in Shards : shardMap[s] \in Shard /\ EntryOK(shardMap[s], s)
        /\ \A s \in Shards : shardMap'[s] \in Shard
    BY DEF FreshInv, MarkedInv, EntriesInv, EntriesOK, OwnInv, ExclusionInv, TypeInv, TypeOK
  <1>2. CASE shardMap' = shardMap
    BY <1>2
  <1>3. ASSUME NEW s \in Shards, \A t \in Shards \ {s} : shardMap'[t] = shardMap[t],
               Measured(shardMap[s], shardMap'[s], {})
        PROVE  Topology!Next
    <2> DEFINE e == shardMap[s]
               f == shardMap'[s]
               down == DownAddrs(f)
    <2>1. /\ f.primary.addr = e.primary.addr /\ ReplicaAddrs(f) = ReplicaAddrs(e)
          /\ down \in SUBSET ({e.primary.addr} \cup ReplicaAddrs(e))
      BY <1>1, <1>3, MeasuredView
    <2>2. View(f) = [View(e) EXCEPT !.down = down]
      BY <2>1 DEF View
    <2>3. tb' = [tb EXCEPT ![s].down = down]
      BY <1>3, <2>2
    <2>5. tb[s].primary = e.primary.addr /\ tb[s].replicas = ReplicaAddrs(e)
      BY DEF View
    <2>6. PICK d \in SUBSET ({tb[s].primary} \cup tb[s].replicas) : d = down
      BY <2>1, <2>5
    <2>7. Topology!Observe(s, d)
      BY <2>3, <2>6 DEF Topology!Observe, View, DownAddrs
    <2> QED
      BY <2>7, Zenon DEF Topology!Next, View, DownAddrs
  <1>4. ASSUME NEW s \in Shards, \A t \in Shards \ {s} : shardMap'[t] = shardMap[t],
               shardMap[s].primary.status = "DOWN",
               NEW cand \in Usable(shardMap[s].replicas),
               shardMap'[s] = Promoted(shardMap[s], cand)
        PROVE  Topology!Next
    <2> DEFINE e == shardMap[s]
               r == e.replicas[cand].addr
    <2>1. /\ e.primary.addr \in DownAddrs(e) /\ r \in ReplicaAddrs(e) \ DownAddrs(e)
          /\ View(shardMap'[s]) = [primary  |-> r, replicas |-> ReplicaAddrs(e) \ {r},
                                   down     |-> DownAddrs(e) \ {e.primary.addr}]
      BY <1>1, <1>4, PromotedView
    <2>2. tb[s] = [primary |-> e.primary.addr, replicas |-> ReplicaAddrs(e), down |-> DownAddrs(e)]
      BY DEF View
    <2>3. /\ tb[s].primary \in tb[s].down /\ r \in tb[s].replicas \ tb[s].down
          /\ tb' = [tb EXCEPT ![s] = [primary  |-> r, replicas |-> tb[s].replicas \ {r},
                                      down |-> tb[s].down \ {tb[s].primary}]]
      <3>1. tb' = [tb EXCEPT ![s] = View(shardMap'[s])]
        BY <1>4
      <3>2. View(shardMap'[s]) = [primary  |-> r, replicas |-> tb[s].replicas \ {r},
                                  down |-> tb[s].down \ {tb[s].primary}]
        <4>1. /\ tb[s].primary = e.primary.addr /\ tb[s].replicas = ReplicaAddrs(e)
              /\ tb[s].down = DownAddrs(e)
          BY <2>2
        <4> HIDE DEF tb, e, r
        <4> QED
          BY <2>1, <4>1, Zenon
      <3>3. tb[s].primary \in tb[s].down /\ r \in tb[s].replicas \ tb[s].down
        BY <2>1, <2>2
      <3> HIDE DEF tb
      <3> QED
        BY <3>1, <3>2, <3>3
    <2>4. PICK n \in tb[s].replicas : n = r
      BY <2>3
    <2>5. Topology!Failover(s, n)
      BY <2>3, <2>4 DEF Topology!Failover, View, DownAddrs
    <2> QED
      BY <2>5, Zenon DEF Topology!Next, View, DownAddrs
  <1> QED
    BY <1>2, <1>3, <1>4, MapSteps

\* While sweeps do not overlap, the checker with all its goroutines, witnesses
\* and promotions is, to whoever reads the shard map, one atomic topology: a
\* round of heartbeats never changes a shard's membership, and a failover
\* deposes a primary that is marked DOWN in favour of one of its replicas that
\* is not.  This is for any number of shards and replicas.
THEOREM CheckerImplementsTopology ==
    ASSUME OneSweep
    PROVE  Spec => ImplementsTopology
  <1>1. FreshInv /\ FreshInv' /\ [Next]_vars =>
           [Topology!Next]_[s \in Shards |-> View(shardMap[s])]
    BY TopologyStep
  <1>2. FreshInv /\ [Next]_vars => FreshInv'
    BY FreshStep
  <1> QED
    BY <1>1, <1>2, FreshInit, TopologyInit, PTL
       DEF Spec, ImplementsTopology, Topology!Spec, View, DownAddrs

\* While sweeps do not overlap, a failover is final: the node that takes over
\* is a replica of the entry it replaces.  With overlap it is not, as the run
\* hc_stale_snapshot shows, so this hypothesis is what the code relies on.
THEOREM FailoverIsFinal ==
    ASSUME OneSweep
    PROVE  Spec => FailoverIsNotUndone
  <1>1. ASSUME FreshInv, FreshInv', [Next]_vars, NEW s \in Shards,
               shardMap'[s].primary.addr # shardMap[s].primary.addr
        PROVE  shardMap'[s].primary.addr \in ReplicaAddrs(shardMap[s])
    <2> DEFINE e == shardMap[s]
               f == shardMap'[s]
    <2>1. e \in Shard /\ f \in Shard /\ EntryOK(e, s)
      BY <1>1 DEF FreshInv, MarkedInv, EntriesInv, EntriesOK, OwnInv, ExclusionInv, TypeInv, TypeOK
    <2>2. ~Measured(e, f, {})
      BY <1>1, <2>1, MeasuredView
    <2>3. PICK cand \in Usable(e.replicas) : f = Promoted(e, cand)
      BY <1>1, <2>2, MapSteps
    <2>4. cand \in 1 .. Len(e.replicas)
      BY DEF Usable
    <2> QED
      BY <2>1, <2>3, <2>4, PromotedOK DEF ReplicaAddrs
  <1>2. FreshInv /\ FreshInv' /\ [Next]_vars =>
           [\A s \in Shards : shardMap'[s].primary.addr # shardMap[s].primary.addr =>
               shardMap'[s].primary.addr \in ReplicaAddrs(shardMap[s])]_vars
    BY <1>1
  <1>3. FreshInv /\ [Next]_vars => FreshInv'
    BY FreshStep
  <1> QED
    BY <1>2, <1>3, FreshInit, PTL DEF Spec, FailoverIsNotUndone

-----------------------------------------------------------------------------
(* The pools of the checker. *)

PoolsInv == FreshInv /\ PoolsFollowMap

\* What a step of a check may add to the pools, and what it may take from the
\* membership of its shard.
LEMMA CheckStepPools ==
    ASSUME FreshInv, FreshInv', NEW w \in Sweeps, NEW s \in Shards, CheckStep(w, s)
    PROVE  LET c == check[w][s]
               d == check'[w][s]
           IN  \/ /\ MemberAddrs(shardMap'[s]) = MemberAddrs(shardMap[s]) /\ c.pc # "drain"
                  /\ \E a \in MemberAddrs(shardMap[s]) : pools' \subseteq pools \cup {a}
               \/ /\ pools' = pools /\ c.pc = "swap" /\ d.pc = "drain"
                  /\ MemberAddrs(shardMap[s]) \ MemberAddrs(shardMap'[s])
                        \subseteq {d.shard.primary.addr}
               \/ /\ c.pc = "drain" /\ pools' = pools \ {c.shard.primary.addr}
                  /\ MemberAddrs(shardMap'[s]) = MemberAddrs(shardMap[s])
  <1> DEFINE c == check[w][s]
             d == check'[w][s]
             e == shardMap[s]
             f == shardMap'[s]
  <1>t. /\ TypeInv /\ OwnInv /\ OwnEntry /\ MarkedOK /\ EntryOK(e, s)
        /\ c \in Checks /\ c.shard \in Shard /\ e \in Shard /\ f \in Shard
        /\ check \in [Sweeps -> [Shards -> Checks]]
    BY DEF FreshInv, MarkedInv, EntriesInv, EntriesOK, OwnInv, ExclusionInv, TypeInv, TypeOK, Checks
  <1>m. /\ \A j \in Positions(e) : NodeAt(e, j).addr \in MemberAddrs(e)
        /\ e.primary.addr \in MemberAddrs(e)
    BY <1>t, ReplicaPositionAddrs
  <1>1. ASSUME NEW i \in Positions(c.shard), pingNode(w, s, i)
        PROVE  /\ f = e /\ c.pc = "ping"
               /\ \E a \in MemberAddrs(e) : pools' \subseteq pools \cup {a}
    <2>1. f = e /\ c.pc = "ping" /\ pools' = pools \cup {NodeAt(c.shard, i).addr}
      BY <1>1 DEF pingNode
    <2>2. Measured(e, c.shard, c.waiting)
      BY <2>1 DEF FreshInv, FreshOK
    <2>3. NodeAt(c.shard, i).addr \in MemberAddrs(e)
      BY <1>m, <2>2 DEF Measured
    <2> QED
      BY <2>1, <2>3
  <1>2. CASE WriteBack(w, s)
    <2>1. c.pc = "ping" /\ c.waiting = {} /\ f = c.shard /\ pools' = pools
      BY <1>2, <1>t DEF WriteBack, Set, TypeInv, TypeOK
    <2>2. Measured(e, f, {})
      BY <2>1 DEF FreshInv, FreshOK
    <2>3. f.primary.addr = e.primary.addr /\ ReplicaAddrs(f) = ReplicaAddrs(e)
      BY <1>t, <2>2, MeasuredView
    <2>4. MemberAddrs(f) = MemberAddrs(e)
      BY <2>3 DEF MemberAddrs
    <2> QED
      BY <1>m, <2>1, <2>4
  <1>3. CASE Swap(w, s)
    <2>1. /\ c.pc = "swap" /\ d.pc = "drain" /\ d.shard = c.shard /\ pools' = pools
          /\ f = Promoted(c.shard, c.cand)
      BY <1>3, <1>t DEF Swap, Set, TypeInv, TypeOK, Checks
    <2>2. e = c.shard
      BY <1>t, <2>1 DEF OwnEntry
    <2>3. c.cand \in 1 .. Len(e.replicas)
      BY <1>t, <2>1, <2>2 DEF TypeInv, CandidateInRange, Chosen
    <2>4. f.primary.addr = e.replicas[c.cand].addr /\ ReplicaAddrs(f) = ReplicaAddrs(e) \ {e.replicas[c.cand].addr}
      BY <1>t, <2>1, <2>2, <2>3, PromotedOK
    <2>5. MemberAddrs(e) \ MemberAddrs(f) \subseteq {e.primary.addr}
      BY <2>4 DEF MemberAddrs
    <2> QED
      BY <2>1, <2>2, <2>5
  <1>4. CASE Drain(w, s)
    BY <1>4 DEF Drain
  <1>5. ASSUME shardMap' = shardMap, c.pc \notin {"ping", "swap", "drain"},
               \/ pools' = pools
               \/ /\ c.pc \in {"vote", "pg_promote"}
                  /\ \E j \in Positions(c.shard) : pools' = pools \cup {NodeAt(c.shard, j).addr}
        PROVE  c.pc # "drain" /\ \E a \in MemberAddrs(e) : pools' \subseteq pools \cup {a}
    <2>1. c.pc \in {"vote", "pg_promote"} => e = c.shard
      BY <1>t DEF OwnEntry
    <2> QED
      BY <1>5, <1>m, <2>1
  <1> QED
    BY <1>1, <1>2, <1>3, <1>4, <1>5, <1>t, CheckStepKinds

LEMMA PoolsStep ==
    ASSUME OneSweep
    PROVE  PoolsInv /\ [Next]_vars => PoolsInv'
  <1> SUFFICES ASSUME PoolsInv, [Next]_vars, FreshInv' PROVE PoolsFollowMap'
    BY FreshStep DEF PoolsInv
  <1>t. FreshInv /\ PoolsFollowMap /\ TypeInv
    BY DEF PoolsInv, FreshInv, SweepsInv, ExclusionInv
  <1>1. ASSUME NEW w \in Sweeps, NEW s \in Shards, CheckStep(w, s)
        PROVE  PoolsFollowMap'
    <2> SUFFICES ASSUME NEW t \in Shards, NEW a \in pools', a \in Members(t),
                        a \notin MemberAddrs(shardMap'[t])
                 PROVE  /\ check'[w][t].pc = "drain"
                        /\ check'[w][t].shard.primary.addr = a
      BY DEF PoolsFollowMap
    <2> DEFINE c == check[w][s]
               d == check'[w][s]
    <2>p. /\ a \in pools =>
             \/ a \in MemberAddrs(shardMap[t])
             \/ check[w][t].pc = "drain" /\ check[w][t].shard.primary.addr = a
      BY <1>t DEF PoolsFollowMap, OneSweep
    <2>m. MemberAddrs(shardMap[s]) \subseteq Members(s)
      <3>1. shardMap[s] \in Shard /\ EntryOK(shardMap[s], s)
        BY <1>t DEF FreshInv, MarkedInv, EntriesInv, EntriesOK, OwnInv, ExclusionInv, TypeInv, TypeOK
      <3> QED
        BY <3>1, ReplicaPositionAddrs DEF EntryOK
    <2>k. \/ /\ MemberAddrs(shardMap'[s]) = MemberAddrs(shardMap[s]) /\ c.pc # "drain"
             /\ \E b \in MemberAddrs(shardMap[s]) : pools' \subseteq pools \cup {b}
          \/ /\ pools' = pools /\ c.pc = "swap" /\ d.pc = "drain"
             /\ MemberAddrs(shardMap[s]) \ MemberAddrs(shardMap'[s]) \subseteq {d.shard.primary.addr}
          \/ /\ c.pc = "drain" /\ pools' = pools \ {c.shard.primary.addr}
             /\ MemberAddrs(shardMap'[s]) = MemberAddrs(shardMap[s])
      BY <1>1, <1>t, CheckStepPools
    <2>1. CASE t = s
      BY <2>1, <2>p, <2>k
    <2>2. CASE t # s
      <3>1. check'[w][t] = check[w][t] /\ shardMap'[t] = shardMap[t]
        BY <1>1, <1>t, <2>2, CheckFrame
      <3>2. Members(t) \cap Members(s) = {}
        BY <2>2, DistinctMembers
      <3>3. a \in pools
        BY <2>k, <2>m, <3>2
      <3> QED
        BY <2>p, <3>1, <3>3
    <2> QED
      BY <2>1, <2>2
  <1>2. ASSUME NEW w \in Sweeps, NEW shard \in todo[w], BeginCheck(w, shard)
        PROVE  PoolsFollowMap'
    <2>1. /\ shardMap' = shardMap /\ pools' = pools /\ shard.id \in Shards
          /\ \A t \in Shards : t # shard.id => check'[w][t] = check[w][t]
      BY <1>2, <1>t, BeginFrame
    <2>2. check[w][shard.id].pc = "idle"
      BY <1>t DEF FreshInv, FreshOK
    <2>3. \A v \in Sweeps, t \in Shards : check[v][t].pc = "drain" => check'[v][t] = check[v][t]
      BY <2>1, <2>2 DEF OneSweep
    <2> QED
      BY <1>t, <2>1, <2>3 DEF PoolsFollowMap
  <1>3. CASE UNCHANGED <<shardMap, check, pools>>
    BY <1>t, <1>3 DEF PoolsFollowMap
  <1> QED
    BY <1>1, <1>2, <1>3, <1>t, StepKinds

\* While sweeps do not overlap, the checker keeps no pool of a node that has
\* left the map, once the failover that removed it has drained it: heartbeats,
\* votes and promotions only ever open pools of members of the entry in the map.
THEOREM PoolsDoFollowTheMap ==
    ASSUME OneSweep
    PROVE  Spec => []PoolsFollowMap
  <1>1. Init => PoolsInv
    BY FreshInit DEF PoolsInv, PoolsFollowMap, Init
  <1>2. PoolsInv /\ [Next]_vars => PoolsInv'
    BY PoolsStep
  <1>3. PoolsInv => PoolsFollowMap
    BY DEF PoolsInv
  <1> QED
    BY <1>1, <1>2, <1>3, PTL DEF Spec
=============================================================================
