------------------------ MODULE HealthCheckerProofs ------------------------
(***************************************************************************)
(* Proofs about HealthChecker, for every configuration, every number of    *)
(* overlapping sweeps and every choice of faults.                          *)
(***************************************************************************)
EXTENDS HealthChecker, ListFacts

-----------------------------------------------------------------------------
(* The operators of ShardMap and Failover.                                 *)

\* Every position of an entry holds a node.
LEMMA NodeAtType ==
    ASSUME NEW shard \in Shard, NEW i \in Positions(shard)
    PROVE  NodeAt(shard, i) \in Node
  BY DEF Shard, Positions, NodeAt

\* Replacing one node of an entry gives an entry of the same shape, in which
\* only that position has changed (pingNode's replacement node).
LEMMA WithNodeAtLemma ==
    ASSUME NEW shard \in Shard, NEW i \in Positions(shard), NEW n \in Node
    PROVE  /\ WithNodeAt(shard, i, n) \in Shard
           /\ WithNodeAt(shard, i, n).id = shard.id
           /\ Len(WithNodeAt(shard, i, n).replicas) = Len(shard.replicas)
           /\ Positions(WithNodeAt(shard, i, n)) = Positions(shard)
           /\ \A j \in Positions(shard) :
                 NodeAt(WithNodeAt(shard, i, n), j) =
                     IF j = i THEN n ELSE NodeAt(shard, j)
  <1>1. CASE i = 0
    BY <1>1 DEF Shard, Positions, NodeAt, WithNodeAt
  <1>2. CASE i # 0
    <2>1. i \in 1 .. Len(shard.replicas) /\ shard.replicas \in Seq(Node)
      BY <1>2 DEF Shard, Positions
    <2>2. [shard.replicas EXCEPT ![i] = n] \in Seq(Node)
      BY <2>1, ExceptSeq
    <2>3. Len([shard.replicas EXCEPT ![i] = n]) = Len(shard.replicas)
      BY <2>1, ExceptSeq
    <2>4. \A j \in 1 .. Len(shard.replicas) :
             [shard.replicas EXCEPT ![i] = n][j] = IF j = i THEN n ELSE shard.replicas[j]
      BY <2>1, ExceptSeq
    <2> QED
      BY <1>2, <2>1, <2>2, <2>3, <2>4 DEF Shard, Positions, NodeAt, WithNodeAt
  <1> QED
    BY <1>1, <1>2

\* A candidate is a usable position of the list.
LEMMA CandidateLemma ==
    ASSUME NEW q, NEW i \in selectPromotionCandidate(q)
    PROVE  i \in 1 .. Len(q) /\ q[i].status # "DOWN"
  BY DEF selectPromotionCandidate, Usable

\* The entry that Promote installs is an entry of the same shard.
LEMMA PromotedType ==
    ASSUME NEW shard \in Shard, NEW cand \in 1 .. Len(shard.replicas)
    PROVE  Promoted(shard, cand) \in Shard /\ Promoted(shard, cand).id = shard.id
  <1>1. shard.replicas \in Seq(Node)
    BY DEF Shard
  <1>2. RemoveAt(shard.replicas, cand) \in Seq(Node)
    BY <1>1, RemoveAtLemma
  <1>3. shard.replicas[cand] \in Node
    BY <1>1, ElementOfSeq
  <1> QED
    BY <1>2, <1>3 DEF Promoted, Shard, Node, Statuses

-----------------------------------------------------------------------------
(* Type correctness. *)

\* Where a check has chosen a candidate.
Chosen == {"vote", "pg_promote", "promoting", "swap", "drain"}

\* The candidate of a promotion is a replica of the entry it works on.
CandidateInRange ==
    \A w \in Sweeps, s \in Shards : check[w][s].pc \in Chosen =>
        check[w][s].cand \in 1 .. Len(check[w][s].shard.replicas)

TypeInv == TypeOK /\ CandidateInRange

LEMMA SeedType ==
    ASSUME NEW s \in Shards
    PROVE  Seed(s) \in Shard /\ Idle(s) \in Checks
  <1>1. Config[s].primary \in Addrs /\ Config[s].replicas \in Seq(Addrs)
    BY ConfigType
  <1>2. \A i \in 1 .. Len(Config[s].replicas) : FreshNode(Config[s].replicas[i]) \in Node
    BY <1>1 DEF FreshNode, Node, Statuses
  <1>3. [i \in 1 .. Len(Config[s].replicas) |-> FreshNode(Config[s].replicas[i])] \in Seq(Node)
    BY <1>1, <1>2
  <1>4. FreshNode(Config[s].primary) \in Node
    BY <1>1 DEF FreshNode, Node, Statuses
  <1>5. Seed(s) \in Shard
    BY <1>3, <1>4 DEF Seed, Shard
  <1> QED
    BY <1>5 DEF Idle, Checks, PCs

LEMMA StandbysType == Standbys \subseteq Addrs
  <1> SUFFICES ASSUME NEW s \in Shards, NEW i \in 1 .. Len(Config[s].replicas)
               PROVE  Config[s].replicas[i] \in Addrs
    BY DEF Standbys, ConfiguredReplicas
  <1>1. Config[s].replicas \in Seq(Addrs)
    BY ConfigType
  <1> QED
    BY <1>1

LEMMA InitTypeInv == Init => TypeInv
  <1> SUFFICES ASSUME Init PROVE TypeInv
    OBVIOUS
  <1>1. BackendsTypeOK
    BY StandbysType DEF Init, BackendsInit, BackendsTypeOK
  <1>2. shardMap \in [Shards -> Shard]
    BY SeedType DEF Init
  <1>3. check \in [Sweeps -> [Shards -> Checks]]
    BY SeedType DEF Init
  <1>4. misses \in [Addrs -> 0 .. MissCap]
    BY Thresholds DEF Init
  <1>5. CandidateInRange
    BY DEF Init, CandidateInRange, Idle, Chosen
  <1> QED
    BY <1>1, <1>2, <1>3, <1>4, <1>5 DEF TypeInv, TypeOK, Init

\* What a heartbeat reports about the lag is a number.
LEMMA HeartbeatType ==
    ASSUME NEW n \in Node, NEW isReplica \in BOOLEAN, NEW beat \in Heartbeats(n, isReplica)
    PROVE  beat.lagMS \in Nat
  <1>1. n.lagMS \in Nat
    BY DEF Node
  <1>2. CASE isReplica
    <2>1. PICK r \in ReplicationLagMS(n.addr) :
             beat = [ok |-> r.ok, lagMS |-> IF r.ok THEN r.lagMS ELSE n.lagMS]
      BY <1>2 DEF Heartbeats
    <2>2. r.lagMS \in LagValues \cup {0}
      BY DEF ReplicationLagMS
    <2>3. r.lagMS \in Nat
      <3>1. LagValues \cup {0} \subseteq Nat
        BY FaultsType
      <3> QED
        BY <2>2, <3>1, Zenon
    <2> QED
      BY <1>1, <2>1, <2>3
  <1>3. CASE ~isReplica
    BY <1>1, <1>3 DEF Heartbeats
  <1> QED
    BY <1>2, <1>3

\* A step that only moves the program counter of a check, not to a place where
\* a candidate is needed that was not needed before.
LEMMA PcStepType ==
    ASSUME TypeInv, NEW w \in Sweeps, NEW s \in Shards, NEW p \in PCs,
           check' = [check EXCEPT ![w][s].pc = p],
           p \in Chosen => check[w][s].pc \in Chosen
    PROVE  /\ check' \in [Sweeps -> [Shards -> Checks]]
           /\ CandidateInRange'
  <1> USE DEF TypeInv, TypeOK
  <1>1. check[w][s] \in Checks
    OBVIOUS
  <1>2. check' \in [Sweeps -> [Shards -> Checks]]
    BY <1>1 DEF Checks
  <1> QED
    BY <1>1, <1>2 DEF CandidateInRange, Checks

\* A step that replaces the local state of one check.
LEMMA CheckStepReplaces ==
    ASSUME TypeInv, NEW w \in Sweeps, NEW s \in Shards, NEW r \in Checks,
           check' = [check EXCEPT ![w][s] = r],
           r.pc \in Chosen => r.cand \in 1 .. Len(r.shard.replicas)
    PROVE  /\ check' \in [Sweeps -> [Shards -> Checks]]
           /\ CandidateInRange'
  BY DEF TypeInv, TypeOK, CandidateInRange

\* Every step of a check keeps the state well typed.
LEMMA CheckStepType ==
    ASSUME TypeInv, NEW w \in Sweeps, NEW s \in Shards, CheckStep(w, s)
    PROVE  TypeInv'
  <1> DEFINE c == check[w][s]
  <1> USE DEF TypeInv, TypeOK, BackendsTypeOK
  <1>c. /\ c \in Checks /\ c.shard \in Shard /\ shardMap[s] \in Shard
        /\ c.pc \in Chosen => c.cand \in 1 .. Len(c.shard.replicas)
    BY DEF Checks, CandidateInRange
  <1>a. c.shard.primary.addr \in Addrs
    BY <1>c DEF Shard, Node
  <1>b. \A i \in 1 .. Len(c.shard.replicas) : c.shard.replicas[i].addr \in Addrs
    <2>1. c.shard.replicas \in Seq(Node)
      BY <1>c DEF Shard
    <2>2. \A i \in 1 .. Len(c.shard.replicas) : c.shard.replicas[i] \in Node
      BY <2>1, ElementOfSeq
    <2> QED
      BY <2>2 DEF Node
  <1>1. ASSUME NEW i \in Positions(c.shard), pingNode(w, s, i)
        PROVE  TypeInv'
    <2> DEFINE n == NodeAt(c.shard, i)
    <2>1. n \in Node /\ n.addr \in Addrs
      BY <1>c, NodeAtType DEF Node
    <2>2. PICK beat \in Heartbeats(n, i # 0) :
             /\ misses' = [misses EXCEPT ![n.addr] = recordResult(n.addr, beat.ok)]
             /\ check' = [check EXCEPT
                    ![w][s].shard = WithNodeAt(c.shard, i,
                        [addr |-> n.addr, status |-> statusFor(recordResult(n.addr, beat.ok)),
                         lagMS |-> beat.lagMS]),
                    ![w][s].waiting = @ \ {i}]
      BY <1>1 DEF pingNode
    <2>3. beat.lagMS \in Nat
      BY <2>1, HeartbeatType
    <2> DEFINE m  == recordResult(n.addr, beat.ok)
               nn == [addr |-> n.addr, status |-> statusFor(m), lagMS |-> beat.lagMS]
               sh == WithNodeAt(c.shard, i, nn)
               r  == [c EXCEPT !.shard = sh, !.waiting = @ \ {i}]
    <2>4. m \in 0 .. MissCap
      BY <2>1, Thresholds DEF recordResult
    <2>5. nn \in Node
      BY <2>1, <2>3 DEF Node, Statuses, statusFor
    <2>6. sh \in Shard
      BY <1>c, <2>5, WithNodeAtLemma
    <2>7. check' = [check EXCEPT ![w][s] = r]
      BY <1>c, <2>2 DEF Checks
    <2>8. /\ c.pc = "ping"
          /\ pools' = pools \cup {n.addr}
          /\ UNCHANGED <<shardMap, busy, loop, sweep, todo, serverVars, ctxDone>>
      BY <1>1 DEF pingNode
    <2>9. r \in Checks /\ r.pc = "ping"
      <3> HIDE DEF sh
      <3> QED BY <1>c, <2>6, <2>8 DEF Checks
    <2>10. misses' \in [Addrs -> 0 .. MissCap]
      <3> HIDE DEF m, n
      <3> QED BY <2>1, <2>2, <2>4 DEF m
    <2> HIDE DEF r, n
    <2>11. check' \in [Sweeps -> [Shards -> Checks]] /\ CandidateInRange'
      BY <2>7, <2>9, CheckStepReplaces DEF Chosen
    <2> QED
      BY <2>1, <2>8, <2>10, <2>11 DEF serverVars
  <1>2. CASE WriteBack(w, s)
    <2>1. check' \in [Sweeps -> [Shards -> Checks]] /\ CandidateInRange'
      BY <1>2, PcStepType DEF WriteBack, PCs, Chosen
    <2> QED
      BY <1>2, <1>c, <2>1 DEF WriteBack, Set, serverVars
  <1>3. CASE Promote(w, s)
    <2> DEFINE shard == shardMap[s]
    <2>1. CASE check' = [check EXCEPT ![w][s].pc = "release"]
      <3>1. check' \in [Sweeps -> [Shards -> Checks]] /\ CandidateInRange'
        BY <2>1, PcStepType DEF PCs, Chosen
      <3> QED
        BY <1>3, <3>1 DEF Promote, serverVars
    <2>2. ASSUME NEW cand \in selectPromotionCandidate(shard.replicas),
                 check' = [check EXCEPT ![w][s] =
                    [pc      |-> IF QuorumGuard THEN "vote" ELSE AfterGuard,
                     shard   |-> shard,
                     waiting |-> IF QuorumGuard THEN Usable(shard.replicas) ELSE {},
                     saw     |-> 0, cannot |-> 0, cand |-> cand]]
          PROVE  TypeInv'
      <3>1. cand \in 1 .. Len(shard.replicas)
        BY CandidateLemma
      <3>2. cand \in Nat /\ Usable(shard.replicas) \subseteq Nat
        BY <3>1 DEF Usable
      <3> DEFINE r == [pc      |-> IF QuorumGuard THEN "vote" ELSE AfterGuard,
                       shard   |-> shard,
                       waiting |-> IF QuorumGuard THEN Usable(shard.replicas) ELSE {},
                       saw     |-> 0, cannot |-> 0, cand |-> cand]
      <3>3. r \in Checks /\ r.cand \in 1 .. Len(r.shard.replicas)
        BY <1>c, <3>1, <3>2 DEF Checks, PCs, AfterGuard
      <3>4. check' = [check EXCEPT ![w][s] = r]
        BY <2>2
      <3> HIDE DEF r
      <3>5. check' \in [Sweeps -> [Shards -> Checks]] /\ CandidateInRange'
        BY <3>3, <3>4, CheckStepReplaces
      <3> QED
        BY <1>3, <3>5 DEF Promote, serverVars
    <2> QED
      BY <1>3, <2>1, <2>2 DEF Promote
  <1>4. ASSUME NEW i \in 1 .. Len(c.shard.replicas), WitnessVote(w, s, i)
        PROVE  TypeInv'
    <2> DEFINE a == c.shard.replicas[i].addr
    <2>1. c.pc = "vote" /\ i \in c.waiting
      BY <1>4 DEF WitnessVote
    <2>2. PICK v \in WalReceiverStreaming(a) :
              check' = [check EXCEPT
                  ![w][s].waiting = @ \ {i},
                  ![w][s].saw     = IF v.ok /\ v.streaming THEN @ + 1 ELSE @,
                  ![w][s].cannot  = IF v.ok /\ ~v.streaming THEN @ + 1 ELSE @]
      BY <1>4 DEF WitnessVote
    <2> DEFINE r == [c EXCEPT
                  !.waiting = @ \ {i},
                  !.saw     = IF v.ok /\ v.streaming THEN @ + 1 ELSE @,
                  !.cannot  = IF v.ok /\ ~v.streaming THEN @ + 1 ELSE @]
    <2>3. check' = [check EXCEPT ![w][s] = r]
      BY <1>c, <2>2 DEF Checks
    <2>3a. /\ c.saw \in Nat /\ c.saw + 1 \in Nat
           /\ c.cannot \in Nat /\ c.cannot + 1 \in Nat
           /\ c.waiting \ {i} \in SUBSET Nat
      BY <1>c DEF Checks
    <2>4. r \in Checks /\ r.cand = c.cand /\ r.shard = c.shard
      BY <1>c, <2>3a, Zenon DEF Checks
    <2> HIDE DEF r
    <2>5. check' \in [Sweeps -> [Shards -> Checks]] /\ CandidateInRange'
      BY <1>c, <2>1, <2>3, <2>4, CheckStepReplaces DEF Chosen
    <2> QED
      BY <1>4, <1>b, <2>5 DEF WitnessVote, serverVars
  <1>5. CASE Tally(w, s)
    <2>1. check' \in [Sweeps -> [Shards -> Checks]] /\ CandidateInRange'
      BY <1>5, PcStepType DEF Tally, AfterGuard, PCs, Chosen
    <2> QED
      BY <1>5, <2>1 DEF Tally, serverVars
  <1>6. CASE PgPromoteSend(w, s)
    <2>1. c.pc = "pg_promote" /\ CandAddr(c) \in Addrs
      BY <1>6, <1>b, <1>c DEF PgPromoteSend, CandAddr, Chosen
    <2>2. check' \in [Sweeps -> [Shards -> Checks]] /\ CandidateInRange'
      BY <1>6, PcStepType DEF PgPromoteSend, PCs, Chosen
    <2>3. promoting' \subseteq standby' /\ standby' = standby
      BY <1>6 DEF PgPromoteSend
    <2> QED
      BY <1>6, <2>1, <2>2, <2>3 DEF PgPromoteSend
  <1>7. CASE PgPromoteUnsent(w, s)
    <2>1. c.pc = "pg_promote" /\ CandAddr(c) \in Addrs
      BY <1>7, <1>b, <1>c DEF PgPromoteUnsent, CandAddr, Chosen
    <2>2. check' \in [Sweeps -> [Shards -> Checks]] /\ CandidateInRange'
      BY <1>7, PcStepType DEF PgPromoteUnsent, PCs, Chosen
    <2> QED
      BY <1>7, <2>1, <2>2 DEF PgPromoteUnsent, serverVars
  <1>8. CASE PgPromoteDone(w, s)
    <2>1. check' \in [Sweeps -> [Shards -> Checks]] /\ CandidateInRange'
      BY <1>8, PcStepType DEF PgPromoteDone, PCs, Chosen
    <2> QED
      BY <1>8, <2>1 DEF PgPromoteDone, serverVars
  <1>9. CASE PgPromoteFailed(w, s)
    <2>1. check' \in [Sweeps -> [Shards -> Checks]] /\ CandidateInRange'
      BY <1>9, PcStepType DEF PgPromoteFailed, PCs, Chosen
    <2> QED
      BY <1>9, <2>1 DEF PgPromoteFailed, serverVars
  <1>10. CASE Swap(w, s)
    <2>1. check' \in [Sweeps -> [Shards -> Checks]] /\ CandidateInRange'
      BY <1>10, PcStepType DEF Swap, PCs, Chosen
    <2>2. Promoted(c.shard, c.cand) \in Shard
      BY <1>10, <1>c, PromotedType DEF Swap, Chosen
    <2> QED
      BY <1>10, <2>1, <2>2 DEF Swap, Set, serverVars
  <1>11. CASE Drain(w, s)
    <2>1. check' \in [Sweeps -> [Shards -> Checks]] /\ CandidateInRange'
      BY <1>11, PcStepType DEF Drain, PCs, Chosen
    <2> QED
      BY <1>11, <2>1 DEF Drain, serverVars
  <1>12. CASE release(w, s)
    <2>1. check' \in [Sweeps -> [Shards -> Checks]] /\ CandidateInRange'
      BY <1>12, SeedType, CheckStepReplaces DEF release, Idle, Chosen
    <2> QED
      BY <1>12, <2>1 DEF release, serverVars
  <1> QED
    BY <1>1, <1>2, <1>3, <1>4, <1>5, <1>6, <1>7, <1>8, <1>9, <1>10, <1>11, <1>12 DEF CheckStep

\* So does every step of a sweep.
LEMMA SweepStepType ==
    ASSUME TypeInv, NEW w \in Sweeps, SweepStep(w)
    PROVE  TypeInv'
  <1> USE DEF TypeInv, TypeOK, BackendsTypeOK
  <1>1. CASE Snapshot(w)
    <2>1. All(shardMap) \in SUBSET Shard
      BY DEF All
    <2>2. todo' \in [Sweeps -> SUBSET Shard]
      BY <1>1, <2>1 DEF Snapshot
    <2> QED
      BY <1>1, <2>2 DEF Snapshot, serverVars, CandidateInRange
  <1>2. ASSUME NEW shard \in todo[w], SkipBusy(w, shard)
        PROVE  TypeInv'
    <2>1. todo' \in [Sweeps -> SUBSET Shard]
      BY <1>2 DEF SkipBusy
    <2> QED
      BY <1>2, <2>1 DEF SkipBusy, serverVars, CandidateInRange
  <1>3. ASSUME NEW shard \in todo[w], BeginCheck(w, shard)
        PROVE  TypeInv'
    <2>1. shard \in Shard /\ shard.id \in Shards
      BY DEF Shard
    <2> DEFINE r == [Idle(shard.id) EXCEPT !.pc = "ping", !.shard = shard,
                                           !.waiting = Positions(shard)]
    <2>2. Idle(shard.id) \in Checks
      BY <2>1, SeedType
    <2>2a. Positions(shard) \in SUBSET Nat
      BY <2>1 DEF Positions, Shard
    <2>3. r \in Checks /\ r.pc = "ping"
      BY <2>1, <2>2, <2>2a DEF Checks, PCs
    <2>4. check' = [check EXCEPT ![w][shard.id] = r]
      BY <1>3 DEF BeginCheck
    <2> HIDE DEF r
    <2>5. check' \in [Sweeps -> [Shards -> Checks]] /\ CandidateInRange'
      BY <2>1, <2>3, <2>4, CheckStepReplaces DEF Chosen
    <2>6. todo' \in [Sweeps -> SUBSET Shard]
      BY <1>3 DEF BeginCheck
    <2> QED
      BY <1>3, <2>1, <2>5, <2>6 DEF BeginCheck, serverVars
  <1>4. CASE SweepDone(w)
    BY <1>4 DEF SweepDone, serverVars, CandidateInRange
  <1> QED
    BY <1>1, <1>2, <1>3, <1>4 DEF SweepStep

\* And every step of the servers.
LEMMA ServerStepType ==
    ASSUME TypeInv, ServerStep, UNCHANGED checkerVars
    PROVE  TypeInv'
  <1> USE DEF TypeInv, TypeOK, BackendsTypeOK
  <1>1. CandidateInRange'
    BY DEF CandidateInRange, checkerVars
  <1>2. BackendsTypeOK'
    <2>1. PICK a \in Addrs :
             Crash(a) \/ Restart(a) \/ FinishPromotion(a) \/ LoseStream(a) \/ Reconnect(a)
      BY DEF ServerStep
    <2>2. CASE Crash(a)
      BY <2>2 DEF Crash
    <2>3. CASE Restart(a)
      BY <2>3 DEF Restart
    <2>4. CASE FinishPromotion(a)
      BY <2>4 DEF FinishPromotion
    <2>5. CASE LoseStream(a)
      BY <2>5 DEF LoseStream
    <2>6. CASE Reconnect(a)
      BY <2>6 DEF Reconnect
    <2> QED
      BY <2>1, <2>2, <2>3, <2>4, <2>5, <2>6
  <1> QED
    BY <1>1, <1>2 DEF checkerVars

LEMMA NextType == TypeInv /\ [Next]_vars => TypeInv'
  <1> SUFFICES ASSUME TypeInv, [Next]_vars PROVE TypeInv'
    OBVIOUS
  <1> USE DEF TypeInv, TypeOK, BackendsTypeOK
  <1>1. ASSUME NEW w \in Sweeps, Launch(w) PROVE TypeInv'
    BY <1>1 DEF Launch, serverVars, CandidateInRange
  <1>2. CASE Cancel
    BY <1>2 DEF Cancel, checkerVars, serverVars, CandidateInRange
  <1>3. CASE LoopExit
    BY <1>3 DEF LoopExit, serverVars, CandidateInRange
  <1>4. CASE RunReturn
    BY <1>4 DEF RunReturn, serverVars, CandidateInRange
  <1>5. ASSUME NEW w \in Sweeps, SweepStep(w) PROVE TypeInv'
    BY <1>5, SweepStepType
  <1>6. ASSUME NEW w \in Sweeps, NEW s \in Shards, CheckStep(w, s) PROVE TypeInv'
    BY <1>6, CheckStepType
  <1>7. CASE ServerStep /\ UNCHANGED checkerVars
    BY <1>7, ServerStepType
  <1>8. CASE UNCHANGED vars
    BY <1>8 DEF vars, checkerVars, serverVars, CandidateInRange
  <1> QED
    BY <1>1, <1>2, <1>3, <1>4, <1>5, <1>6, <1>7, <1>8 DEF Next

\* The state of the checker is well typed, and a promotion always has a
\* candidate that is one of the replicas it works on.
THEOREM TypeCorrect == Spec => []TypeOK
  <1>1. Init => TypeInv
    BY InitTypeInv
  <1>2. TypeInv /\ [Next]_vars => TypeInv'
    BY NextType
  <1>3. TypeInv => TypeOK
    BY DEF TypeInv
  <1> QED
    BY <1>1, <1>2, <1>3, PTL DEF Spec

-----------------------------------------------------------------------------
(* One check per shard, and the entry it works on. *)

\* A step of a check touches no other check and no other shard's entry; the
\* goroutine exists, and goes on to exist unless the step is its last.
LEMMA CheckFrame ==
    ASSUME TypeInv, NEW w \in Sweeps, NEW s \in Shards, CheckStep(w, s)
    PROVE  /\ check[w][s].pc # "idle"
           /\ \A v \in Sweeps, t \in Shards :
                 v # w \/ t # s => check'[v][t] = check[v][t]
           /\ \A t \in Shards : t # s => shardMap'[t] = shardMap[t]
           /\ UNCHANGED <<todo, sweep, loop>>
           /\ \/ busy' = busy /\ check'[w][s].pc # "idle"
              \/ release(w, s) /\ busy' = busy \ {s} /\ check'[w][s].pc = "idle"
  <1> USE DEF TypeInv, TypeOK
  <1>c. check[w][s] \in Checks
    OBVIOUS
  <1>1. ASSUME NEW i \in Positions(check[w][s].shard), pingNode(w, s, i)
        PROVE  /\ check[w][s].pc # "idle"
               /\ \A v \in Sweeps, t \in Shards :
                     v # w \/ t # s => check'[v][t] = check[v][t]
               /\ \A t \in Shards : t # s => shardMap'[t] = shardMap[t]
               /\ UNCHANGED <<todo, sweep, loop>>
               /\ busy' = busy /\ check'[w][s].pc # "idle"
    BY <1>1, <1>c DEF pingNode, Checks
  <1>2. CASE WriteBack(w, s)
    BY <1>2, <1>c DEF WriteBack, Set, Checks
  <1>3. CASE Promote(w, s)
    BY <1>3, <1>c DEF Promote, AfterGuard, Checks
  <1>4. ASSUME NEW i \in 1 .. Len(check[w][s].shard.replicas), WitnessVote(w, s, i)
        PROVE  /\ check[w][s].pc # "idle"
               /\ \A v \in Sweeps, t \in Shards :
                     v # w \/ t # s => check'[v][t] = check[v][t]
               /\ \A t \in Shards : t # s => shardMap'[t] = shardMap[t]
               /\ UNCHANGED <<todo, sweep, loop>>
               /\ busy' = busy /\ check'[w][s].pc # "idle"
    BY <1>4, <1>c DEF WitnessVote, Checks
  <1>5. CASE Tally(w, s)
    BY <1>5, <1>c DEF Tally, AfterGuard, Checks
  <1>6. CASE PgPromoteSend(w, s)
    BY <1>6, <1>c DEF PgPromoteSend, Checks
  <1>7. CASE PgPromoteUnsent(w, s)
    BY <1>7, <1>c DEF PgPromoteUnsent, Checks
  <1>8. CASE PgPromoteDone(w, s)
    BY <1>8, <1>c DEF PgPromoteDone, Checks
  <1>9. CASE PgPromoteFailed(w, s)
    BY <1>9, <1>c DEF PgPromoteFailed, Checks
  <1>10. CASE Swap(w, s)
    BY <1>10, <1>c DEF Swap, Set, Checks
  <1>11. CASE Drain(w, s)
    BY <1>11, <1>c DEF Drain, Checks
  <1>12. CASE release(w, s)
    BY <1>12, <1>c DEF release, Idle
  <1> QED
    BY <1>1, <1>2, <1>3, <1>4, <1>5, <1>6, <1>7, <1>8, <1>9, <1>10, <1>11, <1>12 DEF CheckStep

\* Every step is a step of a check, the beginning of a check, or leaves the
\* checks and the entries alone.  Snapshots only ever come from the map.
LEMMA StepKinds ==
    ASSUME TypeInv, [Next]_vars
    PROVE  \/ \E w \in Sweeps, s \in Shards : CheckStep(w, s)
           \/ \E w \in Sweeps : \E shard \in todo[w] : BeginCheck(w, shard)
           \/ /\ UNCHANGED <<shardMap, misses, busy, check, pools>>
              /\ \A w \in Sweeps : todo'[w] \subseteq todo[w] \cup All(shardMap)
  <1> USE DEF TypeInv, TypeOK
  <1>1. ASSUME NEW w \in Sweeps, Launch(w)
        PROVE  UNCHANGED <<shardMap, misses, busy, check, pools, todo>>
    BY <1>1 DEF Launch
  <1>2. CASE Cancel \/ LoopExit \/ RunReturn
    BY <1>2 DEF Cancel, LoopExit, RunReturn, checkerVars
  <1>3. ASSUME NEW w \in Sweeps, Snapshot(w)
        PROVE  /\ UNCHANGED <<shardMap, misses, busy, check, pools>>
               /\ \A v \in Sweeps : todo'[v] \subseteq todo[v] \cup All(shardMap)
    BY <1>3 DEF Snapshot
  <1>4. ASSUME NEW w \in Sweeps, NEW shard \in todo[w], SkipBusy(w, shard)
        PROVE  /\ UNCHANGED <<shardMap, misses, busy, check, pools>>
               /\ \A v \in Sweeps : todo'[v] \subseteq todo[v] \cup All(shardMap)
    BY <1>4 DEF SkipBusy
  <1>5. ASSUME NEW w \in Sweeps, SweepDone(w)
        PROVE  UNCHANGED <<shardMap, misses, busy, check, pools, todo>>
    BY <1>5 DEF SweepDone
  <1>6. CASE UNCHANGED checkerVars
    BY <1>6 DEF checkerVars
  <1>7. CASE UNCHANGED vars
    BY <1>7 DEF vars, checkerVars
  <1> QED
    BY <1>1, <1>2, <1>3, <1>4, <1>5, <1>6, <1>7 DEF Next, SweepStep

\* What the beginning of a check does.
LEMMA BeginFrame ==
    ASSUME TypeInv, NEW w \in Sweeps, NEW shard \in todo[w], BeginCheck(w, shard)
    PROVE  /\ shard \in Shard /\ shard.id \in Shards /\ shard.id \notin busy
           /\ busy' = busy \cup {shard.id}
           /\ UNCHANGED <<shardMap, misses, pools, serverVars>>
           /\ \A v \in Sweeps : todo'[v] \subseteq todo[v]
           /\ \A v \in Sweeps, t \in Shards :
                 v # w \/ t # shard.id => check'[v][t] = check[v][t]
           /\ check'[w][shard.id].pc = "ping"
           /\ check'[w][shard.id].shard = shard
           /\ check'[w][shard.id].waiting = Positions(shard)
           /\ check'[w][shard.id].cannot = 0
  <1>1. shard \in Shard /\ shard.id \in Shards
    BY DEF TypeInv, TypeOK, Shard
  <1> QED
    BY <1>1 DEF BeginCheck, TypeInv, TypeOK, Idle

ExclusionInv == TypeInv /\ OneCheckPerShard

LEMMA ExclusionStep == ExclusionInv /\ [Next]_vars => ExclusionInv'
  <1> SUFFICES ASSUME ExclusionInv, [Next]_vars PROVE OneCheckPerShard'
    BY NextType DEF ExclusionInv
  <1> USE DEF ExclusionInv
  <1>1. ASSUME NEW w \in Sweeps, NEW s \in Shards, CheckStep(w, s)
        PROVE  OneCheckPerShard'
    BY <1>1, CheckFrame DEF OneCheckPerShard
  <1>2. ASSUME NEW w \in Sweeps, NEW shard \in todo[w], BeginCheck(w, shard)
        PROVE  OneCheckPerShard'
    BY <1>2, BeginFrame DEF OneCheckPerShard
  <1>3. CASE UNCHANGED <<busy, check>>
    BY <1>3 DEF OneCheckPerShard
  <1> QED
    BY <1>1, <1>2, <1>3, StepKinds

\* The busy flag excludes two checks of one shard for any number of overlapping
\* sweeps: tryAcquire and release implement mutual exclusion.
THEOREM MutualExclusion == Spec => []OneCheckPerShard
  <1>1. Init => ExclusionInv
    BY InitTypeInv DEF ExclusionInv, OneCheckPerShard, Init, Idle
  <1>2. ExclusionInv => OneCheckPerShard
    BY DEF ExclusionInv
  <1> QED
    BY <1>1, <1>2, ExclusionStep, PTL DEF Spec

OwnInv == ExclusionInv /\ OwnEntry

LEMMA OwnStep == OwnInv /\ [Next]_vars => OwnInv'
  <1> SUFFICES ASSUME OwnInv, [Next]_vars PROVE OwnEntry'
    BY ExclusionStep DEF OwnInv
  <1> USE DEF OwnInv, ExclusionInv
  <1>1. ASSUME NEW w \in Sweeps, NEW s \in Shards, CheckStep(w, s)
        PROVE  OwnEntry'
    <2> DEFINE c == check[w][s]
    <2>c. c \in Checks /\ check'[w][s] \in Checks /\ shardMap \in [Shards -> Shard]
      BY <1>1, NextType DEF TypeInv, TypeOK
    <2>f. /\ check \in [Sweeps -> [Shards -> Checks]]
          /\ shardMap \in [Shards -> Shard]
      BY DEF TypeInv, TypeOK
    \* The check itself.
    <2>1. /\ check'[w][s].pc \in {"promote", "vote", "pg_promote", "promoting", "swap"} =>
                shardMap'[s] = check'[w][s].shard
          /\ check'[w][s].pc = "drain" =>
                shardMap'[s] = Promoted(check'[w][s].shard, check'[w][s].cand)
      <3>0. /\ c.pc \in {"promote", "vote", "pg_promote", "promoting", "swap"} =>
                  shardMap[s] = c.shard
            /\ c.pc = "drain" => shardMap[s] = Promoted(c.shard, c.cand)
        BY DEF OwnEntry
      <3>1. ASSUME NEW i \in Positions(c.shard), pingNode(w, s, i)
            PROVE  check'[w][s].pc = "ping"
        BY <3>1, <2>c, <2>f DEF pingNode, Checks
      <3>2. CASE WriteBack(w, s)
        BY <3>2, <2>c, <2>f DEF WriteBack, Set, Checks
      <3>3. CASE Promote(w, s)
        BY <3>3, <2>c, <2>f DEF Promote, AfterGuard, Checks
      <3>4. ASSUME NEW i \in 1 .. Len(c.shard.replicas), WitnessVote(w, s, i)
            PROVE  /\ check'[w][s].pc = "vote" /\ c.pc = "vote"
                   /\ check'[w][s].shard = c.shard /\ shardMap' = shardMap
        BY <3>4, <2>c, <2>f DEF WitnessVote, Checks
      <3>5. CASE Tally(w, s)
        BY <3>0, <3>5, <2>c, <2>f DEF Tally, AfterGuard, Checks
      <3>6. CASE PgPromoteSend(w, s)
        BY <3>0, <3>6, <2>c, <2>f DEF PgPromoteSend, Checks
      <3>7. CASE PgPromoteUnsent(w, s)
        BY <3>7, <2>c, <2>f DEF PgPromoteUnsent, Checks
      <3>8. CASE PgPromoteDone(w, s)
        BY <3>0, <3>8, <2>c, <2>f DEF PgPromoteDone, Checks
      <3>9. CASE PgPromoteFailed(w, s)
        BY <3>9, <2>c, <2>f DEF PgPromoteFailed, Checks
      <3>10. CASE Swap(w, s)
        BY <3>10, <2>c, <2>f DEF Swap, Set, Checks
      <3>11. CASE Drain(w, s)
        BY <3>11, <2>c, <2>f DEF Drain, Checks
      <3>12. CASE release(w, s)
        BY <3>12, <2>c, <2>f DEF release, Idle
      <3> QED
        BY <1>1, <3>0, <3>1, <3>2, <3>3, <3>4, <3>5, <3>6, <3>7, <3>8, <3>9, <3>10, <3>11, <3>12
           DEF CheckStep
    \* Other checks of the same shard are idle, those of other shards keep
    \* their entry.
    <2>2. ASSUME NEW v \in Sweeps, NEW t \in Shards, v # w \/ t # s
          PROVE  /\ check'[v][t] = check[v][t]
                 /\ check[v][t].pc = "idle" \/ shardMap'[t] = shardMap[t]
      BY <1>1, <2>2, CheckFrame DEF OneCheckPerShard
    <2> QED
      BY <2>1, <2>2 DEF OwnEntry
  <1>2. ASSUME NEW w \in Sweeps, NEW shard \in todo[w], BeginCheck(w, shard)
        PROVE  OwnEntry'
    BY <1>2, BeginFrame DEF OwnEntry
  <1>3. CASE UNCHANGED <<shardMap, check>>
    BY <1>3 DEF OwnEntry
  <1> QED
    BY <1>1, <1>2, <1>3, StepKinds

\* The entry a failover was decided on stays in the map until the failover
\* replaces it, for any number of overlapping sweeps.
THEOREM FailoverOwnsEntry == Spec => []OwnEntry
  <1>1. Init => OwnInv
    BY InitTypeInv DEF OwnInv, ExclusionInv, OneCheckPerShard, OwnEntry, Init, Idle
  <1>2. OwnInv => OwnEntry
    BY DEF OwnInv
  <1> QED
    BY <1>1, <1>2, OwnStep, PTL DEF Spec

-----------------------------------------------------------------------------
(* What runs when. *)

\* A sweep has entries and checks only while it sweeps, and none is under way
\* when Run has returned.
SweepsOK ==
    /\ loop = "returned" => \A w \in Sweeps : sweep[w] = "idle"
    /\ \A w \in Sweeps : sweep[w] # "sweeping" =>
          todo[w] = {} /\ \A s \in Shards : check[w][s].pc = "idle"

SweepsInv == ExclusionInv /\ SweepsOK

LEMMA SweepsInit == Init => SweepsInv
  BY InitTypeInv DEF SweepsInv, SweepsOK, ExclusionInv, OneCheckPerShard, Init, Idle

LEMMA SweepsStep == SweepsInv /\ [Next]_vars => SweepsInv'
  <1> SUFFICES ASSUME SweepsInv, [Next]_vars PROVE SweepsOK'
    BY ExclusionStep DEF SweepsInv
  <1> USE DEF SweepsInv, ExclusionInv
  <1>t. TypeInv /\ sweep \in [Sweeps -> {"idle", "launched", "sweeping"}]
          /\ todo \in [Sweeps -> SUBSET Shard]
    BY DEF TypeInv, TypeOK
  <1>1. ASSUME NEW w \in Sweeps, Launch(w) PROVE SweepsOK'
    BY <1>1, <1>t DEF Launch, SweepsOK
  <1>2. CASE Cancel \/ LoopExit \/ RunReturn
    BY <1>2 DEF Cancel, LoopExit, RunReturn, checkerVars, SweepsOK
  <1>3. ASSUME NEW w \in Sweeps, Snapshot(w) PROVE SweepsOK'
    BY <1>3, <1>t DEF Snapshot, SweepsOK
  <1>4. ASSUME NEW w \in Sweeps, NEW shard \in todo[w], SkipBusy(w, shard) PROVE SweepsOK'
    BY <1>4, <1>t DEF SkipBusy, SweepsOK
  <1>5. ASSUME NEW w \in Sweeps, NEW shard \in todo[w], BeginCheck(w, shard) PROVE SweepsOK'
    <2>1. sweep[w] = "sweeping" /\ UNCHANGED <<sweep, loop>>
      BY <1>5 DEF SweepsOK, BeginCheck
    <2> QED
      BY <1>5, <1>t, <2>1, BeginFrame DEF SweepsOK
  <1>6. ASSUME NEW w \in Sweeps, SweepDone(w) PROVE SweepsOK'
    BY <1>6, <1>t DEF SweepDone, SweepsOK
  <1>7. ASSUME NEW w \in Sweeps, NEW s \in Shards, CheckStep(w, s) PROVE SweepsOK'
    <2>1. sweep[w] = "sweeping"
      BY <1>7, <1>t, CheckFrame DEF SweepsOK
    <2> QED
      BY <1>7, <1>t, <2>1, CheckFrame DEF SweepsOK
  <1>8. CASE UNCHANGED checkerVars
    BY <1>8 DEF checkerVars, SweepsOK
  <1>9. CASE UNCHANGED vars
    BY <1>9 DEF vars, checkerVars, SweepsOK
  <1> QED
    BY <1>1, <1>2, <1>3, <1>4, <1>5, <1>6, <1>7, <1>8, <1>9 DEF Next, SweepStep

\* When Run has returned no goroutine of the checker is left that could touch
\* the map, the misses or the pools, however many sweeps were in flight when it
\* was told to stop.
THEOREM QuietOnceReturned == Spec => QuietAfterReturn
  <1>1. SweepsInv /\ [Next]_vars => [loop = "returned" => UNCHANGED checkerVars]_vars
    <2> SUFFICES ASSUME SweepsInv, Next, loop = "returned" PROVE UNCHANGED checkerVars
      OBVIOUS
    <2>t. TypeInv
      BY DEF SweepsInv, ExclusionInv
    <2>0. \A w \in Sweeps : sweep[w] = "idle" /\ todo[w] = {}
                              /\ \A s \in Shards : check[w][s].pc = "idle"
      BY DEF SweepsInv, SweepsOK
    <2>1. ~ \E w \in Sweeps : Launch(w)
      BY DEF Launch
    <2>2. ~LoopExit /\ ~RunReturn
      BY DEF LoopExit, RunReturn
    <2>3. ~ \E w \in Sweeps : SweepStep(w)
      BY <2>0 DEF SweepStep, Snapshot, SweepDone
    <2>4. ~ \E w \in Sweeps, s \in Shards : CheckStep(w, s)
      BY <2>0, <2>t, CheckFrame
    <2> QED
      BY <2>1, <2>2, <2>3, <2>4 DEF Next, Cancel
  <1> QED
    BY <1>1, SweepsInit, SweepsStep, PTL DEF Spec, QuietAfterReturn
=============================================================================
