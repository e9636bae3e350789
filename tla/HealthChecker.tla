--------------------------- MODULE HealthChecker ---------------------------
(***************************************************************************)
(* The health checker and failover controller of internal/health.          *)
(*                                                                         *)
(* Checker.Run launches a sweep at once and then one per tick, each in a   *)
(* goroutine of its own.  A sweep takes a snapshot of the shard map        *)
(* (Map.All) and then, shard by shard, tries to acquire the shard's busy   *)
(* flag; for a shard it acquires it starts a check in yet another          *)
(* goroutine.  A check pings every node of the snapshot's entry in         *)
(* parallel, writes a whole replacement entry and, if the primary is DOWN, *)
(* runs Controller.Promote: select a candidate, ask the witnesses, call    *)
(* pg_promote(), swap the entry, drain the old primary's pool.             *)
(*                                                                         *)
(* A step is what happens between two points at which another goroutine    *)
(* can be observed: a section under a mutex, or a call to a backend.       *)
(* lastFailoverErr only decides whether a line is logged and is left out.  *)
(***************************************************************************)
EXTENDS Backends

CONSTANTS
    Sweeps,              \* bound: sweeps that may be in flight together
    SuspectAfterMisses,  \* Options.SuspectAfterMisses
    DownAfterMisses,     \* Options.DownAfterMisses
    MissCap,             \* bound: where the count of misses saturates
    PgPromote,           \* Options.PgPromote
    QuorumGuard,         \* Options.QuorumGuard
    MayCancel            \* whether the run context may be cancelled

\* config.resolveHealth accepts exactly these thresholds.
ASSUME Thresholds ==
    /\ SuspectAfterMisses \in Nat /\ DownAfterMisses \in Nat /\ MissCap \in Nat
    /\ 1 <= SuspectAfterMisses
    /\ SuspectAfterMisses <= DownAfterMisses
    /\ DownAfterMisses <= MissCap

ASSUME Switches ==
    PgPromote \in BOOLEAN /\ QuorumGuard \in BOOLEAN /\ MayCancel \in BOOLEAN

VARIABLES
    shardMap,  \* shard ID -> its current entry
    misses,    \* address -> consecutive missed heartbeats (absent = 0)
    busy,      \* shards with a check in flight
    loop,      \* where Checker.Run is
    sweep,     \* sweep -> where its goroutine is
    todo,      \* sweep -> snapshot entries it has not come to yet
    check,     \* sweep -> shard -> the goroutine checking that shard
    pools      \* addresses with a connection pool in the manager

checkerVars == <<shardMap, misses, busy, loop, sweep, todo, check, pools>>
vars == <<checkerVars, serverVars, ctxDone>>

PCs == {"idle", "ping", "promote", "vote", "pg_promote", "promoting",
        "swap", "drain", "release"}

\* The local state of a check.  "shard" is the replacement under construction
\* while it pings, and what Promote read with Get afterwards; "waiting" holds
\* the positions whose ping or vote is outstanding; "saw" and "cannot" count
\* the votes; "cand" is the position of the candidate.
Checks == [pc : PCs, shard : Shard, waiting : SUBSET Nat,
           saw : Nat, cannot : Nat, cand : Nat]

\* The entry app.New builds from the configuration.
Seed(s) ==
    [id       |-> s,
     primary  |-> FreshNode(Config[s].primary),
     replicas |-> [i \in 1 .. Len(Config[s].replicas) |->
                      FreshNode(Config[s].replicas[i])]]

Idle(s) == [pc |-> "idle", shard |-> Seed(s), waiting |-> {},
            saw |-> 0, cannot |-> 0, cand |-> 0]

Init ==
    /\ BackendsInit
    /\ shardMap = [s \in Shards |-> Seed(s)]
    /\ misses = [a \in Addrs |-> 0]
    /\ busy = {}
    /\ loop = "start"
    /\ sweep = [w \in Sweeps |-> "idle"]
    /\ todo = [w \in Sweeps |-> {}]
    /\ check = [w \in Sweeps |-> [s \in Shards |-> Idle(s)]]
    /\ pools = {}

-----------------------------------------------------------------------------
(* Checker.Run *)

\* launch: once before the loop, then on every tick.  A cancelled context does
\* not disable this: select may pick the tick when both are ready.
Launch(w) ==
    /\ loop \in {"start", "select"}
    /\ sweep[w] = "idle"
    /\ loop' = "select"
    /\ sweep' = [sweep EXCEPT ![w] = "launched"]
    /\ UNCHANGED <<shardMap, misses, busy, todo, check, pools, serverVars, ctxDone>>

\* The process is told to stop.
Cancel ==
    /\ MayCancel /\ ~ctxDone
    /\ ctxDone' = TRUE
    /\ UNCHANGED <<checkerVars, serverVars>>

LoopExit ==
    /\ loop = "select" /\ ctxDone
    /\ loop' = "wait"
    /\ UNCHANGED <<shardMap, misses, busy, sweep, todo, check, pools, serverVars, ctxDone>>

\* A mutant: Run forgets to wait for the sweeps in flight.
returnWithoutWait ==
    /\ loop = "wait"
    /\ loop' = "returned"
    /\ UNCHANGED <<shardMap, misses, busy, sweep, todo, check, pools, serverVars, ctxDone>>

\* The deferred inflight.Wait().
RunReturn ==
    /\ loop = "wait"
    /\ \A w \in Sweeps : sweep[w] = "idle"
    /\ loop' = "returned"
    /\ UNCHANGED <<shardMap, misses, busy, sweep, todo, check, pools, serverVars, ctxDone>>

-----------------------------------------------------------------------------
(* Checker.sweep *)

\* The range expression is evaluated once: c.shardMap.All().
Snapshot(w) ==
    /\ sweep[w] = "launched"
    /\ sweep' = [sweep EXCEPT ![w] = "sweeping"]
    /\ todo' = [todo EXCEPT ![w] = All(shardMap)]
    /\ UNCHANGED <<shardMap, misses, busy, loop, check, pools, serverVars, ctxDone>>

\* tryAcquire fails: the shard's previous check is still running.
SkipBusy(w, shard) ==
    /\ shard \in todo[w] /\ shard.id \in busy
    /\ todo' = [todo EXCEPT ![w] = @ \ {shard}]
    /\ UNCHANGED <<shardMap, misses, busy, loop, sweep, check, pools, serverVars, ctxDone>>

\* A mutant: the busy flag is set but not looked at.
acquireAlways(w, shard) ==
    /\ shard \in todo[w]
    /\ check[w][shard.id].pc = "idle"
    /\ busy' = busy \cup {shard.id}
    /\ todo' = [todo EXCEPT ![w] = @ \ {shard}]
    /\ check' = [check EXCEPT ![w][shard.id] =
                    [Idle(shard.id) EXCEPT !.pc = "ping", !.shard = shard,
                                           !.waiting = Positions(shard)]]
    /\ UNCHANGED <<shardMap, misses, loop, sweep, pools, serverVars, ctxDone>>

\* tryAcquire succeeds: a goroutine starts to check this entry of the snapshot.
BeginCheck(w, shard) ==
    /\ shard \in todo[w] /\ shard.id \notin busy
    /\ busy' = busy \cup {shard.id}
    /\ todo' = [todo EXCEPT ![w] = @ \ {shard}]
    /\ check' = [check EXCEPT ![w][shard.id] =
                    [Idle(shard.id) EXCEPT !.pc = "ping", !.shard = shard,
                                           !.waiting = Positions(shard)]]
    /\ UNCHANGED <<shardMap, misses, loop, sweep, pools, serverVars, ctxDone>>

\* wg.Wait() returns: every shard was skipped or its check has ended.
SweepDone(w) ==
    /\ sweep[w] = "sweeping" /\ todo[w] = {}
    /\ \A s \in Shards : check[w][s].pc = "idle"
    /\ sweep' = [sweep EXCEPT ![w] = "idle"]
    /\ UNCHANGED <<shardMap, misses, busy, loop, todo, check, pools, serverVars, ctxDone>>

-----------------------------------------------------------------------------
(* Checker.checkShard *)

\* recordResult, saturating at MissCap.
recordResult(a, ok) ==
    IF ok THEN 0 ELSE IF misses[a] < MissCap THEN misses[a] + 1 ELSE MissCap

statusFor(n) ==
    IF n >= DownAfterMisses THEN "DOWN"
    ELSE IF n >= SuspectAfterMisses THEN "SUSPECT" ELSE "UP"

\* A mutant: a failed heartbeat resets the lag.
lagReset(n, isReplica) ==
    IF isReplica THEN ReplicationLagMS(n.addr)
                 ELSE {[ok |-> ok, lagMS |-> n.lagMS] : ok \in Ping(n.addr)}

\* What one heartbeat may find out about a node: Ping for the primary,
\* ReplicationLagMS for a replica.  A failed one keeps the last known lag.
Heartbeats(n, isReplica) ==
    IF isReplica
    THEN {[ok |-> r.ok, lagMS |-> IF r.ok THEN r.lagMS ELSE n.lagMS] :
             r \in ReplicationLagMS(n.addr)}
    ELSE {[ok |-> ok, lagMS |-> n.lagMS] : ok \in Ping(n.addr)}

\* pingNode: the pool is looked up (and created on first use), the node is
\* asked, the result is recorded, the replacement node is built.
pingNode(w, s, i) ==
    LET c == check[w][s]
        n == NodeAt(c.shard, i)
    IN  /\ c.pc = "ping" /\ i \in c.waiting
        /\ \E beat \in Heartbeats(n, i # 0) :
              LET m == recordResult(n.addr, beat.ok)
              IN /\ misses' = [misses EXCEPT ![n.addr] = m]
                 /\ check' = [check EXCEPT
                       ![w][s].shard = WithNodeAt(c.shard, i,
                           [addr |-> n.addr, status |-> statusFor(m), lagMS |-> beat.lagMS]),
                       ![w][s].waiting = @ \ {i}]
        /\ pools' = pools \cup {n.addr}
        /\ UNCHANGED <<shardMap, busy, loop, sweep, todo, serverVars, ctxDone>>

\* A mutant: a SUSPECT primary is failed over, too.
promoteSuspect(w, s) ==
    LET c == check[w][s]
    IN  /\ c.pc = "ping" /\ c.waiting = {}
        /\ shardMap' = Set(shardMap, s, c.shard)
        /\ check' = [check EXCEPT ![w][s].pc =
                        IF c.shard.primary.status # "UP" THEN "promote" ELSE "release"]
        /\ UNCHANGED <<misses, busy, loop, sweep, todo, pools, serverVars, ctxDone>>

\* All pings are in: Set replaces the entry; failover is attempted when the
\* primary is DOWN, on this and on every later sweep that finds it so.
WriteBack(w, s) ==
    LET c == check[w][s]
    IN  /\ c.pc = "ping" /\ c.waiting = {}
        /\ shardMap' = Set(shardMap, s, c.shard)
        /\ check' = [check EXCEPT ![w][s].pc =
                        IF c.shard.primary.status = "DOWN" THEN "promote" ELSE "release"]
        /\ UNCHANGED <<misses, busy, loop, sweep, todo, pools, serverVars, ctxDone>>

-----------------------------------------------------------------------------
(* Controller.Promote *)

AfterGuard == IF PgPromote THEN "pg_promote" ELSE "swap"

\* Promote up to the first backend call: Get, selectPromotionCandidate, and
\* the choice of the witnesses.  No candidate: an error, nothing changes.
Promote(w, s) ==
    LET shard == shardMap[s]
    IN  /\ check[w][s].pc = "promote"
        /\ \/ /\ selectPromotionCandidate(shard.replicas) = {}
              /\ check' = [check EXCEPT ![w][s].pc = "release"]
           \/ \E cand \in selectPromotionCandidate(shard.replicas) :
                check' = [check EXCEPT ![w][s] =
                    [pc      |-> IF QuorumGuard THEN "vote" ELSE AfterGuard,
                     shard   |-> shard,
                     waiting |-> IF QuorumGuard THEN Usable(shard.replicas) ELSE {},
                     saw     |-> 0, cannot |-> 0, cand |-> cand]]
        /\ UNCHANGED <<shardMap, misses, busy, loop, sweep, todo, pools, serverVars, ctxDone>>

\* checkQuorum: one witness answers, or abstains by failing to.
WitnessVote(w, s, i) ==
    LET c == check[w][s]
        a == c.shard.replicas[i].addr
    IN  /\ c.pc = "vote" /\ i \in c.waiting
        /\ \E v \in WalReceiverStreaming(a) :
              check' = [check EXCEPT
                  ![w][s].waiting = @ \ {i},
                  ![w][s].saw     = IF v.ok /\ v.streaming THEN @ + 1 ELSE @,
                  ![w][s].cannot  = IF v.ok /\ ~v.streaming THEN @ + 1 ELSE @]
        /\ pools' = pools \cup {a}
        /\ UNCHANGED <<shardMap, misses, busy, loop, sweep, todo, serverVars, ctxDone>>

\* A mutant: a veto asks the witnesses again instead of leaving the retry to
\* the next sweep.
retryAtOnce(w, s) ==
    LET c == check[w][s]
    IN  /\ c.pc = "vote" /\ c.waiting = {}
        /\ check' = [check EXCEPT ![w][s] =
              IF quorumAllowsPromotion(c.saw, c.cannot)
              THEN [c EXCEPT !.pc = AfterGuard]
              ELSE [c EXCEPT !.waiting = Usable(c.shard.replicas), !.saw = 0, !.cannot = 0]]
        /\ UNCHANGED <<shardMap, misses, busy, loop, sweep, todo, pools, serverVars, ctxDone>>

\* checkQuorum: all votes are in.
Tally(w, s) ==
    LET c == check[w][s]
    IN  /\ c.pc = "vote" /\ c.waiting = {}
        /\ check' = [check EXCEPT ![w][s].pc =
                        IF quorumAllowsPromotion(c.saw, c.cannot)
                        THEN AfterGuard ELSE "release"]
        /\ UNCHANGED <<shardMap, misses, busy, loop, sweep, todo, pools, serverVars, ctxDone>>

CandAddr(c) == c.shard.replicas[c.cand].addr

\* A mutant: SQLSTATE 55000 is an error like any other.
refusalIsError(w, s) ==
    LET c == check[w][s]
        a == CandAddr(c)
    IN  /\ c.pc = "pg_promote" /\ a \in alive
        /\ IF a \in standby
           THEN /\ promoting' = promoting \cup {a}
                /\ check' = [check EXCEPT ![w][s].pc = "promoting"]
           ELSE /\ UNCHANGED promoting
                /\ check' = [check EXCEPT ![w][s].pc = "release"]
        /\ pools' = pools \cup {a}
        /\ UNCHANGED <<shardMap, misses, busy, loop, sweep, todo,
                       alive, standby, streaming, crashed, ctxDone>>

\* A mutant: a promotion is waited for on a node that is not in recovery.
waitForAny(w, s) ==
    LET c == check[w][s]
        a == CandAddr(c)
    IN  /\ c.pc = "pg_promote" /\ a \in alive
        /\ promoting' = promoting \cup {a}
        /\ check' = [check EXCEPT ![w][s].pc = "promoting"]
        /\ pools' = pools \cup {a}
        /\ UNCHANGED <<shardMap, misses, busy, loop, sweep, todo,
                       alive, standby, streaming, crashed, ctxDone>>

\* PgPromote: pg_promote() reaches the candidate.  A server that is not in
\* recovery refuses with SQLSTATE 55000, which counts as success.
PgPromoteSend(w, s) ==
    LET c == check[w][s]
        a == CandAddr(c)
    IN  /\ c.pc = "pg_promote" /\ a \in alive
        /\ IF a \in standby
           THEN /\ promoting' = promoting \cup {a}
                /\ check' = [check EXCEPT ![w][s].pc = "promoting"]
           ELSE /\ UNCHANGED promoting
                /\ check' = [check EXCEPT ![w][s].pc = "swap"]
        /\ pools' = pools \cup {a}
        /\ UNCHANGED <<shardMap, misses, busy, loop, sweep, todo,
                       alive, standby, streaming, crashed, ctxDone>>

\* PgPromote: the call does not get through.
PgPromoteUnsent(w, s) ==
    LET c == check[w][s]
        a == CandAddr(c)
    IN  /\ c.pc = "pg_promote" /\ CallMayFail(a)
        /\ check' = [check EXCEPT ![w][s].pc = "release"]
        /\ pools' = pools \cup {a}
        /\ UNCHANGED <<shardMap, misses, busy, loop, sweep, todo, serverVars, ctxDone>>

\* PgPromote: pg_promote(true, wait) returns true.
PgPromoteDone(w, s) ==
    LET c == check[w][s]
    IN  /\ c.pc = "promoting"
        /\ CandAddr(c) \in alive \ standby
        /\ check' = [check EXCEPT ![w][s].pc = "swap"]
        /\ UNCHANGED <<shardMap, misses, busy, loop, sweep, todo, pools, serverVars, ctxDone>>

\* A mutant: an unfinished pg_promote() is taken for a finished one.
timeoutIsSuccess(w, s) ==
    LET c == check[w][s]
    IN  /\ c.pc = "promoting"
        /\ CandAddr(c) \in standby \/ CallMayFail(CandAddr(c))
        /\ check' = [check EXCEPT ![w][s].pc = "swap"]
        /\ UNCHANGED <<shardMap, misses, busy, loop, sweep, todo, pools, serverVars, ctxDone>>

\* PgPromote: it returns false because the node is still in recovery when the
\* wait is over, the promote timeout ends the call, or the answer is lost.
\* The promotion itself goes on.
PgPromoteFailed(w, s) ==
    LET c == check[w][s]
    IN  /\ c.pc = "promoting"
        /\ CandAddr(c) \in standby \/ CallMayFail(CandAddr(c))
        /\ check' = [check EXCEPT ![w][s].pc = "release"]
        /\ UNCHANGED <<shardMap, misses, busy, loop, sweep, todo, pools, serverVars, ctxDone>>

\* A mutant: the deposed primary is kept as a replica.
swapKeepsOld(w, s) ==
    LET c == check[w][s]
    IN  /\ c.pc = "swap"
        /\ shardMap' = Set(shardMap, s,
              [Promoted(c.shard, c.cand) EXCEPT !.replicas = Append(@, c.shard.primary)])
        /\ check' = [check EXCEPT ![w][s].pc = "drain"]
        /\ UNCHANGED <<misses, busy, loop, sweep, todo, pools, serverVars, ctxDone>>

\* Set: the one step at which routing moves to the new primary.
Swap(w, s) ==
    LET c == check[w][s]
    IN  /\ c.pc = "swap"
        /\ shardMap' = Set(shardMap, s, Promoted(c.shard, c.cand))
        /\ check' = [check EXCEPT ![w][s].pc = "drain"]
        /\ UNCHANGED <<misses, busy, loop, sweep, todo, pools, serverVars, ctxDone>>

\* A mutant: the pool of the new primary is drained instead of the old one's.
drainWrongPool(w, s) ==
    LET c == check[w][s]
    IN  /\ c.pc = "drain"
        /\ pools' = pools \ {CandAddr(c)}
        /\ check' = [check EXCEPT ![w][s].pc = "release"]
        /\ UNCHANGED <<shardMap, misses, busy, loop, sweep, todo, serverVars, ctxDone>>

\* Drain: the old primary's pool is detached before Promote returns; it is
\* closed in the background.
Drain(w, s) ==
    LET c == check[w][s]
    IN  /\ c.pc = "drain"
        /\ pools' = pools \ {c.shard.primary.addr}
        /\ check' = [check EXCEPT ![w][s].pc = "release"]
        /\ UNCHANGED <<shardMap, misses, busy, loop, sweep, todo, serverVars, ctxDone>>

\* The deferred release of the busy flag; the goroutine ends.
release(w, s) ==
    /\ check[w][s].pc = "release"
    /\ busy' = busy \ {s}
    /\ check' = [check EXCEPT ![w][s] = Idle(s)]
    /\ UNCHANGED <<shardMap, misses, loop, sweep, todo, pools, serverVars, ctxDone>>

-----------------------------------------------------------------------------
CheckStep(w, s) ==
    \/ \E i \in Positions(check[w][s].shard) : pingNode(w, s, i)
    \/ WriteBack(w, s)
    \/ Promote(w, s)
    \/ \E i \in 1 .. Len(check[w][s].shard.replicas) : WitnessVote(w, s, i)
    \/ Tally(w, s)
    \/ PgPromoteSend(w, s)
    \/ PgPromoteUnsent(w, s)
    \/ PgPromoteDone(w, s)
    \/ PgPromoteFailed(w, s)
    \/ Swap(w, s)
    \/ Drain(w, s)
    \/ release(w, s)

SweepStep(w) ==
    \/ Snapshot(w)
    \/ \E shard \in todo[w] : SkipBusy(w, shard) \/ BeginCheck(w, shard)
    \/ SweepDone(w)

Next ==
    \/ \E w \in Sweeps : Launch(w)
    \/ Cancel
    \/ LoopExit
    \/ RunReturn
    \/ \E w \in Sweeps : SweepStep(w)
    \/ \E w \in Sweeps, s \in Shards : CheckStep(w, s)
    \/ ServerStep /\ UNCHANGED checkerVars

Spec == Init /\ [][Next]_vars

\* The ticker ticks, goroutines are scheduled, every backend call returns (all
\* of them run under a timeout), a promotion that was signalled completes, and
\* a WAL receiver notices in the end that its primary is gone.
Fairness ==
    /\ WF_vars(\E w \in Sweeps : Launch(w))
    /\ WF_vars(LoopExit)
    /\ WF_vars(RunReturn)
    /\ \A w \in Sweeps : WF_vars(SweepStep(w))
    /\ \A w \in Sweeps, s \in Shards : WF_vars(CheckStep(w, s))
    /\ \A a \in Standbys :
          /\ WF_vars(FinishPromotion(a) /\ UNCHANGED checkerVars)
          /\ WF_vars(Upstream(a) \notin alive /\ LoseStream(a) /\ UNCHANGED checkerVars)

FairSpec == Spec /\ Fairness

-----------------------------------------------------------------------------
(* Properties *)

TypeOK ==
    /\ BackendsTypeOK
    /\ shardMap \in [Shards -> Shard]
    /\ misses \in [Addrs -> 0 .. MissCap]
    /\ busy \subseteq Shards
    /\ loop \in {"start", "select", "wait", "returned"}
    /\ sweep \in [Sweeps -> {"idle", "launched", "sweeping"}]
    /\ todo \in [Sweeps -> SUBSET Shard]
    /\ check \in [Sweeps -> [Shards -> Checks]]
    /\ pools \subseteq Addrs

\* "At most one check runs per shard at a time", whatever the number of sweeps
\* that overlap: the busy flag is up exactly while one goroutine owns it
\* (Checker.tryAcquire and release).
OneCheckPerShard ==
    \A s \in Shards :
        /\ s \in busy <=> \E w \in Sweeps : check[w][s].pc # "idle"
        /\ \A v, w \in Sweeps :
              check[v][s].pc # "idle" /\ check[w][s].pc # "idle" => v = w

\* From the moment a check has written its entry back until Promote swaps it,
\* the entry in the map is the one the decision to fail over was made on:
\* nothing else writes that shard, however long the votes and pg_promote()
\* take (the comment on Checker, and Controller.Promote's single Get).
OwnEntry ==
    \A w \in Sweeps, s \in Shards :
        LET c == check[w][s]
        IN  /\ c.pc \in {"promote", "vote", "pg_promote", "promoting", "swap"} =>
                  shardMap[s] = c.shard
            /\ c.pc = "drain" => shardMap[s] = Promoted(c.shard, c.cand)

\* A failover that is under way was earned: its primary has missed
\* DownAfterMisses heartbeats in a row, the last one included (checkShard and
\* recordResult, over several sweeps).
DownConfirmed ==
    \A w \in Sweeps, s \in Shards :
        check[w][s].pc \in {"promote", "vote", "pg_promote", "promoting", "swap", "drain"} =>
            misses[check[w][s].shard.primary.addr] >= DownAfterMisses

\* "We never route writes at a node that can't accept them": with pg_promote
\* on, the primary of an entry has left recovery, also when a promotion times
\* out, is retried on another candidate, or completes late.
RoutedPrimaryWritable ==
    PgPromote => \A s \in Shards : shardMap[s].primary.addr \notin standby

\* The split-brain guard: as long as no node of a shard has crashed and no
\* standby has lost its primary, nothing is promoted there, whatever the proxy
\* itself can or cannot reach (Controller.checkQuorum, quorumAllowsPromotion).
PartitionNeverPromotes ==
    QuorumGuard /\ LossyLinks = {} =>
        \A s \in Shards : Members(s) \cap crashed = {} =>
            /\ shardMap[s].primary.addr = Config[s].primary
            /\ ConfiguredReplicas(s) \subseteq standby \ promoting

\* The checker keeps no pool for a node that has left the map, once the drain
\* of its failover is through (Controller.Promote, pool.Manager.DrainAsync).
PoolsFollowMap ==
    \A s \in Shards : \A a \in pools \cap Members(s) :
        \/ a \in MemberAddrs(shardMap[s])
        \/ \E w \in Sweeps : /\ check[w][s].pc = "drain"
                            /\ check[w][s].shard.primary.addr = a

\* The nodes of an entry are always different from one another: no failover
\* leaves its candidate, or the primary it deposes, behind as a replica
\* (selectPromotionCandidate's remaining, Controller.Promote).
NoNodeTwice ==
    \A s \in Shards : \A i, j \in Positions(shardMap[s]) :
        NodeAt(shardMap[s], i).addr = NodeAt(shardMap[s], j).addr => i = j

\* A replica that does not answer "keeps its last known lag rather than being
\* reset to 0, which would make a dead replica look perfectly fresh": in no
\* entry that replaces another, after heartbeats or a failover, has the lag of
\* a replica changed that is not UP (pingNode, checkShard, Promote).  This is
\* so with one sweep at a time: a second one may write a stale entry back.
SilenceKeepsLag ==
    [][\A s \in Shards :
          \A n \in ToSet(shardMap'[s].replicas), old \in ToSet(shardMap[s].replicas) :
              n.addr = old.addr /\ n.status # "UP" => n.lagMS = old.lagMS]_vars

\* Once Run has returned, no goroutine of the checker touches the shard map,
\* the misses or the pools any more (the deferred inflight.Wait in Run): the
\* pools may be closed.
QuietAfterReturn == [][loop = "returned" => UNCHANGED checkerVars]_vars

\* A failover is final: the primary of a shard only ever changes to a node
\* that is one of its replicas at that moment ("replace a shard's entry ...
\* nothing else writes that shard concurrently").
FailoverIsNotUndone ==
    [][\A s \in Shards :
          shardMap'[s].primary.addr # shardMap[s].primary.addr =>
              shardMap'[s].primary.addr \in ReplicaAddrs(shardMap[s])]_vars

\* A WAL receiver that is not streaming means that "from this node's vantage
\* point" its primary is gone (backends.WalReceiverStreaming): no primary that
\* has never crashed is deposed while every other node of its shard runs.
GuardProtectsPrimary ==
    [][QuorumGuard => \A s \in Shards :
          shardMap'[s].primary.addr # shardMap[s].primary.addr =>
              \/ shardMap[s].primary.addr \in crashed
              \/ ReplicaAddrs(shardMap[s]) \cap crashed # {}]_vars

\* What readers of the map are promised (ShardTopology).
Topology == INSTANCE ShardTopology WITH
    FirstPrimary  <- [s \in Shards |-> Config[s].primary],
    FirstReplicas <- [s \in Shards |-> ConfiguredReplicas(s)],
    topology      <- [s \in Shards |->
        [primary  |-> shardMap[s].primary.addr,
         replicas |-> ReplicaAddrs(shardMap[s]),
         down     |-> {NodeAt(shardMap[s], i).addr :
                          i \in {j \in Positions(shardMap[s]) :
                                    NodeAt(shardMap[s], j).status = "DOWN"}}]]

\* While sweeps do not overlap, every step of the checker is a round of
\* heartbeats, a failover, or nothing, to whoever reads the shard map
\* (Map.Set, called from checkShard and from Promote).
ImplementsTopology == Topology!Spec

\* A shard whose primary is dead for good is served again, and stays served:
\* vetoed, failed and timed-out attempts are retried on every sweep until one
\* succeeds (attemptFailover).
FailoverHappens ==
    \A s \in Shards :
        shardMap[s].primary.addr \notin alive ~>
            [](shardMap[s].primary.addr \in alive)

\* A cancelled checker stops: Run returns, with failovers in flight or not.
ShutdownCompletes == ctxDone ~> loop = "returned"
=============================================================================
