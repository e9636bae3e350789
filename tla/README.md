# DBFabric: a TLA+ model of the sharding proxy

DBFabric is a PostgreSQL sharding proxy. Clients speak the PostgreSQL protocol
to it; it hashes a shard key to a shard, picks the primary or a replica of that
shard, and forwards the query over a pooled connection. A health checker pings
every node and, when a primary is confirmed dead, promotes a replica and
reroutes the shard. This directory models the parts of the proxy in which
ordering, concurrency and failure matter, model-checks them with TLC on small
instances, and proves the main safety properties with TLAPS for all instances.

## Inventory

| Part | State | Operations | What is hard | What makes it correct |
|---|---|---|---|---|
| `internal/shardmap` | shard ID -> entry (primary, replicas, status, lag), one RWMutex | `Get`, `Set`, `All` | entries are shared pointers; `All` is a snapshot that ages | entries are replaced whole, never mutated |
| `internal/health` checker | misses per address, busy flag per shard, sweeps in flight | `Run`, `sweep`, `tryAcquire`/`release`, `checkShard`, `pingNode`, `recordResult` | sweeps overlap; a check lasts as long as a failover; cancellation in the middle | one check per shard; a failover rests on consecutive misses; `Run` ends and leaves nothing behind |
| `internal/health` controller | none of its own | `Promote`, `checkQuorum`, `selectPromotionCandidate` | votes that abstain, `pg_promote()` that times out and completes later, retries on another candidate | writes are never routed to a standby; a partition of the proxy is not a failover |
| `internal/health` backends | PostgreSQL servers (external) | `Ping`, `ReplicationLagMS`, `WalReceiverStreaming`, `PgPromote`, `Drain` | every call may fail although the server runs | `PgPromote` is idempotent |
| `internal/pool` | address -> pool, one mutex | `Get`, `Drain`, `DrainAsync`, `Close` | pools are built and closed outside the mutex; shutdown does not wait for clients | no pool leaks, none is closed under a query, drains and shutdown end |
| `internal/router` ring | sorted points, point -> shard | `AddShard`, `RemoveShard`, `ShardFor` | collisions, wrap-around, two tables to keep in step | the clockwise owner; only the added or removed shard's keys move |
| `internal/router` | the ring and the map, each with its lock | `AddShard`, `Resolve`, `pickReplica` | two reads under two locks | a shard on the ring is in the map; the node fits the request |
| `internal/proxy` query path | none | `handleQuery`, `isTransactionControl`, `consistencyFromQuery`, `streamResult` | resolve, get the pool, query: a failover may fall between any two | a result is acknowledged once the statement is complete |
| `internal/proxy` listener, protocol | one goroutine per client | `Run`, `handleConn`, message framing | clients outlive the listener | one `ReadyForQuery` per command |
| `internal/app` | the wiring | `New`, `Run` | order of shutdown | checker stopped, then pools closed |
| `internal/config` | none | `Load`, `resolveHealth`, `resolveRouting` | fields given, omitted and zero in any combination; what one layer lets through the next must catch | the checker can run with whatever `Load` accepts; no shard hides another |
| `internal/simulator` | a map and a list of events of its own, one RWMutex | `State`, `Route`, `Action` (toggle, lag, promote, reset) | one goroutine per request; waiting writers keep readers out; long sequences of actions | answers are true of one state; no node is lost or doubled; every request is answered |
| `cmd/dbfabric` | none | `main` | | a bad file ends it, else it runs the proxy or the simulator |
| `internal/metrics`, `internal/chaos` | | | | an empty package; tests |

They interact through the shard map (written by the checker and the controller,
read by the router), through the pools (used by clients and by the checker, and
drained by the controller), and through the context that stops everything. The
simulator shares the router and the shape of the map with the proxy, but no state.

## Modules

| Module | Models |
|---|---|
| `ShardIDs` | the names of shards, which ring and map share |
| `ShardMap` | entries, nodes, `Set`, `All` |
| `Failover` | `selectPromotionCandidate`, `quorumAllowsPromotion`, the promoted entry |
| `Backends` | the PostgreSQL servers (external) and what the calls of the `backends` interface may answer |
| `HealthChecker` | `Checker` and `Controller` over `Backends` |
| `ShardTopology` | abstract: what readers of the map are promised |
| `CandidateLoop` | the two loops of `selectPromotionCandidate`, one iteration per step |
| `PoolManager` | `pool.Manager`, its users, the shutdown order of `app.Run` |
| `QueryPath` | composition: `handleQuery` from `Resolve` to the end of the query, over the pools of `PoolManager` and the map of `ShardTopology`, while the checker fails the shard over |
| `Ring`, `Router` | the hash ring, and `AddShard`/`Resolve` over ring and map |
| `Slices` | filtering and sorting of slices, as loops of the code do it; used by `Ring` and `Resolution` |
| `Resolution` | `pickReplica` and the choice of `Resolve`, used by `Router` and `Simulator` |
| `SQLText` | `leadingKeyword`, `isTransactionControl`, `consistencyFromQuery` on token sequences, and PostgreSQL's reading of the same text (external) |
| `Session` | the listener, `handleConn`, `handleQuery`, `streamResult`, for several clients that share pools |
| `Config` | `config.Load` with its defaults and checks, and `withDefaults` of the checker |
| `Simulator` | `cmd/dbfabric` and `internal/simulator` |
| `MCHealthChecker`, `MCCandidateLoop`, `MCRouter`, `MCSession`, `MCSimulator` | the small instances; `PoolManager`, `QueryPath` and `Ring` are checked as they are |
| `HealthCheckerProofs`, `FailoverSafetyProofs`, `CandidateLoopProofs`, `QueryPathProofs`, `RouterProofs`, `SessionProofs`, `SimulatorProofs` | theorems |
| `ListFacts` | lemmas on induction and sequences: removal, filtering, sorting, folds |

Some operators are introduced by a comment "A mutant": they are not part of the
specification. Each is a plausible mistake in the definition that follows it, and is
used to confirm that a property would notice.

### HealthChecker

A step is what happens between two points at which another goroutine can be
observed: a section under a mutex, or a call to a backend.

* `Launch`, `LoopExit`, `RunReturn`: the loop of `Run`, its `select`, and the
  deferred `inflight.Wait()`.
* `Snapshot`, `SkipBusy`, `BeginCheck`, `SweepDone`: `sweep`. The snapshot is
  taken before any busy flag is, as in the code.
* `pingNode`, `WriteBack`: `checkShard`. The pings of a check run in any order.
* `Promote`, `WitnessVote`, `Tally`, `PgPromoteSend` / `Unsent` / `Done` /
  `Failed`, `Swap`, `Drain`: `Controller.Promote`. `PgPromoteSend` is the moment
  the server starts to promote itself; the promotion completes by
  `FinishPromotion`, before or after the caller has given up.
* `release`: the deferred release of the busy flag.

`check[w][s]` is the goroutine that sweep `w` started for shard `s`. `pools` is
the set of addresses that have a pool, which is what `PoolsFollowMap` needs;
`PoolManager` has the details. Timeouts are not clocks: a call to a node that
does not run, is listed in `Flaky`, or is made after the context was cancelled may
fail, and `pg_promote()` may be given up at any time before it has completed.
`lastFailoverErr` only suppresses repeated log lines and is left out.

`Backends` keeps of a server whether it runs, is in recovery, is being
promoted, and streams. A standby streams from the configured primary for
as long as it is a standby, since nothing repoints it. A server killed
while it promotes comes back as a standby. The configuration is assumed
to name every node once (`DistinctMembers`); `config.Load` does not check this,
and miss counts, which are kept per address, would mix if it did not hold.

### PoolManager

`Get` is `Lookup`, `NewPool` (or `NewPoolFails`) and `Install`, since the mutex
is free while the pool is built. `pgxpool.Close` is external: it begins
(no connection is handed out), waits for the connections that are out, and ends.
Users are client goroutines, which `app.Run` does not wait for, and
probes of the checker, which it does. `Drain` and `DrainAsync` take the same steps and
differ in who waits.

### QueryPath

A client goroutine reads a query (`ReadQuery`), resolves it (`Resolve`), and goes
through the steps of `PoolManager` with the address it got, however old that
is (`Get`, `ClientStep`). The checker observes (`Observe`), swaps the primary
(`Swap`) and drains the old one's pool (`Drain`), which is a step later, as in
`Controller.Promote`. `query[u].allowed` is history that no action reads: the nodes the query's
level has allowed since the query was read.

The map is `ShardTopology`, the abstract specification which `HealthChecker`
implements while its sweeps do not overlap (`hc_single`, and the theorem
`CheckerImplementsTopology`). `CheckerIsFree`
carries over one fact of `HealthChecker` that the abstraction has lost: the pings,
the votes and `pg_promote()` of a check have returned when it swaps. The lag is left
out: a bounded read may get any usable replica, or the primary.

A query resolved just before a failover may still build a pool for the deposed
node after its drain. `QueriesFollowFailover` says that no other query
reaches it, and `DeposedFallsSilent` that in the end none does.

### Ring and Router

CRC-32 becomes an arbitrary function from virtual nodes to a small
circle, chosen at the start, so collisions are common. `Resolve` is two steps
because ring and map are locked separately; `AddShard` too. `app.New`
registers all shards before anything is served; the model lets `AddShard` run at
any time, as the locks of both structures do.

### Session and SQLText

`pc[s]` is where the goroutine of a client is: in the handshake (`Decline`,
`StartupFails`, `Greet`), reading a command (`Read...`, `Terminate`), waiting for a
connection (`StartQuery`, `QueryFails`), in `streamResult` (`StreamRow`,
`ValuesFail`, `WriteFails`, `StreamEnd`), in the deferred `rows.Close`
(`CloseRows`), or about to send ReadyForQuery (`Respond`). `reply` holds the
messages written for the current command, by type. The server runs the
statement on its own (`Execute`), so that what the client is told and what has
happened can be compared; after `Respond` the command is forgotten.

A client that goes away makes reads fail; writes go through a buffer, so
they may still succeed for a while. The node is reduced to its role, since `Router` has the
choice; `Resolve` and `Get` may fail.

Texts are sequences of tokens: words, line ends, the delimiters of comments, and what
`leadingKeyword` and PostgreSQL see differently. There are five such things: a block
comment inside another, the delimiter `/*/`, a carriage return without a line feed, a
form feed (any white space other than blank, tab and line ends), and an empty statement. `closing` searches for the end of a block
comment from its opening delimiter on, as `strings.Index(s, "*/")` does, so that
`/*/` ends at once. `ServerReads` counts in `odd` how many of the five stand in front of the
statement; `TransactionsStayOut` is about the texts with none.

### Config and Simulator

A file is a record; a field that it may omit is a set with at most one element.
`Load` is a row of checks in the order of the code (`FileError`, then one
`ShardError` per turn of its loop), of which the `First` that fails has its error
returned. `rawConfig` is the type of such records. `Init` of `Simulator` is `main`: any of the `Launches` is loaded and
leads to the proxy, to the simulator, or to an error.

A request is in one of the phases of its goroutine: waiting for the read lock
(`"state"`, `"route"`), waiting for the write lock (`"lock"`), between the two
reads of the map in `Route` (`"describe"`). State and each action are
single steps, since the lock is held throughout; after an action
`handleSimulate` goes for the lock again to return the state. What is asked for is
chosen when the step is taken. A request that is refused before it reaches the
simulation changes nothing and is not a step. `Interrupt` contains the
shutdown: requests under way either end before it or are cut off by it.

The simulator's promote differs from the controller's: the old primary stays
in the shard, as a DOWN replica, and the new one keeps its lag.
`PromotesLikeController` compares the choice, which is the same.

## Runs

| Run | Checks | Instance |
|---|---|---|
| `hc_single` | `TypeOK`, `DownConfirmed`, `RoutedPrimaryWritable`, `PartitionNeverPromotes`, `PoolsFollowMap`, `NoNodeTwice`, `SilenceKeepsLag`, and that `HealthChecker` implements `ShardTopology` | one sweep at a time, one shard, two replicas, thresholds 1 and 2; all nodes unreachable at times, the primary and a replica crash, the replica restarts |
| `hc_overlap` | `OneCheckPerShard`, `OwnEntry`, `QuietAfterReturn`, `ShutdownCompletes` | two sweeps in flight, one replica, thresholds 1 and 2, cancellation, a primary that is unreachable, crashes, restarts |
| `hc_liveness` | `FailoverHappens` | a shard with two replicas, one of which crashes while the other's link is bad, beside a shard with no replica and an unreachable primary |
| `candidate_loop` | `LoopSelectsCandidate` | every list of at most three replicas, three lags |
| `query_path` | `PathTypeOK`, `NoPoolLeaks`, `RegisteredPoolsWork`, `MembersKeepTheirPool`, `QueriesFollowFailover`, `DrainCompletes`, `CloseCompletes`, `DeposedFallsSilent` | a primary and a replica, a client and a probe, three pool identities, all levels |
| `ring` | `TablesAgree`, `ShardForIsOwner`, `OnlyItsKeysMove` | three shards, two virtual nodes each, four points, every hash function |
| `router` | `NeverMissing`, `AnswerFitsRequest` | two shards, all levels, ceilings -1, 0 and 1 |
| `session` | `TypeOK`, `ReplyWellFormed`, `AcknowledgedIsDone`, `ConnectionsComeBack`, `TransactionsStayOut`, `CommandsAnswered` | two sessions, one connection per node, results of at most one row, every text of at most four of the usual tokens, every one of at most four of all tokens with BEGIN as the only word, and three longer ones |
| `simulator` | `TypeOK`, `ConfigurationIsKept`, `RouteTellsTheTruth`, `NewestEventHolds`, `PromotesLikeController`, `CheckerCanRun`, `RequestsAnswered` | 156 launches: thresholds and intervals given and omitted, one fault of each kind, one shard with two replicas, two shards, two shards that share an address; two requests at a time |

Three runs show a disagreement between the code and what is said of it; each
checks one property and ends in a counterexample.

* `hc_stale_snapshot` (`FailoverIsNotUndone`). The busy flag keeps two checks of
  a shard from running together, but not from running one after the other on an old
  snapshot: sweep 2 takes its snapshot, sweep 1 fails the shard over and
  releases the flag, sweep 2 acquires it and writes the entry with the old primary
  back. Since `Promote` has dropped its pool, a new one is made for it. The
  next sweep that finds it DOWN fails over again, and meets a node that is already a
  primary, which counts as success. `FailoverHappens` in its "and stays served" form
  therefore holds with one sweep at a time only.
* `hc_second_failover` (`GuardProtectsPrimary`). After a failover the surviving
  replicas have no WAL receiver, so all of them vote "cannot see" about the new
  primary: the guard no longer guards.
* `pool_shutdown` (`NothingOpenAfterClose`). A client goroutine may register a
  pool after `Manager.Close` has detached the others.

Smaller disagreements are not given a run.

* The repository's README says that writes always go to the primary (lines 20 and
  162). `handleQuery` reads the hint from any query, so `-- consistency=eventual`
  before an INSERT sends it to a replica, which refuses it.
* The comments on `Drain` and `DrainAsync` in `pool.go` rest on nothing new being
  routed to the node. A query that was resolved before the swap may call `Get`
  after the drain; the pool it builds stays registered until the manager is closed.
* A replica that has never answered has lag 0, and so satisfies any ceiling until it is
  DOWN. `SilenceKeepsLag` shows that one that has answered keeps its last lag.
* Line 274 of the repository's README says that BEGIN and the others are refused. There
  are five ways to have one forwarded, all of which the model reaches: behind a
  nested block comment, which `leadingKeyword` ends at the first `*/`
  (`/* /* */ */ BEGIN`); behind `/*/ */`, which it takes for a whole comment and a
  stray `*/`; behind a line comment that ends in a carriage return alone
  (`-- x\rBEGIN`), which it reads on to the next line feed; behind a form
  feed, which it does not skip; and behind an empty statement (`;BEGIN`).
  `TransactionsStayOut` excepts the texts with one of these in front of
  the statement, and shows that nothing else that the tokens can express does it.
* A word with something glued to it (`BEGIN1`) is refused as transaction control,
  although to PostgreSQL it is a syntax error.
* Lines 36 and 174 of the repository's README have bounded staleness read from a replica with
  `lag < X`. `pickReplica` takes one with `lag <= X`, as the comment on
  `BoundedStaleness` (router.go, line 18) says; `AnswerFitsRequest` follows the code, and its run has lags equal to
  the ceiling.
* `Options.QuorumGuard` and `config/shards.example.yaml` speak of a majority of the
  replicas; the code, and the comment on `checkQuorum`, mean a majority of the
  replicas that answered.

### Bounds

* `Sweeps`: sweeps in flight together. Two are enough for any pair of them to
  interleave; a sweep that has ended is reused, so the number of sweeps in a run is not bounded.
* `MissCap`: the miss count saturates at the DOWN threshold or above, where
  nothing tells larger counts apart.
* `Pools`: identities of pools; a closed pool nobody refers to is reused.
* Two lag values are enough to make any replica the least lagged and to tie.
* Four ring points for six virtual nodes: every pattern of collision, every wrap.
* `MaxRows` is 1: a reply may fail before, after and instead of a row. One
  connection per pool makes sessions wait; two sessions are enough for one to starve another.
* `query_path` has two addresses, so one failover, after which the shard has a single
  node; what a stale query meets is a deposed primary either way. The first
  primary's pool may be drained, rebuilt and closed, with three identities
  for pools, so one can be built while another closes.
* `MaxEvents` is 1 (8 in the code): the list is full after one action, so cutting it is
  the usual case. Two requests are enough for a reader, a writer and the
  order between them; lags are 0 and 1, ceilings -1 (none), 0 (the configured one) and 1.

### Fairness

`HealthChecker!Fairness`: the ticker ticks, goroutines are scheduled, and
every backend call returns, which the timeouts in `pingNode`, `checkQuorum` and
`attemptFailover` guarantee. Of the servers it asks that a promotion that was signalled
completes, and that a WAL receiver notices the death of its primary
(`wal_receiver_timeout`, which the comment on `Controller` relies on). Nothing
is assumed to reconnect, restart or stop being flaky.

`PoolManager!Fairness`: goroutines are scheduled and a query ends. The latter needs a
client that reads its rows: `streamResult` writes to the client without
a deadline.

`QueryPath!PathSpec` asks the same of its goroutines. Clients need not send a query,
and the checker need not observe or fail over.

`Simulator!Fairness`: goroutines are scheduled. Reading is strongly fair
because `sync.RWMutex` lets the readers that waited for a writer go before
the next writer.

`Session!Fairness`: goroutines are scheduled, a statement ends (or its connection
breaks), and a client reads what it is sent or goes away. Taking a connection is
strongly fair because pgxpool serves waiters in turn. The client that stays
and does not read is the one case excluded: it would hold its connection for ever.

## Proofs

Every theorem holds for all values of the constants that satisfy the assumptions
in the last column; TLC evaluates those on every run of the module.

| Theorem | Says | Module, assumptions |
|---|---|---|
| `TypeCorrect`, `MutualExclusion`, `FailoverOwnsEntry`, `QuietOnceReturned` | `TypeOK`, `OneCheckPerShard`, `OwnEntry`, `QuietAfterReturn` | `HealthChecker`: `ConfigType`, `DistinctMembers`, `FaultsType`, `Thresholds`, `Switches` |
| `MembershipIsSound`, `WritesReachAPrimary`, `FailoverIsEarned`, `PartitionIsVetoed` | `NoNodeTwice`, `RoutedPrimaryWritable`, `DownConfirmed`, `PartitionNeverPromotes` | the same |
| `CheckerImplementsTopology`, `FailoverIsFinal`, `SilentReplicasKeepTheirLag`, `PoolsDoFollowTheMap` | the refinement of `ShardTopology`, `FailoverIsNotUndone`, `SilenceKeepsLag`, `PoolsFollowMap` | the same, and `OneSweep` |
| `LoopIsCorrect` | `LoopSelectsCandidate` | `CandidateLoop`: `ReplicaListsType` |
| `PoolsDoNotLeak`, `RegisteredPoolsAreSound` | `NoPoolLeaks`, `RegisteredPoolsWork` | `PoolManager`: `AddrsAssumption`, `UsersAssumption` |
| `PathUsesPools`, `QueriesAreRouted`, `PoolsOfMembersStay`, `PathTypeCorrect` | `PathSpec => Spec` of `PoolManager`, `QueriesFollowFailover`, `MembersKeepTheirPool`, `PathTypeOK` | `QueryPath`: `QueryPathAssumption` too |
| `TablesDoAgree`, `ShardForFindsTheOwner`, `OnlyTheirKeysMove` | `TablesAgree`, `ShardForIsOwner`, `OnlyItsKeysMove` | `Ring`: `RingAssumption` |
| `NeverOnTheRingOnly`, `AnswersFit` | `NeverMissing`, `AnswerFitsRequest` | `Router`: `RouterAssumption` too |
| `ReadersAgree` | `leadingKeyword` and PostgreSQL agree on transaction control in every text without one of the five things they see differently | `SQLText`: none |
| `SessionTypeCorrect`, `ConnectionsDoComeBack`, `AcknowledgementsAreTrue`, `RepliesAreWellFormed`, `TransactionsDoStayOut` | `TypeOK`, `ConnectionsComeBack`, `AcknowledgedIsDone`, `ReplyWellFormed`, `TransactionsStayOut` | `Session`: `SessionAssumption` |
| `LoadAcceptsCoherentFiles` | `Load` accepts a file if and only if it is `Coherent` | `Config`: none |
| `SimulatorTypes`, `CheckerRuns`, `NoNodeIsLost`, `EventsAreTrue`, `PromotionsAgree`, `RoutesTruly` | `TypeOK`, `CheckerCanRun`, `ConfigurationIsKept`, `NewestEventHolds`, `PromotesLikeController`, `RouteTellsTheTruth` | `Simulator`: `SimulatorAssumption` |
| `NamedOnceServesOnce` | while serving a file that names no address twice, no address serves twice | the same |

### The checker

The first eight theorems hold for any number of shards, replicas and overlapping
sweeps, and every set of flaky, crashing and restarting nodes. The invariants are
built up in layers, each inductive relative to the ones before.

1. `TypeInv`: `TypeOK`, and a candidate that has been chosen is a position of the entry
   it was chosen from; `Swap` is not well typed without it.
2. `ExclusionInv` adds `OneCheckPerShard`. `CheckFrame` (what a step of
   a check leaves alone) and `StepKinds` (which steps touch entries or checks at
   all) reduce every later argument to a check's steps, a `BeginCheck`, and the rest.
3. `OwnInv` adds `OwnEntry`, which needs exclusion: another check of the shard
   would write the entry.
4. `EntriesInv` adds that every entry, in the map, in a snapshot however old, or in
   the hands of a check, lists different members of its shard, the replicas among
   the configured replicas.
5. `WritableInv`: every primary that may still be written to the map, stale
   snapshots included, has left recovery, and so has the candidate of a check about to
   swap. Servers never re-enter recovery, so age does not matter.
6. `DownInv`: a check that has decided to fail over saw its primary at the
   threshold, and no other check pings that node, because
   shards do not share nodes and the shard's busy flag is up.
7. `GuardInv`: in a shard none of whose nodes has crashed all standbys stream,
   every entry names the configured primary, no check has a vote
   against it and none is past the guard.
8. `SweepsInv`: a sweep that does not run has nothing left to do, and when `Run` has
   returned none runs.

The other four are about what readers of the map see, and have the hypothesis
`OneSweep`: `Sweeps` has at most one element, as in `hc_single`, so that a sweep
ends before the next begins. It is needed, not convenient:
`hc_stale_snapshot` is a counterexample to the first two without it, and the code
does not enforce it (a sweep overlaps the next one when it takes longer than the
interval). The number of shards and replicas, and which of them fail, stay arbitrary.

9. `MarkedInv`: a failover under way works on an entry whose primary is marked DOWN,
   with a candidate that is not.
10. `FreshInv`: no snapshot is stale. An entry that is still to be checked is the one in
    the map, and the entry in the hands of a check that pings is the map's with some
    heartbeats applied (`Measured`): the same nodes at the same positions, those
    not heard from yet unchanged, and the lag of one that is not UP unchanged.

With these, `MapSteps` says what a step may do to the map: nothing, `Measured`, or
`Promoted`. `View` maps an entry to its topology; `MeasuredView` and `PromotedView`
show that the two kinds of step are `Observe` and `Failover` of `ShardTopology`.
`PoolsInv` adds `PoolsFollowMap`.

### Pools and queries

`PoolInv` adds to the two properties what each user holds (`HandsInv`: a pool that
was built but not installed belongs to one user; a pool in use is not closed) and
what is being closed (`ClosingInv`). `PathInv` adds `RouteInv`: the
address a client goes to `Get` with is among the nodes its query has been allowed, from
`Resolve` to the end of the query. `KeepInv` adds to `MembersKeepTheirPool` the order of
the checker's work (`CheckerOrder`): it drains a node that has left the map, when
no call of its own is under way, and its calls are for nodes in the map.
With that a drain takes no pool that the property speaks of, and `Install` overwrites none. `PathUsesPools` says that the composition adds
nothing to what `PoolManager` allows, so that the theorems on pools carry over.

### Ring and router

The ring's list is built by filtering and sorting; `ListFacts` proves what these do to
lists of any length. `RingInv` is `TablesAgree` with the types: the list is ascending
and holds exactly the domain of the table of owners. `ShardForFindsTheOwner` and
`OnlyTheirKeysMove` follow from it by comparing distances around the circle.
`RouterInv` adds that a shard on the ring is in the map (`MapInv`) and that a request between its two
reads has a shard that was on the ring (`QueryInv`), so that it still is in the map.

### Sessions

`SessionInv` is a conjunction over the sessions: what a session holds in
each phase (`ConnInv`), what it has written so far (`ReplyInv`), and how its command
relates to what the server has done (`CommandInv`); `CountInv` ties the free
connections of a pool to the sessions that hold one.

`ReadersAgree` compares two readers of one text. `leadingKeyword` jumps from comment
to comment, `ServerReads` is a fold over the tokens; the invariant that relates
them (`Together`) is proved by induction over the position in the text. It holds until
the server's reader has met one of the five things that `odd` counts, each of which
breaks it in earnest (see the disagreements above). A text that is not SQL at all may
be refused as transaction control; a statement that would run is not.

### Configuration and simulator

`SimulatorAssumption` says of the files what their Go types say (`rawConfig`): the
numbers are integers, the lists of shards and replicas have any length, optional fields
may be absent, and names may be missing or repeated. What makes a configuration sound is
not assumed but proved. `LoadAcceptsCoherentFiles` compares the row of checks with one
condition on the whole file, `Coherent`, in both directions: the thresholds and
the ceiling are compared after the defaults are filled in, and "no name is taken by an earlier
shard", which `Load` checks in each turn, is the same as "all names differ".
`CheckerRuns` needs the half about the thresholds, and `New` the half about the names.

`SimInv` is the inductive invariant; TLC checked it on the instance of `simulator`.

* `PhaseInv`: while serving, the configuration is one that `Load` accepted; in any other
  phase there is no map, no event and no request.
* `MapInv`: every shard of the map is well typed (`WellFormed`) and the map holds the
  shards of the configuration (`Kept`) and no others (`OnlyThese`). `Kept` is
  `ConfigurationIsKept`, which counts how often each address occurs in a
  shard. A promotion puts the new primary first and the old one last, and a toggle moves
  nothing; both are permutations of the positions (`MovedNodes`), so no count changes.
* `EventsInv`: the newest event holds in the map. Cutting the list keeps its
  head because `MaxEvents` is at least 1.
* `HandlersInv`: the node that a request is about to describe is a node of the shard it was
  found in, in the map as it is now (`Describes`). This is where the lock
  matters: no action writes while a reader is between its two reads.

Two loops are folds, over replicas (`candidate`) and over the shards in the order of `All`
(`Description`). `LoopFindsCandidate` has as its invariant the best replica so far
(`FoundBy`), and shows that a strict comparison keeps the first of equal lags, as
`selectPromotionCandidate` does. `LoopTellsTruth` has that the shard and the role are
right once the loop has passed the shard, and that no other shard overwrites them.
The latter needs that no address serves twice, the condition in `RouteTellsTheTruth`.
`Load` does not enforce it, and the simulator's answer may be wrong
without it; `NamedOnceServesOnce` says that a file that meets it keeps meeting it.

### How induction over data is done

The library's induction theorems have an operator parameter, which the installed
provers cannot instantiate. `ListFacts` therefore states an
induction over sets (`SetInduction`), from well-foundedness: a set of numbers that contains 0 and the
successor of each of its elements is all of `Nat`. Each use names the set of
numbers for which the claim holds. The folds of the community modules are a CHOOSE of a
recursive function on sets; `FoldingsExist` shows that there is such a function for any
step, and `Turns` that it takes one turn per element, from which the loops are
reasoned about one turn at a time. Other recursion is written as recursive functions and
folds, so no module that is reasoned about has a RECURSIVE operator.

### Only model-checked

Every invariant and every action property of the passing runs, and the refinement, is a
theorem. The liveness properties are not: `FailoverHappens`, `ShutdownCompletes`, `DrainCompletes`,
`CloseCompletes`, `DeposedFallsSilent`, `CommandsAnswered`, `RequestsAnswered`. They rest on
fairness, and so on ENABLED, which is out of the prover's reach.

## Not modelled

* The byte layout of the protocol and the text format of values: encodings without
  state, which their tests cover. Which messages are sent, and in which order, is in `Session`.
* The parsing of YAML and of durations, done by libraries; URLs and credentials.
* The simulator's page, its JSON and its response headers; logging.
* SQL beyond comments and the leading word.
* The empty metrics package. The chaos harness: the faults it causes are those of `Backends`.
* Clocks are replaced by nondeterminism, so nothing is said about how long a
  failover takes.
* That at most one node of a shard is writable: the controller fences nothing,
  and a retry after a `pg_promote()` that timed out may promote a second replica.
