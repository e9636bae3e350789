----------------------------- MODULE Simulator -----------------------------
(***************************************************************************)
(* cmd/dbfabric with the flag -ui: internal/simulator serves a shard map   *)
(* of its own over HTTP, on which routing and failover can be tried out.   *)
(*                                                                         *)
(* Every request has a goroutine.  State and Route read under an RWMutex,  *)
(* Action writes under it; a writer that waits keeps new readers out.      *)
(* Route is two steps, because it reads the map twice under one read lock; *)
(* State and Action are one step each.  The operations the UI asks for are *)
(* chosen when they are carried out.  A request with a wrong method, path  *)
(* or body is refused before it touches anything: it is no step at all.    *)
(***************************************************************************)
EXTENDS Config, Resolution, Failover

CONSTANTS
    Launches,   \* [config : a file, ui : BOOLEAN]: how the program is started
    Handlers,   \* goroutines of requests under way together
    Lags,       \* lags the UI sets
    MaxLags,    \* ceilings a request names; 0 is none
    MaxEvents   \* length of the list of events (8 in the code)

ASSUME SimulatorAssumption ==
    /\ Launches \subseteq [config : rawConfig(Shards, Addrs), ui : BOOLEAN]
    /\ Lags \subseteq Int /\ MaxLags \subseteq Int /\ MaxEvents \in Nat \ {0}

VARIABLES
    cfg,       \* what Load returned
    phase,     \* "fatal", "proxy", "serving" or "exited"
    map,       \* Simulation.shardMap
    events,    \* Simulation.events, the newest first
    handler    \* request -> where its goroutine is

vars == <<cfg, phase, map, events, handler>>

Idle == [pc |-> "idle"]

\* New: the configuration as a map in which every node is UP; a later shard
\* would replace an earlier one of the same name.
New(c) ==
    LET UpNode(a) == [addr |-> a, status |-> "UP", lagMS |-> 0]
        Entry(item) == [id       |-> item.id,
                        primary  |-> UpNode(item.primary),
                        replicas |-> [i \in DOMAIN item.replicas |-> UpNode(item.replicas[i])]]
        last(s) == Max({i \in DOMAIN c.shards : c.shards[i].id = s})
    IN  [s \in {item.id : item \in ToSet(c.shards)} |-> Entry(c.shards[last(s)])]

\* main: Load, and then the simulator or the proxy.
Init ==
    \E l \in Launches :
        /\ cfg = Load(l.config)
        /\ phase = IF cfg.error # NoError THEN "fatal" ELSE IF l.ui THEN "serving" ELSE "proxy"
        /\ map = IF phase = "serving" THEN New(cfg) ELSE <<>>
        /\ events = <<>>
        /\ handler = [h \in Handlers |-> Idle]

Goto(h, where) == handler' = [handler EXCEPT ![h] = where]
At(h, p) == handler[h].pc = p

WriterWaits == \E h \in Handlers : At(h, "lock")
NoReader == \A h \in Handlers : ~At(h, "describe")

\* A request is read and its goroutine goes for the lock.
Receive(h) ==
    /\ phase = "serving" /\ At(h, "idle")
    /\ \E p \in {"state", "route", "lock"} : Goto(h, [pc |-> p])
    /\ UNCHANGED <<cfg, phase, map, events>>

\* State: all of it is read under the lock.  It also ends a successful Action.
State(h) ==
    /\ At(h, "state") /\ ~WriterWaits
    /\ Goto(h, Idle)
    /\ UNCHANGED <<cfg, phase, map, events>>

\* Route, to the return of Resolve.  The ring (see Ring) may send the key to
\* any shard, and its hash may pick any of the candidates there.
RouteResolve(h) ==
    /\ At(h, "route") /\ ~WriterWaits
    /\ \E s \in DOMAIN map, level \in Consistencies, max \in MaxLags :
       \E hash \in 0 .. Len(map[s].replicas) :
          LET ceiling == IF max = 0 THEN cfg.defaultMaxLagMS ELSE max
          IN  Goto(h, IF level = "other" THEN Idle
                      ELSE [pc |-> "describe", shard |-> s,
                            node |-> Pick(map[s], level, hash, ceiling)])
    /\ UNCHANGED <<cfg, phase, map, events>>

\* What Route says of a node: the loop over All, in one of its orders, looks
\* for the address in every shard.
Description(node, order) ==
    FoldLeft(LAMBDA said, s :
        LET first == IF map[s].primary.addr = node.addr
                     THEN [shardID |-> s, role |-> "primary"] ELSE said
        IN  IF node.addr \in ReplicaAddrs(map[s]) THEN [first EXCEPT !.shardID = s] ELSE first,
        [shardID |-> NoName, role |-> "replica"], order)

\* A mutant: Route calls State for the list of shards, and so asks for the
\* read lock it already holds.
describeRelocks(h) ==
    /\ At(h, "describe") /\ ~WriterWaits
    /\ Goto(h, Idle)
    /\ UNCHANGED <<cfg, phase, map, events>>

\* Route, to its return: the node is described and the lock given back.
RouteDescribe(h) ==
    /\ At(h, "describe")
    /\ Goto(h, Idle)
    /\ UNCHANGED <<cfg, phase, map, events>>

-----------------------------------------------------------------------------
(* Action, under the write lock *)

\* A mutant: Action does not take the lock.
unlocked(h) == At(h, "lock")

Locked(h) == At(h, "lock") /\ NoReader

\* A mutant: reset leaves the events alone.
resetMapOnly(h) ==
    /\ Locked(h)
    /\ map' = New(cfg)
    /\ Goto(h, [pc |-> "state"])
    /\ UNCHANGED <<cfg, phase, events>>

\* "reset"
Reset(h) ==
    /\ Locked(h)
    /\ map' = New(cfg)
    /\ events' = <<>>
    /\ Goto(h, [pc |-> "state"])
    /\ UNCHANGED <<cfg, phase>>

\* An unknown shard, node or action, or no replica to promote: an error, and
\* nothing is changed.
Refuse(h) ==
    /\ Locked(h)
    /\ Goto(h, Idle)
    /\ UNCHANGED <<cfg, phase, map, events>>

\* A mutant: the list of events is never cut.
commitUncut(h, shard, event) ==
    /\ map' = Set(map, shard.id, shard)
    /\ events' = <<event>> \o events
    /\ Goto(h, [pc |-> "state"])
    /\ UNCHANGED <<cfg, phase>>

\* The end of a successful Action: Set, and the event at the head of the list.
Commit(h, shard, event) ==
    /\ map' = Set(map, shard.id, shard)
    /\ events' = SubSeq(<<event>> \o events, 1, Min({MaxEvents, Len(events) + 1}))
    /\ Goto(h, [pc |-> "state"])
    /\ UNCHANGED <<cfg, phase>>

toggleStatus(status) == IF status = "DOWN" THEN "UP" ELSE "DOWN"

\* "toggle", on the primary; event: it is now UP or DOWN.
TogglePrimary(h, s) ==
    LET status == toggleStatus(map[s].primary.status)
    IN  /\ Locked(h)
        /\ Commit(h, [map[s] EXCEPT !.primary.status = status],
                  [kind |-> "toggle", shard |-> s, node |-> map[s].primary.addr, status |-> status])

\* "toggle", on a replica: the last one with this address names the status.
ToggleReplica(h, s, i) ==
    LET a == map[s].replicas[i].addr
        new == [j \in DOMAIN map[s].replicas |->
                  LET r == map[s].replicas[j]
                  IN  IF r.addr = a THEN [r EXCEPT !.status = toggleStatus(@)] ELSE r]
    IN  /\ Locked(h)
        /\ a # map[s].primary.addr
        /\ \A j \in i + 1 .. Len(map[s].replicas) : map[s].replicas[j].addr # a
        /\ Commit(h, [map[s] EXCEPT !.replicas = new],
                  [kind |-> "toggle", shard |-> s, node |-> a, status |-> new[i].status])

\* "lag", on a replica
SetLag(h, s, a, lag) ==
    /\ Locked(h)
    /\ a \in ReplicaAddrs(map[s])
    /\ Commit(h, [map[s] EXCEPT !.replicas = [j \in DOMAIN @ |->
                     IF @[j].addr = a THEN [@[j] EXCEPT !.lagMS = lag] ELSE @[j]]],
              [kind |-> "lag", shard |-> s, node |-> a, lagMS |-> lag])

\* A mutant: the later of two equally lagged replicas is chosen.
latest(replicas) ==
    FoldLeftDomain(LAMBDA best, i :
        IF replicas[i].status # "DOWN" /\ (best = 0 \/ replicas[i].lagMS <= replicas[best].lagMS)
        THEN i ELSE best, 0, replicas)

\* The loop of "promote": the position of the candidate, 0 if there is none.
candidate(replicas) ==
    FoldLeftDomain(LAMBDA best, i :
        IF replicas[i].status # "DOWN" /\ (best = 0 \/ replicas[i].lagMS < replicas[best].lagMS)
        THEN i ELSE best, 0, replicas)

\* A mutant: the old primary leaves the shard, as it does in the Controller.
promoteDropsOld(h, s) ==
    LET replicas == map[s].replicas
        c == candidate(replicas)
    IN  /\ Locked(h)
        /\ c # 0
        /\ Commit(h, [map[s] EXCEPT !.primary = [replicas[c] EXCEPT !.status = "UP"],
                                    !.replicas = RemoveAt(replicas, c)],
                  [kind |-> "promote", shard |-> s,
                   node |-> replicas[c].addr, old |-> map[s].primary.addr])

\* "promote": the candidate is the primary, and UP; the old primary is the
\* last of the replicas, and DOWN.
Promote(h, s) ==
    LET replicas == map[s].replicas
        c == candidate(replicas)
    IN  /\ Locked(h)
        /\ c # 0
        /\ Commit(h, [map[s] EXCEPT
                        !.primary = [replicas[c] EXCEPT !.status = "UP"],
                        !.replicas = Append(RemoveAt(replicas, c),
                                            [map[s].primary EXCEPT !.status = "DOWN"])],
                  [kind |-> "promote", shard |-> s,
                   node |-> replicas[c].addr, old |-> map[s].primary.addr])

Action(h) ==
    \/ Reset(h)
    \/ Refuse(h)
    \/ \E s \in DOMAIN map :
          \/ TogglePrimary(h, s)
          \/ \E i \in DOMAIN map[s].replicas : ToggleReplica(h, s, i)
          \/ \E a \in Addrs, lag \in Lags : SetLag(h, s, a, lag)
          \/ Promote(h, s)

-----------------------------------------------------------------------------
\* main: an interrupt ends the listening, Shutdown waits for the requests under
\* way, but not for more than two seconds, and the process ends.  To those
\* requests the wait is a time in which no new one happens to come.
Interrupt ==
    /\ phase = "serving"
    /\ phase' = "exited"
    /\ map' = <<>> /\ events' = <<>>
    /\ handler' = [h \in Handlers |-> Idle]
    /\ UNCHANGED cfg

Read(h) == State(h) \/ RouteResolve(h)

Next ==
    \/ \E h \in Handlers : Receive(h) \/ Read(h) \/ RouteDescribe(h) \/ Action(h)
    \/ Interrupt

Spec == Init /\ [][Next]_vars

\* Goroutines are scheduled.  Readers that waited while a writer had the lock
\* get it before the next writer does (sync.RWMutex), whence SF.
Fairness ==
    \A h \in Handlers :
        WF_vars(Action(h)) /\ WF_vars(RouteDescribe(h)) /\ SF_vars(Read(h))

FairSpec == Spec /\ Fairness

-----------------------------------------------------------------------------
(* Properties *)

Nodes(shard) == {NodeAt(shard, i) : i \in Positions(shard)}

TypeOK ==
    /\ phase \in {"fatal", "proxy", "serving", "exited"}
    /\ \A s \in DOMAIN map :
          /\ map[s].id = s
          /\ \A n \in Nodes(map[s]) :
                n.addr \in Addrs /\ n.status \in {"UP", "DOWN"} /\ n.lagMS \in Lags \cup {0}
    /\ Len(events) <= MaxEvents
    /\ \A h \in Handlers : handler[h].pc \in {"idle", "state", "route", "lock", "describe"}

Occurrences(a, shard) == Cardinality({i \in Positions(shard) : NodeAt(shard, i).addr = a})

\* Every shard of the configuration is in the map, with the nodes the
\* configuration gives it and no others, whatever has been toggled, promoted
\* and reset in whatever order (Action; Load lets no shard hide another).
ConfigurationIsKept ==
    phase = "serving" => \A i \in DOMAIN cfg.shards :
        LET item == cfg.shards[i]
        IN  /\ item.id \in DOMAIN map
            /\ \A a \in Addrs : Occurrences(a, map[item.id]) =
                  (IF item.primary = a THEN 1 ELSE 0)
                  + Cardinality({j \in DOMAIN item.replicas : item.replicas[j] = a})

\* No address serves twice.  Load does not check it.
DistinctAddresses ==
    \A a \in Addrs : \A s, t \in DOMAIN map :
        Occurrences(a, map[s]) <= 1 /\ (s # t => Occurrences(a, map[s]) * Occurrences(a, map[t]) = 0)

\* What Route answers is true of the map: the shard is the key's own, the node
\* has that role in it, with that status and that lag, although Resolve and
\* the search for the address read the map one after the other.
RouteTellsTheTruth ==
    \A h \in Handlers : At(h, "describe") /\ DistinctAddresses =>
        \A order \in SetToSeqs(DOMAIN map) :
            LET node == handler[h].node
                said == Description(node, order)
            IN  /\ said.shardID = handler[h].shard
                /\ IF said.role = "primary" THEN node = map[said.shardID].primary
                   ELSE node \in ToSet(map[said.shardID].replicas)

\* The newest event is true of the map it is shown with, since the two change
\* together (Action, State; the reset of both).
NewestEventHolds ==
    events # <<>> =>
        LET e == Head(events)
            shard == map[e.shard]
        IN  CASE e.kind = "toggle"  -> \E n \in Nodes(shard) : n.addr = e.node /\ n.status = e.status
              [] e.kind = "lag"     -> \E n \in Nodes(shard) : n.addr = e.node /\ n.lagMS = e.lagMS
              [] e.kind = "promote" -> /\ shard.primary.addr = e.node
                                       /\ \E r \in ToSet(shard.replicas) :
                                             r.addr = e.old /\ r.status = "DOWN"

\* The simulator shows what the proxy would do: it promotes the replica the
\* failover controller would choose, for any statuses, lags and order of the
\* replicas that actions lead to.
PromotesLikeController ==
    \A s \in DOMAIN map :
        selectPromotionCandidate(map[s].replicas) = {candidate(map[s].replicas)} \ {0}

\* Whatever file Load accepts, the health checker can run with it: its ticker
\* does not panic, and its thresholds are the ones HealthChecker assumes.
CheckerCanRun ==
    phase = "proxy" =>
        LET o == CheckerOptions(cfg)
        IN  /\ o.interval > 0
            /\ 1 <= o.suspectAfterMisses /\ o.suspectAfterMisses <= o.downAfterMisses

\* Every request is answered: readers and writers do not block one another for
\* good (the two locks of handleSimulate, the one lock of Route).
RequestsAnswered == \A h \in Handlers : ~At(h, "idle") ~> At(h, "idle")
=============================================================================
