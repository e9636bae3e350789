-------------------------- MODULE QueryPathProofs --------------------------
(***************************************************************************)
(* Proofs about the connection pools, and about queries that use them      *)
(* while a failover goes on: for any number of addresses, pools, clients   *)
(* and probes.                                                             *)
(***************************************************************************)
EXTENDS QueryPath, TLAPS

-----------------------------------------------------------------------------
(* The pools.                                                              *)

\* What the place a goroutine has reached in Get, or after it, says about the
\* pool in its hands.  The pool that waits to be registered is known to nobody
\* else; this is what makes it safe to close it when the race is lost.
HandsInv ==
    \A u \in Users :
        /\ user[u].pc \in {"idle", "create"} => user[u].pool = None
        /\ user[u].pc \in {"install", "have", "using"} =>
              user[u].pool \in Pools /\ home[user[u].pool] = user[u].addr
        /\ user[u].pc = "install" =>
              /\ state[user[u].pool] = "open"
              /\ user[u].pool \notin toClose \cup mine
              /\ \A a \in Addrs : pools[a] # user[u].pool
              /\ \A v \in Users : user[v].pool = user[u].pool => v = u
        /\ user[u].pc = "using" => state[user[u].pool] # "closed"

\* The pools on their way to be closed: each has one goroutine that closes it.
ClosingInv ==
    /\ \A p \in toClose : state[p] = "open"
    /\ \A p \in mine : state[p] # "closed"
    /\ toClose \cap mine = {}
    /\ shutdown = "running" => mine = {}

PoolInv == TypeOK /\ HandsInv /\ ClosingInv /\ RegisteredPoolsWork /\ NoPoolLeaks

LEMMA RestType == Rest.addr \in Addrs /\ Rest.pc = "idle" /\ Rest.pool = None
  BY AddrsAssumption DEF Rest

LEMMA PoolInit == Init => PoolInv
  <1> SUFFICES ASSUME Init PROVE PoolInv
    OBVIOUS
  <1> USE RestType DEF Init
  <1>1. Rest \in [pc : UserPCs, addr : Addrs, pool : Pools \cup {None}]
    BY DEF Rest, UserPCs
  <1>2. TypeOK
    BY <1>1 DEF TypeOK
  <1>3. HandsInv /\ ClosingInv
    BY DEF HandsInv, ClosingInv
  <1>4. RegisteredPoolsWork /\ NoPoolLeaks
    BY DEF RegisteredPoolsWork, NoPoolLeaks
  <1> QED
    BY <1>2, <1>3, <1>4 DEF PoolInv

\* The first section of Get.
LEMMA LookupInv ==
    ASSUME PoolInv, NEW u \in Users, NEW a \in Addrs, Lookup(u, a)
    PROVE  PoolInv'
  <1> USE DEF PoolInv, Lookup
  <1>1. TypeOK'
    BY DEF TypeOK, UserPCs
  <1>2. HandsInv'
    BY UsersAssumption DEF HandsInv, RegisteredPoolsWork, TypeOK
  <1>3. ClosingInv' /\ RegisteredPoolsWork' /\ NoPoolLeaks'
    BY DEF ClosingInv, RegisteredPoolsWork, NoPoolLeaks, TypeOK
  <1> QED
    BY <1>1, <1>2, <1>3

\* The rest of Get, and the query.
LEMMA UserStepInv ==
    ASSUME PoolInv, NEW u \in Users, UserStep(u)
    PROVE  PoolInv'
  <1> USE UsersAssumption DEF PoolInv
  <1>1. ASSUME NEW p \in Pools, NewPool(u, p)
        PROVE  PoolInv'
    <2> USE <1>1 DEF NewPool, Unreferenced
    <2>1. TypeOK'
      BY DEF TypeOK, UserPCs
    <2>2. HandsInv'
      BY DEF HandsInv, TypeOK, ClosingInv, RegisteredPoolsWork
    <2>3. ClosingInv' /\ RegisteredPoolsWork'
      BY DEF ClosingInv, RegisteredPoolsWork, TypeOK
    <2>4. NoPoolLeaks'
      BY DEF NoPoolLeaks, TypeOK
    <2> QED
      BY <2>1, <2>2, <2>3, <2>4
  <1>2. CASE Install(u) /\ pools[user[u].addr] = None
    <2> USE <1>2 DEF Install
    <2>1. TypeOK'
      <3>1. user[u].addr \in Addrs /\ user[u].pool \in Pools
        BY DEF TypeOK, HandsInv
      <3>2. user' \in [Users -> [pc : UserPCs, addr : Addrs, pool : Pools \cup {None}]]
        BY DEF TypeOK, UserPCs
      <3> QED
        BY <3>1, <3>2 DEF TypeOK
    <2>2. HandsInv'
      BY DEF HandsInv, TypeOK
    <2>3. ClosingInv' /\ RegisteredPoolsWork'
      BY DEF ClosingInv, RegisteredPoolsWork, TypeOK, HandsInv
    <2>4. NoPoolLeaks'
      BY DEF NoPoolLeaks, TypeOK, HandsInv
    <2> QED
      BY <2>1, <2>2, <2>3, <2>4
  <1>3. CASE Install(u) /\ pools[user[u].addr] # None
    <2> USE <1>3 DEF Install
    <2>1. TypeOK'
      <3>1. user[u].addr \in Addrs /\ pools[user[u].addr] \in Pools
        BY DEF TypeOK
      <3>2. user' \in [Users -> [pc : UserPCs, addr : Addrs, pool : Pools \cup {None}]]
        BY <3>1 DEF TypeOK, UserPCs
      <3> QED
        BY <3>2 DEF TypeOK
    <2>2. HandsInv'
      BY DEF HandsInv, TypeOK, RegisteredPoolsWork
    <2>3. ClosingInv' /\ RegisteredPoolsWork'
      BY DEF ClosingInv, RegisteredPoolsWork, TypeOK, HandsInv
    <2>4. NoPoolLeaks'
      BY DEF NoPoolLeaks, TypeOK, HandsInv
    <2> QED
      BY <2>1, <2>2, <2>3, <2>4
  <1>4. CASE Acquire(u)
    <2> USE <1>4 DEF Acquire
    <2>1. TypeOK'
      BY DEF TypeOK, UserPCs
    <2>2. HandsInv'
      BY DEF HandsInv, TypeOK
    <2>3. ClosingInv' /\ RegisteredPoolsWork' /\ NoPoolLeaks'
      BY DEF ClosingInv, RegisteredPoolsWork, NoPoolLeaks, TypeOK
    <2> QED
      BY <2>1, <2>2, <2>3
  <1>5. CASE NewPoolFails(u) \/ Refused(u) \/ Finish(u)
    <2>1. /\ user' = [user EXCEPT ![u] = Rest] /\ user[u].pc # "install"
          /\ UNCHANGED <<pools, state, home, toClose, mine, ctxDone, shutdown>>
      BY <1>5 DEF NewPoolFails, Refused, Finish
    <2> USE <2>1, RestType
    <2>2. TypeOK'
      BY DEF TypeOK, UserPCs, Rest
    <2>3. HandsInv'
      BY DEF HandsInv, TypeOK
    <2>4. ClosingInv' /\ RegisteredPoolsWork' /\ NoPoolLeaks'
      BY DEF ClosingInv, RegisteredPoolsWork, NoPoolLeaks, TypeOK
    <2> QED
      BY <2>2, <2>3, <2>4
  <1> QED
    BY <1>1, <1>2, <1>3, <1>4, <1>5 DEF UserStep

\* Drains and the shutdown.
LEMMA ManagerStepInv ==
    ASSUME PoolInv,
           \/ \E a \in Addrs : DrainAsync(a)
           \/ \E p \in Pools : CloseStep(p)
           \/ Cancel \/ Close \/ CloseReturn
    PROVE  PoolInv'
  <1> USE UsersAssumption DEF PoolInv
  <1>1. ASSUME NEW a \in Addrs, DrainAsync(a)
        PROVE  PoolInv'
    <2> USE <1>1 DEF DrainAsync
    <2>1. TypeOK'
      BY DEF TypeOK
    <2>2. HandsInv'
      BY DEF HandsInv, TypeOK
    <2>3. ClosingInv'
      BY DEF ClosingInv, RegisteredPoolsWork, TypeOK
    <2>4. RegisteredPoolsWork'
      BY DEF RegisteredPoolsWork, TypeOK
    <2>5. NoPoolLeaks'
      BY DEF NoPoolLeaks, TypeOK
    <2> QED
      BY <2>1, <2>2, <2>3, <2>4, <2>5
  <1>2. ASSUME NEW p \in Pools, BeginClose(p)
        PROVE  PoolInv'
    <2> USE <1>2 DEF BeginClose
    <2>1. TypeOK' /\ HandsInv'
      BY DEF TypeOK, HandsInv
    <2>2. ClosingInv' /\ RegisteredPoolsWork' /\ NoPoolLeaks'
      BY DEF ClosingInv, RegisteredPoolsWork, NoPoolLeaks, TypeOK
    <2> QED
      BY <2>1, <2>2
  <1>3. ASSUME NEW p \in Pools, CloseNext(p)
        PROVE  PoolInv'
    <2> USE <1>3 DEF CloseNext
    <2>1. TypeOK' /\ HandsInv'
      BY DEF TypeOK, HandsInv
    <2>2. ClosingInv' /\ RegisteredPoolsWork' /\ NoPoolLeaks'
      BY DEF ClosingInv, RegisteredPoolsWork, NoPoolLeaks, TypeOK
    <2> QED
      BY <2>1, <2>2
  <1>4. ASSUME NEW p \in Pools, EndClose(p)
        PROVE  PoolInv'
    <2> USE <1>4 DEF EndClose
    <2>1. TypeOK' /\ HandsInv'
      BY DEF TypeOK, HandsInv, InUse
    <2>2. ClosingInv' /\ RegisteredPoolsWork' /\ NoPoolLeaks'
      BY DEF ClosingInv, RegisteredPoolsWork, NoPoolLeaks, TypeOK
    <2> QED
      BY <2>1, <2>2
  <1>5. CASE Close
    <2> USE <1>5 DEF Close
    <2>1. TypeOK' /\ HandsInv'
      BY DEF TypeOK, HandsInv
    <2>2. ClosingInv' /\ RegisteredPoolsWork'
      BY DEF ClosingInv, RegisteredPoolsWork, TypeOK
    <2>3. NoPoolLeaks'
      BY DEF NoPoolLeaks, TypeOK, ClosingInv
    <2> QED
      BY <2>1, <2>2, <2>3
  <1>6. CASE Cancel
    BY <1>6 DEF Cancel, TypeOK, HandsInv, ClosingInv, RegisteredPoolsWork, NoPoolLeaks
  <1>7. CASE CloseReturn
    BY <1>7 DEF CloseReturn, TypeOK, HandsInv, ClosingInv, RegisteredPoolsWork, NoPoolLeaks
  <1> QED
    BY <1>1, <1>2, <1>3, <1>4, <1>5, <1>6, <1>7 DEF CloseStep

LEMMA PoolStepInv == PoolInv /\ [Next]_vars => PoolInv'
  <1> SUFFICES ASSUME PoolInv, [Next]_vars PROVE PoolInv'
    OBVIOUS
  <1>1. CASE UNCHANGED vars
    BY <1>1 DEF vars, PoolInv, TypeOK, HandsInv, ClosingInv, RegisteredPoolsWork, NoPoolLeaks
  <1> QED
    BY <1>1, LookupInv, UserStepInv, ManagerStepInv DEF Next

LEMMA PoolInvariant == Spec => []PoolInv
  BY PoolInit, PoolStepInv, PTL DEF Spec

\* No pool leaks, however Get, DrainAsync and Close race: every open pool is
\* registered for its address, about to be, or about to be closed.
THEOREM PoolsDoNotLeak == Spec => []NoPoolLeaks
  BY PoolInvariant, PTL DEF PoolInv

\* Whatever Get finds in the manager is an open pool for the right address.
THEOREM RegisteredPoolsAreSound == Spec => []RegisteredPoolsWork
  BY PoolInvariant, PTL DEF PoolInv

-----------------------------------------------------------------------------
(* Queries across a failover. *)

\* A query that has a node got it while its level allowed that node, and a
\* query that has none yet can only get one that its level allows by now: this
\* is kept by a failover because the swap makes no node of the shard a member
\* that was none before.  A goroutine in Get is there on behalf of its query.
RouteInv ==
    \A u \in Clients :
        /\ query[u].level = None => query[u].addr = {}
        /\ query[u].addr \subseteq query[u].allowed
        /\ query[u].level = "strong" => Primary \in query[u].allowed
        /\ query[u].level \in {"eventual", "bounded_staleness"} => Members \subseteq query[u].allowed
        /\ user[u].pc # "idle" => user[u].addr \in query[u].addr

PathInv == PoolInv /\ PathTypeOK /\ RouteInv

LEMMA PathInitInv == PathInit => PathInv
  <1> SUFFICES ASSUME PathInit PROVE PathInv
    OBVIOUS
  <1> USE QueryPathAssumption DEF PathInit
  <1>1. PoolInv
    BY PoolInit
  <1>2. Map!TopologyTypeOK
    BY DEF Map!Init, Map!TopologyTypeOK, Map!Topologies
  <1>3. PathTypeOK
    BY <1>1, <1>2 DEF PathTypeOK, PoolInv, NoQuery
  <1>4. RouteInv
    BY RestType DEF RouteInv, NoQuery, Init, None, Users
  <1> QED
    BY <1>1, <1>3, <1>4 DEF PathInv

\* The members of a shard are known addresses.
LEMMA MembersType ==
    ASSUME PathTypeOK
    PROVE  /\ Primary \in Addrs /\ Replicas \subseteq Addrs
           /\ topology[TheShard] \in Map!Topologies
           /\ DOMAIN topology = {TheShard}
  BY DEF PathTypeOK, Map!TopologyTypeOK, Map!Topologies, Primary, Replicas

\* Nothing that RouteInv speaks of is touched: not the map, not the query, and
\* no client moves to another address.
LEMMA RouteFrame ==
    ASSUME RouteInv, UNCHANGED <<topology, query>>,
           \A u \in Clients : user'[u].pc # "idle" =>
               user[u].pc # "idle" /\ user'[u].addr = user[u].addr
    PROVE  RouteInv'
  BY DEF RouteInv, Primary, Members, Replicas

LEMMA ClientInv ==
    ASSUME PathInv, NEW u \in Clients,
           \/ \E level \in Levels : ReadQuery(u, level)
           \/ Resolve(u) \/ Get(u) \/ ClientStep(u)
    PROVE  PathInv' /\ [Next]_vars
  <1> USE DEF PathInv
  <1>u. u \in Users
    BY DEF Users
  <1>t. query \in [Clients -> [level : Level \cup {None}, addr : SUBSET Addrs,
                              allowed : SUBSET Addrs]]
    BY DEF PathTypeOK
  <1>1. ASSUME NEW level \in Levels, ReadQuery(u, level)
        PROVE  PathInv' /\ [Next]_vars
    <2> USE <1>1 DEF ReadQuery
    <2>1. PoolInv' /\ TypeOK'
      BY PoolStepInv DEF PoolInv
    <2>2. level \in Level
      BY QueryPathAssumption
    <2>3. PathTypeOK'
      BY <1>t, <2>1, <2>2, MembersType DEF PathTypeOK, Map!TopologyTypeOK, Members
    <2>4. /\ query'[u].level = level /\ query'[u].addr = {}
          /\ query'[u].allowed = IF level = "strong" THEN {Primary} ELSE Members
          /\ \A v \in Clients : v # u => query'[v] = query[v]
          /\ UNCHANGED <<user, topology>>
      BY <1>t DEF RouteInv, vars
    <2>5. user[u].pc = "idle" /\ level # None
      BY <2>2 DEF RouteInv, Level, None
    <2>6. Primary' = Primary /\ Members' = Members
      BY <2>4 DEF Primary, Members, Replicas
    <2>7. RouteInv'
      <3> SUFFICES ASSUME NEW v \in Clients
                   PROVE  /\ query'[v].level = None => query'[v].addr = {}
                          /\ query'[v].addr \subseteq query'[v].allowed
                          /\ query'[v].level = "strong" => Primary \in query'[v].allowed
                          /\ query'[v].level \in {"eventual", "bounded_staleness"} =>
                                Members \subseteq query'[v].allowed
                          /\ user[v].pc # "idle" => user[v].addr \in query'[v].addr
        BY <2>4, <2>6 DEF RouteInv
      <3>1. CASE v = u
        <4>1. CASE level = "strong"
          <5>1. level \notin {"eventual", "bounded_staleness"}
            BY <4>1
          <5>2. query'[u].allowed = {Primary} /\ Primary \in {Primary}
            BY <2>4, <4>1
          <5> QED
            BY <2>4, <2>5, <3>1, <4>1, <5>1, <5>2, Zenon
        <4>2. CASE level # "strong"
          BY <2>4, <2>5, <3>1, <4>2, Zenon
        <4> QED
          BY <4>1, <4>2
      <3>2. CASE v # u
        BY <2>4, <3>2 DEF RouteInv
      <3> QED
        BY <3>1, <3>2
    <2> QED
      BY <2>1, <2>3, <2>7
  <1>2. CASE Resolve(u)
    <2> USE <1>2 DEF Resolve
    <2>1. PoolInv' /\ TypeOK'
      BY PoolStepInv DEF PoolInv
    <2>2. PICK a \in {Primary} \cup Replicas :
             /\ query' = [query EXCEPT ![u].addr = {a}]
             /\ query[u].level = "strong" => a = Primary
      BY <1>t DEF Level, None
    <2>3. PathTypeOK'
      BY <1>t, <2>1, <2>2, MembersType DEF PathTypeOK, Map!TopologyTypeOK
    <2>4. RouteInv'
      BY <1>t, <1>u, <2>2 DEF RouteInv, Primary, Members, Replicas, Level, None, vars
    <2> QED
      BY <2>1, <2>3, <2>4
  <1>3. CASE Get(u)
    <2>1. PICK a \in query[u].addr : Lookup(u, a)
      BY <1>3 DEF Get
    <2>2. a \in Addrs
      BY <1>t, <2>1
    <2>3. PoolInv' /\ Next
      BY <1>u, <2>1, <2>2, LookupInv DEF Next
    <2>4. PathTypeOK'
      BY <1>3, <2>3 DEF Get, PathTypeOK, PoolInv, Map!TopologyTypeOK
    <2>5. RouteInv'
      BY <1>3, <1>u, <2>1 DEF Get, Lookup, RouteInv, Primary, Members, Replicas, PoolInv, TypeOK, Users
    <2> QED
      BY <2>3, <2>4, <2>5
  <1>4. CASE ClientStep(u)
    <2>1. PoolInv' /\ Next
      BY <1>4, <1>u, UserStepInv DEF ClientStep, Next
    <2>2. /\ \A v \in Users : v # u => user'[v] = user[v]
          /\ user[u].pc # "idle" /\ (user'[u].pc # "idle" => user'[u].addr = user[u].addr)
      BY <1>4, <1>u, RestType DEF ClientStep, UserStep, NewPool, NewPoolFails, Install, Acquire,
            Refused, Finish, PoolInv, TypeOK
    <2>3. CASE user'[u].pc = "idle"
      <3>1. query' = [query EXCEPT ![u] = NoQuery]
        BY <1>4, <2>3 DEF ClientStep, Answered
      <3>2. PathTypeOK'
        BY <1>4, <1>t, <2>1, <3>1 DEF ClientStep, PathTypeOK, PoolInv, Map!TopologyTypeOK, NoQuery
      <3>3. RouteInv'
        BY <1>4, <1>t, <2>2, <2>3, <3>1 DEF ClientStep, RouteInv, NoQuery, Primary, Members, Replicas,
              None, Users
      <3> QED
        BY <2>1, <3>2, <3>3
    <2>4. CASE user'[u].pc # "idle"
      <3>1. UNCHANGED <<topology, draining, query>>
        BY <1>4, <2>4 DEF ClientStep
      <3>2. PathTypeOK'
        BY <2>1, <3>1 DEF PathTypeOK, PoolInv, Map!TopologyTypeOK
      <3>3. RouteInv'
        BY <2>2, <2>4, <3>1, RouteFrame DEF Users
      <3> QED
        BY <2>1, <3>2, <3>3
    <2> QED
      BY <2>3, <2>4
  <1> QED
    BY <1>1, <1>2, <1>3, <1>4

LEMMA CheckerInv ==
    ASSUME PathInv,
           \/ \E h \in Probes : (\E a \in Addrs : Probe(h, a)) \/ ProbeStep(h)
           \/ \E down \in SUBSET Members : Observe(down)
           \/ \E a \in Addrs : Swap(a) \/ Drain(a)
    PROVE  PathInv' /\ [Next]_vars
  <1> USE DEF PathInv
  <1>t. query \in [Clients -> [level : Level \cup {None}, addr : SUBSET Addrs,
                              allowed : SUBSET Addrs]]
    BY DEF PathTypeOK
  <1>1. ASSUME NEW h \in Probes, NEW a \in Addrs, Probe(h, a) \/ ProbeStep(h)
        PROVE  PathInv' /\ [Next]_vars
    <2>1. h \in Users /\ h \notin Clients /\ Clients \subseteq Users
      BY UsersAssumption DEF Users
    <2>2. PoolInv' /\ Next
      BY <1>1, <2>1, LookupInv, UserStepInv DEF Probe, ProbeStep, Next
    <2>3. \A u \in Clients : user'[u] = user[u]
      BY <1>1, <2>1 DEF Probe, ProbeStep, Lookup, UserStep, NewPool, NewPoolFails, Install, Acquire,
            Refused, Finish, PoolInv, TypeOK
    <2>4. UNCHANGED <<topology, draining, query>>
      BY <1>1 DEF Probe, ProbeStep
    <2>5. PathTypeOK'
      BY <2>2, <2>4 DEF PathTypeOK, PoolInv, Map!TopologyTypeOK
    <2>6. RouteInv'
      BY <2>3, <2>4, RouteFrame
    <2> QED
      BY <2>2, <2>5, <2>6
  <1>2. ASSUME NEW down \in SUBSET Members, Observe(down)
        PROVE  PathInv' /\ [Next]_vars
    <2> USE <1>2 DEF Observe
    <2>1. PoolInv' /\ TypeOK'
      BY PoolStepInv DEF PoolInv
    <2>2. topology' = [topology EXCEPT ![TheShard].down = down]
      BY DEF Map!Observe
    <2>3. down \subseteq Addrs
      BY MembersType DEF Members
    <2>4. PathTypeOK'
      BY <2>1, <2>2, <2>3 DEF PathTypeOK, Map!TopologyTypeOK, Map!Topologies
    <2>5. Primary' = Primary /\ Replicas' = Replicas
      BY <2>2, MembersType DEF Primary, Replicas, Map!Topologies
    <2>6. RouteInv'
      BY <2>5 DEF RouteInv, Members, vars
    <2> QED
      BY <2>1, <2>4, <2>6
  <1>3. ASSUME NEW r \in Addrs, Swap(r)
        PROVE  PathInv' /\ [Next]_vars
    <2> USE <1>3 DEF Swap
    <2>1. PoolInv' /\ TypeOK'
      BY PoolStepInv DEF PoolInv
    <2>2. /\ r \in Replicas
          /\ topology' = [topology EXCEPT ![TheShard] =
                [primary |-> r, replicas |-> Replicas \ {r},
                 down |-> topology[TheShard].down \ {Primary}]]
      BY DEF Map!Failover, Primary, Replicas
    <2>3. Primary' = r /\ Replicas' = Replicas \ {r}
      BY <2>2, MembersType DEF Primary, Replicas
    <2>4. Map!TopologyTypeOK'
      BY <2>2, MembersType DEF PathTypeOK, Map!TopologyTypeOK, Map!Topologies
    <2>5. query' \in [Clients -> [level : Level \cup {None}, addr : SUBSET Addrs,
                                 allowed : SUBSET Addrs]]
      BY <1>t
    <2>6. PathTypeOK'
      BY <2>1, <2>4, <2>5, MembersType DEF PathTypeOK
    <2>7. RouteInv'
      BY <1>t, <2>2, <2>3 DEF RouteInv, Members, vars
    <2> QED
      BY <2>1, <2>6, <2>7
  <1>4. ASSUME NEW a \in Addrs, Drain(a)
        PROVE  PathInv' /\ [Next]_vars
    <2>1. PoolInv' /\ Next
      BY <1>4, ManagerStepInv DEF Drain, Next
    <2>2. PathTypeOK'
      BY <1>4, <2>1 DEF Drain, PathTypeOK, PoolInv, Map!TopologyTypeOK
    <2>3. RouteInv'
      BY <1>4, RouteFrame DEF Drain, DrainAsync
    <2> QED
      BY <2>1, <2>2, <2>3
  <1> QED
    BY <1>1, <1>2, <1>3, <1>4, AddrsAssumption

LEMMA PathShutdownInv ==
    ASSUME PathInv, (\E p \in Pools : PoolStep(p)) \/ ShutdownStep \/ Return
    PROVE  PathInv' /\ [Next]_vars
  <1> USE DEF PathInv
  <1>1. /\ \/ \E p \in Pools : CloseStep(p)
           \/ Cancel \/ Close \/ CloseReturn
        /\ UNCHANGED <<topology, draining, query>>
    BY DEF PoolStep, ShutdownStep, Return
  <1>2. PoolInv' /\ Next
    BY <1>1, ManagerStepInv DEF Next
  <1>3. PathTypeOK'
    BY <1>1, <1>2 DEF PathTypeOK, PoolInv, Map!TopologyTypeOK
  <1>4. RouteInv'
    BY <1>1, RouteFrame DEF CloseStep, BeginClose, CloseNext, EndClose, Cancel, Close, CloseReturn
  <1> QED
    BY <1>2, <1>3, <1>4

LEMMA PathStepInv == PathInv /\ [PathNext]_pathVars => PathInv' /\ [Next]_vars
  <1> SUFFICES ASSUME PathInv, [PathNext]_pathVars PROVE PathInv' /\ [Next]_vars
    OBVIOUS
  <1>1. CASE UNCHANGED pathVars
    <2>1. PoolInv' /\ UNCHANGED vars
      BY <1>1, PoolStepInv DEF pathVars, PathInv
    <2> QED
      BY <1>1, <2>1 DEF pathVars, vars, PathInv, PathTypeOK, PoolInv, RouteInv, Map!TopologyTypeOK,
                        Primary, Members, Replicas
  <1> QED
    BY <1>1, ClientInv, CheckerInv, PathShutdownInv DEF PathNext

LEMMA PathInvariant == PathSpec => []PathInv
  BY PathInitInv, PathStepInv, PTL DEF PathSpec

\* The pools behave as PoolManager says also while queries, probes and failovers
\* use them in the order of the code: what is proved of the former holds here.
THEOREM PathUsesPools == PathSpec => Spec
  <1>1. PathInit => Init
    BY DEF PathInit
  <1> QED
    BY <1>1, PathInvariant, PathStepInv, PTL DEF PathSpec, Spec

\* A query runs on a node its level has allowed since it was read, whatever
\* failovers, drains and new pools fall between its steps.
THEOREM QueriesAreRouted == PathSpec => []QueriesFollowFailover
  <1>1. PathInv => QueriesFollowFailover
    BY DEF PathInv, RouteInv, QueriesFollowFailover, PoolInv, HandsInv, Users
  <1> QED
    BY <1>1, PathInvariant, PTL

-----------------------------------------------------------------------------
(* The pools of the nodes in use. *)

\* The order of the checker's work: it drains a node that is no longer in the
\* map, with no call under way, and it has calls only for nodes in the map and
\* while the proxy runs.
CheckerOrder ==
    /\ Primary \notin Replicas
    /\ draining \cap Members = {}
    /\ draining # {} => \A h \in Probes : user[h].pc = "idle"
    /\ \A h \in Probes : user[h].pc # "idle" => shutdown = "running" /\ user[h].addr \in Members

KeepInv == CheckerOrder /\ MembersKeepTheirPool

LEMMA KeepInit == PathInit => KeepInv
  BY RestType DEF PathInit, Init, Map!Init, KeepInv, CheckerOrder, MembersKeepTheirPool,
                  Primary, Replicas, Members, Users

\* Get finds the pool that is registered.
LEMMA KeepLookup ==
    ASSUME PathInv, KeepInv, UNCHANGED <<topology, draining>>, NEW u \in Users, NEW a \in Addrs,
           Lookup(u, a), u \in Probes => draining = {} /\ a \in Members
    PROVE  KeepInv'
  <1>m. Primary' = Primary /\ Replicas' = Replicas /\ Members' = Members
    BY DEF Primary, Replicas, Members
  <1>1. /\ user'[u].addr = a /\ user'[u].pool = pools[a]
        /\ \A v \in Users : v # u => user'[v] = user[v]
    BY DEF Lookup, PathInv, PoolInv, TypeOK
  <1>2. UNCHANGED <<pools, shutdown>> /\ (u \in Probes => shutdown = "running")
    BY DEF Lookup
  <1>3. CheckerOrder'
    BY <1>m, <1>1, <1>2 DEF KeepInv, CheckerOrder, Users
  <1>4. MembersKeepTheirPool'
    BY <1>m, <1>1, <1>2 DEF KeepInv, MembersKeepTheirPool
  <1> QED
    BY <1>3, <1>4 DEF KeepInv

\* The rest of Get registers a pool only where none is, and otherwise returns
\* the one it finds.
LEMMA KeepUserStep ==
    ASSUME PathInv, KeepInv, UNCHANGED <<topology, draining>>, NEW u \in Users, UserStep(u)
    PROVE  KeepInv'
  <1>m. Primary' = Primary /\ Replicas' = Replicas /\ Members' = Members
    BY DEF Primary, Replicas, Members
  <1>t. TypeOK /\ HandsInv /\ None \notin Pools
    BY UsersAssumption DEF PathInv, PoolInv
  <1>o. \A v \in Users : v # u => user'[v] = user[v]
    BY <1>t DEF UserStep, NewPool, NewPoolFails, Install, Acquire, Refused, Finish, TypeOK
  <1>s. UNCHANGED shutdown
    BY DEF UserStep, NewPool, NewPoolFails, Install, Acquire, Refused, Finish
  <1>1. /\ user[u].pc # "idle"
        /\ user'[u].pc # "idle" => user'[u].addr = user[u].addr
    BY <1>t, RestType DEF UserStep, NewPool, NewPoolFails, Install, Acquire, Refused, Finish,
                          TypeOK
  <1>2. CheckerOrder'
    BY <1>m, <1>o, <1>s, <1>1 DEF KeepInv, CheckerOrder, Users
  <1>3. MembersKeepTheirPool'
    <2> SUFFICES ASSUME NEW v \in Users, user'[v].pc \in {"have", "using"},
                        v \in Probes \/ (shutdown = "running" /\ user'[v].addr \in Members)
                 PROVE  pools'[user'[v].addr] = user'[v].pool
      BY <1>m, <1>s DEF MembersKeepTheirPool
    <2>1. CASE Install(u) /\ pools[user[u].addr] = None
      <3>1. pools' = [pools EXCEPT ![user[u].addr] = user[u].pool] /\ user[u].addr \in Addrs
            /\ user'[u].addr = user[u].addr /\ user'[u].pool = user[u].pool
        BY <2>1, <1>t DEF Install, TypeOK
      <3>2. CASE v = u
        BY <1>t, <3>1, <3>2 DEF TypeOK
      <3>3. CASE v # u
        <4>1. user'[v] = user[v]
          BY <1>o, <3>3
        <4>2. pools[user[v].addr] = user[v].pool
          BY <4>1 DEF KeepInv, MembersKeepTheirPool
        <4>3. user[v].pool \in Pools
          BY <1>t, <4>1 DEF HandsInv
        <4>4. user[v].addr # user[u].addr
          BY <1>t, <2>1, <4>2, <4>3
        <4> QED
          BY <1>t, <3>1, <4>1, <4>2, <4>4 DEF TypeOK
      <3> QED
        BY <3>2, <3>3
    <2>2. CASE Install(u) /\ pools[user[u].addr] # None
      <3>1. UNCHANGED pools /\ user'[u].addr = user[u].addr /\ user'[u].pool = pools[user[u].addr]
        BY <2>2, <1>t DEF Install, TypeOK
      <3> QED
        BY <1>o, <3>1 DEF KeepInv, MembersKeepTheirPool
    <2>3. CASE ~Install(u)
      <3>1. /\ UNCHANGED pools
            /\ user'[u].pc \in {"have", "using"} =>
                  user[u].pc = "have" /\ user'[u].addr = user[u].addr /\ user'[u].pool = user[u].pool
        BY <1>t, <2>3, RestType DEF UserStep, NewPool, NewPoolFails, Acquire, Refused, Finish,
                                    TypeOK
      <3> QED
        BY <1>o, <3>1 DEF KeepInv, MembersKeepTheirPool
    <2> QED
      BY <2>1, <2>2, <2>3
  <1> QED
    BY <1>2, <1>3 DEF KeepInv

\* The map and the manager: a failover only takes nodes away from the map, and
\* the drain only the pool of such a node.
LEMMA KeepChecker ==
    ASSUME PathInv, KeepInv,
           \/ \E down \in SUBSET Members : Observe(down)
           \/ \E a \in Addrs : Swap(a) \/ Drain(a)
           \/ (\E p \in Pools : PoolStep(p)) \/ ShutdownStep \/ Return
    PROVE  KeepInv'
  <1>t. PathTypeOK /\ TypeOK
    BY DEF PathInv, PathTypeOK
  <1>1. ASSUME NEW down \in SUBSET Members, Observe(down)
        PROVE  KeepInv'
    <2>1. topology' = [topology EXCEPT ![TheShard].down = down] /\ UNCHANGED <<vars, draining>>
      BY <1>1 DEF Observe, Map!Observe
    <2>2. Primary' = Primary /\ Replicas' = Replicas
      BY <1>t, <2>1, MembersType DEF Primary, Replicas, Map!Topologies
    <2> QED
      BY <2>1, <2>2 DEF KeepInv, CheckerOrder, MembersKeepTheirPool, Members, vars
  <1>2. ASSUME NEW r \in Addrs, Swap(r)
        PROVE  KeepInv'
    <2>1. /\ r \in Replicas
          /\ topology' = [topology EXCEPT ![TheShard] =
                [primary |-> r, replicas |-> Replicas \ {r},
                 down |-> topology[TheShard].down \ {Primary}]]
      BY <1>2 DEF Swap, Map!Failover, Primary, Replicas
    <2>2. Primary' = r /\ Replicas' = Replicas \ {r}
      BY <1>t, <2>1, MembersType DEF Primary, Replicas
    <2>3. UNCHANGED vars /\ draining' = {Primary} /\ \A h \in Probes : user[h].pc = "idle"
      BY <1>2 DEF Swap, CheckerIsFree
    <2>4. Members' \subseteq Members /\ Primary \notin Members'
      BY <2>1, <2>2 DEF Members, KeepInv, CheckerOrder
    <2>5. CheckerOrder'
      BY <2>2, <2>3, <2>4 DEF CheckerOrder, vars
    <2>6. MembersKeepTheirPool'
      BY <2>3, <2>4 DEF KeepInv, MembersKeepTheirPool, vars
    <2> QED
      BY <2>5, <2>6 DEF KeepInv
  <1>3. ASSUME NEW a \in Addrs, Drain(a)
        PROVE  KeepInv'
    <2>1. /\ a \notin Members /\ draining' = {} /\ pools' = [pools EXCEPT ![a] = None]
          /\ UNCHANGED <<topology, user, shutdown>> /\ \A h \in Probes : user[h].pc = "idle"
      BY <1>3 DEF Drain, DrainAsync, KeepInv, CheckerOrder
    <2>2. Primary' = Primary /\ Replicas' = Replicas /\ Members' = Members
      BY <2>1 DEF Primary, Replicas, Members
    <2>3. CheckerOrder'
      BY <2>1, <2>2 DEF KeepInv, CheckerOrder
    <2>4. MembersKeepTheirPool'
      BY <1>t, <2>1, <2>2 DEF KeepInv, MembersKeepTheirPool, TypeOK
    <2> QED
      BY <2>3, <2>4 DEF KeepInv
  <1>4. CASE (\E p \in Pools : PoolStep(p)) \/ ShutdownStep \/ Return
    <2>1. UNCHANGED <<topology, draining, user>>
      BY <1>4 DEF PoolStep, ShutdownStep, Return, CloseStep, BeginClose, CloseNext, EndClose, Cancel,
                  Close, CloseReturn
    <2>2. Primary' = Primary /\ Replicas' = Replicas /\ Members' = Members
      BY <2>1 DEF Primary, Replicas, Members
    <2>3. \/ UNCHANGED <<pools, shutdown>>
          \/ shutdown' # "running" /\ \A h \in Probes : user[h].pc = "idle"
      BY <1>4 DEF PoolStep, ShutdownStep, Return, CloseStep, BeginClose, CloseNext, EndClose, Cancel,
                  Close, CloseReturn, KeepInv, CheckerOrder
    <2> QED
      BY <2>1, <2>2, <2>3 DEF KeepInv, CheckerOrder, MembersKeepTheirPool
  <1> QED
    BY <1>1, <1>2, <1>3, <1>4

LEMMA KeepStep == PathInv /\ KeepInv /\ [PathNext]_pathVars => KeepInv'
  <1> SUFFICES ASSUME PathInv, KeepInv, [PathNext]_pathVars PROVE KeepInv'
    OBVIOUS
  <1>1. ASSUME UNCHANGED <<vars, topology, draining>>
        PROVE  KeepInv'
    BY <1>1 DEF vars, KeepInv, CheckerOrder, MembersKeepTheirPool, Primary, Replicas, Members
  <1>2. ASSUME NEW u \in Clients, \/ \E level \in Levels : ReadQuery(u, level)
                                 \/ Resolve(u)
        PROVE  KeepInv'
    BY <1>1, <1>2 DEF ReadQuery, Resolve
  <1>3. ASSUME NEW u \in Clients, Get(u) \/ ClientStep(u)
        PROVE  KeepInv'
    <2>1. u \in Users /\ u \notin Probes /\ query[u].addr \subseteq Addrs
      BY UsersAssumption DEF Users, PathInv, PathTypeOK
    <2> QED
      BY <1>3, <2>1, KeepLookup, KeepUserStep DEF Get, ClientStep
  <1>4. ASSUME NEW h \in Probes, (\E a \in Addrs : Probe(h, a)) \/ ProbeStep(h)
        PROVE  KeepInv'
    BY <1>4, KeepLookup, KeepUserStep DEF Probe, ProbeStep, Users
  <1> QED
    BY <1>1, <1>2, <1>3, <1>4, KeepChecker DEF PathNext, pathVars

\* The goroutines that use a node in the map share its one registered pool, and
\* no lost race, drain or shutdown takes it from under them: for any number of
\* nodes, clients and probes.
THEOREM PoolsOfMembersStay == PathSpec => []MembersKeepTheirPool
  <1>1. PathInit => KeepInv
    BY KeepInit
  <1> QED
    BY <1>1, KeepStep, PathInvariant, PTL DEF PathSpec, KeepInv

\* Pools, topology and queries are well typed along the query path.
THEOREM PathTypeCorrect == PathSpec => []PathTypeOK
  BY PathInvariant, PTL DEF PathInv
=============================================================================
