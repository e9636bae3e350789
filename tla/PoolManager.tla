---------------------------- MODULE PoolManager ----------------------------
(***************************************************************************)
(* internal/pool: one connection pool per backend address, created on      *)
(* first use, and the goroutines that use it.                              *)
(*                                                                         *)
(* Get holds the manager's mutex twice, and not in between, while the pool *)
(* is built: two goroutines may build a pool for the same address, and the *)
(* one that comes second closes its own.  Drain and Close take pools out   *)
(* of the manager under the mutex and close them outside it, where         *)
(* pgxpool.Close first refuses new connections and then waits for those    *)
(* that are out.                                                           *)
(*                                                                         *)
(* app.Run gives the order at shutdown: the context is cancelled, the      *)
(* health checker is waited for, then Manager.Close runs.  The goroutines  *)
(* that serve clients are not waited for.                                  *)
(***************************************************************************)
EXTENDS Naturals, FiniteSets

CONSTANTS
    Addrs,     \* backend addresses
    Pools,     \* bound: identities of the pools that may be built
    Clients,   \* goroutines serving a client connection
    Probes     \* goroutines of the health checker

None == "none"

ASSUME UsersAssumption == Clients \cap Probes = {} /\ None \notin Pools

\* config.Load accepts no configuration without a shard, nor a shard without a
\* primary.
ASSUME AddrsAssumption == Addrs # {}

VARIABLES
    pools,      \* Manager.pools: address -> registered pool, or None
    state,      \* pool -> "open", "closing" or "closed"
    home,       \* pool -> the address it was built for
    toClose,    \* drained pools whose background Close has not begun
    mine,       \* the pools Manager.Close is closing, one after the other
    user,       \* goroutine -> [pc, addr, pool]
    ctxDone,    \* the context of the application has been cancelled
    shutdown    \* "running", "closing" (in Manager.Close) or "returned"

vars == <<pools, state, home, toClose, mine, user, ctxDone, shutdown>>

Users == Clients \cup Probes

UserPCs == {"idle", "create", "install", "have", "using"}

TypeOK ==
    /\ pools \in [Addrs -> Pools \cup {None}]
    /\ state \in [Pools -> {"open", "closing", "closed"}]
    /\ home \in [Pools -> Addrs]
    /\ toClose \subseteq Pools
    /\ mine \subseteq Pools
    /\ user \in [Users -> [pc : UserPCs, addr : Addrs, pool : Pools \cup {None}]]
    /\ ctxDone \in BOOLEAN
    /\ shutdown \in {"running", "closing", "returned"}

Rest == [pc |-> "idle", addr |-> CHOOSE a \in Addrs : TRUE, pool |-> None]

Init ==
    /\ pools = [a \in Addrs |-> None]
    /\ state = [p \in Pools |-> "closed"]
    /\ home = [p \in Pools |-> Rest.addr]
    /\ toClose = {}
    /\ mine = {}
    /\ user = [u \in Users |-> Rest]
    /\ ctxDone = FALSE
    /\ shutdown = "running"

-----------------------------------------------------------------------------
(* Manager.Get, and what its caller does with the pool *)

\* The first section under the mutex.  The checker starts no call once Close
\* may run; a client goroutine may, at any time.
Lookup(u, a) ==
    /\ user[u].pc = "idle"
    /\ u \in Probes => shutdown = "running"
    /\ user' = [user EXCEPT ![u] =
          [pc   |-> IF pools[a] = None THEN "create" ELSE "have",
           addr |-> a, pool |-> pools[a]]]
    /\ UNCHANGED <<pools, state, home, toClose, mine, ctxDone, shutdown>>

\* No goroutine and no table refers to this identity: it may be reused.
Unreferenced(p) ==
    /\ state[p] = "closed"
    /\ \A u \in Users : user[u].pool # p

\* pgxpool.New, outside the mutex.  It does not dial, so a cancelled context
\* does not stop it.
NewPool(u, p) ==
    /\ user[u].pc = "create"
    /\ Unreferenced(p)
    /\ state' = [state EXCEPT ![p] = "open"]
    /\ home' = [home EXCEPT ![p] = user[u].addr]
    /\ user' = [user EXCEPT ![u].pc = "install", ![u].pool = p]
    /\ UNCHANGED <<pools, toClose, mine, ctxDone, shutdown>>

\* pgxpool.New rejects the address: Get returns the error.
NewPoolFails(u) ==
    /\ user[u].pc = "create"
    /\ user' = [user EXCEPT ![u] = Rest]
    /\ UNCHANGED <<pools, state, home, toClose, mine, ctxDone, shutdown>>

\* A mutant: the second section registers without looking again.
installAlways(u) ==
    LET a == user[u].addr
    IN  /\ user[u].pc = "install"
        /\ pools' = [pools EXCEPT ![a] = user[u].pool]
        /\ user' = [user EXCEPT ![u].pc = "have"]
        /\ UNCHANGED <<state, home, toClose, mine, ctxDone, shutdown>>

\* A mutant: the goroutine that lost the race returns the pool it has built.
returnsOwn(u) ==
    LET a == user[u].addr
    IN  /\ user[u].pc = "install"
        /\ IF pools[a] = None
           THEN pools' = [pools EXCEPT ![a] = user[u].pool] /\ UNCHANGED state
           ELSE state' = [state EXCEPT ![user[u].pool] = "closed"] /\ UNCHANGED pools
        /\ user' = [user EXCEPT ![u].pc = "have"]
        /\ UNCHANGED <<home, toClose, mine, ctxDone, shutdown>>

\* The second section under the mutex: register the new pool, or close it
\* (nobody has a connection of it) because another goroutine came first.
Install(u) ==
    LET a == user[u].addr
    IN  /\ user[u].pc = "install"
        /\ IF pools[a] = None
           THEN /\ pools' = [pools EXCEPT ![a] = user[u].pool]
                /\ user' = [user EXCEPT ![u].pc = "have"]
                /\ UNCHANGED state
           ELSE /\ state' = [state EXCEPT ![user[u].pool] = "closed"]
                /\ user' = [user EXCEPT ![u].pc = "have", ![u].pool = pools[a]]
                /\ UNCHANGED pools
        /\ UNCHANGED <<home, toClose, mine, ctxDone, shutdown>>

\* Pool.Query takes a connection out of an open pool.
Acquire(u) ==
    /\ user[u].pc = "have"
    /\ state[user[u].pool] = "open"
    /\ user' = [user EXCEPT ![u].pc = "using"]
    /\ UNCHANGED <<pools, state, home, toClose, mine, ctxDone, shutdown>>

\* Pool.Query fails: the pool has been closed since Get returned it, the
\* context is cancelled, or the node cannot be reached.
Refused(u) ==
    /\ user[u].pc = "have"
    /\ user' = [user EXCEPT ![u] = Rest]
    /\ UNCHANGED <<pools, state, home, toClose, mine, ctxDone, shutdown>>

\* The rows are closed: the connection goes back.
Finish(u) ==
    /\ user[u].pc = "using"
    /\ user' = [user EXCEPT ![u] = Rest]
    /\ UNCHANGED <<pools, state, home, toClose, mine, ctxDone, shutdown>>

-----------------------------------------------------------------------------
(* Manager.DrainAsync, Manager.Close *)

\* A mutant: an address without a pool is drained like any other.
drainMissing(a) ==
    /\ shutdown = "running"
    /\ toClose' = toClose \cup {pools[a]}
    /\ pools' = [pools EXCEPT ![a] = None]
    /\ UNCHANGED <<state, home, mine, user, ctxDone, shutdown>>

\* A mutant: the drained pool is left in the manager.
drainKeeps(a) ==
    /\ shutdown = "running"
    /\ toClose' = toClose \cup ({pools[a]} \ {None})
    /\ UNCHANGED <<pools, state, home, mine, user, ctxDone, shutdown>>

\* detach, under the mutex; the close, if there was a pool, is left to a
\* goroutine of its own.  Only the failover controller drains, so not after
\* the checker has been stopped.
DrainAsync(a) ==
    /\ shutdown = "running"
    /\ toClose' = toClose \cup ({pools[a]} \ {None})
    /\ pools' = [pools EXCEPT ![a] = None]
    /\ UNCHANGED <<state, home, mine, user, ctxDone, shutdown>>

\* A mutant: the background close is given up when the application stops.
closeUnlessDone(p) ==
    /\ p \in toClose /\ ~ctxDone
    /\ toClose' = toClose \ {p}
    /\ state' = [state EXCEPT ![p] = "closing"]
    /\ UNCHANGED <<pools, home, mine, user, ctxDone, shutdown>>

\* pgxpool.Close begins: no connection is handed out any more.
BeginClose(p) ==
    /\ p \in toClose
    /\ toClose' = toClose \ {p}
    /\ state' = [state EXCEPT ![p] = "closing"]
    /\ UNCHANGED <<pools, home, mine, user, ctxDone, shutdown>>

InUse(p) == \E u \in Users : user[u].pc = "using" /\ user[u].pool = p

\* pgxpool.Close ends: every connection has come back.
EndClose(p) ==
    /\ state[p] = "closing"
    /\ ~InUse(p)
    /\ state' = [state EXCEPT ![p] = "closed"]
    /\ mine' = mine \ {p}
    /\ UNCHANGED <<pools, home, toClose, user, ctxDone, shutdown>>

\* The application is told to stop.
Cancel ==
    /\ ~ctxDone
    /\ ctxDone' = TRUE
    /\ UNCHANGED <<pools, state, home, toClose, mine, user, shutdown>>

\* Manager.Close, under the mutex: the checker has returned, so none of its
\* calls is under way; every registered pool is detached.
Close ==
    /\ ctxDone /\ shutdown = "running"
    /\ \A u \in Probes : user[u].pc = "idle"
    /\ shutdown' = "closing"
    /\ mine' = {pools[a] : a \in {b \in Addrs : pools[b] # None}}
    /\ pools' = [a \in Addrs |-> None]
    /\ UNCHANGED <<state, home, toClose, user, ctxDone>>

\* Manager.Close, outside the mutex: p.Close() on one pool after the other.
CloseNext(p) ==
    /\ shutdown = "closing" /\ p \in mine /\ state[p] = "open"
    /\ \A q \in mine : state[q] # "closing"
    /\ state' = [state EXCEPT ![p] = "closing"]
    /\ UNCHANGED <<pools, home, toClose, mine, user, ctxDone, shutdown>>

\* A mutant: Close goes on until the manager has no pool.
returnWhenEmpty ==
    /\ shutdown = "closing"
    /\ mine = {} /\ \A a \in Addrs : pools[a] = None
    /\ shutdown' = "returned"
    /\ UNCHANGED <<pools, state, home, toClose, mine, user, ctxDone>>

\* Manager.Close returns.  Pools that are still being drained in the
\* background are not waited for.
CloseReturn ==
    /\ shutdown = "closing"
    /\ mine = {}
    /\ shutdown' = "returned"
    /\ UNCHANGED <<pools, state, home, toClose, mine, user, ctxDone>>

-----------------------------------------------------------------------------
UserStep(u) ==
    \/ \E p \in Pools : NewPool(u, p)
    \/ NewPoolFails(u)
    \/ Install(u)
    \/ Acquire(u)
    \/ Refused(u)
    \/ Finish(u)

CloseStep(p) == BeginClose(p) \/ CloseNext(p) \/ EndClose(p)

Next ==
    \/ \E u \in Users, a \in Addrs : Lookup(u, a)
    \/ \E u \in Users : UserStep(u)
    \/ \E a \in Addrs : DrainAsync(a)
    \/ \E p \in Pools : CloseStep(p)
    \/ Cancel
    \/ Close
    \/ CloseReturn

Spec == Init /\ [][Next]_vars

\* Goroutines are scheduled; a query comes to an end, by itself or because its
\* context is cancelled, and its client reads the rows.
Fairness ==
    /\ \A u \in Users : WF_vars(UserStep(u))
    /\ \A p \in Pools : WF_vars(CloseStep(p))
    /\ WF_vars(CloseReturn)

FairSpec == Spec /\ Fairness

-----------------------------------------------------------------------------
(* Properties *)

\* No pool leaks: an open pool is registered for the address it was built for,
\* or in the hands of the one goroutine that is about to register it, or on
\* its way to be closed (the lost race in Get; detach; Close).
NoPoolLeaks ==
    \A p \in Pools : state[p] = "open" =>
        \/ pools[home[p]] = p
        \/ \E u \in Users : user[u].pc = "install" /\ user[u].pool = p
        \/ p \in toClose \cup mine

\* A pool that Get finds in the manager works: it is open, and it connects to
\* the address asked for; no drain and no lost race has closed it underneath.
RegisteredPoolsWork ==
    \A a \in Addrs : pools[a] # None =>
        /\ state[pools[a]] = "open"
        /\ home[pools[a]] = a
        /\ pools[a] \notin toClose \cup mine

\* "Close closes every node's pool": when the application returns, the manager
\* is left without an open pool.
NothingOpenAfterClose ==
    shutdown = "returned" => \A a \in Addrs : pools[a] = None

\* A drained pool is closed in the end, however busy it was, although new
\* pools for the same address may come and go meanwhile (DrainAsync).
DrainCompletes == \A p \in Pools : p \in toClose ~> state[p] = "closed"

\* Manager.Close returns, with queries under way and client goroutines still
\* calling Get.
CloseCompletes == shutdown = "closing" ~> shutdown = "returned"
=============================================================================
