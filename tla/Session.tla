------------------------------ MODULE Session ------------------------------
(***************************************************************************)
(* internal/proxy: one goroutine per client runs handleConn, which reads   *)
(* commands and, for each, answers with the result of one statement on a   *)
(* pooled backend connection.  The sessions meet at the pools, whose       *)
(* connections are few.                                                    *)
(*                                                                         *)
(* A client may go away at any moment: reads then fail at once and writes  *)
(* sooner or later, because they go through a buffer.  A backend runs a    *)
(* statement at its own pace: Query returns as soon as the statement is    *)
(* prepared and sent, and its outcome is known when the rows are closed.   *)
(* Its connection may break at any moment.                                 *)
(*                                                                         *)
(* The choice of the node is reduced to its role (see Router) and the life *)
(* of the pools is left out (see PoolManager).                             *)
(***************************************************************************)
EXTENDS SQLText, FiniteSets

CONSTANTS
    Sessions,   \* client connections
    Texts,      \* the texts clients send as queries
    MaxConns,   \* connections of a pool
    MaxRows     \* bound: rows of a result

ASSUME SessionAssumption ==
    MaxConns \in Nat \ {0} /\ MaxRows \in Nat /\ Texts \subseteq Seq(Tokens)

VARIABLES
    cancelled,   \* the context of the application has been cancelled
    pc,          \* session -> where its goroutine is
    client,      \* session -> "here" or "gone"
    cmd,         \* session -> the command it has read last
    reply,       \* session -> the messages written since
    target,      \* session -> the node its query was routed to
    link,        \* session -> the backend connection it has checked out
    stmt,        \* session -> its statement, on the server
    free         \* role -> connections of the node's pool that are not out

vars == <<cancelled, pc, client, cmd, reply, target, link, stmt, free>>
pool == <<target, link, free>>
env == <<cancelled, client>>

Roles == {"primary", "replica"}
None == "none"

\* RowDescription, DataRow, CommandComplete, ErrorResponse (with SQLSTATE
\* 0A000 or another) and ReadyForQuery; before them those of the handshake.
Errors == {"E_0A000", "E"}
Replies == Errors \cup {"T", "D", "C", "Z", "N", "R", "S", "K"}

\* What the server will make of a query, and what handleQuery makes of it.
Command(q) == [type |-> "Q", runs |-> ServerReads(q).word, odd |-> ServerReads(q).odd > 0]
NoQuery == [type |-> None, runs |-> NoWord, odd |-> FALSE]
Queries ==
    {[cmd |-> Command(q), refused |-> isTransactionControl(q), level |-> consistencyFromQuery(q)] :
        q \in Texts}

Commands == {q.cmd : q \in Queries} \cup {NoQuery}

HasColumns(s) == cmd[s].runs = "SELECT"

Init ==
    /\ cancelled = FALSE
    /\ pc = [s \in Sessions |-> "absent"]
    /\ client = [s \in Sessions |-> "here"]
    /\ cmd = [s \in Sessions |-> NoQuery]
    /\ reply = [s \in Sessions |-> <<>>]
    /\ target = [s \in Sessions |-> None]
    /\ link = [s \in Sessions |-> None]
    /\ stmt = [s \in Sessions |-> None]
    /\ free = [r \in Roles |-> MaxConns]

Goto(s, p) == pc' = [pc EXCEPT ![s] = p]
Write(s, m) == reply' = [reply EXCEPT ![s] = Append(@, m)]

\* The statement is over and done with.
Forget(s) ==
    /\ cmd' = [cmd EXCEPT ![s] = NoQuery]
    /\ stmt' = [stmt EXCEPT ![s] = None]

\* handleConn returns; the deferred conn.Close runs.
HangUp(s) ==
    /\ Goto(s, "closed")
    /\ Forget(s)
    /\ reply' = [reply EXCEPT ![s] = <<>>]

-----------------------------------------------------------------------------
(* The listener and the handshake *)

\* Run: Accept, and a goroutine for the connection.
Accept(s) ==
    /\ ~cancelled
    /\ pc[s] = "absent"
    /\ Goto(s, "startup")
    /\ UNCHANGED <<env, cmd, reply, pool, stmt>>

\* Run returns, because the context is done or Accept failed, and App.Run
\* cancels the context in any case.  The sessions go on.
ListenerReturn ==
    /\ ~cancelled
    /\ cancelled' = TRUE
    /\ UNCHANGED <<pc, client, cmd, reply, pool, stmt>>

\* readStartupParams answers a request for encryption with 'N' and reads on.
Decline(s) ==
    /\ pc[s] = "startup"
    /\ client[s] = "here"
    /\ reply' = [reply EXCEPT ![s] = <<"N">>]
    /\ UNCHANGED <<env, pc, cmd, pool, stmt>>

\* A message that is too short, or has an unknown code.
StartupFails(s) ==
    /\ pc[s] = "startup"
    /\ HangUp(s)
    /\ UNCHANGED <<env, pool>>

\* The startup message: AuthenticationOk, the ParameterStatus messages,
\* BackendKeyData and ReadyForQuery, in one flush.
Greet(s) ==
    /\ pc[s] = "startup"
    /\ reply' = [reply EXCEPT ![s] = <<"R", "S", "K", "Z">>]
    /\ Goto(s, "ready")
    /\ UNCHANGED <<env, cmd, pool, stmt>>

\* The client goes away.
Disconnect(s) ==
    /\ pc[s] \notin {"absent", "closed"}
    /\ client' = [client EXCEPT ![s] = "gone"]
    /\ UNCHANGED <<cancelled, pc, cmd, reply, pool, stmt>>

\* handleConn returns because a read, a write or a flush has failed.
ConnFails(s) ==
    /\ client[s] = "gone"
    /\ pc[s] \in {"startup", "ready", "respond"}
    /\ HangUp(s)
    /\ UNCHANGED <<env, pool>>

-----------------------------------------------------------------------------
(* The command loop *)

\* A command has been read: the reply to it begins with these messages.
Read(s, c, msgs) ==
    /\ pc[s] = "ready"
    /\ cmd' = [cmd EXCEPT ![s] = c]
    /\ reply' = [reply EXCEPT ![s] = msgs]
    /\ UNCHANGED stmt

\* 'Q', transaction control: handleQuery refuses it.
ReadRefused(s) ==
    \E q \in Queries :
        /\ q.refused
        /\ Read(s, q.cmd, <<"E_0A000">>)
        /\ Goto(s, "respond")
        /\ UNCHANGED <<env, pool>>

\* 'Q', but Resolve or Get fails.
ReadUnroutable(s) ==
    \E q \in Queries :
        /\ ~q.refused
        /\ Read(s, q.cmd, <<"E">>)
        /\ Goto(s, "respond")
        /\ UNCHANGED <<env, pool>>

\* The roles Resolve may choose for a level: a replica, if one will do.
RolesFor(level) == IF level = "strong" THEN {"primary"} ELSE Roles

\* 'Q', resolved to a node, whose pool Get has returned.
ReadRouted(s) ==
    \E q \in Queries : \E r \in RolesFor(q.level) :
        /\ ~q.refused
        /\ Read(s, q.cmd, <<>>)
        /\ target' = [target EXCEPT ![s] = r]
        /\ Goto(s, "acquire")
        /\ UNCHANGED <<env, link, free>>

\* 'X'
Terminate(s) ==
    /\ pc[s] = "ready"
    /\ HangUp(s)
    /\ UNCHANGED <<env, pool>>

\* Any other type of message.
ReadUnsupported(s) ==
    /\ Read(s, NoQuery, <<"E_0A000">>)
    /\ Goto(s, "respond")
    /\ UNCHANGED <<env, pool>>

\* The end of an iteration: ReadyForQuery and a flush.
Respond(s) ==
    /\ pc[s] = "respond"
    /\ Write(s, "Z")
    /\ Forget(s)
    /\ Goto(s, "ready")
    /\ UNCHANGED <<env, pool>>

-----------------------------------------------------------------------------
(* handleQuery from backend.Query on, and streamResult *)

\* A result with columns begins with a RowDescription.
DescribeRows(s) == IF HasColumns(s) THEN Write(s, "T") ELSE UNCHANGED reply

\* Query takes a connection, prepares the statement and sends it off;
\* streamResult begins.
StartQuery(s) ==
    /\ pc[s] = "acquire"
    /\ free[target[s]] > 0
    /\ cmd[s].runs # "error"
    /\ free' = [free EXCEPT ![target[s]] = @ - 1]
    /\ link' = [link EXCEPT ![s] = "held"]
    /\ stmt' = [stmt EXCEPT ![s] = "running"]
    /\ DescribeRows(s)
    /\ Goto(s, "stream")
    /\ UNCHANGED <<env, cmd, target>>

\* Query fails: the context is done, or with a connection in hand the server
\* cannot be reached or refuses the text.
QueryFails(s) ==
    /\ pc[s] = "acquire"
    /\ cancelled \/ free[target[s]] > 0
    /\ target' = [target EXCEPT ![s] = None]
    /\ Write(s, "E")
    /\ Goto(s, "respond")
    /\ UNCHANGED <<env, cmd, link, stmt, free>>

\* The connection goes back to its pool.
Release(s) ==
    /\ free' = [free EXCEPT ![target[s]] = @ + 1]
    /\ link' = [link EXCEPT ![s] = None]
    /\ target' = [target EXCEPT ![s] = None]

RowIsRead(s) ==
    /\ pc[s] = "stream"
    /\ HasColumns(s)
    /\ link[s] = "held"
    /\ stmt[s] \in {"running", "done"}
    /\ Len(reply[s]) <= MaxRows

\* Next returns a row.
StreamRow(s) ==
    /\ RowIsRead(s)
    /\ Write(s, "D")
    /\ UNCHANGED <<env, pc, cmd, pool, stmt>>

\* A mutant: the error leaves the loop but not the function.
breaksOnly(s) ==
    /\ RowIsRead(s)
    /\ Write(s, "E")
    /\ UNCHANGED <<env, pc, cmd, pool, stmt>>

\* A mutant: handleQuery does not defer rows.Close.
rowsLeftOpen(s) ==
    /\ RowIsRead(s)
    /\ Write(s, "E")
    /\ Goto(s, "respond")
    /\ UNCHANGED <<env, cmd, pool, stmt>>

\* Values cannot decode the row: the reply ends, the rows are still open.
ValuesFail(s) ==
    /\ RowIsRead(s)
    /\ Write(s, "E")
    /\ Goto(s, "drain")
    /\ UNCHANGED <<env, cmd, pool, stmt>>

\* A mutant: the session ends with its rows open.
connLeftOut(s) ==
    /\ pc[s] = "stream"
    /\ HasColumns(s)
    /\ client[s] = "gone"
    /\ Goto(s, "closed")
    /\ UNCHANGED <<env, cmd, reply, pool, stmt>>

\* RowDescription or a DataRow cannot be written: streamResult returns.
WriteFails(s) ==
    /\ pc[s] = "stream"
    /\ HasColumns(s)
    /\ client[s] = "gone"
    /\ Goto(s, "drain")
    /\ UNCHANGED <<env, cmd, reply, pool, stmt>>

\* A mutant: a statement without columns is acknowledged without waiting.
endsEarly(s) ==
    /\ pc[s] = "stream"
    /\ HasColumns(s) => stmt[s] # "running"
    /\ Release(s)
    /\ Write(s, IF stmt[s] \in {"running", "done"} /\ link[s] = "held" THEN "C" ELSE "E")
    /\ Goto(s, "respond")
    /\ UNCHANGED <<env, cmd, stmt>>

\* A mutant: the connection is given back by hand although Next has done so.
releasesTwice(s) ==
    /\ pc[s] = "stream"
    /\ stmt[s] # "running"
    /\ free' = [free EXCEPT ![target[s]] = @ + 2]
    /\ link' = [link EXCEPT ![s] = None]
    /\ target' = [target EXCEPT ![s] = None]
    /\ Write(s, IF stmt[s] = "done" /\ link[s] = "held" THEN "C" ELSE "E")
    /\ Goto(s, "respond")
    /\ UNCHANGED <<env, cmd, stmt>>

\* Next returns false, which closes the rows and gives the connection back;
\* Err then decides between CommandComplete and ErrorResponse.
StreamEnd(s) ==
    /\ pc[s] = "stream"
    /\ stmt[s] # "running"
    /\ Release(s)
    /\ Write(s, IF stmt[s] = "done" /\ link[s] = "held" THEN "C" ELSE "E")
    /\ Goto(s, "respond")
    /\ UNCHANGED <<env, cmd, stmt>>

\* The deferred rows.Close, after an early return: it reads the result to the
\* end.  handleQuery returns the error, if any, of the write.
CloseRows(s) ==
    /\ pc[s] = "drain"
    /\ stmt[s] # "running"
    /\ Release(s)
    /\ IF Last(reply[s]) \in Errors
       THEN Goto(s, "respond") /\ UNCHANGED <<cmd, reply, stmt>>
       ELSE HangUp(s)
    /\ UNCHANGED env

-----------------------------------------------------------------------------
(* The backend *)

\* A statement ends; one that writes cannot succeed on a replica.
Execute(s) ==
    /\ stmt[s] = "running"
    /\ \/ /\ cmd[s].runs = "INSERT" => target[s] = "primary"
          /\ stmt' = [stmt EXCEPT ![s] = "done"]
       \/ stmt' = [stmt EXCEPT ![s] = "failed"]
    /\ UNCHANGED <<env, pc, cmd, reply, pool>>

\* The connection breaks; whether a running statement took effect is unknown.
BreakLink(s) ==
    /\ link[s] = "held"
    /\ link' = [link EXCEPT ![s] = "broken"]
    /\ stmt' = [stmt EXCEPT ![s] = IF @ = "running" THEN "lost" ELSE @]
    /\ UNCHANGED <<env, pc, cmd, reply, target, free>>

-----------------------------------------------------------------------------

Stream(s) == StreamRow(s) \/ ValuesFail(s) \/ WriteFails(s) \/ StreamEnd(s) \/ CloseRows(s)

SessionStep(s) ==
    \/ Accept(s) \/ Decline(s) \/ StartupFails(s) \/ Greet(s)
    \/ Disconnect(s) \/ ConnFails(s)
    \/ ReadRefused(s) \/ ReadUnroutable(s) \/ ReadRouted(s) \/ ReadUnsupported(s)
    \/ Terminate(s) \/ Respond(s)
    \/ StartQuery(s) \/ QueryFails(s)
    \/ Stream(s)
    \/ Execute(s) \/ BreakLink(s)

Next == ListenerReturn \/ \E s \in Sessions : SessionStep(s)

Spec == Init /\ [][Next]_vars

\* A goroutine that can go on does; a statement ends; a client reads what it
\* is sent or goes away.  The pool serves those who wait in turn, so that one
\* who waits is not passed over for ever.
Fairness ==
    \A s \in Sessions :
        /\ WF_vars(Respond(s) \/ ConnFails(s))
        /\ WF_vars(Stream(s))
        /\ WF_vars(Execute(s))
        /\ SF_vars(StartQuery(s) \/ QueryFails(s))

FairSpec == Spec /\ Fairness

-----------------------------------------------------------------------------
(* Properties *)

\* Types, and no pool has more connections than it began with.
TypeOK ==
    /\ cancelled \in BOOLEAN
    /\ pc \in [Sessions -> {"absent", "startup", "ready", "acquire", "stream", "drain",
                            "respond", "closed"}]
    /\ client \in [Sessions -> {"here", "gone"}]
    /\ cmd \in [Sessions -> Commands]
    /\ \A s \in Sessions : reply[s] \in Seq(Replies)
    /\ target \in [Sessions -> Roles \cup {None}]
    /\ link \in [Sessions -> {None, "held", "broken"}]
    /\ stmt \in [Sessions -> {None, "running", "done", "failed", "lost"}]
    /\ free \in [Roles -> 0 .. MaxConns]

\* What a client gets for a command is one reply of the simple query protocol,
\* as far as it has come: a RowDescription and rows for a statement that has
\* columns, one CommandComplete or one ErrorResponse, which may come after
\* rows, and one ReadyForQuery, without which the client would wait for ever
\* (the comment in handleConn before its ReadyForQuery).
ReplyWellFormed ==
    \A s \in Sessions :
        LET r == reply[s]
            Ends(i) == r[i] \in Errors \cup {"C"}
        IN  /\ pc[s] = "ready" => Last(r) = "Z"
            /\ pc[s] \notin {"startup", "closed"} /\ r # <<"R", "S", "K", "Z">> =>
                  \A i \in 1 .. Len(r) :
                      /\ r[i] = "T" => i = 1
                      /\ r[i] = "D" => i > 1 /\ r[i - 1] \in {"T", "D"}
                      /\ Ends(i) => i = 1 \/ r[i - 1] \in {"T", "D"}
                      /\ r[i] = "C" /\ pc[s] = "respond" => (r[1] = "T" <=> HasColumns(s))
                      /\ r[i] = "Z" => i = Len(r) /\ i > 1 /\ Ends(i - 1)

\* A statement that the client is told has completed has completed on the
\* server when it is told: streamResult writes CommandComplete when the rows are closed and
\* without error, also for statements without columns.
AcknowledgedIsDone ==
    \A s \in Sessions : pc[s] = "respond" /\ "C" \in ToSet(reply[s]) => stmt[s] = "done"

\* A connection is out exactly while a session streams or closes rows, errors
\* and lost clients included (the deferred rows.Close of handleQuery), and one
\* that goes back has no statement running on it.
ConnectionsComeBack ==
    /\ \A s \in Sessions :
          /\ link[s] # None <=> pc[s] \in {"stream", "drain"}
          /\ stmt[s] = "running" => link[s] = "held"
    /\ \A r \in Roles :
          free[r] + Cardinality({s \in Sessions : link[s] # None /\ target[s] = r}) = MaxConns

\* No statement reaches a backend that would open or end a transaction there,
\* and none that would run is refused as one, unless the text has in front of
\* its statement one of the five things that leadingKeyword and PostgreSQL see
\* differently (ServerReads: a nested block comment, "/*/", a line comment that
\* a lone carriage return ends, a form feed, an empty statement).  With those a
\* BEGIN is forwarded.
TransactionsStayOut ==
    \A s \in Sessions :
        cmd[s].type = "Q" /\ ~cmd[s].odd =>
            /\ pc[s] \in {"acquire", "stream", "drain"} => cmd[s].runs \notin TransactionControl
            /\ reply[s] # <<>> /\ reply[s][1] = "E_0A000" =>
                  cmd[s].runs \in TransactionControl \cup {"error"}

\* A command that has been read is answered, or the session ends, although
\* sessions compete for the connections of a pool and clients may go away
\* while they hold one.
CommandsAnswered ==
    \A s \in Sessions :
        pc[s] \in {"acquire", "stream", "drain", "respond"} ~> pc[s] \in {"ready", "closed"}
=============================================================================
