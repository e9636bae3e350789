------------------------------- MODULE Config -------------------------------
(***************************************************************************)
(* internal/config: Load turns a configuration file into a configuration,  *)
(* or refuses it with the first problem it meets; health.withDefaults has  *)
(* the last word on what the checker runs with.                            *)
(*                                                                         *)
(* A field that the file may omit is a set: empty when it is omitted (or,  *)
(* for the interval, when it is not a duration), else its one value.  The  *)
(* empty string is a name that is missing.  Durations are whole seconds.   *)
(***************************************************************************)
EXTENDS Integers, Sequences, SequencesExt

NoName == ""
Optional(S) == {field \in SUBSET S : \A v, w \in field : v = w}

\* A file as the parser leaves it, with these names of shards and of nodes.
rawConfig(ids, addrs) ==
    [readable : BOOLEAN, interval : Optional(Int), suspectAfterMisses : Optional(Int),
     downAfterMisses : Optional(Int), pgPromote : Optional(BOOLEAN),
     quorumGuard : Optional(BOOLEAN), defaultMaxLagMS : Optional(Int),
     user : STRING, database : STRING,
     shards : Seq([id : ids \cup {NoName}, primary : addrs \cup {NoName}, replicas : Seq(addrs)])]

\* The value of a field, or its default.
Given(field, default) == IF field = {} THEN default ELSE CHOOSE v \in field : TRUE

\* resolveHealth, up to its checks.
resolveHealth(raw) ==
    [suspectAfterMisses |-> Given(raw.suspectAfterMisses, 1),
     downAfterMisses    |-> Given(raw.downAfterMisses, 3),
     pgPromote          |-> Given(raw.pgPromote, TRUE),
     quorumGuard        |-> Given(raw.quorumGuard, TRUE)]

\* resolveRouting, up to its check.
resolveRouting(raw) == Given(raw.defaultMaxLagMS, 1000)

\* A check, and what becomes of several in a row: the first that fails has
\* its error returned.
NoError == "none"
Check(failed, error) == IF failed THEN error ELSE NoError
First(checks) ==
    LET k == SelectInSeq(checks, LAMBDA error : error # NoError)
    IN  IF k = 0 THEN NoError ELSE checks[k]

\* One turn of Load's loop over the shards.
ShardError(shards, i) ==
    First(<<Check(shards[i].id = NoName, "no_id"),
            Check(\E j \in 1 .. i - 1 : shards[j].id = shards[i].id, "duplicate_id"),
            Check(shards[i].primary = NoName, "no_primary")>>)

\* The checks of resolveHealth.
HealthError(health) ==
    First(<<Check(health.suspectAfterMisses < 1, "suspect"),
            Check(health.downAfterMisses < health.suspectAfterMisses, "down")>>)

\* What Load looks at before the shards, in the order in which it does.
FileError(raw) ==
    First(<<Check(~raw.readable, "file"),
            Check(raw.interval = {}, "interval"),
            HealthError(resolveHealth(raw)),
            Check(resolveRouting(raw) < 0, "max_lag"),
            Check(raw.shards = <<>>, "no_shards"),
            Check(raw.user = NoName, "user"),
            Check(raw.database = NoName, "database")>>)

\* Load: the first error, or the configuration.
Load(raw) ==
    LET error == First(<<FileError(raw)>> \o [i \in DOMAIN raw.shards |-> ShardError(raw.shards, i)])
    IN  IF error # NoError
        THEN [error |-> error]
        ELSE [error           |-> NoError,
              interval        |-> Given(raw.interval, 0),
              health          |-> resolveHealth(raw),
              defaultMaxLagMS |-> resolveRouting(raw),
              shards          |-> raw.shards]

\* A mutant: only an interval of zero is replaced by the default.
zeroOnly(cfg) ==
    [interval           |-> IF cfg.interval = 0 THEN 2 ELSE cfg.interval,
     suspectAfterMisses |-> cfg.health.suspectAfterMisses,
     downAfterMisses    |-> cfg.health.downAfterMisses]

\* The options app.New gives to NewChecker, after withDefaults.  Load accepts
\* any duration, so the interval needs it; the thresholds do not.
CheckerOptions(cfg) ==
    LET OrDefault(n, default) == IF n <= 0 THEN default ELSE n
    IN  [interval           |-> OrDefault(cfg.interval, 2),
         suspectAfterMisses |-> OrDefault(cfg.health.suspectAfterMisses, 1),
         downAfterMisses    |-> OrDefault(cfg.health.downAfterMisses, 3)]
=============================================================================
