-------------------------- MODULE SimulatorProofs --------------------------
(***************************************************************************)
(* Proofs about the routing simulator: what Load accepts, what New and the *)
(* actions of the UI make of it, and that the answers are true.            *)
(***************************************************************************)
EXTENDS Simulator, ListFacts

LEMMA Constants == Lags \cup {0} \subseteq Int /\ MaxEvents \in Nat \ {0}
  <1>1. Lags \subseteq Int /\ MaxEvents \in Nat \ {0}
    BY SimulatorAssumption, Zenon
  <1> QED
    BY <1>1

-----------------------------------------------------------------------------
(* What Load accepts. *)

\* A row of checks is without an error just if no check failed.
LEMMA FirstNone ==
    ASSUME NEW S, NEW q \in Seq(S)
    PROVE  First(q) = NoError <=> \A k \in 1 .. Len(q) : q[k] = NoError
  <1> DEFINE I == {i \in 1 .. Len(q) : q[i] # NoError}
             m == Min(I)
  <1>1. SelectInSeq(q, LAMBDA error : error # NoError) = IF I # {} THEN m ELSE 0
    BY DEF SelectInSeq
  <1>2. CASE I = {}
    <2>1. First(q) = NoError
      BY <1>1, <1>2 DEF First
    <2> QED
      BY <1>2, <2>1
  <1>3. CASE I # {}
    <2>1. I \in SUBSET Nat
      OBVIOUS
    <2>2. m \in I
      BY <1>3, <2>1, MinOfSet
    <2>3. m # 0
      BY <2>2
    <2>4. First(q) = q[m]
      BY <1>1, <1>3, <2>3 DEF First
    <2> QED
      BY <2>2, <2>4
  <1> QED
    BY <1>2, <1>3

LEMMA CheckNone ==
    ASSUME NEW failed \in BOOLEAN, NEW error, error # NoError
    PROVE  Check(failed, error) = NoError <=> ~failed
  BY Zenon DEF Check

\* A shard of a configuration.
Item == [id : Shards, primary : Addrs, replicas : Seq(Addrs)]

\* What the simulator relies on in a configuration it is given.
Accepted(c) ==
    /\ c.shards \in Seq(Item)
    /\ \A i, j \in 1 .. Len(c.shards) : c.shards[i].id = c.shards[j].id => i = j

\* What the checker relies on in one.
Runnable(c) ==
    /\ c.interval \in Int
    /\ c.health.suspectAfterMisses \in Int /\ c.health.downAfterMisses \in Int
    /\ 1 <= c.health.suspectAfterMisses /\ c.health.suspectAfterMisses <= c.health.downAfterMisses

LEMMA GivenType ==
    ASSUME NEW field \in SUBSET Int, NEW default \in Int
    PROVE  Given(field, default) \in Int
  BY DEF Given

LEMMA HealthAccepted ==
    ASSUME NEW h
    PROVE  HealthError(h) = NoError <=>
              ~(h.suspectAfterMisses < 1) /\ ~(h.downAfterMisses < h.suspectAfterMisses)
  <1> DEFINE a == Check(h.suspectAfterMisses < 1, "suspect")
             b == Check(h.downAfterMisses < h.suspectAfterMisses, "down")
             q == <<a, b>>
  <1>1. HealthError(h) = First(q)
    BY DEF HealthError
  <1>2. /\ a = NoError <=> ~(h.suspectAfterMisses < 1)
        /\ b = NoError <=> ~(h.downAfterMisses < h.suspectAfterMisses)
    BY DEF Check, NoError
  <1> HIDE DEF a, b
  <1>3. q \in Seq({a, b}) /\ Len(q) = 2 /\ q[1] = a /\ q[2] = b
    OBVIOUS
  <1> HIDE DEF q
  <1>4. First(q) = NoError <=> \A k \in 1 .. Len(q) : q[k] = NoError
    BY <1>3, FirstNone
  <1>5. 1 .. Len(q) = {1, 2}
    BY <1>3
  <1> QED
    BY <1>1, <1>2, <1>3, <1>4, <1>5

LEMMA ShardAccepted ==
    ASSUME NEW shards, NEW i
    PROVE  ShardError(shards, i) = NoError <=>
              /\ shards[i].id # NoName /\ shards[i].primary # NoName
              /\ \A j \in 1 .. i - 1 : shards[j].id # shards[i].id
  <1> DEFINE twice == \E j \in 1 .. i - 1 : shards[j].id = shards[i].id
             a == Check(shards[i].id = NoName, "no_id")
             b == Check(twice, "duplicate_id")
             c == Check(shards[i].primary = NoName, "no_primary")
             q == <<a, b, c>>
  <1>1. ShardError(shards, i) = First(q)
    BY DEF ShardError
  <1>2. /\ a = NoError <=> shards[i].id # NoName
        /\ b = NoError <=> ~twice
        /\ c = NoError <=> shards[i].primary # NoName
    <2> HIDE DEF twice
    <2> QED
      BY DEF Check, NoError
  <1> HIDE DEF a, b, c
  <1>3. q \in Seq({a, b, c}) /\ Len(q) = 3 /\ q[1] = a /\ q[2] = b /\ q[3] = c
    OBVIOUS
  <1> HIDE DEF q
  <1>4. First(q) = NoError <=> \A k \in 1 .. Len(q) : q[k] = NoError
    BY <1>3, FirstNone
  <1>5. 1 .. Len(q) = {1, 2, 3}
    BY <1>3
  <1>6. First(q) = NoError <=> a = NoError /\ b = NoError /\ c = NoError
    BY <1>3, <1>4, <1>5
  <1> QED
    BY <1>1, <1>2, <1>6

\* What the file must be before its shards are looked at.
SoundHead(raw) ==
    /\ raw.readable /\ raw.interval # {}
    /\ HealthError(resolveHealth(raw)) = NoError
    /\ ~(resolveRouting(raw) < 0)
    /\ raw.shards # <<>> /\ raw.user # NoName /\ raw.database # NoName

LEMMA FileAccepted ==
    ASSUME NEW raw, raw.readable \in BOOLEAN
    PROVE  FileError(raw) = NoError <=> SoundHead(raw)
  <1> DEFINE a == Check(~raw.readable, "file")
             b == Check(raw.interval = {}, "interval")
             c == HealthError(resolveHealth(raw))
             d == Check(resolveRouting(raw) < 0, "max_lag")
             e == Check(raw.shards = <<>>, "no_shards")
             f == Check(raw.user = NoName, "user")
             g == Check(raw.database = NoName, "database")
             q == <<a, b, c, d, e, f, g>>
  <1>1. FileError(raw) = First(q)
    BY DEF FileError
  <1>2. a = NoError <=> raw.readable
    <2>1. "file" # NoError
      BY DEF NoError
    <2>2. (~raw.readable) \in BOOLEAN
      BY Zenon
    <2> QED
      BY <2>1, <2>2, CheckNone, Zenon
  <1>3. /\ b = NoError <=> raw.interval # {}
        /\ d = NoError <=> ~(resolveRouting(raw) < 0)
        /\ e = NoError <=> raw.shards # <<>>
        /\ f = NoError <=> raw.user # NoName
        /\ g = NoError <=> raw.database # NoName
    BY DEF Check, NoError
  <1> HIDE DEF a, b, c, d, e, f, g
  <1>4. /\ q \in Seq({a, b, c, d, e, f, g}) /\ Len(q) = 7
        /\ q[1] = a /\ q[2] = b /\ q[3] = c /\ q[4] = d /\ q[5] = e /\ q[6] = f /\ q[7] = g
    OBVIOUS
  <1> HIDE DEF q
  <1>5. First(q) = NoError <=> \A k \in 1 .. Len(q) : q[k] = NoError
    BY <1>4, FirstNone
  <1>6. 1 .. Len(q) = {1, 2, 3, 4, 5, 6, 7}
    BY <1>4
  <1>7. First(q) = NoError <=> /\ a = NoError /\ b = NoError /\ c = NoError /\ d = NoError
                              /\ e = NoError /\ f = NoError /\ g = NoError
    BY <1>4, <1>5, <1>6
  <1> QED
    BY <1>1, <1>2, <1>3, <1>7, Zenon DEF SoundHead, c

\* What Load returns, and that it is without an error just if the head of the
\* file and all its shards are.
LEMMA LoadFacts ==
    ASSUME NEW raw, NEW S, raw.shards \in Seq(S)
    PROVE  /\ Load(raw).error = NoError <=>
                 /\ FileError(raw) = NoError
                 /\ \A i \in 1 .. Len(raw.shards) : ShardError(raw.shards, i) = NoError
           /\ Load(raw).error = NoError =>
                 /\ Load(raw).shards = raw.shards
                 /\ Load(raw).interval = Given(raw.interval, 0)
                 /\ Load(raw).health = resolveHealth(raw)
  <1> DEFINE n == Len(raw.shards)
             turn == [i \in DOMAIN raw.shards |-> ShardError(raw.shards, i)]
             file == <<FileError(raw)>>
             q == file \o turn
             T == {FileError(raw)} \cup {ShardError(raw.shards, i) : i \in 1 .. n}
  <1>0. n \in Nat /\ DOMAIN raw.shards = 1 .. n
    OBVIOUS
  <1>1. Load(raw) = IF First(q) # NoError
                    THEN [error |-> First(q)]
                    ELSE [error           |-> NoError,
                          interval        |-> Given(raw.interval, 0),
                          health          |-> resolveHealth(raw),
                          defaultMaxLagMS |-> resolveRouting(raw),
                          shards          |-> raw.shards]
    BY Zenon DEF Load
  <1> HIDE DEF q
  <1>2. ASSUME First(q) # NoError
        PROVE  Load(raw).error # NoError
    <2>1. Load(raw) = [error |-> First(q)]
      BY <1>1, <1>2, Zenon
    <2>2. Load(raw).error = First(q)
      BY <2>1
    <2> QED
      BY <1>2, <2>2, Zenon
  <1>3. ASSUME First(q) = NoError
        PROVE  /\ Load(raw).error = NoError
               /\ Load(raw).shards = raw.shards
               /\ Load(raw).interval = Given(raw.interval, 0)
               /\ Load(raw).health = resolveHealth(raw)
    <2>1. Load(raw) = [error           |-> NoError,
                       interval        |-> Given(raw.interval, 0),
                       health          |-> resolveHealth(raw),
                       defaultMaxLagMS |-> resolveRouting(raw),
                       shards          |-> raw.shards]
      BY <1>1, <1>3, Zenon
    <2> QED
      BY <2>1
  <1>4. turn \in [1 .. n -> T] /\ \A i \in 1 .. n : turn[i] = ShardError(raw.shards, i)
    BY <1>0
  <1>5. file \in Seq(T) /\ Len(file) = 1 /\ file[1] = FileError(raw)
    OBVIOUS
  <1>6. turn \in Seq(T) /\ Len(turn) = n
    BY <1>0, <1>4
  <1> HIDE DEF file, turn, T
  <1>7. q \in Seq(T) /\ Len(q) = 1 + n /\ q[1] = FileError(raw) /\ \A i \in 1 .. n : q[i + 1] = turn[i]
    <2> HIDE DEF n
    <2>1. /\ q \in Seq(T) /\ Len(q) = Len(file) + Len(turn)
          /\ \A i \in 1 .. Len(file) + Len(turn) :
                q[i] = IF i <= Len(file) THEN file[i] ELSE turn[i - Len(file)]
      BY <1>5, <1>6, ConcatProperties, Zenon DEF q
    <2>2. \A i \in 1 .. n : i + 1 \in 1 .. 1 + n /\ i + 1 - 1 = i /\ ~(i + 1 <= 1)
      BY <1>0
    <2> QED
      BY <1>0, <1>5, <1>6, <2>1, <2>2
  <1>8. First(q) = NoError <=> \A k \in 1 .. Len(q) : q[k] = NoError
    BY <1>7, FirstNone
  <1> HIDE DEF n
  <1>9. First(q) = NoError <=> /\ FileError(raw) = NoError
                              /\ \A i \in 1 .. n : ShardError(raw.shards, i) = NoError
    <2>1. 1 \in 1 .. Len(q) /\ \A i \in 1 .. n : i + 1 \in 1 .. Len(q)
      BY <1>0, <1>7
    <2>2. \A k \in 1 .. Len(q) : k = 1 \/ (k - 1 \in 1 .. n /\ k - 1 + 1 = k)
      BY <1>0, <1>7
    <2>3. ASSUME First(q) = NoError
          PROVE  FileError(raw) = NoError /\ \A i \in 1 .. n : ShardError(raw.shards, i) = NoError
      BY <1>4, <1>7, <1>8, <2>1, <2>3
    <2>4. ASSUME FileError(raw) = NoError, \A i \in 1 .. n : ShardError(raw.shards, i) = NoError,
                 NEW k \in 1 .. Len(q)
          PROVE  q[k] = NoError
      <3>1. CASE k = 1
        BY <1>7, <2>4, <3>1
      <3>2. CASE k - 1 \in 1 .. n /\ k - 1 + 1 = k
        <4>1. q[k - 1 + 1] = turn[k - 1] /\ turn[k - 1] = NoError
          BY <1>4, <1>7, <2>4, <3>2
        <4> QED
          BY <3>2, <4>1
      <3> QED
        BY <2>2, <3>1, <3>2
    <2> QED
      BY <1>8, <2>3, <2>4
  <1> QED
    BY <1>2, <1>3, <1>9 DEF n

\* What the comment of Load asks of a file: it can be read, what it must give
\* is given, its thresholds are in order, and every shard has a primary and a
\* name of its own.
Coherent(raw) ==
    /\ raw.readable /\ raw.interval # {}
    /\ 1 <= Given(raw.suspectAfterMisses, 1)
    /\ Given(raw.suspectAfterMisses, 1) <= Given(raw.downAfterMisses, 3)
    /\ 0 <= Given(raw.defaultMaxLagMS, 1000)
    /\ raw.shards # <<>> /\ raw.user # NoName /\ raw.database # NoName
    /\ \A i \in 1 .. Len(raw.shards) : raw.shards[i].id # NoName /\ raw.shards[i].primary # NoName
    /\ \A i, j \in 1 .. Len(raw.shards) : raw.shards[i].id = raw.shards[j].id => i = j

LEMMA FileTypes ==
    ASSUME NEW raw \in rawConfig(Shards, Addrs)
    PROVE  /\ raw.shards \in Seq([id : Shards \cup {NoName}, primary : Addrs \cup {NoName},
                                  replicas : Seq(Addrs)])
           /\ raw.readable \in BOOLEAN
           /\ Given(raw.interval, 0) \in Int
           /\ Given(raw.suspectAfterMisses, 1) \in Int /\ Given(raw.downAfterMisses, 3) \in Int
           /\ Given(raw.defaultMaxLagMS, 1000) \in Int
  <1>1. /\ raw.interval \in SUBSET Int /\ raw.suspectAfterMisses \in SUBSET Int
        /\ raw.downAfterMisses \in SUBSET Int /\ raw.defaultMaxLagMS \in SUBSET Int
    BY DEF rawConfig, Optional
  <1>2. /\ Given(raw.interval, 0) \in Int
        /\ Given(raw.suspectAfterMisses, 1) \in Int /\ Given(raw.downAfterMisses, 3) \in Int
        /\ Given(raw.defaultMaxLagMS, 1000) \in Int
    BY <1>1, GivenType
  <1>3. raw.readable \in BOOLEAN
    BY DEF rawConfig
  <1>4. raw.shards \in Seq([id : Shards \cup {NoName}, primary : Addrs \cup {NoName},
                            replicas : Seq(Addrs)])
    BY DEF rawConfig
  <1> QED
    BY <1>2, <1>3, <1>4

\* Load accepts a file just if it is coherent, whatever is in it: no order of
\* the checks and no default lets a bad one through or a good one fail (Load,
\* resolveHealth, resolveRouting).
THEOREM LoadAcceptsCoherentFiles ==
    \A raw \in rawConfig(Shards, Addrs) : Load(raw).error = NoError <=> Coherent(raw)
  <1> SUFFICES ASSUME NEW raw \in rawConfig(Shards, Addrs)
               PROVE  Load(raw).error = NoError <=> Coherent(raw)
    OBVIOUS
  <1> DEFINE n == Len(raw.shards)
             Raw == [id : Shards \cup {NoName}, primary : Addrs \cup {NoName}, replicas : Seq(Addrs)]
             filled == \A i \in 1 .. n : raw.shards[i].id # NoName /\ raw.shards[i].primary # NoName
             distinct == \A i, j \in 1 .. n : raw.shards[i].id = raw.shards[j].id => i = j
             earlier == \A i \in 1 .. n : \A j \in 1 .. i - 1 : raw.shards[j].id # raw.shards[i].id
  <1>1. raw.shards \in Seq(Raw) /\ raw.readable \in BOOLEAN
    BY FileTypes
  <1>2. n \in Nat
    <2> HIDE DEF Raw
    <2> QED
      BY <1>1
  <1>3. Load(raw).error = NoError <=>
           SoundHead(raw) /\ \A i \in 1 .. n : ShardError(raw.shards, i) = NoError
    <2>1. FileError(raw) = NoError <=> SoundHead(raw)
      BY <1>1, FileAccepted
    <2> HIDE DEF Raw
    <2>2. Load(raw).error = NoError <=>
             FileError(raw) = NoError /\ \A i \in 1 .. n : ShardError(raw.shards, i) = NoError
      BY <1>1, LoadFacts, Zenon
    <2> QED
      BY <2>1, <2>2, Zenon
  <1>4. (\A i \in 1 .. n : ShardError(raw.shards, i) = NoError) <=> filled /\ earlier
    BY ShardAccepted, Zenon
  <1>5. earlier <=> distinct
    <2>1. ASSUME earlier, NEW i \in 1 .. n, NEW j \in 1 .. n, raw.shards[i].id = raw.shards[j].id
          PROVE  i = j
      <3>1. i < j => i \in 1 .. j - 1
        BY <1>2
      <3>2. j < i => j \in 1 .. i - 1
        BY <1>2
      <3> QED
        BY <1>2, <2>1, <3>1, <3>2
    <2>2. ASSUME distinct, NEW i \in 1 .. n, NEW j \in 1 .. i - 1 PROVE raw.shards[j].id # raw.shards[i].id
      <3>1. j \in 1 .. n /\ j # i
        BY <1>2
      <3> QED
        BY <2>2, <3>1
    <2> QED
      BY <2>1, <2>2
  <1> DEFINE head == /\ raw.readable /\ raw.interval # {}
                     /\ 1 <= Given(raw.suspectAfterMisses, 1)
                     /\ Given(raw.suspectAfterMisses, 1) <= Given(raw.downAfterMisses, 3)
                     /\ 0 <= Given(raw.defaultMaxLagMS, 1000)
                     /\ raw.shards # <<>> /\ raw.user # NoName /\ raw.database # NoName
  <1>6. SoundHead(raw) <=> head
    <2>1. /\ Given(raw.suspectAfterMisses, 1) \in Int /\ Given(raw.downAfterMisses, 3) \in Int
          /\ Given(raw.defaultMaxLagMS, 1000) \in Int
      BY FileTypes
    <2>2. /\ resolveHealth(raw).suspectAfterMisses = Given(raw.suspectAfterMisses, 1)
          /\ resolveHealth(raw).downAfterMisses = Given(raw.downAfterMisses, 3)
          /\ resolveRouting(raw) = Given(raw.defaultMaxLagMS, 1000)
      BY DEF resolveHealth, resolveRouting
    <2>3. HealthError(resolveHealth(raw)) = NoError <=>
             /\ ~(resolveHealth(raw).suspectAfterMisses < 1)
             /\ ~(resolveHealth(raw).downAfterMisses < resolveHealth(raw).suspectAfterMisses)
      BY HealthAccepted, Zenon
    <2>4. HealthError(resolveHealth(raw)) = NoError <=>
             /\ 1 <= Given(raw.suspectAfterMisses, 1)
             /\ Given(raw.suspectAfterMisses, 1) <= Given(raw.downAfterMisses, 3)
      BY <2>1, <2>2, <2>3
    <2>5. ~(resolveRouting(raw) < 0) <=> 0 <= Given(raw.defaultMaxLagMS, 1000)
      BY <2>1, <2>2
    <2> QED
      BY <2>4, <2>5, Zenon DEF SoundHead
  <1>7. Coherent(raw) <=> head /\ filled /\ distinct
    BY Zenon DEF Coherent
  <1> HIDE DEF head, filled, distinct, earlier
  <1> QED
    BY <1>3, <1>4, <1>5, <1>6, <1>7, Zenon

\* Of a configuration that Load accepts no two shards share a name, and the
\* thresholds are in order.
LEMMA LoadAccepts ==
    ASSUME NEW raw \in rawConfig(Shards, Addrs), Load(raw).error = NoError
    PROVE  Accepted(Load(raw)) /\ Runnable(Load(raw))
  <1> DEFINE n == Len(raw.shards)
             Raw == [id : Shards \cup {NoName}, primary : Addrs \cup {NoName}, replicas : Seq(Addrs)]
  <1>1. Coherent(raw)
    BY LoadAcceptsCoherentFiles
  <1>2. raw.shards \in Seq(Raw)
    BY FileTypes
  <1>3. /\ Load(raw).shards = raw.shards
        /\ Load(raw).interval = Given(raw.interval, 0)
        /\ Load(raw).health = resolveHealth(raw)
    <2> HIDE DEF Raw
    <2> QED
      BY <1>2, LoadFacts, Zenon
  <1>4. n \in Nat /\ \A i \in 1 .. n : raw.shards[i] \in Raw
    <2> HIDE DEF Raw
    <2> QED
      BY <1>2
  <1>5. raw.shards \in Seq(Item)
    <2>1. \A i \in 1 .. n : raw.shards[i].id # NoName /\ raw.shards[i].primary # NoName
      BY <1>1, Zenon DEF Coherent
    <2>2. \A i \in 1 .. n : raw.shards[i] \in Item
      BY <1>4, <2>1 DEF Item
    <2>3. raw.shards \in Seq(Item)
      <3> HIDE DEF Raw
      <3> QED
        BY <1>2, <1>4, <2>2
    <2> QED
      BY <2>3
  <1>6. \A i, j \in 1 .. n : raw.shards[i].id = raw.shards[j].id => i = j
    BY <1>1, Zenon DEF Coherent
  <1>7. Runnable(Load(raw))
    <2>1. /\ 1 <= Given(raw.suspectAfterMisses, 1)
          /\ Given(raw.suspectAfterMisses, 1) <= Given(raw.downAfterMisses, 3)
      BY <1>1, Zenon DEF Coherent
    <2>2. /\ Given(raw.interval, 0) \in Int
          /\ Given(raw.suspectAfterMisses, 1) \in Int /\ Given(raw.downAfterMisses, 3) \in Int
      BY FileTypes
    <2>3. /\ Load(raw).health.suspectAfterMisses = Given(raw.suspectAfterMisses, 1)
          /\ Load(raw).health.downAfterMisses = Given(raw.downAfterMisses, 3)
      BY <1>3 DEF resolveHealth
    <2> QED
      BY <1>3, <2>1, <2>2, <2>3 DEF Runnable
  <1> QED
    BY <1>3, <1>5, <1>6, <1>7, Zenon DEF Accepted

-----------------------------------------------------------------------------
(* The loop of "promote". *)

SimNode == [addr : Addrs, status : {"UP", "DOWN"}, lagMS : Lags \cup {0}]

\* One turn of the loop, and the fold that candidate is.
Better(q, best, i) ==
    IF q[i].status # "DOWN" /\ (best = 0 \/ q[i].lagMS < q[best].lagMS) THEN i ELSE best

Scanning(q, d, s, it) ==
    IF s = {} THEN 0 ELSE Better(q, it[s \ {Max(s)}], d[Max(s)])

LEMMA ScanTurns ==
    ASSUME NEW S, NEW q \in Seq(S)
    PROVE  \E st : /\ st[0] = 0
                   /\ \A k \in 0 .. Len(q) - 1 : st[k + 1] = Better(q, st[k], k + 1)
                   /\ candidate(q) = st[Len(q)]
  <1> DEFINE n == Len(q)
             d == [i \in DOMAIN q |-> i]
             it == CHOOSE it : it = [s \in SUBSET (1 .. n) |-> Scanning(q, d, s, it)]
             st == [k \in 0 .. n |-> it[1 .. k]]
  <1>0. n \in Nat /\ DOMAIN q = 1 .. n /\ DOMAIN d = 1 .. n /\ \A i \in 1 .. n : d[i] = i
    OBVIOUS
  <1>1. \E f : f = [s \in SUBSET (1 .. n) |-> Scanning(q, d, s, f)]
    <2> HIDE DEF d, n
    <2> DEFINE F == [p \in (1 .. n) \X Nat |-> Better(q, p[2], p[1])]
    <2>1. \A i \in 1 .. n, b \in Nat : Better(q, b, i) \in Nat /\ F[<<i, b>>] = Better(q, b, i)
      BY <1>0 DEF Better
    <2>2. F \in [(1 .. n) \X Nat -> Nat]
      BY <1>0 DEF Better
    <2> HIDE DEF F
    <2>a. PICK f \in [SUBSET (1 .. n) -> Nat] : IsFold(n, 0, F, f)
      <3>1. 0 \in Nat
        OBVIOUS
      <3> QED
        BY <1>0, <2>2, <3>1, FoldingsExist, Zenon
    <2>3. \A s \in SUBSET (1 .. n) :
             f[s] = IF s = {} THEN 0 ELSE F[<<Max(s), f[s \ {Max(s)}]>>]
      BY <2>a, Zenon DEF IsFold
    <2>4. ASSUME NEW s \in SUBSET (1 .. n) PROVE f[s] = Scanning(q, d, s, f)
      <3>1. CASE s = {}
        BY <2>3, <3>1 DEF Scanning
      <3>2. CASE s # {}
        <4>1. Max(s) \in 1 .. n
          BY <1>0, <3>2, MaxOfSet
        <4>2. f[s \ {Max(s)}] \in Nat
          <5>1. s \ {Max(s)} \in SUBSET (1 .. n)
            OBVIOUS
          <5> QED
            BY <2>3, <5>1
        <4>3. F[<<Max(s), f[s \ {Max(s)}]>>] = Better(q, f[s \ {Max(s)}], Max(s))
          BY <2>1, <4>1, <4>2, Zenon
        <4>4. f[s] = Better(q, f[s \ {Max(s)}], Max(s))
          BY <2>3, <3>2, <4>3
        <4>5. d[Max(s)] = Max(s)
          BY <1>0, <4>1
        <4> QED
          BY <3>2, <4>4, <4>5, Zenon DEF Scanning
      <3> QED
        BY <3>1, <3>2
    <2>5. f = [s \in SUBSET (1 .. n) |-> Scanning(q, d, s, f)]
      BY <2>4
    <2> QED
      BY <2>5
  <1>2. it = [s \in SUBSET (1 .. n) |-> Scanning(q, d, s, it)]
    BY <1>1, Zenon
  <1>3. candidate(q) = it[1 .. n]
    BY <1>0 DEF candidate, FoldLeftDomain, FoldLeft, MapThenFoldSet, Scanning, Better
  <1> HIDE DEF it, n, d
  <1>4. st[0] = 0
    BY <1>0, <1>2 DEF Scanning
  <1>5. ASSUME NEW k \in 0 .. n - 1 PROVE st[k + 1] = Better(q, st[k], k + 1)
    <2>1. /\ 1 .. k + 1 \in SUBSET (1 .. n) /\ 1 .. k + 1 # {}
          /\ Max(1 .. k + 1) = k + 1 /\ (1 .. k + 1) \ {k + 1} = 1 .. k
      BY <1>0, Turns
    <2>2. it[1 .. k + 1] = Better(q, it[1 .. k], d[k + 1])
      BY <1>2, <2>1 DEF Scanning
    <2>3. d[k + 1] = k + 1 /\ st[k + 1] = it[1 .. k + 1] /\ st[k] = it[1 .. k]
      BY <1>0
    <2> QED
      BY <2>2, <2>3
  <1>6. candidate(q) = st[n]
    BY <1>0, <1>3
  <1> HIDE DEF st
  <1> QED
    BY <1>4, <1>5, <1>6 DEF n

\* What the loop has found after k turns: nothing if every replica so far is
\* DOWN, else the least lagged of the others, the first on a tie.
FoundBy(q, k, best) ==
    IF best = 0 THEN \A i \in 1 .. k : q[i].status = "DOWN"
    ELSE /\ best \in 1 .. k /\ q[best].status # "DOWN"
         /\ \A j \in 1 .. k : q[j].status # "DOWN" =>
               q[best].lagMS < q[j].lagMS \/ (q[best].lagMS = q[j].lagMS /\ best <= j)

LEMMA BetterKeeps ==
    ASSUME NEW q \in Seq(SimNode), NEW k \in 0 .. Len(q) - 1, NEW best \in Nat, FoundBy(q, k, best)
    PROVE  FoundBy(q, k + 1, Better(q, best, k + 1)) /\ Better(q, best, k + 1) \in Nat
  <1>0. Len(q) \in Nat /\ k \in Nat /\ k + 1 \in 1 .. Len(q)
    OBVIOUS
  <1>1. \A i \in 1 .. Len(q) : q[i].lagMS \in Int
    <2>1. \A i \in 1 .. Len(q) : q[i] \in SimNode
      OBVIOUS
    <2> QED
      BY <2>1, Constants DEF SimNode
  <1>2. \A j \in 1 .. k + 1 : j \in 1 .. k \/ j = k + 1
    BY <1>0
  <1>3. \A j \in 1 .. k : j \in 1 .. Len(q) /\ j \in 1 .. k + 1 /\ j <= k + 1
    BY <1>0
  <1>4. CASE q[k + 1].status = "DOWN"
    <2>1. Better(q, best, k + 1) = best
      BY <1>4 DEF Better
    <2> QED
      BY <1>0, <1>2, <1>3, <1>4, <2>1 DEF FoundBy
  <1>5. CASE q[k + 1].status # "DOWN" /\ best = 0
    <2>1. Better(q, best, k + 1) = k + 1
      BY <1>5 DEF Better
    <2> QED
      BY <1>0, <1>1, <1>2, <1>3, <1>5, <2>1 DEF FoundBy
  <1>6. CASE q[k + 1].status # "DOWN" /\ best # 0
    <2>1. best \in 1 .. k /\ best \in 1 .. Len(q) /\ best <= k + 1
      BY <1>3, <1>6 DEF FoundBy
    <2>2. q[best].lagMS \in Int /\ q[k + 1].lagMS \in Int
      BY <1>0, <1>1, <2>1
    <2>3. CASE q[k + 1].lagMS < q[best].lagMS
      <3>1. Better(q, best, k + 1) = k + 1
        BY <1>6, <2>3 DEF Better
      <3>2. \A j \in 1 .. k : q[j].status # "DOWN" => q[k + 1].lagMS < q[j].lagMS
        BY <1>1, <1>3, <1>6, <2>2, <2>3 DEF FoundBy
      <3> QED
        BY <1>0, <1>2, <1>6, <3>1, <3>2 DEF FoundBy
    <2>4. CASE ~(q[k + 1].lagMS < q[best].lagMS)
      <3>1. Better(q, best, k + 1) = best
        BY <1>6, <2>4 DEF Better
      <3>2. q[best].lagMS < q[k + 1].lagMS \/ (q[best].lagMS = q[k + 1].lagMS /\ best <= k + 1)
        BY <2>1, <2>2, <2>4
      <3> QED
        BY <1>0, <1>2, <1>3, <1>6, <2>1, <3>1, <3>2 DEF FoundBy
    <2> QED
      BY <2>3, <2>4
  <1> QED
    BY <1>4, <1>5, <1>6

\* The loop finds what selectPromotionCandidate finds, in a list of any length.
LEMMA LoopFindsCandidate ==
    ASSUME NEW q \in Seq(SimNode)
    PROVE  /\ candidate(q) \in Nat
           /\ candidate(q) # 0 => candidate(q) \in 1 .. Len(q)
           /\ selectPromotionCandidate(q) = {candidate(q)} \ {0}
  <1>1. PICK st : /\ st[0] = 0
                  /\ \A k \in 0 .. Len(q) - 1 : st[k + 1] = Better(q, st[k], k + 1)
                  /\ candidate(q) = st[Len(q)]
    BY ScanTurns
  <1> DEFINE n == Len(q)
             Good == {k \in Nat : k <= n => FoundBy(q, k, st[k]) /\ st[k] \in Nat}
  <1>0. n \in Nat /\ \A i \in 1 .. n : q[i] \in SimNode
    OBVIOUS
  <1>2. 0 \in Good
    BY <1>1 DEF FoundBy
  <1>3. ASSUME NEW k \in Nat, k \in Good PROVE k + 1 \in Good
    <2> SUFFICES ASSUME k + 1 <= n PROVE FoundBy(q, k + 1, st[k + 1]) /\ st[k + 1] \in Nat
      OBVIOUS
    <2>1. FoundBy(q, k, st[k]) /\ st[k] \in Nat /\ k \in 0 .. Len(q) - 1
      BY <1>0, <1>3
    <2> QED
      BY <1>1, <2>1, BetterKeeps
  <1>4. FoundBy(q, n, candidate(q)) /\ candidate(q) \in Nat
    <2>1. n \in Good
      <3> HIDE DEF Good
      <3> QED
        BY <1>0, <1>2, <1>3, SetInduction
    <2> QED
      BY <1>0, <1>1, <2>1
  <1>5. \A i \in 1 .. n : q[i].lagMS \in Int
    BY <1>0, Constants DEF SimNode
  <1> DEFINE c == candidate(q)
  <1> HIDE DEF n, c
  <1>6. CASE c = 0
    <2>1. Usable(q) = {}
      BY <1>4, <1>6 DEF FoundBy, Usable, c, n
    <2> QED
      BY <1>4, <1>6, <2>1 DEF selectPromotionCandidate, c
  <1>7. CASE c # 0
    <2>1. /\ c \in 1 .. n /\ q[c].status # "DOWN"
          /\ \A j \in 1 .. n : q[j].status # "DOWN" =>
                q[c].lagMS < q[j].lagMS \/ (q[c].lagMS = q[j].lagMS /\ c <= j)
      BY <1>4, <1>7 DEF FoundBy, c
    <2>2. Usable(q) = {i \in 1 .. n : q[i].status # "DOWN"}
      BY DEF Usable, n
    <2>3. c \in selectPromotionCandidate(q)
      BY <2>1, <2>2 DEF selectPromotionCandidate
    <2>4. ASSUME NEW i \in selectPromotionCandidate(q) PROVE i = c
      <3>1. /\ i \in 1 .. n /\ q[i].status # "DOWN"
            /\ q[i].lagMS < q[c].lagMS \/ (q[i].lagMS = q[c].lagMS /\ i <= c)
        BY <2>1, <2>2 DEF selectPromotionCandidate
      <3>2. q[c].lagMS < q[i].lagMS \/ (q[c].lagMS = q[i].lagMS /\ c <= i)
        BY <2>1, <3>1
      <3> QED
        BY <1>0, <1>5, <2>1, <3>1, <3>2
    <2>5. selectPromotionCandidate(q) = {c} \ {0}
      BY <1>7, <2>3, <2>4
    <2> QED
      BY <1>4, <2>1, <2>5 DEF c, n
  <1> QED
    BY <1>6, <1>7

-----------------------------------------------------------------------------
(* The loop with which Route describes a node. *)

\* One turn of the loop, and the fold that Description is.
Said(m, node, said, s) ==
    LET first == IF m[s].primary.addr = node.addr
                 THEN [shardID |-> s, role |-> "primary"] ELSE said
    IN  IF node.addr \in ReplicaAddrs(m[s]) THEN [first EXCEPT !.shardID = s] ELSE first

Telling(m, node, order, s, it) ==
    IF s = {} THEN [shardID |-> NoName, role |-> "replica"]
    ELSE Said(m, node, it[s \ {Max(s)}], order[Max(s)])

LEMMA TellTurns ==
    ASSUME NEW T, NEW order \in Seq(T), NEW node
    PROVE  \E st : /\ st[0] = [shardID |-> NoName, role |-> "replica"]
                   /\ \A k \in 0 .. Len(order) - 1 :
                         st[k + 1] = Said(map, node, st[k], order[k + 1])
                   /\ Description(node, order) = st[Len(order)]
  <1> DEFINE n == Len(order)
             base == [shardID |-> NoName, role |-> "replica"]
             A == [shardID : T \cup {NoName}, role : {"primary", "replica"}]
             it == CHOOSE it : it = [s \in SUBSET (1 .. n) |-> Telling(map, node, order, s, it)]
             st == [k \in 0 .. n |-> it[1 .. k]]
  <1>0. n \in Nat /\ DOMAIN order = 1 .. n /\ \A i \in 1 .. n : order[i] \in T
    OBVIOUS
  <1>1. \E f : f = [s \in SUBSET (1 .. n) |-> Telling(map, node, order, s, f)]
    <2> HIDE DEF n
    <2> DEFINE F == [p \in (1 .. n) \X A |-> Said(map, node, p[2], order[p[1]])]
    <2>1. ASSUME NEW i \in 1 .. n, NEW b \in A
          PROVE  Said(map, node, b, order[i]) \in A
      <3> DEFINE first == IF map[order[i]].primary.addr = node.addr
                          THEN [shardID |-> order[i], role |-> "primary"] ELSE b
      <3>1. order[i] \in T
        BY <1>0
      <3>2. first \in A
        BY <3>1
      <3>3. Said(map, node, b, order[i]) =
               IF node.addr \in ReplicaAddrs(map[order[i]])
               THEN [first EXCEPT !.shardID = order[i]] ELSE first
        BY DEF Said
      <3> HIDE DEF first
      <3>4. [first EXCEPT !.shardID = order[i]] \in A
        BY <3>1, <3>2
      <3> QED
        BY <3>2, <3>3, <3>4
    <2> HIDE DEF A
    <2>2. F \in [(1 .. n) \X A -> A]
      BY <2>1
    <2>b. \A i \in 1 .. n, b \in A : F[<<i, b>>] = Said(map, node, b, order[i])
      OBVIOUS
    <2> HIDE DEF F
    <2>a. PICK f \in [SUBSET (1 .. n) -> A] : IsFold(n, base, F, f)
      <3>1. base \in A
        BY DEF A
      <3> HIDE DEF base
      <3> QED
        BY <1>0, <2>2, <3>1, FoldingsExist, Zenon
    <2>3. \A s \in SUBSET (1 .. n) :
             f[s] = IF s = {} THEN base ELSE F[<<Max(s), f[s \ {Max(s)}]>>]
      BY <2>a, Zenon DEF IsFold
    <2>4. ASSUME NEW s \in SUBSET (1 .. n) PROVE f[s] = Telling(map, node, order, s, f)
      <3>1. CASE s = {}
        BY <2>3, <3>1, Zenon DEF Telling
      <3>2. CASE s # {}
        <4>1. Max(s) \in 1 .. n
          BY <1>0, <3>2, MaxOfSet
        <4>2. f[s \ {Max(s)}] \in A
          <5>1. s \ {Max(s)} \in SUBSET (1 .. n)
            OBVIOUS
          <5> QED
            BY <2>a, <5>1
        <4>3. F[<<Max(s), f[s \ {Max(s)}]>>] = Said(map, node, f[s \ {Max(s)}], order[Max(s)])
          BY <2>b, <4>1, <4>2, Zenon
        <4> QED
          BY <2>3, <3>2, <4>3, Zenon DEF Telling
      <3> QED
        BY <3>1, <3>2
    <2>5. f = [s \in SUBSET (1 .. n) |-> Telling(map, node, order, s, f)]
      BY <2>4, <2>a
    <2> QED
      BY <2>5
  <1>2. it = [s \in SUBSET (1 .. n) |-> Telling(map, node, order, s, it)]
    BY <1>1, Zenon
  <1>3. Description(node, order) = it[1 .. n]
    BY <1>0 DEF Description, FoldLeft, MapThenFoldSet, Telling, Said
  <1> HIDE DEF it, n
  <1>4. st[0] = base
    <2>1. st[0] = it[1 .. 0] /\ 1 .. 0 = {} /\ {} \in SUBSET (1 .. n)
      BY <1>0
    <2>2. it[{}] = Telling(map, node, order, {}, it)
      BY <1>2, <2>1
    <2> QED
      BY <2>1, <2>2, Zenon DEF Telling
  <1>5. ASSUME NEW k \in 0 .. n - 1 PROVE st[k + 1] = Said(map, node, st[k], order[k + 1])
    <2>1. /\ 1 .. k + 1 \in SUBSET (1 .. n) /\ 1 .. k + 1 # {}
          /\ Max(1 .. k + 1) = k + 1 /\ (1 .. k + 1) \ {k + 1} = 1 .. k
      BY <1>0, Turns
    <2>2. it[1 .. k + 1] = Telling(map, node, order, 1 .. k + 1, it)
      BY <1>2, <2>1, Zenon
    <2>3. it[1 .. k + 1] = Said(map, node, it[1 .. k], order[k + 1])
      BY <2>1, <2>2, Zenon DEF Telling
    <2>4. st[k + 1] = it[1 .. k + 1] /\ st[k] = it[1 .. k]
      BY <1>0
    <2> QED
      BY <2>3, <2>4, Zenon
  <1>6. Description(node, order) = st[n]
    BY <1>0, <1>3
  <1> HIDE DEF st
  <1> QED
    BY <1>4, <1>5, <1>6, Zenon DEF n

LEMMA OrderFacts ==
    ASSUME NEW D, IsFiniteSet(D), NEW order \in SetToSeqs(D)
    PROVE  /\ order \in Seq(D)
           /\ \A i, j \in 1 .. Len(order) : order[i] = order[j] => i = j
           /\ \A s \in D : \E p \in 1 .. Len(order) : order[p] = s
  <1> DEFINE n == Cardinality(D)
  <1>1. n \in Nat
    BY FS_CardinalityType
  <1>2. order \in [1 .. n -> D] /\ \A i, j \in 1 .. n : i # j => order[i] # order[j]
    BY DEF SetToSeqs
  <1> HIDE DEF n
  <1>3. order \in Seq(D) /\ Len(order) = n
    BY <1>1, <1>2
  <1>4. order \in Injection(1 .. n, D)
    BY <1>2 DEF Injection, IsInjective
  <1>5. Cardinality(1 .. n) = n
    <2>1. 1 \in Int /\ n \in Int
      BY <1>1
    <2>2. Cardinality(1 .. n) = IF 1 > n THEN 0 ELSE n - 1 + 1
      BY <2>1, FS_Interval
    <2> QED
      BY <1>1, <2>2
  <1>6. order \in Surjection(1 .. n, D)
    BY <1>4, <1>5, FS_Injection DEF n
  <1> QED
    BY <1>2, <1>3, <1>6 DEF Surjection

\* When no other shard has the address, and the shard itself has it in one
\* role only, the loop finds the shard and the role, in whatever order it goes.
LEMMA LoopTellsTruth ==
    ASSUME IsFiniteSet(DOMAIN map), NEW home \in DOMAIN map, NEW node,
           NEW order \in SetToSeqs(DOMAIN map), NEW role \in {"primary", "replica"},
           \A t \in DOMAIN map : t # home =>
              map[t].primary.addr # node.addr /\ node.addr \notin ReplicaAddrs(map[t]),
           role = "primary" => /\ map[home].primary.addr = node.addr
                               /\ node.addr \notin ReplicaAddrs(map[home]),
           role = "replica" => /\ map[home].primary.addr # node.addr
                               /\ node.addr \in ReplicaAddrs(map[home])
    PROVE  Description(node, order) = [shardID |-> home, role |-> role]
  <1> DEFINE D == DOMAIN map
             base == [shardID |-> NoName, role |-> "replica"]
             final == [shardID |-> home, role |-> role]
             n == Len(order)
  <1>1. /\ order \in Seq(D) /\ n \in Nat /\ \A i \in 1 .. n : order[i] \in D
        /\ \A i, j \in 1 .. n : order[i] = order[j] => i = j
        /\ \E p \in 1 .. n : order[p] = home
    <2>1. /\ order \in Seq(D)
          /\ \A i, j \in 1 .. Len(order) : order[i] = order[j] => i = j
          /\ \A s \in D : \E p \in 1 .. Len(order) : order[p] = s
      BY OrderFacts
    <2> QED
      BY <2>1
  <1>2. PICK p \in 1 .. n : order[p] = home
    BY <1>1
  <1>3. PICK st : /\ st[0] = base
                  /\ \A k \in 0 .. Len(order) - 1 :
                        st[k + 1] = Said(map, node, st[k], order[k + 1])
                  /\ Description(node, order) = st[Len(order)]
    BY <1>1, TellTurns, Zenon
  <1>4. ASSUME NEW said, NEW t \in D, t # home PROVE Said(map, node, said, t) = said
    BY <1>4, Zenon DEF Said
  <1>5. Said(map, node, base, home) = final
    <2>1. CASE role = "primary"
      BY <2>1 DEF Said
    <2>2. CASE role = "replica"
      BY <2>2 DEF Said
    <2> QED
      BY <2>1, <2>2
  <1> HIDE DEF base, final, D
  <1> DEFINE Good == {k \in Nat : k <= n => st[k] = IF k < p THEN base ELSE final}
  <1>6. 0 \in Good
    BY <1>1, <1>2, <1>3
  <1>7. ASSUME NEW k \in Nat, k \in Good PROVE k + 1 \in Good
    <2> SUFFICES ASSUME k + 1 <= n PROVE st[k + 1] = IF k + 1 < p THEN base ELSE final
      OBVIOUS
    <2>0. k \in 0 .. Len(order) - 1 /\ k + 1 \in 1 .. n /\ p \in Nat
      BY <1>1, <1>2
    <2>1. st[k + 1] = Said(map, node, st[k], order[k + 1])
      BY <1>3, <2>0
    <2>2. st[k] = IF k < p THEN base ELSE final
      BY <1>1, <1>7
    <2>3. CASE k + 1 = p
      BY <1>2, <1>5, <2>0, <2>1, <2>2, <2>3
    <2>4. CASE k + 1 # p
      <3>1. order[k + 1] \in D /\ order[k + 1] # home
        BY <1>1, <1>2, <2>0, <2>4
      <3>2. st[k + 1] = st[k]
        BY <1>4, <2>1, <3>1, Zenon
      <3> QED
        BY <2>0, <2>2, <2>4, <3>2
    <2> QED
      BY <2>3, <2>4
  <1>8. n \in Good
    <2> HIDE DEF Good
    <2> QED
      BY <1>1, <1>6, <1>7, SetInduction
  <1>9. st[n] = final
    BY <1>1, <1>2, <1>8
  <1> QED
    BY <1>3, <1>9 DEF final

-----------------------------------------------------------------------------
(* Counting the occurrences of an address in a shard. *)

SimShard == [id : Shards, primary : SimNode, replicas : Seq(SimNode)]

LEMMA ShardNodes ==
    ASSUME NEW shard \in SimShard
    PROVE  /\ Len(shard.replicas) \in Nat /\ DOMAIN shard.replicas = 1 .. Len(shard.replicas)
           /\ Positions(shard) = 0 .. Len(shard.replicas)
           /\ NodeAt(shard, 0) = shard.primary
           /\ \A i \in 1 .. Len(shard.replicas) :
                 NodeAt(shard, i) = shard.replicas[i] /\ shard.replicas[i] \in SimNode
           /\ \A i \in Positions(shard) : NodeAt(shard, i) \in SimNode
  <1>1. shard.replicas \in Seq(SimNode) /\ shard.primary \in SimNode
    BY DEF SimShard
  <1> DEFINE q == shard.replicas
  <1>2. Len(q) \in Nat /\ DOMAIN q = 1 .. Len(q) /\ \A i \in 1 .. Len(q) : q[i] \in SimNode
    BY <1>1
  <1> HIDE DEF q
  <1>3. Positions(shard) = 0 .. Len(q) /\ NodeAt(shard, 0) = shard.primary
    BY DEF Positions, NodeAt, q
  <1>4. \A i \in 1 .. Len(q) : NodeAt(shard, i) = q[i]
    BY <1>2 DEF NodeAt, q
  <1>5. \A i \in 0 .. Len(q) : i = 0 \/ i \in 1 .. Len(q)
    BY <1>2
  <1>6. \A i \in Positions(shard) : NodeAt(shard, i) \in SimNode
    BY <1>1, <1>2, <1>3, <1>4, <1>5
  <1> QED
    BY <1>2, <1>3, <1>4, <1>6 DEF q

\* Moving the nodes of a shard to other positions changes no count.
LEMMA MovedNodes ==
    ASSUME NEW shard \in SimShard, NEW other \in SimShard,
           NEW f \in Bijection(Positions(other), Positions(shard)),
           \A i \in Positions(other) : NodeAt(other, i).addr = NodeAt(shard, f[i]).addr,
           NEW a
    PROVE  Occurrences(a, other) = Occurrences(a, shard)
  <1> DEFINE S == {i \in Positions(other) : NodeAt(other, i).addr = a}
             T == {i \in Positions(shard) : NodeAt(shard, i).addr = a}
             g == [i \in S |-> f[i]]
  <1>1. /\ f \in [Positions(other) -> Positions(shard)]
        /\ \A i, j \in Positions(other) : f[i] = f[j] => i = j
        /\ \A t \in Positions(shard) : \E i \in Positions(other) : f[i] = t
    BY DEF Bijection, Injection, Surjection, IsInjective
  <1>2. g \in [S -> T] /\ \A i \in S : g[i] = f[i] /\ i \in Positions(other)
    BY <1>1
  <1>3. \A t \in T : \E i \in S : g[i] = t
    BY <1>1
  <1>4. IsFiniteSet(S)
    <2>1. Positions(other) = 0 .. Len(other.replicas) /\ Len(other.replicas) \in Int
      BY ShardNodes
    <2>2. IsFiniteSet(Positions(other))
      <3>1. 0 \in Int
        OBVIOUS
      <3> QED
        BY <2>1, <3>1, FS_Interval
    <2> QED
      BY <2>2, FS_Subset
  <1> HIDE DEF g, S, T
  <1>5. g \in Bijection(S, T)
    BY <1>1, <1>2, <1>3 DEF Bijection, Injection, Surjection, IsInjective
  <1>6. ExistsBijection(S, T)
    BY <1>5 DEF ExistsBijection
  <1>7. Cardinality(T) = Cardinality(S)
    BY <1>4, <1>6, FS_Bijection
  <1> QED
    BY <1>7 DEF Occurrences, S, T

LEMMA SameAddresses ==
    ASSUME NEW shard, NEW other, Positions(other) = Positions(shard),
           \A i \in Positions(shard) : NodeAt(other, i).addr = NodeAt(shard, i).addr,
           NEW a
    PROVE  Occurrences(a, other) = Occurrences(a, shard)
  <1>1. {i \in Positions(other) : NodeAt(other, i).addr = a}
           = {i \in Positions(shard) : NodeAt(shard, i).addr = a}
    OBVIOUS
  <1> QED
    BY <1>1 DEF Occurrences

\* An address that occurs once at most is at one position at most.
LEMMA OnePosition ==
    ASSUME NEW shard \in SimShard, NEW i \in Positions(shard), NEW a, NodeAt(shard, i).addr = a
    PROVE  /\ Occurrences(a, shard) \in Nat /\ Occurrences(a, shard) # 0
           /\ Occurrences(a, shard) <= 1 =>
                 \A j \in Positions(shard) : NodeAt(shard, j).addr = a => j = i
  <1> DEFINE S == {j \in Positions(shard) : NodeAt(shard, j).addr = a}
  <1>1. IsFiniteSet(S)
    <2>1. Positions(shard) = 0 .. Len(shard.replicas) /\ Len(shard.replicas) \in Int
      BY ShardNodes
    <2>2. IsFiniteSet(Positions(shard))
      <3>1. 0 \in Int
        OBVIOUS
      <3> QED
        BY <2>1, <3>1, FS_Interval
    <2> QED
      BY <2>2, FS_Subset
  <1>2. i \in S /\ Occurrences(a, shard) = Cardinality(S)
    BY DEF Occurrences
  <1>a. \A j \in Positions(shard) : NodeAt(shard, j).addr = a => j \in S
    OBVIOUS
  <1> HIDE DEF S
  <1>3. Cardinality(S) \in Nat /\ Cardinality(S) # 0
    <2>1. Cardinality(S) \in Nat
      BY <1>1, FS_CardinalityType
    <2>2. Cardinality(S) = 0 <=> S = {}
      BY <1>1, FS_EmptySet
    <2> QED
      BY <1>2, <2>1, <2>2
  <1>4. ASSUME Cardinality(S) <= 1, NEW j \in S PROVE j = i
    <2>1. Cardinality(S) = 1
      BY <1>3, <1>4
    <2>2. PICK x : S = {x}
      BY <1>1, <2>1, FS_Singleton
    <2> QED
      BY <1>2, <2>2
  <1> QED
    BY <1>2, <1>a, <1>3, <1>4

-----------------------------------------------------------------------------
(* The inductive invariant. *)

\* The map m is one of the configuration c: ConfigurationIsKept, while serving.
Kept(c, m) ==
    \A i \in DOMAIN c.shards :
        LET item == c.shards[i]
        IN  /\ item.id \in DOMAIN m
            /\ \A a \in Addrs : Occurrences(a, m[item.id]) =
                  (IF item.primary = a THEN 1 ELSE 0)
                  + Cardinality({j \in DOMAIN item.replicas : item.replicas[j] = a})

\* ... and has no shard besides.
OnlyThese(c, m) == \A s \in DOMAIN m : \E i \in DOMAIN c.shards : c.shards[i].id = s

WellFormed(m) ==
    /\ IsFiniteSet(DOMAIN m)
    /\ \A s \in DOMAIN m : m[s] \in SimShard /\ m[s].id = s

Event ==
    [kind : {"toggle"}, shard : Shards, node : Addrs, status : {"UP", "DOWN"}]
    \cup [kind : {"lag"}, shard : Shards, node : Addrs, lagMS : Lags]
    \cup [kind : {"promote"}, shard : Shards, node : Addrs, old : Addrs]

\* What NewestEventHolds asks of an event e and its shard.
Holds(e, shard) ==
    CASE e.kind = "toggle"  -> \E n \in Nodes(shard) : n.addr = e.node /\ n.status = e.status
      [] e.kind = "lag"     -> \E n \in Nodes(shard) : n.addr = e.node /\ n.lagMS = e.lagMS
      [] e.kind = "promote" -> /\ shard.primary.addr = e.node
                               /\ \E r \in ToSet(shard.replicas) :
                                     r.addr = e.old /\ r.status = "DOWN"

\* Outside "serving" nothing is kept and nobody is served.
PhaseInv ==
    /\ phase \in {"fatal", "proxy", "serving", "exited"}
    /\ phase = "proxy" => Runnable(cfg)
    /\ phase = "serving" => Accepted(cfg)
    /\ phase # "serving" => map = <<>> /\ events = <<>> /\ \A h \in Handlers : handler[h] = Idle

MapInv == WellFormed(map) /\ (phase = "serving" => Kept(cfg, map) /\ OnlyThese(cfg, map))

EventsInv ==
    /\ events \in Seq(Event) /\ Len(events) <= MaxEvents
    /\ events # <<>> => /\ Head(events).shard \in DOMAIN map
                        /\ Holds(Head(events), map[Head(events).shard])

\* The node a reader is about to describe is one of its shard in the map.
Describes(where, m) ==
    /\ where.shard \in DOMAIN m
    /\ where.node = m[where.shard].primary \/ where.node \in ToSet(m[where.shard].replicas)

HandlersInv ==
    /\ DOMAIN handler = Handlers
    /\ \A h \in Handlers :
          /\ handler[h].pc \in {"idle", "state", "route", "lock", "describe"}
          /\ handler[h].pc = "describe" => Describes(handler[h], map)

SimInv == PhaseInv /\ MapInv /\ EventsInv /\ HandlersInv

LEMMA OneMore ==
    ASSUME NEW n \in Nat, NEW P \in SUBSET (1 .. n), NEW Q, Q = P \/ Q = P \cup {0}
    PROVE  Cardinality(Q) = (IF 0 \in Q THEN 1 ELSE 0) + Cardinality(P)
  <1>1. IsFiniteSet(P)
    <2>1. IsFiniteSet(1 .. n)
      <3>1. 1 \in Int /\ n \in Int
        OBVIOUS
      <3> QED
        BY <3>1, FS_Interval
    <2> QED
      BY <2>1, FS_Subset
  <1>2. 0 \notin P
    OBVIOUS
  <1>3. Cardinality(P) \in Nat
    BY <1>1, FS_CardinalityType
  <1>4. Cardinality(P \cup {0}) = Cardinality(P) + 1
    BY <1>1, <1>2, FS_AddElement
  <1> QED
    BY <1>2, <1>3, <1>4

\* What New makes of a shard of the configuration, and of all of them.
UpNode(a) == [addr |-> a, status |-> "UP", lagMS |-> 0]

Entry(item) ==
    [id       |-> item.id,
     primary  |-> UpNode(item.primary),
     replicas |-> [i \in DOMAIN item.replicas |-> UpNode(item.replicas[i])]]

LEMMA EntryFacts ==
    ASSUME NEW item \in Item
    PROVE  /\ Entry(item) \in SimShard /\ Entry(item).id = item.id
           /\ \A a \in Addrs : Occurrences(a, Entry(item)) =
                 (IF item.primary = a THEN 1 ELSE 0)
                 + Cardinality({j \in DOMAIN item.replicas : item.replicas[j] = a})
  <1> DEFINE n == Len(item.replicas)
             e == Entry(item)
  <1>1. /\ item.id \in Shards /\ item.primary \in Addrs /\ item.replicas \in Seq(Addrs)
        /\ n \in Nat /\ DOMAIN item.replicas = 1 .. n /\ \A i \in 1 .. n : item.replicas[i] \in Addrs
    BY DEF Item
  <1>2. \A a \in Addrs : UpNode(a) \in SimNode /\ UpNode(a).addr = a
    BY DEF UpNode, SimNode
  <1>3. /\ e.id = item.id /\ e.primary = UpNode(item.primary)
        /\ e.replicas = [i \in 1 .. n |-> UpNode(item.replicas[i])]
    BY <1>1 DEF Entry
  <1>4. e.replicas \in Seq(SimNode) /\ Len(e.replicas) = n
    BY <1>1, <1>2, <1>3
  <1>5. e \in SimShard
    BY <1>1, <1>2, <1>3, <1>4 DEF SimShard, Entry
  <1> HIDE DEF e
  <1>6. ASSUME NEW a \in Addrs
        PROVE  Occurrences(a, e) =
                 (IF item.primary = a THEN 1 ELSE 0)
                 + Cardinality({j \in DOMAIN item.replicas : item.replicas[j] = a})
    <2> DEFINE P == {j \in 1 .. n : item.replicas[j] = a}
               Q == {i \in Positions(e) : NodeAt(e, i).addr = a}
    <2>1. /\ Positions(e) = 0 .. n /\ NodeAt(e, 0).addr = item.primary
          /\ \A i \in 1 .. n : NodeAt(e, i).addr = item.replicas[i]
      BY <1>1, <1>2, <1>3, <1>4, <1>5, ShardNodes
    <2>2. \A i \in 0 .. n : i = 0 \/ i \in 1 .. n
      BY <1>1
    <2>3. P \in SUBSET (1 .. n) /\ 0 \notin P /\ \A i \in 1 .. n : i \in 0 .. n /\ 0 \in 0 .. n
      BY <1>1
    <2>4. 0 \in Q <=> item.primary = a
      BY <2>1, <2>3, <1>1
    <2>5. Q = P \/ Q = P \cup {0}
      <3>1. \A i \in 1 .. n : i \in Q <=> i \in P
        BY <2>1, <2>3
      <3>2. \A i \in Q : i = 0 \/ i \in 1 .. n
        BY <2>1, <2>2
      <3> HIDE DEF P, Q
      <3> QED
        BY <2>3, <3>1, <3>2
    <2> HIDE DEF P, Q
    <2>6. Cardinality(Q) = (IF 0 \in Q THEN 1 ELSE 0) + Cardinality(P)
      BY <1>1, <2>3, <2>5, OneMore
    <2>7. Occurrences(a, e) = Cardinality(Q)
      BY DEF Occurrences, Q
    <2> QED
      BY <1>1, <2>4, <2>6, <2>7 DEF P
  <1> QED
    BY <1>3, <1>5, <1>6 DEF e

LEMMA NewFacts ==
    ASSUME NEW c, Accepted(c)
    PROVE  WellFormed(New(c)) /\ Kept(c, New(c)) /\ OnlyThese(c, New(c))
  <1> DEFINE q == c.shards
             n == Len(q)
             ids == {item.id : item \in ToSet(q)}
             at(s) == Max({i \in 1 .. n : q[i].id = s})
  <1>1. /\ n \in Nat /\ DOMAIN q = 1 .. n /\ \A i \in 1 .. n : q[i] \in Item
        /\ \A i, j \in 1 .. n : q[i].id = q[j].id => i = j
    BY DEF Accepted
  <1>2. New(c) = [s \in ids |-> Entry(q[at(s)])]
    BY <1>1, Zenon DEF New, Entry, UpNode
  <1>3. \A i \in 1 .. n : q[i].id \in ids
    BY <1>1 DEF ToSet
  <1>4. \A s \in ids : \E i \in 1 .. n : q[i].id = s
    BY <1>1 DEF ToSet
  <1>5. \A i \in 1 .. n : at(q[i].id) = i
    <2> TAKE i \in 1 .. n
    <2>1. {j \in 1 .. n : q[j].id = q[i].id} = {i}
      BY <1>1
    <2>2. Max({i}) = i
      <3>1. {i} \in SUBSET (1 .. n) /\ {i} # {}
        OBVIOUS
      <3>2. Max({i}) \in {i}
        BY <1>1, <3>1, MaxOfSet
      <3> QED
        BY <3>2
    <2> QED
      BY <2>1, <2>2
  <1> HIDE DEF q, n, at
  <1>6. \A i \in 1 .. n : New(c)[q[i].id] = Entry(q[i])
    BY <1>2, <1>3, <1>5
  <1>7. DOMAIN New(c) = ids
    BY <1>2
  <1>8. IsFiniteSet(ids)
    <2> DEFINE f == [i \in 1 .. n |-> q[i].id]
    <2>1. f \in Surjection(1 .. n, ids)
      <3>1. f \in [1 .. n -> ids] /\ \A i \in 1 .. n : f[i] = q[i].id
        BY <1>3
      <3> HIDE DEF f, ids
      <3> QED
        BY <1>4, <3>1 DEF Surjection
    <2>2. IsFiniteSet(1 .. n)
      <3>1. 1 \in Int /\ n \in Int
        BY <1>1
      <3> QED
        BY <3>1, FS_Interval
    <2> HIDE DEF f, ids
    <2> QED
      BY <2>1, <2>2, FS_Surjection
  <1> HIDE DEF ids
  <1>9. \A s \in ids : New(c)[s] \in SimShard /\ New(c)[s].id = s
    <2> TAKE s \in ids
    <2>1. PICK i \in 1 .. n : q[i].id = s
      BY <1>4
    <2>2. New(c)[s] = Entry(q[i]) /\ q[i] \in Item
      BY <1>1, <1>6, <2>1
    <2> QED
      BY <2>1, <2>2, EntryFacts
  <1>10. WellFormed(New(c))
    BY <1>7, <1>8, <1>9 DEF WellFormed
  <1>11. ASSUME NEW i \in DOMAIN c.shards
         PROVE  LET item == c.shards[i]
                IN  /\ item.id \in DOMAIN New(c)
                    /\ \A a \in Addrs : Occurrences(a, New(c)[item.id]) =
                          (IF item.primary = a THEN 1 ELSE 0)
                          + Cardinality({j \in DOMAIN item.replicas : item.replicas[j] = a})
    <2>1. i \in 1 .. n /\ c.shards[i] = q[i]
      BY <1>1 DEF q
    <2>2. New(c)[q[i].id] = Entry(q[i]) /\ q[i] \in Item /\ q[i].id \in DOMAIN New(c)
      BY <1>1, <1>3, <1>6, <1>7, <2>1
    <2>3. \A a \in Addrs : Occurrences(a, Entry(q[i])) =
             (IF q[i].primary = a THEN 1 ELSE 0)
             + Cardinality({j \in DOMAIN q[i].replicas : q[i].replicas[j] = a})
      BY <2>2, EntryFacts, Zenon
    <2> QED
      BY <2>1, <2>2, <2>3, Zenon
  <1>12. Kept(c, New(c))
    BY <1>11, Zenon DEF Kept
  <1>13. OnlyThese(c, New(c))
    BY <1>1, <1>4, <1>7 DEF OnlyThese, q
  <1> QED
    BY <1>10, <1>12, <1>13

LEMMA EmptyMap == WellFormed(<<>>)
  <1>1. DOMAIN <<>> = {}
    OBVIOUS
  <1>2. IsFiniteSet({})
    BY FS_EmptySet
  <1> QED
    BY <1>1, <1>2 DEF WellFormed

LEMMA EmptyList == <<>> \in Seq(Event) /\ Len(<<>>) <= MaxEvents
  <1>1. <<>> \in Seq(Event)
    OBVIOUS
  <1>2. Len(<<>>) = 0
    OBVIOUS
  <1> QED
    BY <1>1, <1>2, Constants

LEMMA SimStarts == Init => SimInv
  <1> SUFFICES ASSUME Init PROVE SimInv
    OBVIOUS
  <1>1. PICK l \in Launches :
           /\ cfg = Load(l.config)
           /\ phase = IF cfg.error # NoError THEN "fatal" ELSE IF l.ui THEN "serving" ELSE "proxy"
           /\ map = IF phase = "serving" THEN New(cfg) ELSE <<>>
           /\ events = <<>>
           /\ handler = [h \in Handlers |-> Idle]
    BY DEF Init
  <1>2. l.config \in rawConfig(Shards, Addrs)
    <2>1. l \in [config : rawConfig(Shards, Addrs), ui : BOOLEAN]
      BY SimulatorAssumption, Zenon
    <2> QED
      BY <2>1
  <1>3. /\ phase \in {"fatal", "proxy", "serving"}
        /\ phase # "fatal" => cfg.error = NoError
    BY <1>1
  <1>4. phase # "fatal" => Accepted(cfg) /\ Runnable(cfg)
    BY <1>1, <1>2, <1>3, LoadAccepts
  <1>5. DOMAIN handler = Handlers /\ \A h \in Handlers : handler[h] = Idle
    BY <1>1
  <1>6. PhaseInv
    BY <1>1, <1>3, <1>4, <1>5 DEF PhaseInv
  <1>7. MapInv
    <2>1. CASE phase = "serving"
      <3>1. map = New(cfg) /\ Accepted(cfg)
        BY <1>1, <1>4, <2>1
      <3> QED
        BY <3>1, NewFacts DEF MapInv
    <2>2. CASE phase # "serving"
      <3>1. map = <<>>
        BY <1>1, <2>2
      <3> QED
        BY <2>2, <3>1, EmptyMap DEF MapInv
    <2> QED
      BY <2>1, <2>2
  <1>8. EventsInv
    BY <1>1, EmptyList DEF EventsInv
  <1>9. HandlersInv
    <2>1. Idle.pc = "idle"
      BY DEF Idle
    <2> QED
      BY <1>5, <2>1 DEF HandlersInv
  <1> QED
    BY <1>6, <1>7, <1>8, <1>9 DEF SimInv

-----------------------------------------------------------------------------
(* Steps that read. *)

\* A goroutine that is under way is so while the simulator serves.
LEMMA UnderWay ==
    ASSUME SimInv, NEW h \in Handlers, handler[h].pc # "idle"
    PROVE  phase = "serving"
  BY DEF SimInv, PhaseInv, Idle

LEMMA ReaderKeeps ==
    ASSUME SimInv, NEW h \in Handlers, NEW where, phase = "serving",
           Goto(h, where), UNCHANGED <<cfg, phase, map, events>>,
           where.pc \in {"idle", "state", "route", "lock", "describe"},
           where.pc = "describe" => Describes(where, map)
    PROVE  SimInv'
  <1> USE DEF SimInv
  <1>1. PhaseInv'
    BY DEF PhaseInv
  <1>2. MapInv'
    BY DEF MapInv
  <1>3. EventsInv'
    BY DEF EventsInv
  <1>4. HandlersInv'
    <2>1. DOMAIN handler = Handlers /\ handler' = [handler EXCEPT ![h] = where]
      BY DEF HandlersInv, Goto
    <2>2. DOMAIN handler' = Handlers /\ handler'[h] = where
          /\ \A g \in Handlers : g # h => handler'[g] = handler[g]
      BY <2>1
    <2>3. map' = map
      OBVIOUS
    <2>4. ASSUME NEW g \in Handlers
          PROVE  /\ handler'[g].pc \in {"idle", "state", "route", "lock", "describe"}
                 /\ handler'[g].pc = "describe" => Describes(handler'[g], map)
      BY <2>2 DEF HandlersInv
    <2> QED
      BY <2>2, <2>3, <2>4, Zenon DEF HandlersInv
  <1> QED
    BY <1>1, <1>2, <1>3, <1>4

LEMMA ReceiveKeeps ==
    ASSUME SimInv, NEW h \in Handlers, Receive(h)
    PROVE  SimInv'
  <1>1. PICK p \in {"state", "route", "lock"} : Goto(h, [pc |-> p])
    BY DEF Receive
  <1>2. [pc |-> p].pc = p
    OBVIOUS
  <1> QED
    BY <1>1, <1>2, ReaderKeeps DEF Receive

LEMMA ToIdleKeeps ==
    ASSUME SimInv, NEW h \in Handlers, phase = "serving", Goto(h, Idle),
           UNCHANGED <<cfg, phase, map, events>>
    PROVE  SimInv'
  <1>1. Idle.pc = "idle"
    BY DEF Idle
  <1> QED
    BY <1>1, ReaderKeeps

\* Pick returns a node of the entry.
LEMMA PickReplicaIsMember ==
    ASSUME NEW shard \in SimShard, NEW hash \in Nat, NEW max
    PROVE  \/ pickReplica(shard, hash, max) = shard.primary
           \/ pickReplica(shard, hash, max) \in ToSet(shard.replicas)
  <1> DEFINE usable == {r \in ToSet(shard.replicas) :
                           r.status # "DOWN" /\ (max >= 0 => r.lagMS <= max)}
             fits == Filtered(shard.replicas, usable)
             n == Len(fits)
  <1>1. shard.replicas \in Seq(SimNode)
    BY DEF SimShard
  <1>2. fits \in Seq(SimNode) /\ ToSet(fits) = ToSet(shard.replicas) \cap usable
    BY <1>1, FilteredFacts
  <1>3. pickReplica(shard, hash, max) = IF fits = <<>> THEN shard.primary ELSE fits[(hash % n) + 1]
    BY DEF pickReplica
  <1> HIDE DEF fits, usable
  <1>4. n \in Nat /\ DOMAIN fits = 1 .. n /\ (fits # <<>> => n # 0)
    BY <1>2
  <1>5. CASE fits # <<>>
    <2>1. (hash % n) + 1 \in 1 .. n
      BY <1>4, <1>5
    <2>2. fits[(hash % n) + 1] \in ToSet(fits)
      BY <1>4, <2>1 DEF ToSet
    <2> QED
      BY <1>2, <1>3, <1>5, <2>2
  <1> QED
    BY <1>3, <1>5

LEMMA PickIsMember ==
    ASSUME NEW shard \in SimShard, NEW hash \in Nat, NEW max,
           NEW level \in Consistencies, level # "other"
    PROVE  \/ Pick(shard, level, hash, max) = shard.primary
           \/ Pick(shard, level, hash, max) \in ToSet(shard.replicas)
  <1>1. \/ Pick(shard, level, hash, max) = shard.primary
        \/ Pick(shard, level, hash, max) = pickReplica(shard, hash, -1)
        \/ Pick(shard, level, hash, max) = pickReplica(shard, hash, max)
    BY DEF Pick, Consistencies
  <1> QED
    BY <1>1, PickReplicaIsMember

LEMMA RouteResolveKeeps ==
    ASSUME SimInv, NEW h \in Handlers, RouteResolve(h)
    PROVE  SimInv'
  <1>0. PICK s \in DOMAIN map, level \in Consistencies, max \in MaxLags :
           \E hash \in 0 .. Len(map[s].replicas) :
              Goto(h, IF level = "other" THEN Idle
                      ELSE [pc |-> "describe", shard |-> s,
                            node |-> Pick(map[s], level, hash,
                                          IF max = 0 THEN cfg.defaultMaxLagMS ELSE max)])
    BY DEF RouteResolve
  <1>1. PICK hash \in 0 .. Len(map[s].replicas) :
           Goto(h, IF level = "other" THEN Idle
                   ELSE [pc |-> "describe", shard |-> s,
                         node |-> Pick(map[s], level, hash,
                                       IF max = 0 THEN cfg.defaultMaxLagMS ELSE max)])
    BY <1>0, Zenon
  <1>2. phase = "serving" /\ UNCHANGED <<cfg, phase, map, events>>
    BY UnderWay DEF RouteResolve, At
  <1>3. CASE level = "other"
    BY <1>1, <1>2, <1>3, ToIdleKeeps
  <1>4. CASE level # "other"
    <2>1. PICK ceiling : ceiling = IF max = 0 THEN cfg.defaultMaxLagMS ELSE max
      OBVIOUS
    <2>2. PICK node : node = Pick(map[s], level, hash, ceiling)
      OBVIOUS
    <2>3. Goto(h, [pc |-> "describe", shard |-> s, node |-> node])
      BY <1>1, <1>4, <2>1, <2>2, Zenon
    <2>4. node = map[s].primary \/ node \in ToSet(map[s].replicas)
      <3>1. map[s] \in SimShard /\ hash \in Nat
        BY DEF SimInv, MapInv, WellFormed
      <3> QED
        BY <1>4, <2>2, <3>1, PickIsMember
    <2> DEFINE where == [pc |-> "describe", shard |-> s, node |-> node]
    <2>5. where.pc = "describe" /\ where.shard = s /\ where.node = node
      OBVIOUS
    <2> HIDE DEF where
    <2>6. Describes(where, map)
      BY <2>4, <2>5 DEF Describes
    <2>7. Goto(h, where)
      BY <2>3 DEF where
    <2> QED
      BY <1>2, <2>5, <2>6, <2>7, ReaderKeeps
  <1> QED
    BY <1>3, <1>4

-----------------------------------------------------------------------------
(* Steps under the write lock. *)

\* The list of events after an event, cut to its length.
LEMMA CutList ==
    ASSUME NEW q \in Seq(Event), NEW e \in Event
    PROVE  LET r == SubSeq(<<e>> \o q, 1, Min({MaxEvents, Len(q) + 1}))
           IN  r \in Seq(Event) /\ Len(r) <= MaxEvents /\ r # <<>> /\ Head(r) = e
  <1> DEFINE r == SubSeq(<<e>> \o q, 1, Min({MaxEvents, Len(q) + 1}))
             m == Min({MaxEvents, Len(q) + 1})
             l == <<e>> \o q
  <1>1. MaxEvents \in Nat \ {0} /\ Len(q) \in Nat
    BY Constants
  <1>2. m \in {MaxEvents, Len(q) + 1} /\ m <= MaxEvents /\ m <= Len(q) + 1
    <2>1. {MaxEvents, Len(q) + 1} \in SUBSET Nat /\ {MaxEvents, Len(q) + 1} # {}
      BY <1>1
    <2> QED
      BY <2>1, MinOfSet
  <1>3. m \in 1 .. Len(q) + 1
    BY <1>1, <1>2
  <1>4. l \in Seq(Event) /\ Len(l) = Len(q) + 1 /\ l[1] = e
    <2>1. <<e>> \in Seq(Event) /\ Len(<<e>>) = 1 /\ <<e>>[1] = e
      OBVIOUS
    <2> DEFINE one == <<e>>
    <2> HIDE DEF one
    <2>2. /\ l \in Seq(Event) /\ Len(l) = Len(one) + Len(q)
          /\ \A i \in 1 .. Len(one) + Len(q) :
                l[i] = IF i <= Len(one) THEN one[i] ELSE q[i - Len(one)]
      BY <2>1, ConcatProperties, Zenon DEF one
    <2> HIDE DEF l
    <2>3. Len(one) = 1 /\ one[1] = e
      BY <2>1 DEF one
    <2> QED
      BY <1>1, <2>2, <2>3
  <1> HIDE DEF m, l, r
  <1>5. r = SubSeq(l, 1, m)
    BY DEF m, l, r
  <1>6. r \in Seq(Event) /\ Len(r) = m /\ r[1] = l[1]
    <2>1. m \in Int /\ 1 \in Int /\ 1 \in 1 .. m - 1 + 1 /\ 1 + 1 - 1 = 1 /\ m - 1 + 1 = m /\ 1 <= m
      BY <1>1, <1>3
    <2>2. \A i \in 1 .. m : l[i] \in Event
      <3>1. \A i \in 1 .. m : i \in 1 .. Len(l)
        BY <1>1, <1>3, <1>4
      <3>2. \A i \in 1 .. Len(l) : l[i] \in Event
        BY <1>4, ElementOfSeq
      <3> QED
        BY <3>1, <3>2
    <2>3. /\ r \in Seq(Event)
          /\ Len(r) = IF 1 <= m THEN m - 1 + 1 ELSE 0
          /\ \A i \in 1 .. m - 1 + 1 : r[i] = l[1 + i - 1]
      BY <1>5, <2>1, <2>2, SubSeqProperties
    <2> QED
      BY <2>1, <2>3
  <1>7. r # <<>> /\ Head(r) = r[1]
    <2>1. Len(r) # 0 /\ Len(<<>>) = 0
      BY <1>3, <1>6
    <2> QED
      BY <1>6, <2>1
  <1> QED
    BY <1>2, <1>4, <1>6, <1>7 DEF r

\* With the write lock held no reader is between its two reads of the map.
LEMMA WriterKeepsHandlers ==
    ASSUME SimInv, NEW h \in Handlers, NEW where, Locked(h), Goto(h, where),
           where.pc \in {"idle", "state"}
    PROVE  HandlersInv'
  <1>1. DOMAIN handler = Handlers /\ handler' = [handler EXCEPT ![h] = where]
    BY DEF SimInv, HandlersInv, Goto
  <1>2. DOMAIN handler' = Handlers /\ handler'[h] = where
        /\ \A g \in Handlers : g # h => handler'[g] = handler[g]
    BY <1>1
  <1>3. ASSUME NEW g \in Handlers
        PROVE  handler'[g].pc \in {"idle", "state", "route", "lock"}
    <2>1. handler[g].pc # "describe"
      BY DEF Locked, NoReader, At
    <2> QED
      BY <1>2, <2>1 DEF SimInv, HandlersInv
  <1>4. ASSUME NEW g \in Handlers
        PROVE  /\ handler'[g].pc \in {"idle", "state", "route", "lock", "describe"}
               /\ handler'[g].pc = "describe" => Describes(handler'[g], map')
    BY <1>3
  <1> QED
    BY <1>2, <1>4, Zenon DEF HandlersInv

LEMMA CommitKeeps ==
    ASSUME SimInv, NEW h \in Handlers, NEW shard \in SimShard, NEW e \in Event,
           Locked(h), Commit(h, shard, e),
           shard.id \in DOMAIN map, e.shard = shard.id, Holds(e, shard),
           \A a \in Addrs : Occurrences(a, shard) = Occurrences(a, map[shard.id])
    PROVE  SimInv'
  <1> DEFINE s == shard.id
  <1>1. /\ map' = [map EXCEPT ![s] = shard]
        /\ events' = SubSeq(<<e>> \o events, 1, Min({MaxEvents, Len(events) + 1}))
        /\ Goto(h, [pc |-> "state"]) /\ UNCHANGED <<cfg, phase>>
    BY DEF Commit, Set
  <1>2. phase = "serving"
    <2>1. handler[h].pc # "idle"
      BY DEF Locked, At
    <2> QED
      BY <2>1, UnderWay
  <1>3. DOMAIN map' = DOMAIN map /\ map'[s] = shard /\ \A t \in DOMAIN map : t # s => map'[t] = map[t]
    BY <1>1
  <1>4. PhaseInv'
    BY <1>1, <1>2 DEF SimInv, PhaseInv
  <1>5. WellFormed(map')
    <2>1. WellFormed(map)
      BY DEF SimInv, MapInv
    <2> QED
      BY <1>3, <2>1 DEF WellFormed
  <1>6. \A t \in DOMAIN map : \A a \in Addrs : Occurrences(a, map'[t]) = Occurrences(a, map[t])
    BY <1>3
  <1>7. Kept(cfg, map')
    <2>1. Kept(cfg, map)
      BY <1>2 DEF SimInv, MapInv
    <2>2. ASSUME NEW i \in DOMAIN cfg.shards
          PROVE  LET item == cfg.shards[i]
                 IN  /\ item.id \in DOMAIN map'
                     /\ \A a \in Addrs : Occurrences(a, map'[item.id]) =
                           (IF item.primary = a THEN 1 ELSE 0)
                           + Cardinality({j \in DOMAIN item.replicas : item.replicas[j] = a})
      <3>1. LET item == cfg.shards[i]
            IN  /\ item.id \in DOMAIN map
                /\ \A a \in Addrs : Occurrences(a, map[item.id]) =
                      (IF item.primary = a THEN 1 ELSE 0)
                      + Cardinality({j \in DOMAIN item.replicas : item.replicas[j] = a})
        BY <2>1, Zenon DEF Kept
      <3> QED
        BY <1>3, <1>6, <3>1, Zenon
    <2> QED
      BY <2>2, Zenon DEF Kept
  <1>8. MapInv'
    <2>1. OnlyThese(cfg, map)
      BY <1>2 DEF SimInv, MapInv
    <2>2. OnlyThese(cfg, map')
      BY <1>3, <2>1 DEF OnlyThese
    <2> QED
      BY <1>1, <1>5, <1>7, <2>2 DEF MapInv
  <1>9. EventsInv'
    <2>1. events \in Seq(Event)
      BY DEF SimInv, EventsInv
    <2>2. events' \in Seq(Event) /\ Len(events') <= MaxEvents /\ events' # <<>> /\ Head(events') = e
      BY <1>1, <2>1, CutList
    <2> QED
      BY <1>3, <2>2 DEF EventsInv
  <1>10. HandlersInv'
    <2>1. [pc |-> "state"].pc = "state"
      OBVIOUS
    <2> QED
      BY <1>1, <2>1, WriterKeepsHandlers
  <1> QED
    BY <1>4, <1>8, <1>9, <1>10 DEF SimInv

LEMMA ResetKeeps ==
    ASSUME SimInv, NEW h \in Handlers, Reset(h)
    PROVE  SimInv'
  <1>1. /\ map' = New(cfg) /\ events' = <<>> /\ Locked(h)
        /\ Goto(h, [pc |-> "state"]) /\ UNCHANGED <<cfg, phase>>
    BY DEF Reset
  <1>2. phase = "serving"
    <2>1. handler[h].pc # "idle"
      BY <1>1 DEF Locked, At
    <2> QED
      BY <2>1, UnderWay
  <1>3. Accepted(cfg)
    BY <1>2 DEF SimInv, PhaseInv
  <1>4. PhaseInv'
    BY <1>1, <1>2, <1>3 DEF PhaseInv
  <1>5. MapInv'
    <2>1. WellFormed(New(cfg)) /\ Kept(cfg, New(cfg)) /\ OnlyThese(cfg, New(cfg))
      BY <1>3, NewFacts
    <2> QED
      BY <1>1, <2>1 DEF MapInv
  <1>6. EventsInv'
    BY <1>1, EmptyList DEF EventsInv
  <1>7. HandlersInv'
    <2>1. [pc |-> "state"].pc = "state"
      OBVIOUS
    <2> QED
      BY <1>1, <2>1, WriterKeepsHandlers
  <1> QED
    BY <1>4, <1>5, <1>6, <1>7 DEF SimInv

LEMMA NodesOfShard ==
    ASSUME NEW shard \in SimShard
    PROVE  /\ shard.primary \in Nodes(shard)
           /\ \A i \in 1 .. Len(shard.replicas) : shard.replicas[i] \in Nodes(shard)
  <1>1. /\ Len(shard.replicas) \in Nat /\ Positions(shard) = 0 .. Len(shard.replicas)
        /\ NodeAt(shard, 0) = shard.primary
        /\ \A i \in 1 .. Len(shard.replicas) : NodeAt(shard, i) = shard.replicas[i]
    BY ShardNodes
  <1>2. 0 \in Positions(shard) /\ \A i \in 1 .. Len(shard.replicas) : i \in Positions(shard)
    BY <1>1
  <1> QED
    BY <1>1, <1>2 DEF Nodes

LEMMA PrimaryToggled ==
    ASSUME NEW shard \in SimShard, NEW status \in {"UP", "DOWN"},
           NEW new, new = [shard EXCEPT !.primary.status = status]
    PROVE  /\ new \in SimShard /\ new.id = shard.id
           /\ new.primary.addr = shard.primary.addr /\ new.primary.status = status
           /\ \A a : Occurrences(a, new) = Occurrences(a, shard)
  <1>1. /\ shard.id \in Shards /\ shard.primary \in SimNode /\ shard.replicas \in Seq(SimNode)
        /\ shard = [id |-> shard.id, primary |-> shard.primary, replicas |-> shard.replicas]
    BY DEF SimShard
  <1>2. new = [id |-> shard.id, primary |-> [shard.primary EXCEPT !.status = status],
               replicas |-> shard.replicas]
    BY DEF SimShard
  <1> DEFINE p == [shard.primary EXCEPT !.status = status]
  <1>3. p \in SimNode /\ p.addr = shard.primary.addr /\ p.status = status
    BY <1>1 DEF SimNode
  <1> HIDE DEF p
  <1>4. new.id = shard.id /\ new.primary = p /\ new.replicas = shard.replicas
    BY <1>2 DEF p
  <1>5. new \in SimShard
    BY <1>1, <1>2, <1>3 DEF SimShard, p
  <1>6. Positions(new) = Positions(shard)
    BY <1>4 DEF Positions
  <1>7. \A i \in Positions(shard) : NodeAt(new, i).addr = NodeAt(shard, i).addr
    BY <1>3, <1>4 DEF NodeAt
  <1> QED
    BY <1>3, <1>4, <1>5, <1>6, <1>7, SameAddresses

LEMMA TogglePrimaryKeeps ==
    ASSUME SimInv, NEW h \in Handlers, NEW s \in DOMAIN map, TogglePrimary(h, s)
    PROVE  SimInv'
  <1>1. PICK shard : shard = map[s]
    OBVIOUS
  <1>2. PICK status : status = toggleStatus(shard.primary.status)
    OBVIOUS
  <1>3. PICK new : new = [shard EXCEPT !.primary.status = status]
    OBVIOUS
  <1>4. PICK e : e = [kind |-> "toggle", shard |-> s, node |-> shard.primary.addr, status |-> status]
    OBVIOUS
  <1>5. Locked(h) /\ Commit(h, new, e)
    BY <1>1, <1>2, <1>3, <1>4, Zenon DEF TogglePrimary
  <1>6. shard \in SimShard /\ shard.id = s /\ status \in {"UP", "DOWN"}
    BY <1>1, <1>2 DEF SimInv, MapInv, WellFormed, toggleStatus
  <1>7. /\ new \in SimShard /\ new.id = s
        /\ new.primary.addr = shard.primary.addr /\ new.primary.status = status
        /\ \A a : Occurrences(a, new) = Occurrences(a, shard)
    BY <1>3, <1>6, PrimaryToggled
  <1>8. e \in Event /\ e.shard = s /\ e.kind = "toggle" /\ e.node = shard.primary.addr /\ e.status = status
    <2>1. s \in Shards /\ shard.primary.addr \in Addrs
      BY <1>6 DEF SimShard, SimNode
    <2> QED
      BY <1>4, <1>6, <2>1 DEF Event
  <1>9. Holds(e, new)
    <2>1. new.primary \in Nodes(new)
      BY <1>7, NodesOfShard
    <2> QED
      BY <1>7, <1>8, <2>1 DEF Holds
  <1> QED
    BY <1>1, <1>5, <1>7, <1>8, <1>9, CommitKeeps

WithReplicas(shard, q) == [shard EXCEPT !.replicas = q]

LEMMA ReplicasChanged ==
    ASSUME NEW shard \in SimShard, NEW q \in Seq(SimNode), Len(q) = Len(shard.replicas),
           \A j \in 1 .. Len(q) : q[j].addr = shard.replicas[j].addr,
           NEW new, new = WithReplicas(shard, q)
    PROVE  /\ new \in SimShard /\ new.id = shard.id /\ new.replicas = q
           /\ \A a : Occurrences(a, new) = Occurrences(a, shard)
  <1>1. new.id = shard.id /\ new.primary = shard.primary /\ new.replicas = q
    BY DEF SimShard, WithReplicas
  <1>2. new \in SimShard
    BY DEF SimShard, WithReplicas
  <1>3. /\ Positions(new) = 0 .. Len(q) /\ Positions(shard) = 0 .. Len(q) /\ Len(q) \in Nat
        /\ NodeAt(new, 0) = NodeAt(shard, 0)
        /\ \A i \in 1 .. Len(q) : NodeAt(new, i) = q[i] /\ NodeAt(shard, i) = shard.replicas[i]
    BY <1>1, <1>2, ShardNodes
  <1>4. \A i \in 0 .. Len(q) : i = 0 \/ i \in 1 .. Len(q)
    BY <1>3
  <1>5. \A i \in Positions(shard) : NodeAt(new, i).addr = NodeAt(shard, i).addr
    BY <1>3, <1>4
  <1> QED
    BY <1>1, <1>2, <1>3, <1>5, SameAddresses

LEMMA ToggleReplicaKeeps ==
    ASSUME SimInv, NEW h \in Handlers, NEW s \in DOMAIN map,
           NEW i \in DOMAIN map[s].replicas, ToggleReplica(h, s, i)
    PROVE  SimInv'
  <1>1. PICK shard : shard = map[s]
    OBVIOUS
  <1>2. PICK a : a = shard.replicas[i].addr
    OBVIOUS
  <1>3. PICK q : q = [j \in DOMAIN shard.replicas |->
                        LET r == shard.replicas[j]
                        IN  IF r.addr = a THEN [r EXCEPT !.status = toggleStatus(@)] ELSE r]
    OBVIOUS
  <1>4. PICK new : new = WithReplicas(shard, q)
    OBVIOUS
  <1>5. PICK e : e = [kind |-> "toggle", shard |-> s, node |-> a, status |-> q[i].status]
    OBVIOUS
  <1>6. Locked(h) /\ Commit(h, new, e)
    BY <1>1, <1>2, <1>3, <1>4, <1>5, Zenon DEF ToggleReplica, WithReplicas
  <1>7. shard \in SimShard /\ shard.id = s
    BY <1>1 DEF SimInv, MapInv, WellFormed
  <1>8. /\ Len(shard.replicas) \in Nat /\ DOMAIN shard.replicas = 1 .. Len(shard.replicas)
        /\ \A j \in 1 .. Len(shard.replicas) : shard.replicas[j] \in SimNode
    BY <1>7, ShardNodes
  <1> DEFINE n == Len(shard.replicas)
  <1>9. \A j \in 1 .. n : q[j] \in SimNode /\ q[j].addr = shard.replicas[j].addr
    <2> TAKE j \in 1 .. n
    <2>1. shard.replicas[j] \in SimNode
      BY <1>8
    <2>2. q[j] = IF shard.replicas[j].addr = a
                 THEN [shard.replicas[j] EXCEPT !.status = toggleStatus(shard.replicas[j].status)]
                 ELSE shard.replicas[j]
      BY <1>3, <1>8
    <2> QED
      BY <2>1, <2>2 DEF SimNode, toggleStatus
  <1>10. q \in Seq(SimNode) /\ Len(q) = n
    <2>1. q \in [1 .. n -> SimNode]
      BY <1>3, <1>8, <1>9
    <2> QED
      BY <1>8, <2>1
  <1>11. /\ new \in SimShard /\ new.id = s /\ new.replicas = q
         /\ \A b : Occurrences(b, new) = Occurrences(b, shard)
    <2>1. Len(q) = Len(shard.replicas) /\ \A j \in 1 .. Len(q) : q[j].addr = shard.replicas[j].addr
      BY <1>9, <1>10
    <2> QED
      BY <1>4, <1>7, <1>10, <2>1, ReplicasChanged, Zenon
  <1>12. i \in 1 .. n /\ q[i] \in SimNode /\ q[i].addr = a
    BY <1>1, <1>2, <1>8, <1>9
  <1>13. e \in Event /\ e.shard = s /\ e.kind = "toggle" /\ e.node = a /\ e.status = q[i].status
    <2>1. s \in Shards /\ a \in Addrs /\ q[i].status \in {"UP", "DOWN"}
      BY <1>7, <1>12 DEF SimShard, SimNode
    <2> QED
      BY <1>5, <2>1 DEF Event
  <1>14. Holds(e, new)
    <2>1. q[i] \in Nodes(new)
      BY <1>10, <1>11, <1>12, NodesOfShard
    <2> QED
      BY <1>12, <1>13, <2>1 DEF Holds
  <1> QED
    BY <1>1, <1>6, <1>11, <1>13, <1>14, CommitKeeps

LEMMA SetLagKeeps ==
    ASSUME SimInv, NEW h \in Handlers, NEW s \in DOMAIN map, NEW a \in Addrs, NEW lag \in Lags,
           SetLag(h, s, a, lag)
    PROVE  SimInv'
  <1>1. PICK shard : shard = map[s]
    OBVIOUS
  <1>2. PICK q : q = [j \in DOMAIN shard.replicas |->
                        IF shard.replicas[j].addr = a
                        THEN [shard.replicas[j] EXCEPT !.lagMS = lag] ELSE shard.replicas[j]]
    OBVIOUS
  <1>3. PICK new : new = WithReplicas(shard, q)
    OBVIOUS
  <1>4. PICK e : e = [kind |-> "lag", shard |-> s, node |-> a, lagMS |-> lag]
    OBVIOUS
  <1>5. Locked(h) /\ Commit(h, new, e) /\ a \in ReplicaAddrs(shard)
    BY <1>1, <1>2, <1>3, <1>4, Zenon DEF SetLag, WithReplicas
  <1>6. shard \in SimShard /\ shard.id = s
    BY <1>1 DEF SimInv, MapInv, WellFormed
  <1>7. /\ Len(shard.replicas) \in Nat /\ DOMAIN shard.replicas = 1 .. Len(shard.replicas)
        /\ \A j \in 1 .. Len(shard.replicas) : shard.replicas[j] \in SimNode
    BY <1>6, ShardNodes
  <1> DEFINE n == Len(shard.replicas)
  <1>8. \A j \in 1 .. n :
           /\ q[j] \in SimNode /\ q[j].addr = shard.replicas[j].addr
           /\ shard.replicas[j].addr = a => q[j].lagMS = lag
    <2> TAKE j \in 1 .. n
    <2>1. shard.replicas[j] \in SimNode
      BY <1>7
    <2>2. q[j] = IF shard.replicas[j].addr = a
                 THEN [shard.replicas[j] EXCEPT !.lagMS = lag] ELSE shard.replicas[j]
      BY <1>2, <1>7
    <2> QED
      BY <2>1, <2>2 DEF SimNode
  <1>9. q \in Seq(SimNode) /\ Len(q) = n
    <2>1. q \in [1 .. n -> SimNode]
      BY <1>2, <1>7, <1>8
    <2> QED
      BY <1>7, <2>1
  <1>10. /\ new \in SimShard /\ new.id = s /\ new.replicas = q
         /\ \A b : Occurrences(b, new) = Occurrences(b, shard)
    <2>1. Len(q) = Len(shard.replicas) /\ \A j \in 1 .. Len(q) : q[j].addr = shard.replicas[j].addr
      BY <1>8, <1>9
    <2> QED
      BY <1>3, <1>6, <1>9, <2>1, ReplicasChanged, Zenon
  <1>11. e \in Event /\ e.shard = s /\ e.kind = "lag" /\ e.node = a /\ e.lagMS = lag
    <2>1. s \in Shards
      BY <1>6 DEF SimShard
    <2> QED
      BY <1>4, <2>1 DEF Event
  <1>12. Holds(e, new)
    <2>1. PICK i \in 1 .. n : shard.replicas[i].addr = a
      BY <1>5 DEF ReplicaAddrs
    <2>2. q[i] \in Nodes(new) /\ q[i].addr = a /\ q[i].lagMS = lag
      BY <1>8, <1>9, <1>10, <2>1, NodesOfShard
    <2> QED
      BY <1>11, <2>2 DEF Holds
  <1> QED
    BY <1>1, <1>5, <1>10, <1>11, <1>12, CommitKeeps

\* "promote" moves the candidate to the front, the old primary to the end, and
\* the replicas after the candidate one place up.
Moved(shard, c) ==
    [shard EXCEPT
       !.primary = [shard.replicas[c] EXCEPT !.status = "UP"],
       !.replicas = Append(RemoveAt(shard.replicas, c), [shard.primary EXCEPT !.status = "DOWN"])]

LEMMA ShardPromoted ==
    ASSUME NEW shard \in SimShard, NEW c \in 1 .. Len(shard.replicas), NEW new, new = Moved(shard, c)
    PROVE  /\ new \in SimShard /\ new.id = shard.id
           /\ new.primary.addr = shard.replicas[c].addr
           /\ \E r \in ToSet(new.replicas) : r.addr = shard.primary.addr /\ r.status = "DOWN"
           /\ \A a : Occurrences(a, new) = Occurrences(a, shard)
  <1> DEFINE n == Len(shard.replicas)
             rest == RemoveAt(shard.replicas, c)
             old == [shard.primary EXCEPT !.status = "DOWN"]
             p == [shard.replicas[c] EXCEPT !.status = "UP"]
             q == Append(rest, old)
  <1>1. /\ shard.primary \in SimNode /\ shard.replicas \in Seq(SimNode) /\ n \in Nat
        /\ \A i \in 1 .. n : shard.replicas[i] \in SimNode
    BY DEF SimShard
  <1>2. old \in SimNode /\ old.addr = shard.primary.addr /\ old.status = "DOWN"
    BY <1>1 DEF SimNode
  <1>3. p \in SimNode /\ p.addr = shard.replicas[c].addr
    BY <1>1 DEF SimNode
  <1>4. /\ rest \in Seq(SimNode) /\ Len(rest) = n - 1
        /\ \A k \in 1 .. n - 1 : rest[k] = IF k < c THEN shard.replicas[k] ELSE shard.replicas[k + 1]
    BY <1>1, RemoveAtLemma
  <1>5. new = [shard EXCEPT !.primary = p, !.replicas = q]
    BY Zenon DEF Moved
  <1> HIDE DEF rest, old, p, q
  <1>6. /\ q \in Seq(SimNode) /\ Len(q) = n /\ q[n] = old
        /\ \A k \in 1 .. n - 1 : q[k] = rest[k]
    <2>1. /\ Append(rest, old) \in Seq(SimNode)
          /\ Len(Append(rest, old)) = Len(rest) + 1
          /\ \A i \in 1 .. Len(rest) : Append(rest, old)[i] = rest[i]
          /\ Append(rest, old)[Len(rest) + 1] = old
      BY <1>2, <1>4, AppendProperties
    <2>2. Len(rest) + 1 = n
      BY <1>1, <1>4
    <2> QED
      BY <1>4, <2>1, <2>2 DEF q
  <1>7. new.id = shard.id /\ new.primary = p /\ new.replicas = q /\ new \in SimShard
    BY <1>3, <1>5, <1>6 DEF SimShard
  <1>8. /\ Positions(new) = 0 .. n /\ Positions(shard) = 0 .. n
        /\ NodeAt(new, 0) = p /\ NodeAt(shard, 0) = shard.primary
        /\ \A i \in 1 .. n : NodeAt(new, i) = q[i] /\ NodeAt(shard, i) = shard.replicas[i]
    BY <1>6, <1>7, ShardNodes
  <1>9. n \in 1 .. n
    BY <1>1
  <1> DEFINE f == [i \in 0 .. n |-> IF i = 0 THEN c ELSE IF i = n THEN 0
                                    ELSE IF i < c THEN i ELSE i + 1]
  <1> HIDE DEF n
  <1>10. f \in Bijection(0 .. n, 0 .. n)
    <2>0. c \in 1 .. n
      BY DEF n
    <2>1. f \in [0 .. n -> 0 .. n]
      BY <1>1, <2>0
    <2>2. \A i, j \in 0 .. n : f[i] = f[j] => i = j
      BY <1>1, <2>0
    <2>3. ASSUME NEW t \in 0 .. n PROVE \E i \in 0 .. n : f[i] = t
      <3>1. CASE t = 0
        <4>1. n \in 0 .. n /\ f[n] = t
          BY <1>1, <1>9, <3>1
        <4> QED
          BY <4>1
      <3>2. CASE t = c
        <4>1. 0 \in 0 .. n /\ f[0] = t
          BY <1>1, <3>2
        <4> QED
          BY <4>1
      <3>3. CASE t # 0 /\ t < c
        <4>1. t \in 0 .. n /\ f[t] = t
          BY <1>1, <2>0, <3>3
        <4> QED
          BY <4>1
      <3>4. CASE t > c
        <4>1. t - 1 \in 0 .. n /\ f[t - 1] = t
          BY <1>1, <2>0, <3>4
        <4> QED
          BY <4>1
      <3> QED
        BY <1>1, <2>0, <3>1, <3>2, <3>3, <3>4
    <2> HIDE DEF f
    <2> QED
      BY <2>1, <2>2, <2>3 DEF Bijection, Injection, Surjection, IsInjective
  <1>11. ASSUME NEW i \in 0 .. n PROVE NodeAt(new, i).addr = NodeAt(shard, f[i]).addr
    <2>0. c \in 1 .. n
      BY DEF n
    <2>1. CASE i = 0
      <3>1. f[i] = c
        BY <2>1
      <3> HIDE DEF f
      <3> QED
        BY <1>3, <1>8, <2>0, <2>1, <3>1
    <2>2. CASE i = n
      <3>1. f[i] = 0
        BY <1>9, <2>2
      <3> HIDE DEF f
      <3> QED
        BY <1>2, <1>6, <1>8, <1>9, <2>2, <3>1
    <2>3. CASE i # 0 /\ i # n
      <3>1. i \in 1 .. n - 1 /\ i \in 1 .. n /\ i + 1 \in 1 .. n
        BY <1>1, <2>3
      <3>2. f[i] = IF i < c THEN i ELSE i + 1
        BY <2>3
      <3> HIDE DEF f
      <3>3. NodeAt(new, i) = IF i < c THEN shard.replicas[i] ELSE shard.replicas[i + 1]
        BY <1>4, <1>6, <1>8, <3>1
      <3> QED
        BY <1>8, <3>1, <3>2, <3>3
    <2> QED
      BY <2>1, <2>2, <2>3
  <1> HIDE DEF f
  <1>12. \A a : Occurrences(a, new) = Occurrences(a, shard)
    <2>1. /\ f \in Bijection(Positions(new), Positions(shard))
          /\ \A i \in Positions(new) : NodeAt(new, i).addr = NodeAt(shard, f[i]).addr
      BY <1>8, <1>10, <1>11, Zenon
    <2> QED
      BY <1>7, <2>1, MovedNodes, Zenon
  <1>13. old \in ToSet(new.replicas)
    <2>1. DOMAIN q = 1 .. n
      BY <1>6
    <2> QED
      BY <1>6, <1>7, <1>9, <2>1 DEF ToSet
  <1> QED
    BY <1>2, <1>3, <1>7, <1>12, <1>13

LEMMA PromoteKeeps ==
    ASSUME SimInv, NEW h \in Handlers, NEW s \in DOMAIN map, Promote(h, s)
    PROVE  SimInv'
  <1>1. PICK shard : shard = map[s]
    OBVIOUS
  <1>2. PICK c : c = candidate(shard.replicas)
    OBVIOUS
  <1>3. PICK new : new = Moved(shard, c)
    OBVIOUS
  <1>6. PICK e : e = [kind |-> "promote", shard |-> s,
                      node |-> shard.replicas[c].addr, old |-> shard.primary.addr]
    OBVIOUS
  <1>7. Locked(h) /\ c # 0 /\ Commit(h, new, e)
    BY <1>1, <1>2, <1>3, <1>6, Zenon DEF Promote, Moved
  <1>8. shard \in SimShard /\ shard.id = s
    BY <1>1 DEF SimInv, MapInv, WellFormed
  <1>9. c \in 1 .. Len(shard.replicas)
    <2>1. shard.replicas \in Seq(SimNode)
      BY <1>8 DEF SimShard
    <2> QED
      BY <1>2, <1>7, <2>1, LoopFindsCandidate
  <1>10. /\ new \in SimShard /\ new.id = s
         /\ new.primary.addr = shard.replicas[c].addr
         /\ \E r \in ToSet(new.replicas) : r.addr = shard.primary.addr /\ r.status = "DOWN"
         /\ \A a : Occurrences(a, new) = Occurrences(a, shard)
    BY <1>3, <1>8, <1>9, ShardPromoted, Zenon
  <1>11. /\ e \in Event /\ e.shard = s /\ e.kind = "promote"
         /\ e.node = shard.replicas[c].addr /\ e.old = shard.primary.addr
    <2>1. s \in Shards /\ shard.primary \in SimNode
      BY <1>8 DEF SimShard
    <2>2. shard.replicas[c] \in SimNode
      BY <1>8, <1>9, ShardNodes
    <2>3. shard.primary.addr \in Addrs /\ shard.replicas[c].addr \in Addrs
      BY <2>1, <2>2 DEF SimNode
    <2> QED
      BY <1>6, <2>1, <2>3 DEF Event
  <1>12. Holds(e, new)
    BY <1>10, <1>11 DEF Holds
  <1> QED
    BY <1>1, <1>7, <1>10, <1>11, <1>12, CommitKeeps

-----------------------------------------------------------------------------
(* The invariant is one. *)

LEMMA ActionKeeps ==
    ASSUME SimInv, NEW h \in Handlers, Action(h)
    PROVE  SimInv'
  <1>1. CASE Reset(h)
    BY <1>1, ResetKeeps
  <1>2. CASE Refuse(h)
    <2>1. Goto(h, Idle) /\ UNCHANGED <<cfg, phase, map, events>> /\ handler[h].pc # "idle"
      BY <1>2 DEF Refuse, Locked, At
    <2> QED
      BY <2>1, UnderWay, ToIdleKeeps
  <1>3. CASE \E s \in DOMAIN map :
                \/ TogglePrimary(h, s)
                \/ \E i \in DOMAIN map[s].replicas : ToggleReplica(h, s, i)
                \/ \E a \in Addrs, lag \in Lags : SetLag(h, s, a, lag)
                \/ Promote(h, s)
    <2>1. PICK s \in DOMAIN map :
             \/ TogglePrimary(h, s)
             \/ \E i \in DOMAIN map[s].replicas : ToggleReplica(h, s, i)
             \/ \E a \in Addrs, lag \in Lags : SetLag(h, s, a, lag)
             \/ Promote(h, s)
      BY <1>3
    <2>2. CASE TogglePrimary(h, s)
      BY <2>2, TogglePrimaryKeeps
    <2>3. CASE \E i \in DOMAIN map[s].replicas : ToggleReplica(h, s, i)
      BY <2>3, ToggleReplicaKeeps
    <2>4. CASE \E a \in Addrs, lag \in Lags : SetLag(h, s, a, lag)
      BY <2>4, SetLagKeeps
    <2>5. CASE Promote(h, s)
      BY <2>5, PromoteKeeps
    <2> QED
      BY <2>1, <2>2, <2>3, <2>4, <2>5
  <1> QED
    BY <1>1, <1>2, <1>3 DEF Action

LEMMA InterruptKeeps ==
    ASSUME SimInv, Interrupt
    PROVE  SimInv'
  <1>1. /\ phase' = "exited" /\ map' = <<>> /\ events' = <<>>
        /\ handler' = [h \in Handlers |-> Idle]
    BY DEF Interrupt
  <1>2. DOMAIN handler' = Handlers /\ \A h \in Handlers : handler'[h] = Idle
    BY <1>1
  <1>3. PhaseInv'
    BY <1>1, <1>2 DEF PhaseInv, Idle
  <1>4. MapInv'
    BY <1>1, EmptyMap DEF MapInv
  <1>5. EventsInv'
    BY <1>1, EmptyList DEF EventsInv
  <1>6. HandlersInv'
    <2>1. Idle.pc = "idle"
      BY DEF Idle
    <2>2. ASSUME NEW h \in Handlers
          PROVE  /\ handler'[h].pc \in {"idle", "state", "route", "lock", "describe"}
                 /\ handler'[h].pc = "describe" => Describes(handler'[h], map')
      BY <1>2, <2>1
    <2> QED
      BY <1>2, <2>2, Zenon DEF HandlersInv
  <1> QED
    BY <1>3, <1>4, <1>5, <1>6 DEF SimInv

LEMMA SimStays == SimInv /\ [Next]_vars => SimInv'
  <1> SUFFICES ASSUME SimInv, [Next]_vars PROVE SimInv'
    OBVIOUS
  <1>1. CASE UNCHANGED vars
    BY <1>1 DEF vars, SimInv, PhaseInv, MapInv, EventsInv, HandlersInv
  <1>2. CASE Interrupt
    BY <1>2, InterruptKeeps
  <1>3. CASE \E h \in Handlers : Receive(h) \/ Read(h) \/ RouteDescribe(h) \/ Action(h)
    <2>1. PICK h \in Handlers : Receive(h) \/ Read(h) \/ RouteDescribe(h) \/ Action(h)
      BY <1>3
    <2>2. CASE Receive(h)
      BY <2>2, ReceiveKeeps
    <2>3. CASE State(h)
      <3>1. Goto(h, Idle) /\ UNCHANGED <<cfg, phase, map, events>> /\ handler[h].pc # "idle"
        BY <2>3 DEF State, At
      <3> QED
        BY <3>1, UnderWay, ToIdleKeeps
    <2>4. CASE RouteResolve(h)
      BY <2>4, RouteResolveKeeps
    <2>5. CASE RouteDescribe(h)
      <3>1. Goto(h, Idle) /\ UNCHANGED <<cfg, phase, map, events>> /\ handler[h].pc # "idle"
        BY <2>5 DEF RouteDescribe, At
      <3> QED
        BY <3>1, UnderWay, ToIdleKeeps
    <2>6. CASE Action(h)
      BY <2>6, ActionKeeps
    <2> QED
      BY <2>1, <2>2, <2>3, <2>4, <2>5, <2>6 DEF Read
  <1> QED
    BY <1>1, <1>2, <1>3 DEF Next

\* The simulator keeps the inductive invariant: outside "serving" nothing is
\* held; the map is one of the configuration; the newest event and the node a
\* reader is about to describe are true of the map.
THEOREM SimulatorInvariant == Spec => []SimInv
  BY SimStarts, SimStays, PTL DEF Spec

-----------------------------------------------------------------------------
(* What follows from the invariant. *)

LEMMA SimTypes == SimInv => TypeOK
  <1> SUFFICES ASSUME SimInv PROVE TypeOK
    OBVIOUS
  <1>1. ASSUME NEW s \in DOMAIN map
        PROVE  /\ map[s].id = s
               /\ \A n \in Nodes(map[s]) :
                     n.addr \in Addrs /\ n.status \in {"UP", "DOWN"} /\ n.lagMS \in Lags \cup {0}
    <2>1. map[s] \in SimShard /\ map[s].id = s
      BY DEF SimInv, MapInv, WellFormed
    <2>2. \A n \in Nodes(map[s]) : n \in SimNode
      BY <2>1, ShardNodes DEF Nodes
    <2> QED
      BY <2>1, <2>2 DEF SimNode
  <1>2. phase \in {"fatal", "proxy", "serving", "exited"} /\ Len(events) <= MaxEvents
    BY DEF SimInv, PhaseInv, EventsInv
  <1>3. \A h \in Handlers : handler[h].pc \in {"idle", "state", "route", "lock", "describe"}
    BY DEF SimInv, HandlersInv
  <1> QED
    BY <1>1, <1>2, <1>3 DEF TypeOK

\* The map is indexed by the names of its shards, every node has an address,
\* a status and a lag, and the list of events stays within its bound, for any
\* configuration and any number of requests (Action, New).
THEOREM SimulatorTypes == Spec => []TypeOK
  BY SimulatorInvariant, SimTypes, PTL

\* No sequence of toggles, promotions and resets loses, doubles or moves a node
\* of a configuration that Load accepts, however large it is (Action, New).
THEOREM NoNodeIsLost == Spec => []ConfigurationIsKept
  <1>1. SimInv => ConfigurationIsKept
    BY Zenon DEF SimInv, MapInv, Kept, ConfigurationIsKept
  <1> QED
    BY <1>1, SimulatorInvariant, PTL

\* The newest event is true of the map: Action changes the two together, and
\* the event survives the cut to eight (Action).
THEOREM EventsAreTrue == Spec => []NewestEventHolds
  <1>1. SimInv => NewestEventHolds
    BY Zenon DEF SimInv, EventsInv, Holds, NewestEventHolds
  <1> QED
    BY <1>1, SimulatorInvariant, PTL

\* The loop of "promote" chooses as the failover controller does, in replica
\* lists of any length with any lags and statuses (Action,
\* selectPromotionCandidate).
THEOREM PromotionsAgree == Spec => []PromotesLikeController
  <1>1. SimInv => PromotesLikeController
    <2> SUFFICES ASSUME SimInv, NEW s \in DOMAIN map
                 PROVE  selectPromotionCandidate(map[s].replicas) = {candidate(map[s].replicas)} \ {0}
      BY DEF PromotesLikeController
    <2>1. map[s].replicas \in Seq(SimNode)
      BY DEF SimInv, MapInv, WellFormed, SimShard
    <2> QED
      BY <2>1, LoopFindsCandidate
  <1> QED
    BY <1>1, SimulatorInvariant, PTL

\* Whatever file Load accepts, the checker's interval is positive and its
\* thresholds are in order (Load, resolveHealth, withDefaults).
THEOREM CheckerRuns == Spec => []CheckerCanRun
  <1>1. SimInv => CheckerCanRun
    BY DEF SimInv, PhaseInv, Runnable, CheckerCanRun, CheckerOptions
  <1> QED
    BY <1>1, SimulatorInvariant, PTL

LEMMA ZeroFactor ==
    ASSUME NEW x \in Nat, NEW y \in Nat, x # 0, y # 0
    PROVE  x * y # 0
  OBVIOUS

LEMMA AddressesOf ==
    ASSUME NEW shard \in SimShard, NEW a
    PROVE  /\ shard.primary.addr = a => NodeAt(shard, 0).addr = a /\ 0 \in Positions(shard)
           /\ a \in ReplicaAddrs(shard) =>
                 \E i \in 1 .. Len(shard.replicas) : i \in Positions(shard) /\ NodeAt(shard, i).addr = a
  <1>1. /\ Len(shard.replicas) \in Nat /\ Positions(shard) = 0 .. Len(shard.replicas)
        /\ NodeAt(shard, 0) = shard.primary
        /\ \A i \in 1 .. Len(shard.replicas) : NodeAt(shard, i) = shard.replicas[i]
    BY ShardNodes
  <1>2. 0 \in Positions(shard) /\ \A i \in 1 .. Len(shard.replicas) : i \in Positions(shard)
    BY <1>1
  <1> QED
    BY <1>1, <1>2 DEF ReplicaAddrs

\* A shard that has the address at all counts it.
LEMMA HasAddress ==
    ASSUME NEW shard \in SimShard, NEW a, shard.primary.addr = a \/ a \in ReplicaAddrs(shard)
    PROVE  Occurrences(a, shard) \in Nat /\ Occurrences(a, shard) # 0
  <1>1. PICK i \in Positions(shard) : NodeAt(shard, i).addr = a
    BY AddressesOf
  <1> QED
    BY <1>1, OnePosition

LEMMA ReadersTellTruth == SimInv => RouteTellsTheTruth
  <1> SUFFICES ASSUME SimInv, NEW h \in Handlers, At(h, "describe"), DistinctAddresses,
                      NEW order \in SetToSeqs(DOMAIN map)
               PROVE  LET node == handler[h].node
                          said == Description(node, order)
                      IN  /\ said.shardID = handler[h].shard
                          /\ IF said.role = "primary" THEN node = map[said.shardID].primary
                             ELSE node \in ToSet(map[said.shardID].replicas)
    BY DEF RouteTellsTheTruth
  <1>1. PICK node, home : node = handler[h].node /\ home = handler[h].shard
    OBVIOUS
  <1>2. home \in DOMAIN map /\ (node = map[home].primary \/ node \in ToSet(map[home].replicas))
    BY <1>1 DEF SimInv, HandlersInv, Describes, At
  <1>3. IsFiniteSet(DOMAIN map) /\ \A s \in DOMAIN map : map[s] \in SimShard
    BY DEF SimInv, MapInv, WellFormed
  <1>4. PICK shard : shard = map[home]
    OBVIOUS
  <1>5. shard \in SimShard
    BY <1>2, <1>3, <1>4
  <1>6. /\ Len(shard.replicas) \in Nat /\ DOMAIN shard.replicas = 1 .. Len(shard.replicas)
        /\ Positions(shard) = 0 .. Len(shard.replicas) /\ NodeAt(shard, 0) = shard.primary
        /\ \A i \in 1 .. Len(shard.replicas) : NodeAt(shard, i) = shard.replicas[i]
        /\ \A i \in Positions(shard) : NodeAt(shard, i) \in SimNode
    BY <1>5, ShardNodes
  <1>7. 0 \in Positions(shard) /\ \A i \in 1 .. Len(shard.replicas) : i \in Positions(shard) /\ i # 0
    BY <1>6
  <1>8. PICK a : a = node.addr
    OBVIOUS
  <1>9. a \in Addrs /\ (shard.primary.addr = a \/ a \in ReplicaAddrs(shard))
    <2>1. CASE node = shard.primary
      BY <1>6, <1>7, <1>8, <2>1 DEF SimNode
    <2>2. CASE node \in ToSet(shard.replicas)
      <3>1. PICK i \in 1 .. Len(shard.replicas) : node = shard.replicas[i]
        BY <1>6, <2>2 DEF ToSet
      <3>2. node \in SimNode
        BY <1>6, <1>7, <3>1
      <3> QED
        BY <1>8, <3>1, <3>2 DEF SimNode, ReplicaAddrs
    <2> QED
      BY <1>2, <1>4, <2>1, <2>2
  <1>10. Occurrences(a, shard) \in Nat /\ Occurrences(a, shard) # 0 /\ Occurrences(a, shard) <= 1
    BY <1>2, <1>4, <1>5, <1>9, HasAddress DEF DistinctAddresses
  <1>11. ASSUME NEW t \in DOMAIN map, t # home
         PROVE  map[t].primary.addr # node.addr /\ node.addr \notin ReplicaAddrs(map[t])
    <2>1. Occurrences(a, shard) * Occurrences(a, map[t]) = 0
      BY <1>2, <1>4, <1>9, <1>11 DEF DistinctAddresses
    <2>2. ~(Occurrences(a, map[t]) \in Nat /\ Occurrences(a, map[t]) # 0)
      BY <1>10, <2>1, ZeroFactor
    <2> QED
      BY <1>3, <1>8, <2>2, HasAddress
  <1>12. \A i, j \in Positions(shard) :
            NodeAt(shard, i).addr = a /\ NodeAt(shard, j).addr = a => j = i
    BY <1>5, <1>10, OnePosition
  <1>13. shard.primary.addr = a => a \notin ReplicaAddrs(shard)
    <2> SUFFICES ASSUME shard.primary.addr = a, a \in ReplicaAddrs(shard) PROVE FALSE
      OBVIOUS
    <2>1. NodeAt(shard, 0).addr = a
      BY <1>6
    <2>2. PICK i \in 1 .. Len(shard.replicas) : NodeAt(shard, i).addr = a
      BY <1>5, AddressesOf
    <2> QED
      BY <1>7, <1>12, <2>1, <2>2
  <1>14. CASE shard.primary.addr = a
    <2>1. Description(node, order) = [shardID |-> home, role |-> "primary"]
      BY <1>2, <1>3, <1>4, <1>8, <1>11, <1>13, <1>14, LoopTellsTruth
    <2>2. node = shard.primary
      <3> SUFFICES ASSUME node \in ToSet(shard.replicas) PROVE FALSE
        BY <1>2, <1>4
      <3>1. PICK i \in 1 .. Len(shard.replicas) : node = shard.replicas[i]
        BY <1>6 DEF ToSet
      <3>2. a \in ReplicaAddrs(shard)
        BY <1>8, <3>1 DEF ReplicaAddrs
      <3> QED
        BY <1>13, <1>14, <3>2
    <2> QED
      BY <1>1, <1>4, <2>1, <2>2
  <1>15. CASE shard.primary.addr # a
    <2>1. Description(node, order) = [shardID |-> home, role |-> "replica"]
      BY <1>2, <1>3, <1>4, <1>8, <1>9, <1>11, <1>15, LoopTellsTruth
    <2>2. node \in ToSet(shard.replicas)
      BY <1>2, <1>4, <1>8, <1>15
    <2> QED
      BY <1>1, <1>4, <2>1, <2>2
  <1> QED
    BY <1>14, <1>15

\* What Route answers is true of the map, for any number of shards and in any
\* order in which All returns them, as long as no address serves twice (Route,
\* and the lock that keeps Action out between its two reads).
THEOREM RoutesTruly == Spec => []RouteTellsTheTruth
  BY SimulatorInvariant, ReadersTellTruth, PTL

\* How often a shard of the configuration names the address.
Named(a, item) ==
    (IF item.primary = a THEN 1 ELSE 0)
    + Cardinality({j \in DOMAIN item.replicas : item.replicas[j] = a})

\* No address is named twice in the file, which Load does not check.
NamedOnce(c) ==
    \A a \in Addrs : \A i, j \in DOMAIN c.shards :
        Named(a, c.shards[i]) <= 1 /\ (i # j => Named(a, c.shards[i]) * Named(a, c.shards[j]) = 0)

LEMMA NamedOnceStays == SimInv => (phase = "serving" /\ NamedOnce(cfg) => DistinctAddresses)
  <1> SUFFICES ASSUME SimInv, phase = "serving", NamedOnce(cfg),
                      NEW a \in Addrs, NEW s \in DOMAIN map, NEW t \in DOMAIN map
               PROVE  /\ Occurrences(a, map[s]) <= 1
                      /\ s # t => Occurrences(a, map[s]) * Occurrences(a, map[t]) = 0
    BY DEF DistinctAddresses
  <1>1. Kept(cfg, map) /\ OnlyThese(cfg, map)
    BY DEF SimInv, MapInv
  <1>2. PICK i \in DOMAIN cfg.shards : cfg.shards[i].id = s
    BY <1>1 DEF OnlyThese
  <1>3. PICK j \in DOMAIN cfg.shards : cfg.shards[j].id = t
    BY <1>1 DEF OnlyThese
  <1>4. \A k \in DOMAIN cfg.shards : Occurrences(a, map[cfg.shards[k].id]) = Named(a, cfg.shards[k])
    BY <1>1, Zenon DEF Kept, Named
  <1>5. Occurrences(a, map[s]) = Named(a, cfg.shards[i]) /\ Occurrences(a, map[t]) = Named(a, cfg.shards[j])
    BY <1>2, <1>3, <1>4
  <1>6. s # t => i # j
    BY <1>2, <1>3
  <1> QED
    BY <1>2, <1>3, <1>5, <1>6 DEF NamedOnce

\* A file that names no address twice never leads to a map in which one serves
\* twice: for such a file what Route answers is true without a condition (New,
\* Action).
THEOREM NamedOnceServesOnce == Spec => [](phase = "serving" /\ NamedOnce(cfg) => DistinctAddresses)
  BY SimulatorInvariant, NamedOnceStays, PTL
=============================================================================
