--------------------------- MODULE SessionProofs ---------------------------
(***************************************************************************)
(* Proofs about the sessions of the proxy: for any number of clients, any  *)
(* size of the pools and results of any length.                            *)
(***************************************************************************)
EXTENDS Session, ListFacts, FiniteSetTheorems

-----------------------------------------------------------------------------
(* The text of a query: what the proxy and the server read in it.          *)

\* The tokens of the several kinds are different from each other.
LEMMA TokenKinds ==
    /\ Words \cap (Blanks \cup LineComments \cup BlockComments) = {}
    /\ Blanks \cap (LineComments \cup BlockComments) = {} /\ LineComments \cap BlockComments = {}
    /\ {"*/", ";", "\f", "BEGIN1"} \cap (Words \cup Blanks \cup LineComments \cup BlockComments) = {}
    /\ "\n" \in Blanks /\ "\r" \in Blanks /\ "/*" \in BlockComments /\ "/*/" \in BlockComments
  BY DEF Words, Blanks, LineComments, BlockComments

LEMMA ClosingFacts ==
    /\ \A t \in Blanks : closing(t) = Blanks
    /\ \A t \in LineComments : closing(t) = {"\n"}
    /\ \A t \in BlockComments : closing(t) = {"*/", "/*/"}
  BY TokenKinds DEF closing

\* The white space or the comment at i ends at the first closing token if there
\* is one.
LEMMA SkippedFacts ==
    ASSUME NEW q \in Seq(Tokens), NEW i \in 1 .. Len(q)
    PROVE  \/ skipped(q, i) = 0 /\ \A j \in i .. Len(q) : q[j] \notin closing(q[i])
           \/ \E e \in i .. Len(q) :
                 /\ skipped(q, i) = e + 1 /\ q[e] \in closing(q[i])
                 /\ \A j \in i .. Len(q) : q[j] \in closing(q[i]) => e <= j
  <1> DEFINE C == closing(q[i])
             I == {j \in i .. Len(q) : q[j] \in C}
             end == IF I # {} THEN Min(I) ELSE 0
  <1>1. skipped(q, i) = IF end = 0 THEN 0 ELSE end + 1
    BY DEF skipped, SelectInSubSeq
  <1> HIDE DEF C
  <1>2. Len(q) \in Nat /\ I \in SUBSET Nat
    OBVIOUS
  <1>3. I # {} => Min(I) \in I /\ \A j \in I : Min(I) <= j
    BY <1>2, MinOfSet
  <1>4. CASE I = {}
    BY <1>1, <1>4 DEF C
  <1>5. CASE I # {}
    <2>1. end \in I /\ end = Min(I) /\ end # 0
      BY <1>3, <1>5
    <2> QED
      BY <1>1, <1>3, <2>1 DEF C
  <1> QED
    BY <1>4, <1>5

LEMMA SkippedTo ==
    ASSUME NEW q \in Seq(Tokens), NEW i \in 1 .. Len(q), NEW e \in i .. Len(q),
           q[e] \in closing(q[i]), \A j \in i .. e - 1 : q[j] \notin closing(q[i])
    PROVE  skipped(q, i) = e + 1
  <1>1. PICK d \in i .. Len(q) :
           /\ skipped(q, i) = d + 1 /\ q[d] \in closing(q[i])
           /\ \A j \in i .. Len(q) : q[j] \in closing(q[i]) => d <= j
    BY SkippedFacts
  <1>2. d <= e /\ ~(d < e)
    BY <1>1
  <1> QED
    BY <1>1, <1>2

\* One turn of the loop of leadingKeyword at position i, given what it returns
\* from later positions on.
Keyword(q, i, f) ==
    IF i > Len(q) THEN NoWord
    ELSE IF q[i] \notin Blanks \cup LineComments \cup BlockComments THEN letters(q[i])
    ELSE IF skipped(q, i) = 0 THEN NoWord
    ELSE f[skipped(q, i)]

\* The recursive function of leadingKeyword exists: every turn goes on at a
\* later position.
LEMMA KeywordsExist ==
    ASSUME NEW q \in Seq(Tokens)
    PROVE  \E f : f = [i \in 1 .. Len(q) + 1 |-> Keyword(q, i, f)]
  <1> DEFINE n == Len(q)
             Dom(k) == n + 2 - k .. n + 1
             S == {k \in Nat : k <= n + 1 => \E f : f = [i \in Dom(k) |-> Keyword(q, i, f)]}
  <1>0. n \in Nat
    OBVIOUS
  <1>1. 0 \in S
    <2>1. Dom(0) = {}
      BY <1>0
    <2> HIDE DEF Dom
    <2>2. [i \in Dom(0) |-> NoWord] = [i \in Dom(0) |-> Keyword(q, i, [j \in Dom(0) |-> NoWord])]
      BY <2>1
    <2> QED
      BY <2>2
  <1>2. ASSUME NEW k \in Nat, k \in S PROVE k + 1 \in S
    <2> SUFFICES ASSUME k + 1 <= n + 1
                 PROVE  \E f : f = [i \in Dom(k + 1) |-> Keyword(q, i, f)]
      OBVIOUS
    <2>1. PICK f : f = [i \in Dom(k) |-> Keyword(q, i, f)]
      BY <1>0, <1>2
    <2> DEFINE d == n + 1 - k
               g == [i \in Dom(k + 1) |-> IF i = d THEN Keyword(q, d, f) ELSE f[i]]
    <2>2. /\ Dom(k + 1) = Dom(k) \cup {d} /\ d \notin Dom(k) /\ Dom(k + 1) \subseteq 1 .. n + 1
          /\ \A i \in Dom(k + 1) : \A j \in i + 1 .. n + 1 : j \in Dom(k)
      BY <1>0
    <2>3. \A i \in Dom(k + 1) : i <= n => skipped(q, i) = 0 \/ skipped(q, i) \in i + 1 .. n + 1
      BY <1>0, <2>2, SkippedFacts
    <2>4. \A i \in Dom(k + 1) : i <= n => skipped(q, i) = 0 \/ skipped(q, i) \in Dom(k)
      <3> HIDE DEF Dom
      <3> QED
        BY <2>2, <2>3
    <2> HIDE DEF Dom, d
    <2>5. \A i \in Dom(k) : g[i] = f[i] /\ f[i] = Keyword(q, i, f)
      BY <2>1, <2>2
    <2> HIDE DEF g
    <2>6. \A i \in Dom(k + 1) : Keyword(q, i, g) = Keyword(q, i, f)
      <3> TAKE i \in Dom(k + 1)
      <3>1. CASE i > n \/ q[i] \notin Blanks \cup LineComments \cup BlockComments
        BY <3>1 DEF Keyword
      <3>2. CASE ~(i > n) /\ skipped(q, i) = 0
        BY <3>2 DEF Keyword
      <3>3. CASE ~(i > n) /\ skipped(q, i) \in Dom(k)
        <4>1. g[skipped(q, i)] = f[skipped(q, i)]
          BY <2>5, <3>3
        <4> QED
          BY <4>1 DEF Keyword
      <3>4. i > n \/ i <= n
        BY <1>0, <2>2
      <3> QED
        BY <1>0, <2>2, <2>4, <3>1, <3>2, <3>3, <3>4
    <2>7. \A i \in Dom(k + 1) : g[i] = Keyword(q, i, g)
      BY <2>2, <2>5, <2>6 DEF g
    <2>8. g = [i \in Dom(k + 1) |-> Keyword(q, i, g)]
      BY <2>7 DEF g
    <2> QED
      BY <2>8
  <1>3. n + 1 \in S
    <2> HIDE DEF S
    <2> QED
      BY <1>0, <1>1, <1>2, SetInduction
  <1>4. Dom(n + 1) = 1 .. n + 1
    BY <1>0
  <1> QED
    BY <1>0, <1>3, <1>4

LEMMA KeywordsRecursion ==
    ASSUME NEW q \in Seq(Tokens)
    PROVE  \E f : f = [i \in 1 .. Len(q) + 1 |-> Keyword(q, i, f)] /\ leadingKeyword(q) = f[1]
  <1> DEFINE f == CHOOSE f : f = [i \in 1 .. Len(q) + 1 |-> Keyword(q, i, f)]
  <1>1. f = [i \in 1 .. Len(q) + 1 |-> Keyword(q, i, f)]
    BY KeywordsExist
  <1>2. leadingKeyword(q) = f[1]
    BY DEF leadingKeyword, Keyword
  <1> QED
    BY <1>1, <1>2

\* One step of the fold of ServerReads.
Reading(q, s, it) == IF s = {} THEN ServerStart ELSE ServerToken(it[s \ {Max(s)}], q[Max(s)])

LEMMA ReadingsExist ==
    ASSUME NEW q, NEW n \in Nat
    PROVE  \E it : it = [s \in SUBSET (1 .. n) |-> Reading(q, s, it)]
  <1> DEFINE S == {k \in Nat : \E it : it = [s \in SUBSET (1 .. k) |-> Reading(q, s, it)]}
  <1>1. 0 \in S
    <2> DEFINE it == [s \in SUBSET (1 .. 0) |-> ServerStart]
    <2>1. \A s \in SUBSET (1 .. 0) : s = {}
      OBVIOUS
    <2>2. it = [s \in SUBSET (1 .. 0) |-> Reading(q, s, it)]
      BY <2>1 DEF Reading
    <2> QED
      BY <2>2
  <1>2. ASSUME NEW k \in Nat, k \in S PROVE k + 1 \in S
    <2>1. PICK it : it = [s \in SUBSET (1 .. k) |-> Reading(q, s, it)]
      BY <1>2
    <2> DEFINE jt == [s \in SUBSET (1 .. k + 1) |->
                        IF k + 1 \in s THEN ServerToken(it[s \ {k + 1}], q[k + 1]) ELSE it[s]]
    <2>2. ASSUME NEW s \in SUBSET (1 .. k + 1) PROVE jt[s] = Reading(q, s, jt)
      <3>1. CASE k + 1 \in s
        <4>1. Max(s) = k + 1 /\ s # {}
          <5>1. k + 1 \in Nat
            OBVIOUS
          <5> QED
            BY <3>1, <5>1, MaxIsLast
        <4>2. s \ {k + 1} \in SUBSET (1 .. k)
          OBVIOUS
        <4>3. jt[s \ {k + 1}] = it[s \ {k + 1}]
          BY <4>2
        <4> QED
          BY <3>1, <4>1, <4>3 DEF Reading
      <3>2. CASE k + 1 \notin s
        <4>1. s \in SUBSET (1 .. k)
          BY <3>2
        <4>2. s # {} => Max(s) \in 1 .. k
          BY <4>1, MaxOfSet
        <4>3. s \ {Max(s)} \in SUBSET (1 .. k) /\ k + 1 \notin s \ {Max(s)}
          BY <3>2, <4>1
        <4>4. jt[s \ {Max(s)}] = it[s \ {Max(s)}] /\ jt[s] = it[s]
          BY <4>1, <4>3
        <4>5. it[s] = Reading(q, s, it)
          BY <2>1, <4>1
        <4> QED
          BY <4>4, <4>5 DEF Reading
      <3> QED
        BY <3>1, <3>2
    <2>3. jt = [s \in SUBSET (1 .. k + 1) |-> Reading(q, s, jt)]
      BY <2>2
    <2> HIDE DEF jt
    <2> QED
      BY <2>3
  <1>3. n \in S
    <2> HIDE DEF S
    <2> QED
      BY <1>1, <1>2, SetInduction
  <1> QED
    BY <1>3

\* ServerReads goes through the tokens one by one.
LEMMA ServerRecursion ==
    ASSUME NEW q \in Seq(Tokens)
    PROVE  \E st : /\ st[0] = ServerStart
                   /\ \A k \in 0 .. Len(q) - 1 : st[k + 1] = ServerToken(st[k], q[k + 1])
                   /\ FoldLeft(ServerToken, ServerStart, q) = st[Len(q)]
  <1> DEFINE n == Len(q)
             it == CHOOSE it : it = [s \in SUBSET (1 .. n) |-> Reading(q, s, it)]
             st == [k \in 0 .. n |-> it[1 .. k]]
  <1>0. n \in Nat /\ DOMAIN q = 1 .. n
    OBVIOUS
  <1>1. it = [s \in SUBSET (1 .. n) |-> Reading(q, s, it)]
    BY <1>0, ReadingsExist
  <1>2. FoldLeft(ServerToken, ServerStart, q) = it[1 .. n]
    BY <1>0 DEF FoldLeft, MapThenFoldSet, Reading
  <1> HIDE DEF it, n
  <1>3. st[0] = ServerStart
    BY <1>0, <1>1 DEF Reading
  <1>4. ASSUME NEW k \in 0 .. n - 1 PROVE st[k + 1] = ServerToken(st[k], q[k + 1])
    <2>1. 1 .. k + 1 \in SUBSET (1 .. n) /\ 1 .. k + 1 # {}
      BY <1>0
    <2>2. Max(1 .. k + 1) = k + 1
      <3>1. k + 1 \in Nat /\ k + 1 \in 1 .. k + 1 /\ 1 .. k + 1 \in SUBSET (1 .. k + 1)
        BY <1>0
      <3> QED
        BY <3>1, MaxIsLast
    <2>3. (1 .. k + 1) \ {k + 1} = 1 .. k
      OBVIOUS
    <2>4. it[1 .. k + 1] = ServerToken(it[1 .. k], q[k + 1])
      BY <1>1, <2>1, <2>2, <2>3 DEF Reading
    <2> QED
      BY <1>0, <2>4
  <1>5. FoldLeft(ServerToken, ServerStart, q) = st[n]
    BY <1>0, <1>2
  <1> HIDE DEF st
  <1> QED
    BY <1>3, <1>4, <1>5 DEF n

\* The states of the server's reader.
States ==
    [word : Words \cup {NoWord, "error"}, comment : {"none", "line", "block"}, depth : Nat, odd : Nat]

LEMMA NoWordIsNone == NoWord \notin Words /\ NoWord # "error"
  BY Zenon DEF NoWord, Words

\* What a token makes of the state of the server's reader, unless it is one
\* that leadingKeyword sees differently.
TokenStep(x, t, y) ==
    /\ x.word # NoWord => y = x
    /\ x.word = NoWord /\ x.comment = "line" =>
          /\ y.word = NoWord /\ y.depth = x.depth
          /\ y.comment = IF t = "\n" THEN "none" ELSE "line"
    /\ x.word = NoWord /\ x.comment = "block" =>
          /\ t \notin BlockComments
          /\ t = "*/" /\ x.depth = 0 => y.word = NoWord /\ y.comment = "none" /\ y.depth = 0
          /\ t # "*/" => y = x
    /\ x.word = NoWord /\ x.comment = "none" =>
          /\ t \notin {"/*/", "\f", ";"} /\ y.depth = x.depth
          /\ t \in Blanks => y.word = NoWord /\ y.comment = "none"
          /\ t \in LineComments => y.word = NoWord /\ y.comment = "line"
          /\ t = "/*" => y.word = NoWord /\ y.comment = "block"
          /\ t \in {"*/", "BEGIN1"} => y.word = "error" /\ y.comment = "none"
          /\ t \in Words => y.word = t /\ y.comment = "none"

LEMMA TokenSteps ==
    ASSUME NEW x \in States, NEW t \in Tokens
    PROVE  LET y == ServerToken(x, t)
           IN  y \in States /\ y.odd >= x.odd /\ (y.odd = 0 => TokenStep(x, t, y))
  <1> DEFINE y == ServerToken(x, t)
  <1>0. /\ x.word \in Words \cup {NoWord, "error"} /\ x.comment \in {"none", "line", "block"}
        /\ x.depth \in Nat /\ x.odd \in Nat /\ x.odd + 1 \in Nat /\ x.depth + 1 \in Nat
    BY DEF States
  <1>1. CASE x.word # NoWord
    <2>1. y = x
      BY <1>1 DEF ServerToken
    <2>2. TokenStep(x, t, y)
      BY <1>1, <2>1, Zenon DEF TokenStep
    <2> QED
      BY <1>0, <2>1, <2>2
  <1>2. CASE x.word = NoWord /\ x.comment = "line"
    <2>1. CASE t = "\n"
      <3>1. y = [x EXCEPT !.comment = "none"]
        BY <1>2, <2>1 DEF ServerToken
      <3>2. y \in States
        BY <3>1 DEF States
      <3> QED
        BY <1>0, <1>2, <2>1, <3>1, <3>2 DEF States, TokenStep
    <2>2. CASE t = "\r"
      <3>1. y = [x EXCEPT !.comment = "none", !.odd = x.odd + 1]
        BY <1>2, <2>2 DEF ServerToken
      <3>2. y \in States /\ y.odd = x.odd + 1
        BY <1>0, <3>1 DEF States
      <3> QED
        BY <1>0, <3>2
    <2>3. CASE t # "\n" /\ t # "\r"
      <3>1. y = x
        BY <1>2, <2>3 DEF ServerToken
      <3> QED
        BY <1>0, <1>2, <2>3, <3>1 DEF TokenStep
    <2> QED
      BY <2>1, <2>2, <2>3
  <1>3. CASE x.word = NoWord /\ x.comment = "block"
    <2>1. CASE t \in BlockComments
      <3>0. t # "*/"
        BY <2>1, TokenKinds
      <3>1. y = [x EXCEPT !.depth = x.depth + 1, !.odd = x.odd + 1]
        BY <1>3, <2>1, <3>0, Zenon DEF ServerToken
      <3>2. y \in States /\ y.odd = x.odd + 1
        BY <1>0, <3>1 DEF States
      <3> QED
        BY <1>0, <3>2
    <2>2. CASE t = "*/" /\ x.depth = 0
      <3>1. y = [x EXCEPT !.comment = "none"]
        BY <1>3, <2>2, TokenKinds DEF ServerToken
      <3>2. y \in States
        BY <3>1 DEF States
      <3>3. t \notin BlockComments
        BY <2>2, TokenKinds
      <3>4. y.word = x.word /\ y.odd = x.odd /\ y.comment = "none" /\ y.depth = x.depth
        BY <3>1 DEF States
      <3>5. TokenStep(x, t, y)
        BY <1>3, <2>2, <3>3, <3>4, Zenon DEF TokenStep
      <3> QED
        BY <1>0, <3>2, <3>4, <3>5
    <2>3. CASE t = "*/" /\ x.depth # 0
      <3>1. y = [x EXCEPT !.depth = @ - 1]
        BY <1>3, <2>3, TokenKinds DEF ServerToken
      <3>2. y \in States
        BY <1>0, <2>3, <3>1 DEF States
      <3>3. t \notin BlockComments
        BY <2>3, TokenKinds
      <3>4. y.word = x.word /\ y.odd = x.odd
        BY <3>1 DEF States
      <3>5. TokenStep(x, t, y)
        BY <1>3, <2>3, <3>3, <3>4, Zenon DEF TokenStep
      <3> QED
        BY <1>0, <3>2, <3>4, <3>5
    <2>4. CASE t \notin BlockComments /\ t # "*/"
      <3>1. y = x
        BY <1>3, <2>4 DEF ServerToken
      <3> QED
        BY <1>0, <1>3, <2>4, <3>1 DEF TokenStep
    <2> QED
      BY <2>1, <2>2, <2>3, <2>4
  <1>4. CASE x.word = NoWord /\ x.comment = "none"
    <2> USE <1>4
    <2>1. CASE t \in Blanks
      <3>1. /\ t \notin {"\f", ";"} /\ t \notin LineComments /\ t # "/*"
            /\ t # "/*/" /\ t \notin {"*/", "BEGIN1"} /\ t \notin Words
        BY <2>1, TokenKinds
      <3>2. y = x
        BY <2>1, <3>1, Zenon DEF ServerToken
      <3>3. TokenStep(x, t, y)
        BY <2>1, <3>1, <3>2, Zenon DEF TokenStep
      <3> QED
        BY <1>0, <3>2, <3>3
    <2>2. CASE t \in {"\f", ";"}
      <3>1. /\ t \notin Blanks /\ t \notin LineComments /\ t # "/*"
            /\ t # "/*/" /\ t \notin {"*/", "BEGIN1"} /\ t \notin Words
        BY <2>2, TokenKinds
      <3>2. y = [x EXCEPT !.odd = x.odd + 1]
        BY <2>2, <3>1, Zenon DEF ServerToken
      <3>3. y \in States /\ y.odd = x.odd + 1
        BY <1>0, <3>2 DEF States
      <3> QED
        BY <1>0, <3>3
    <2>3. CASE t \in LineComments
      <3>1. /\ t \notin Blanks /\ t \notin {"\f", ";"} /\ t # "/*"
            /\ t # "/*/" /\ t \notin {"*/", "BEGIN1"} /\ t \notin Words
        BY <2>3, TokenKinds
      <3>2. y = [x EXCEPT !.comment = "line"]
        BY <2>3, <3>1, Zenon DEF ServerToken
      <3>3. y \in States
        BY <2>3, <3>2 DEF States
      <3>4. y.word = x.word /\ y.comment = "line" /\ y.depth = x.depth /\ y.odd = x.odd
        BY <3>2 DEF States
      <3>5. TokenStep(x, t, y)
        BY <2>3, <3>1, <3>4, Zenon DEF TokenStep
      <3> QED
        BY <1>0, <3>3, <3>4, <3>5
    <2>4. CASE t = "/*"
      <3>1. /\ t \notin Blanks /\ t \notin {"\f", ";"} /\ t \notin LineComments
            /\ t # "/*/" /\ t \notin {"*/", "BEGIN1"} /\ t \notin Words
        BY <2>4, TokenKinds
      <3>2. y = [x EXCEPT !.comment = "block"]
        BY <2>4, <3>1, Zenon DEF ServerToken
      <3>3. y \in States
        BY <2>4, <3>2 DEF States
      <3>4. y.word = x.word /\ y.comment = "block" /\ y.depth = x.depth /\ y.odd = x.odd
        BY <3>2 DEF States
      <3>5. TokenStep(x, t, y)
        BY <2>4, <3>1, <3>4, Zenon DEF TokenStep
      <3> QED
        BY <1>0, <3>3, <3>4, <3>5
    <2>5. CASE t = "/*/"
      <3>1. /\ t \notin Blanks /\ t \notin {"\f", ";"} /\ t \notin LineComments
            /\ t # "/*" /\ t \notin {"*/", "BEGIN1"} /\ t \notin Words
        BY <2>5, TokenKinds
      <3>2. y = [x EXCEPT !.comment = "block", !.odd = x.odd + 1]
        BY <2>5, <3>1, Zenon DEF ServerToken
      <3>3. y \in States /\ y.odd = x.odd + 1
        BY <1>0, <3>2 DEF States
      <3> QED
        BY <1>0, <3>3
    <2>6. CASE t \in {"*/", "BEGIN1"}
      <3>1. /\ t \notin Blanks /\ t \notin {"\f", ";"} /\ t \notin LineComments
            /\ t # "/*" /\ t # "/*/" /\ t \notin Words
        BY <2>6, TokenKinds
      <3>2. y = [x EXCEPT !.word = "error"]
        BY <2>6, <3>1, Zenon DEF ServerToken
      <3>3. y \in States
        BY <2>6, <3>2 DEF States
      <3>4. y.word = "error" /\ y.comment = x.comment /\ y.depth = x.depth /\ y.odd = x.odd
        BY <3>2 DEF States
      <3>5. TokenStep(x, t, y)
        BY <2>6, <3>1, <3>4, Zenon DEF TokenStep
      <3> QED
        BY <1>0, <3>3, <3>4, <3>5
    <2>7. CASE t \in Words
      <3>1. /\ t \notin Blanks /\ t \notin {"\f", ";"} /\ t \notin LineComments
            /\ t # "/*" /\ t # "/*/" /\ t \notin {"*/", "BEGIN1"}
        BY <2>7, TokenKinds
      <3>2. y = [x EXCEPT !.word = t]
        BY <2>7, <3>1, Zenon DEF ServerToken
      <3>3. y \in States
        BY <2>7, <3>2 DEF States
      <3>4. y.word = t /\ y.comment = x.comment /\ y.depth = x.depth /\ y.odd = x.odd
        BY <3>2 DEF States
      <3>5. TokenStep(x, t, y)
        BY <2>7, <3>1, <3>4, Zenon DEF TokenStep
      <3> QED
        BY <1>0, <3>3, <3>4, <3>5
    <2> QED
      BY <2>1, <2>2, <2>3, <2>4, <2>5, <2>6, <2>7 DEF Tokens, BlockComments
  <1> QED
    BY <1>0, <1>1, <1>2, <1>3, <1>4

\* Where the two readers stand after k tokens, as long as both see them alike:
\* in front of the statement, in the same comment, or past the word.
Together(q, f, x, k) ==
    \/ x.odd > 0
    \/ x.word = NoWord /\ x.comment = "none" /\ x.depth = 0 /\ f[1] = f[k + 1]
    \/ /\ x.word = NoWord /\ x.comment = "line" /\ x.depth = 0
       /\ \E i \in 1 .. k :
             q[i] \in LineComments /\ f[1] = f[i] /\ \A j \in i .. k : q[j] # "\n"
    \/ /\ x.word = NoWord /\ x.comment = "block" /\ x.depth = 0
       /\ \E i \in 1 .. k :
             q[i] = "/*" /\ f[1] = f[i] /\ \A j \in i .. k : q[j] \notin {"*/", "/*/"}
    \/ x.comment = "none" /\ x.word \in Words /\ f[1] = x.word
    \/ x.comment = "none" /\ x.word = "error"

LEMMA TokensTogether ==
    ASSUME NEW q \in Seq(Tokens), NEW f, f = [i \in 1 .. Len(q) + 1 |-> Keyword(q, i, f)],
           NEW k \in 0 .. Len(q) - 1, NEW x \in States, Together(q, f, x, k)
    PROVE  Together(q, f, ServerToken(x, q[k + 1]), k + 1)
  <1> DEFINE t == q[k + 1]
             y == ServerToken(x, t)
  <1>0. /\ Len(q) \in Nat /\ k \in Nat /\ k + 1 \in 1 .. Len(q) /\ t \in Tokens
        /\ \A i \in 1 .. Len(q) : f[i] = Keyword(q, i, f)
    OBVIOUS
  <1>1. y \in States /\ y.odd >= x.odd /\ (y.odd = 0 => TokenStep(x, t, y))
    BY <1>0, TokenSteps
  <1>2. y.odd \in Nat /\ x.odd \in Nat
    BY <1>1 DEF States
  <1> SUFFICES Together(q, f, y, k + 1)
    OBVIOUS
  <1> HIDE DEF t, y
  <1>a. CASE y.odd > 0
    BY <1>a DEF Together
  <1> SUFFICES ASSUME ~(y.odd > 0) PROVE Together(q, f, y, k + 1)
    BY <1>a
  <1>b. y.odd = 0 /\ x.odd = 0
    BY <1>1, <1>2
  <1>3. TokenStep(x, t, y)
    BY <1>1, <1>b
  <1>4. CASE x.word = NoWord /\ x.comment = "none" /\ x.depth = 0 /\ f[1] = f[k + 1]
    <2>0. t \notin {"/*/", "\f", ";"} /\ y.depth = 0
      BY <1>3, <1>4 DEF TokenStep
    <2>1. CASE t \in Blanks
      <3>1. y.word = NoWord /\ y.comment = "none" /\ y.depth = 0
        BY <1>3, <1>4, <2>0, <2>1 DEF TokenStep
      <3>2. closing(t) = Blanks
        BY <2>1, ClosingFacts
      <3>3. skipped(q, k + 1) = k + 2
        BY <1>0, <2>1, <3>2, SkippedTo DEF t
      <3>4. f[k + 1] = f[k + 2]
        BY <1>0, <2>1, <3>3 DEF Keyword, t
      <3> QED
        BY <1>4, <3>1, <3>4 DEF Together
    <2>2. CASE t \in LineComments
      <3>1. y.word = NoWord /\ y.comment = "line" /\ y.depth = 0
        BY <1>3, <1>4, <2>0, <2>2 DEF TokenStep
      <3>2. k + 1 \in 1 .. k + 1 /\ q[k + 1] \in LineComments /\ \A j \in k + 1 .. k + 1 : q[j] # "\n"
        <4>1. t # "\n"
          BY <2>2, TokenKinds
        <4> QED
          BY <1>0, <2>2, <4>1 DEF t
      <3> QED
        BY <1>4, <3>1, <3>2 DEF Together
    <2>3. CASE t = "/*"
      <3>1. y.word = NoWord /\ y.comment = "block" /\ y.depth = 0
        BY <1>3, <1>4, <2>0, <2>3 DEF TokenStep
      <3>2. k + 1 \in 1 .. k + 1 /\ q[k + 1] = "/*"
            /\ \A j \in k + 1 .. k + 1 : q[j] \notin {"*/", "/*/"}
        BY <1>0, <2>3 DEF t
      <3> QED
        BY <1>4, <3>1, <3>2 DEF Together
    <2>4. CASE t \in {"*/", "BEGIN1"}
      <3>1. y.word = "error" /\ y.comment = "none"
        BY <1>3, <1>4, <2>4 DEF TokenStep
      <3> QED
        BY <3>1 DEF Together
    <2>5. CASE t \in Words
      <3>1. y.word = t /\ y.comment = "none"
        BY <1>3, <1>4, <2>5 DEF TokenStep
      <3>2. letters(t) = t /\ t \notin Blanks \cup LineComments \cup BlockComments
        BY <2>5, TokenKinds DEF letters
      <3>3. f[k + 1] = t
        BY <1>0, <3>2 DEF Keyword, t
      <3> QED
        BY <1>4, <2>5, <3>1, <3>3 DEF Together
    <2> QED
      BY <1>0, <2>0, <2>1, <2>2, <2>3, <2>4, <2>5 DEF Tokens, BlockComments
  <1>5. ASSUME x.word = NoWord, x.comment = "line", x.depth = 0,
               NEW i \in 1 .. k, q[i] \in LineComments, f[1] = f[i],
               \A j \in i .. k : q[j] # "\n"
        PROVE  Together(q, f, y, k + 1)
    <2>0. i \in 1 .. Len(q) /\ closing(q[i]) = {"\n"}
      BY <1>0, <1>5, ClosingFacts
    <2>1. CASE t = "\n"
      <3>1. skipped(q, i) = k + 2
        <4>1. k + 1 \in i .. Len(q) /\ \A j \in i .. (k + 1) - 1 : q[j] # "\n"
          BY <1>0, <1>5
        <4>2. skipped(q, i) = (k + 1) + 1
          BY <2>0, <2>1, <4>1, SkippedTo DEF t
        <4> QED
          BY <1>0, <4>2
      <3>2. f[i] = f[k + 2]
        BY <1>0, <1>5, <2>0, <3>1 DEF Keyword
      <3>3. y.word = NoWord /\ y.comment = "none" /\ y.depth = 0
        BY <1>3, <1>5, <2>1 DEF TokenStep
      <3> QED
        BY <1>5, <3>2, <3>3 DEF Together
    <2>2. CASE t # "\n"
      <3>1. i \in 1 .. k + 1 /\ \A j \in i .. k + 1 : q[j] # "\n"
        BY <1>0, <1>5, <2>2 DEF t
      <3>2. y.word = NoWord /\ y.comment = "line" /\ y.depth = 0
        BY <1>3, <1>5, <2>2 DEF TokenStep
      <3> QED
        BY <1>5, <3>1, <3>2 DEF Together
    <2> QED
      BY <2>1, <2>2
  <1>6. ASSUME x.word = NoWord, x.comment = "block", x.depth = 0,
               NEW i \in 1 .. k, q[i] = "/*", f[1] = f[i],
               \A j \in i .. k : q[j] \notin {"*/", "/*/"}
        PROVE  Together(q, f, y, k + 1)
    <2>0. i \in 1 .. Len(q) /\ q[i] \in BlockComments /\ closing(q[i]) = {"*/", "/*/"}
      <3>1. i \in 1 .. Len(q) /\ q[i] \in BlockComments
        BY <1>0, <1>6 DEF BlockComments
      <3> QED
        BY <3>1, ClosingFacts
    <2>1. t \notin BlockComments /\ t # "/*/"
      BY <1>3, <1>6, TokenKinds DEF TokenStep
    <2>2. CASE t = "*/"
      <3>1. skipped(q, i) = k + 2
        <4>1. k + 1 \in i .. Len(q) /\ \A j \in i .. (k + 1) - 1 : q[j] \notin {"*/", "/*/"}
          BY <1>0, <1>6
        <4>2. skipped(q, i) = (k + 1) + 1
          BY <2>0, <2>2, <4>1, SkippedTo DEF t
        <4> QED
          BY <1>0, <4>2
      <3>2. f[i] = f[k + 2]
        BY <1>0, <2>0, <3>1 DEF Keyword
      <3>3. y.word = NoWord /\ y.comment = "none" /\ y.depth = 0
        BY <1>3, <1>6, <2>2 DEF TokenStep
      <3> QED
        BY <1>6, <3>2, <3>3 DEF Together
    <2>3. CASE t # "*/"
      <3>1. i \in 1 .. k + 1 /\ \A j \in i .. k + 1 : q[j] \notin {"*/", "/*/"}
        BY <1>0, <1>6, <2>1, <2>3 DEF t
      <3>2. y = x
        BY <1>3, <1>6, <2>3 DEF TokenStep
      <3> QED
        BY <1>6, <3>1, <3>2 DEF Together
    <2> QED
      BY <2>2, <2>3
  <1>7. CASE /\ x.comment = "none"
             /\ (x.word \in Words /\ f[1] = x.word) \/ x.word = "error"
    <2>1. y = x
      BY <1>3, <1>7, NoWordIsNone DEF TokenStep
    <2> QED
      BY <1>7, <2>1 DEF Together
  <1> DEFINE InLine(i) == /\ q[i] \in LineComments /\ f[1] = f[i]
                           /\ \A j \in i .. k : q[j] # "\n"
             InBlock(i) == /\ q[i] = "/*" /\ f[1] = f[i]
                           /\ \A j \in i .. k : q[j] \notin {"*/", "/*/"}
  <1>8. \/ x.word = NoWord /\ x.comment = "none" /\ x.depth = 0 /\ f[1] = f[k + 1]
        \/ /\ x.word = NoWord /\ x.comment = "line" /\ x.depth = 0
           /\ \E i \in 1 .. k : InLine(i)
        \/ /\ x.word = NoWord /\ x.comment = "block" /\ x.depth = 0
           /\ \E i \in 1 .. k : InBlock(i)
        \/ x.comment = "none" /\ x.word \in Words /\ f[1] = x.word
        \/ x.comment = "none" /\ x.word = "error"
    BY <1>b DEF Together
  <1>9. ASSUME x.word = NoWord, x.comment = "line", x.depth = 0, \E i \in 1 .. k : InLine(i)
        PROVE  Together(q, f, y, k + 1)
    BY <1>5, <1>9
  <1>10. ASSUME x.word = NoWord, x.comment = "block", x.depth = 0, \E i \in 1 .. k : InBlock(i)
         PROVE  Together(q, f, y, k + 1)
    BY <1>6, <1>10
  <1> HIDE DEF InLine, InBlock
  <1> QED
    BY <1>4, <1>7, <1>8, <1>9, <1>10

\* On a text of any length leadingKeyword and PostgreSQL agree on whether the
\* statement is transaction control, unless before its first word the text has
\* one of the five things they see differently: a nested block comment, a "/*/",
\* a carriage return that ends a line comment, a form feed or an empty
\* statement.  A text that PostgreSQL cannot parse may be taken for one.
THEOREM ReadersAgree ==
    ASSUME NEW q \in Seq(Tokens), ~(ServerReads(q).odd > 0)
    PROVE  /\ ServerReads(q).word \in TransactionControl => isTransactionControl(q)
           /\ isTransactionControl(q) => ServerReads(q).word \in TransactionControl \cup {"error"}
  <1> DEFINE n == Len(q)
  <1>0. n \in Nat
    OBVIOUS
  <1>1. PICK f : f = [i \in 1 .. n + 1 |-> Keyword(q, i, f)] /\ leadingKeyword(q) = f[1]
    BY KeywordsRecursion
  <1>2. PICK st : /\ st[0] = ServerStart
                  /\ \A k \in 0 .. n - 1 : st[k + 1] = ServerToken(st[k], q[k + 1])
                  /\ FoldLeft(ServerToken, ServerStart, q) = st[n]
    BY ServerRecursion
  <1> DEFINE S == {k \in Nat : k <= n => st[k] \in States /\ Together(q, f, st[k], k)}
  <1>3. 0 \in S
    <2>1. ServerStart \in States
      BY DEF ServerStart, States
    <2>2. Together(q, f, ServerStart, 0)
      BY DEF Together, ServerStart
    <2> QED
      BY <1>2, <2>1, <2>2
  <1>4. ASSUME NEW k \in Nat, k \in S PROVE k + 1 \in S
    <2> SUFFICES ASSUME k + 1 <= n
                 PROVE  st[k + 1] \in States /\ Together(q, f, st[k + 1], k + 1)
      OBVIOUS
    <2>1. k \in 0 .. n - 1 /\ st[k] \in States /\ Together(q, f, st[k], k) /\ q[k + 1] \in Tokens
      BY <1>0, <1>4
    <2>2. st[k + 1] = ServerToken(st[k], q[k + 1])
      BY <1>2, <2>1
    <2>3. st[k + 1] \in States
      BY <2>1, <2>2, TokenSteps
    <2>4. Together(q, f, st[k + 1], k + 1)
      BY <1>1, <2>1, <2>2, TokensTogether
    <2> QED
      BY <2>3, <2>4
  <1>5. n \in S
    <2> HIDE DEF S
    <2> QED
      BY <1>0, <1>3, <1>4, SetInduction
  <1> DEFINE end == st[n]
  <1>6. end \in States /\ Together(q, f, end, n)
    BY <1>0, <1>5
  <1>7. ServerReads(q) = IF end.comment = "block" THEN [end EXCEPT !.word = "error"] ELSE end
    BY <1>2 DEF ServerReads
  <1> HIDE DEF end, n
  <1>8. /\ ServerReads(q).odd = end.odd
        /\ ServerReads(q).word = IF end.comment = "block" THEN "error" ELSE end.word
    BY <1>6, <1>7 DEF States
  <1>9. ~(end.odd > 0)
    BY <1>8
  <1>10. CASE end.word = NoWord /\ end.comment = "none" /\ f[1] = f[n + 1]
    <2>1. f[n + 1] = NoWord
      BY <1>0, <1>1 DEF Keyword, n
    <2> QED
      BY <1>1, <1>8, <1>10, <2>1 DEF isTransactionControl
  <1>11. ASSUME end.comment \in {"line", "block"}, end.word = NoWord,
                NEW i \in 1 .. n, f[1] = f[i],
                \/ q[i] \in LineComments /\ \A j \in i .. n : q[j] # "\n"
                \/ q[i] = "/*" /\ \A j \in i .. n : q[j] \notin {"*/", "/*/"}
         PROVE  f[1] = NoWord
    <2>1. /\ q[i] \in Blanks \cup LineComments \cup BlockComments
          /\ \A j \in i .. n : q[j] \notin closing(q[i])
      BY <1>11, TokenKinds, ClosingFacts
    <2>2. skipped(q, i) = 0
      BY <1>0, <2>1, SkippedFacts DEF n
    <2>3. f[i] = Keyword(q, i, f)
      BY <1>0, <1>1, <1>11
    <2> QED
      BY <1>0, <1>11, <2>1, <2>2, <2>3 DEF Keyword, n
  <1>12. NoWord \notin TransactionControl /\ "error" \notin TransactionControl
    BY NoWordIsNone DEF TransactionControl, Words
  <1>13. CASE end.word = NoWord /\ end.comment \in {"line", "block"} /\ f[1] = NoWord
    BY <1>1, <1>8, <1>12, <1>13 DEF isTransactionControl
  <1>14. CASE end.comment = "none" /\ end.word \in Words /\ f[1] = end.word
    BY <1>1, <1>8, <1>14 DEF isTransactionControl
  <1>15. CASE end.comment = "none" /\ end.word = "error"
    BY <1>8, <1>12, <1>15
  <1> QED
    BY <1>6, <1>9, <1>10, <1>11, <1>13, <1>14, <1>15 DEF Together

-----------------------------------------------------------------------------
(* The invariant. *)

PCs == {"absent", "startup", "ready", "acquire", "stream", "drain", "respond", "closed"}

\* TypeOK without the bound on the connections, which needs the count of those
\* that are out.
Types ==
    /\ cancelled \in BOOLEAN
    /\ pc \in [Sessions -> PCs]
    /\ client \in [Sessions -> {"here", "gone"}]
    /\ cmd \in [Sessions -> Commands]
    /\ reply \in [Sessions -> Seq(Replies)]
    /\ target \in [Sessions -> Roles \cup {None}]
    /\ link \in [Sessions -> {None, "held", "broken"}]
    /\ stmt \in [Sessions -> {None, "running", "done", "failed", "lost"}]
    /\ free \in [Roles -> Nat]

Greeting == <<"R", "S", "K", "Z">>

Ending == Errors \cup {"C"}

\* The first n messages are a RowDescription and rows.
Rows(r, n) == \A i \in 1 .. n : r[i] = IF i = 1 THEN "T" ELSE "D"

\* A whole answer to a command, n messages long, before its ReadyForQuery.
Answer(r, n) == n >= 1 /\ Rows(r, n - 1) /\ r[n] \in Ending

\* Where the goroutine of a session is says which connection and statement it
\* has, and what it has written so far.
ConnInv(s) ==
    /\ link[s] # None <=> pc[s] \in {"stream", "drain"}
    /\ target[s] # None <=> pc[s] \in {"acquire", "stream", "drain"}
    /\ stmt[s] = "running" => link[s] = "held"

ReplyInv(s) ==
    LET r == reply[s]
        n == Len(reply[s])
    IN  /\ pc[s] \in {"absent", "acquire", "closed"} => r = <<>>
        /\ pc[s] = "stream" => Rows(r, n) /\ (n > 0 <=> HasColumns(s))
        /\ pc[s] = "drain" =>
              /\ HasColumns(s)
              /\ \/ n >= 1 /\ Rows(r, n)
                 \/ n >= 2 /\ Answer(r, n) /\ r[n] = "E"
        /\ pc[s] = "respond" =>
              /\ Answer(r, n)
              /\ r[n] = "C" => stmt[s] = "done" /\ (n > 1 <=> HasColumns(s))
        /\ pc[s] = "ready" => r = Greeting \/ (n >= 2 /\ r[n] = "Z" /\ Answer(r, n - 1))

\* Which query, if any, a session is working on, and what was made of it.
CommandInv(s) ==
    /\ pc[s] \in {"absent", "startup", "ready", "closed"} => cmd[s] = NoQuery
    /\ pc[s] \in {"acquire", "stream", "drain"} =>
          \E q \in Queries : ~q.refused /\ cmd[s] = q.cmd
    /\ pc[s] = "respond" /\ reply[s][1] = "E_0A000" =>
          cmd[s] = NoQuery \/ \E q \in Queries : q.refused /\ cmd[s] = q.cmd

Out(r) == {s \in Sessions : link[s] # None /\ target[s] = r}

\* Every connection is in its pool or with a session.
CountInv ==
    \A r \in Roles : IsFiniteSet(Out(r)) /\ free[r] + Cardinality(Out(r)) = MaxConns

Local(s) == ConnInv(s) /\ ReplyInv(s) /\ CommandInv(s)

SessionInv == Types /\ CountInv /\ \A s \in Sessions : Local(s)

LEMMA SessionInit == Init => SessionInv
  <1> SUFFICES ASSUME Init PROVE SessionInv
    OBVIOUS
  <1> USE DEF Init
  <1>1. Types
    <2>1. <<>> \in Seq(Replies) /\ NoQuery \in Commands /\ MaxConns \in Nat
      BY SessionAssumption DEF Commands
    <2> QED
      BY <2>1 DEF Types, PCs
  <1>2. \A s \in Sessions : Local(s)
    BY DEF Local, ConnInv, ReplyInv, CommandInv, None
  <1>3. \A r \in Roles : Out(r) = {}
    BY DEF Out
  <1>4. CountInv
    <2>1. \A r \in Roles : free[r] = MaxConns /\ free[r] \in Nat
      BY SessionAssumption
    <2>2. \A r \in Roles : IsFiniteSet(Out(r)) /\ Cardinality(Out(r)) = 0
      BY <1>3, FS_EmptySet
    <2> QED
      BY <2>1, <2>2 DEF CountInv
  <1> QED
    BY <1>1, <1>2, <1>4 DEF SessionInv

\* A step of a session leaves the others as they are.
Frame(s) ==
    /\ \A v \in Sessions \ {s} :
          /\ pc'[v] = pc[v] /\ client'[v] = client[v] /\ cmd'[v] = cmd[v]
          /\ reply'[v] = reply[v] /\ target'[v] = target[v] /\ link'[v] = link[v]
          /\ stmt'[v] = stmt[v]

LEMMA FrameLocal ==
    ASSUME NEW s \in Sessions, NEW v \in Sessions \ {s}, Frame(s), Local(v)
    PROVE  Local(v)'
  BY DEF Frame, Local, ConnInv, ReplyInv, CommandInv, HasColumns

\* Neither a connection nor the free ones move.
LEMMA CountFrame ==
    ASSUME CountInv, UNCHANGED free,
           \A s \in Sessions : /\ link'[s] # None <=> link[s] # None
                               /\ link[s] # None => target'[s] = target[s]
    PROVE  CountInv'
  <1>1. \A r \in Roles : Out(r)' = Out(r)
    BY DEF Out
  <1> QED
    BY <1>1 DEF CountInv

-----------------------------------------------------------------------------
(* One lemma for each kind of step.                                        *)

StepOK(s) == Types' /\ CountInv' /\ Local(s)' /\ Frame(s)

LEMMA HandshakeSteps ==
    ASSUME SessionInv, NEW s \in Sessions,
           \/ Accept(s) \/ Decline(s) \/ StartupFails(s) \/ Greet(s)
           \/ Disconnect(s) \/ ConnFails(s) \/ Terminate(s)
    PROVE  StepOK(s)
  <1> USE DEF SessionInv, env, pool
  <1>1. CASE Accept(s)
    <2> USE <1>1 DEF Accept, Goto
    <2>1. Types'
      BY DEF Types, PCs
    <2>2. Local(s)'
      BY DEF Local, ConnInv, ReplyInv, CommandInv, Types, None
    <2>3. Frame(s)
      BY DEF Frame, Types
    <2>4. CountInv'
      BY CountFrame
    <2> QED
      BY <2>1, <2>2, <2>3, <2>4 DEF StepOK
  <1>2. CASE Decline(s)
    <2> USE <1>2 DEF Decline
    <2>1. <<"N">> \in Seq(Replies)
      BY DEF Replies
    <2>2. Types'
      BY <2>1 DEF Types
    <2>3. Local(s)'
      BY DEF Local, ConnInv, ReplyInv, CommandInv, Types
    <2>4. Frame(s)
      BY DEF Frame, Types
    <2>5. CountInv'
      BY CountFrame
    <2> QED
      BY <2>2, <2>3, <2>4, <2>5 DEF StepOK
  <1>3. CASE Greet(s)
    <2> USE <1>3 DEF Greet, Goto
    <2>1. Greeting \in Seq(Replies)
      BY DEF Replies, Greeting
    <2>2. Types'
      BY <2>1 DEF Types, PCs, Greeting
    <2>3. Local(s)'
      BY DEF Local, ConnInv, ReplyInv, CommandInv, Types, Greeting
    <2>4. Frame(s)
      BY DEF Frame, Types
    <2>5. CountInv'
      BY CountFrame
    <2> QED
      BY <2>2, <2>3, <2>4, <2>5 DEF StepOK
  <1>4. CASE Disconnect(s)
    <2> USE <1>4 DEF Disconnect
    <2>1. Types'
      BY DEF Types
    <2>2. Local(s)'
      BY DEF Local, ConnInv, ReplyInv, CommandInv, HasColumns
    <2>3. Frame(s)
      BY DEF Frame, Types
    <2>4. CountInv'
      BY CountFrame
    <2> QED
      BY <2>1, <2>2, <2>3, <2>4 DEF StepOK
  <1>5. CASE StartupFails(s) \/ ConnFails(s) \/ Terminate(s)
    <2>1. /\ pc[s] \in {"startup", "ready", "respond"}
          /\ HangUp(s)
          /\ UNCHANGED <<env, pool>>
      BY <1>5 DEF StartupFails, ConnFails, Terminate
    <2> USE <2>1 DEF HangUp, Goto, Forget
    <2>2. <<>> \in Seq(Replies) /\ NoQuery \in Commands
      BY DEF Commands
    <2>3. Types'
      BY <2>2 DEF Types, PCs
    <2>4. Local(s)'
      <3>1. /\ pc'[s] = "closed" /\ reply'[s] = <<>> /\ cmd'[s] = NoQuery
            /\ stmt'[s] = None /\ link'[s] = link[s] /\ target'[s] = target[s]
        BY DEF Types
      <3>2. link[s] = None /\ target[s] = None
        BY DEF Local, ConnInv
      <3>3. ConnInv(s)'
        BY <3>1, <3>2 DEF ConnInv, None
      <3>4. ReplyInv(s)'
        BY <3>1 DEF ReplyInv
      <3>5. CommandInv(s)'
        BY <3>1 DEF CommandInv
      <3> QED
        BY <3>3, <3>4, <3>5 DEF Local
    <2>5. Frame(s)
      BY DEF Frame, Types
    <2>6. CountInv'
      BY CountFrame
    <2> QED
      BY <2>3, <2>4, <2>5, <2>6 DEF StepOK
  <1> QED
    BY <1>1, <1>2, <1>3, <1>4, <1>5

LEMMA ReadSteps ==
    ASSUME SessionInv, NEW s \in Sessions,
           ReadRefused(s) \/ ReadUnroutable(s) \/ ReadRouted(s) \/ ReadUnsupported(s)
    PROVE  StepOK(s)
  <1> USE DEF SessionInv, env, pool
  <1>0. /\ \A q \in Queries : q.cmd \in Commands
        /\ NoQuery \in Commands
        /\ <<"E">> \in Seq(Replies) /\ <<"E_0A000">> \in Seq(Replies) /\ <<>> \in Seq(Replies)
        /\ None \notin Roles
    <2>1. (\A q \in Queries : q.cmd \in Commands) /\ NoQuery \in Commands
      BY DEF Commands
    <2>2. {"E", "E_0A000"} \subseteq Replies /\ None \notin Roles
      BY DEF Replies, Errors, Roles, None
    <2> QED
      BY <2>1, <2>2
  <1>1. CASE ReadRefused(s) \/ ReadUnroutable(s) \/ ReadUnsupported(s)
    <2>1. PICK c \in Commands, m \in Errors :
             /\ Read(s, c, <<m>>)
             /\ Goto(s, "respond")
             /\ UNCHANGED <<env, pool>>
             /\ m = "E_0A000" => c = NoQuery \/ \E q \in Queries : q.refused /\ c = q.cmd
      BY <1>0, <1>1 DEF ReadRefused, ReadUnroutable, ReadUnsupported, Errors
    <2> USE <2>1 DEF Read, Goto
    <2>2. <<m>> \in Seq(Replies)
      BY DEF Replies
    <2>3. Types'
      BY <2>2 DEF Types, PCs
    <2>4. ConnInv(s)'
      BY DEF Local, ConnInv, Types
    <2>5. ReplyInv(s)'
      <3>1. reply'[s] = <<m>> /\ pc'[s] = "respond"
        BY DEF Types
      <3>2. Answer(reply'[s], 1)
        BY <3>1 DEF Answer, Rows, Ending
      <3>3. Len(<<m>>) = 1 /\ <<m>>[1] = m /\ m # "C"
        BY DEF Errors
      <3> QED
        BY <3>1, <3>2, <3>3 DEF ReplyInv
    <2>6. CommandInv(s)'
      BY DEF CommandInv, Types
    <2>7. Frame(s)
      BY DEF Frame, Types
    <2>8. CountInv'
      BY CountFrame
    <2> QED
      BY <2>3, <2>4, <2>5, <2>6, <2>7, <2>8 DEF StepOK, Local
  <1>2. CASE ReadRouted(s)
    <2>1. PICK q \in Queries, r \in Roles :
             /\ ~q.refused
             /\ Read(s, q.cmd, <<>>)
             /\ target' = [target EXCEPT ![s] = r]
             /\ Goto(s, "acquire")
             /\ UNCHANGED <<env, link, free>>
      BY <1>2 DEF ReadRouted, RolesFor, Roles
    <2> USE <1>0, <2>1 DEF Read, Goto
    <2>2. Types'
      BY DEF Types, PCs
    <2>3. ConnInv(s)'
      BY DEF Local, ConnInv, Types
    <2>4. ReplyInv(s)'
      BY DEF ReplyInv, Types
    <2>5. CommandInv(s)'
      BY DEF CommandInv, Types
    <2>6. Frame(s)
      BY DEF Frame, Types
    <2>7. CountInv'
      <3>1. link[s] = None
        BY DEF Local, ConnInv
      <3> QED
        BY <3>1, <2>6, CountFrame DEF Frame
    <2> QED
      BY <2>2, <2>3, <2>4, <2>5, <2>6, <2>7 DEF StepOK, Local
  <1> QED
    BY <1>1, <1>2

\* What a message more makes of a reply.
LEMMA AppendReply ==
    ASSUME NEW r \in Seq(Replies), NEW m \in Replies
    PROVE  LET a == Append(r, m)
               n == Len(r)
           IN  /\ a \in Seq(Replies)
               /\ Len(a) = n + 1 /\ a[n + 1] = m
               /\ \A i \in 1 .. n : a[i] = r[i]
               /\ Rows(r, n) /\ m = (IF n = 0 THEN "T" ELSE "D") => Rows(a, n + 1)
               /\ Rows(r, n) /\ m \in Ending => Answer(a, n + 1)
               /\ Answer(r, n) => Answer(a, n)
  <1> DEFINE a == Append(r, m)
             n == Len(r)
  <1>1. a \in Seq(Replies) /\ n \in Nat /\ Len(a) = n + 1 /\ a[n + 1] = m
    OBVIOUS
  <1>2. \A i \in 1 .. n : a[i] = r[i]
    OBVIOUS
  <1> HIDE DEF a, n
  <1>3. Rows(r, n) /\ m = (IF n = 0 THEN "T" ELSE "D") => Rows(a, n + 1)
    BY <1>1, <1>2 DEF Rows
  <1>4. Rows(r, n) /\ m \in Ending => Answer(a, n + 1)
    BY <1>1, <1>2 DEF Rows, Answer
  <1>5. Answer(r, n) => Answer(a, n)
    BY <1>1, <1>2 DEF Rows, Answer
  <1> QED
    BY <1>1, <1>2, <1>3, <1>4, <1>5 DEF a, n

LEMMA RespondStep ==
    ASSUME SessionInv, NEW s \in Sessions, Respond(s)
    PROVE  StepOK(s)
  <1> USE DEF SessionInv, env, pool, Respond, Goto, Write, Forget
  <1>1. "Z" \in Replies /\ NoQuery \in Commands /\ reply[s] \in Seq(Replies)
    BY DEF Replies, Commands, Types
  <1>2. Types'
    BY <1>1, AppendReply DEF Types, PCs
  <1>3. /\ pc'[s] = "ready" /\ reply'[s] = Append(reply[s], "Z") /\ cmd'[s] = NoQuery
        /\ stmt'[s] = None /\ link'[s] = link[s] /\ target'[s] = target[s]
    BY DEF Types
  <1>4. ConnInv(s)'
    BY <1>3 DEF Local, ConnInv, None
  <1>5. ReplyInv(s)'
    <2>1. Answer(reply[s], Len(reply[s]))
      BY DEF Local, ReplyInv
    <2>2. /\ Len(reply[s]) \in Nat /\ Len(reply'[s]) = Len(reply[s]) + 1
          /\ reply'[s][Len(reply[s]) + 1] = "Z" /\ Answer(reply'[s], Len(reply[s]))
          /\ Len(reply[s]) >= 1
      BY <1>1, <1>3, <2>1, AppendReply DEF Answer
    <2> QED
      BY <1>3, <2>2 DEF ReplyInv
  <1>6. CommandInv(s)'
    BY <1>3 DEF CommandInv
  <1>7. Frame(s)
    BY DEF Frame, Types
  <1>8. CountInv'
    BY CountFrame
  <1> QED
    BY <1>2, <1>4, <1>5, <1>6, <1>7, <1>8 DEF StepOK, Local

LEMMA QueryFailsStep ==
    ASSUME SessionInv, NEW s \in Sessions, QueryFails(s)
    PROVE  StepOK(s)
  <1> USE DEF SessionInv, env, QueryFails, Goto, Write
  <1>1. "E" \in Replies /\ "E" \in Ending /\ reply[s] \in Seq(Replies)
    BY DEF Replies, Errors, Ending, Types
  <1>2. reply[s] = <<>> /\ link[s] = None
    BY DEF Local, ConnInv, ReplyInv
  <1>3. /\ pc'[s] = "respond" /\ reply'[s] = <<"E">> /\ cmd'[s] = cmd[s]
        /\ stmt'[s] = stmt[s] /\ link'[s] = link[s] /\ target'[s] = None
    BY <1>2 DEF Types
  <1>4. Types'
    BY <1>1, AppendReply DEF Types, PCs
  <1>5. ConnInv(s)'
    BY <1>2, <1>3 DEF Local, ConnInv
  <1>6. ReplyInv(s)'
    <2>1. Answer(<<"E">>, 1) /\ Len(<<"E">>) = 1 /\ <<"E">>[1] # "C"
      BY <1>1 DEF Answer, Rows
    <2> QED
      BY <1>3, <2>1 DEF ReplyInv
  <1>7. CommandInv(s)'
    BY <1>3 DEF CommandInv
  <1>8. Frame(s)
    BY DEF Frame, Types
  <1>9. CountInv'
    BY <1>2, <1>8, CountFrame DEF Frame
  <1> QED
    BY <1>4, <1>5, <1>6, <1>7, <1>8, <1>9 DEF StepOK, Local

\* The reply to a query as it grows while the rows are read.
LEMMA StreamSteps ==
    ASSUME SessionInv, NEW s \in Sessions,
           StreamRow(s) \/ ValuesFail(s) \/ WriteFails(s)
    PROVE  StepOK(s)
  <1> USE DEF SessionInv, env, pool, Goto, Write
  <1>0. /\ {"D", "E"} \subseteq Replies /\ "E" \in Ending
        /\ reply[s] \in Seq(Replies) /\ Len(reply[s]) \in Nat
    BY DEF Replies, Errors, Ending, Types
  <1>1. /\ pc[s] = "stream" /\ HasColumns(s)
        /\ UNCHANGED <<env, cmd, pool, stmt>>
        /\ Rows(reply[s], Len(reply[s])) /\ Len(reply[s]) > 0
        /\ link[s] # None /\ target[s] # None
        /\ \E q \in Queries : ~q.refused /\ cmd[s] = q.cmd
    BY DEF StreamRow, ValuesFail, WriteFails, RowIsRead, Local, ReplyInv, ConnInv, CommandInv
  <1>2. /\ HasColumns(s)' = HasColumns(s)
        /\ cmd'[s] = cmd[s] /\ link'[s] = link[s] /\ target'[s] = target[s] /\ stmt'[s] = stmt[s]
    BY <1>1 DEF HasColumns
  <1>3. CountInv'
    BY <1>1, CountFrame
  <1>4. CASE StreamRow(s)
    <2> USE <1>4 DEF StreamRow, RowIsRead
    <2>1. pc'[s] = "stream" /\ reply'[s] = Append(reply[s], "D")
      BY DEF Types
    <2>2. Types'
      BY <1>0, AppendReply DEF Types
    <2>3. ConnInv(s)'
      BY <1>2, <2>1 DEF Local, ConnInv
    <2>4. ReplyInv(s)'
      <3>1. Rows(reply'[s], Len(reply'[s])) /\ Len(reply'[s]) > 0
        BY <1>0, <1>1, <2>1, AppendReply
      <3> QED
        BY <1>1, <1>2, <2>1, <3>1 DEF ReplyInv
    <2>5. CommandInv(s)'
      BY <1>1, <1>2, <2>1 DEF CommandInv
    <2>6. Frame(s)
      BY DEF Frame, Types
    <2> QED
      BY <1>3, <2>2, <2>3, <2>4, <2>5, <2>6 DEF StepOK, Local
  <1>5. CASE ValuesFail(s)
    <2> USE <1>5 DEF ValuesFail, RowIsRead
    <2>1. pc'[s] = "drain" /\ reply'[s] = Append(reply[s], "E")
      BY DEF Types
    <2>2. Types'
      BY <1>0, AppendReply DEF Types, PCs
    <2>3. ConnInv(s)'
      BY <1>1, <1>2, <2>1 DEF Local, ConnInv
    <2>4. ReplyInv(s)'
      <3>1. /\ Answer(reply'[s], Len(reply'[s])) /\ Len(reply'[s]) >= 2
            /\ reply'[s][Len(reply'[s])] = "E"
        BY <1>0, <1>1, <2>1, AppendReply
      <3> QED
        BY <1>1, <1>2, <2>1, <3>1 DEF ReplyInv
    <2>5. CommandInv(s)'
      BY <1>1, <1>2, <2>1 DEF CommandInv
    <2>6. Frame(s)
      BY DEF Frame, Types
    <2> QED
      BY <1>3, <2>2, <2>3, <2>4, <2>5, <2>6 DEF StepOK, Local
  <1>6. CASE WriteFails(s)
    <2> USE <1>6 DEF WriteFails
    <2>1. pc'[s] = "drain" /\ reply'[s] = reply[s]
      BY DEF Types
    <2>2. Types'
      BY DEF Types, PCs
    <2>3. ConnInv(s)'
      BY <1>1, <1>2, <2>1 DEF Local, ConnInv
    <2>4. ReplyInv(s)'
      <3>1. Len(reply'[s]) >= 1 /\ Rows(reply'[s], Len(reply'[s]))
        BY <1>0, <1>1, <2>1
      <3> QED
        BY <1>1, <1>2, <2>1, <3>1 DEF ReplyInv
    <2>5. CommandInv(s)'
      BY <1>1, <1>2, <2>1 DEF CommandInv
    <2>6. Frame(s)
      BY DEF Frame, Types
    <2> QED
      BY <1>3, <2>2, <2>3, <2>4, <2>5, <2>6 DEF StepOK, Local
  <1> QED
    BY <1>4, <1>5, <1>6

LEMMA BackendSteps ==
    ASSUME SessionInv, NEW s \in Sessions, Execute(s) \/ BreakLink(s)
    PROVE  StepOK(s)
  <1> USE DEF SessionInv, env, pool
  <1>1. /\ UNCHANGED <<env, pc, cmd, reply, target, free>>
        /\ pc[s] \in {"stream", "drain"}
        /\ link[s] = "held"
    BY DEF Execute, BreakLink, Local, ConnInv, None
  <1>2. CASE Execute(s)
    <2> USE <1>2 DEF Execute
    <2>1. Types'
      BY DEF Types
    <2>2. Local(s)'
      BY <1>1 DEF Local, ConnInv, ReplyInv, CommandInv, HasColumns, Types
    <2>3. Frame(s)
      BY DEF Frame, Types
    <2>4. CountInv'
      BY CountFrame
    <2> QED
      BY <2>1, <2>2, <2>3, <2>4 DEF StepOK
  <1>3. CASE BreakLink(s)
    <2> USE <1>3 DEF BreakLink
    <2>1. Types'
      BY DEF Types
    <2>2. link'[s] # None /\ stmt'[s] # "running"
      BY DEF Types, None
    <2>3. Local(s)'
      BY <1>1, <2>2 DEF Local, ConnInv, ReplyInv, CommandInv, HasColumns
    <2>4. Frame(s)
      BY DEF Frame, Types
    <2>5. CountInv'
      BY <1>1, <2>2, <2>4, CountFrame DEF Frame, None
    <2> QED
      BY <2>1, <2>3, <2>4, <2>5 DEF StepOK
  <1> QED
    BY <1>2, <1>3

\* A connection leaves its pool.
LEMMA CountTaken ==
    ASSUME Types, CountInv, NEW s \in Sessions, Frame(s),
           link[s] = None, link'[s] # None, target[s] \in Roles, target'[s] = target[s],
           free[target[s]] > 0, free' = [free EXCEPT ![target[s]] = @ - 1]
    PROVE  CountInv'
  <1> SUFFICES ASSUME NEW r \in Roles
               PROVE  IsFiniteSet(Out(r)') /\ free'[r] + Cardinality(Out(r)') = MaxConns
    BY DEF CountInv
  <1>1. /\ IsFiniteSet(Out(r)) /\ free[r] + Cardinality(Out(r)) = MaxConns
        /\ Cardinality(Out(r)) \in Nat /\ free[r] \in Nat
    BY FS_CardinalityType DEF CountInv, Types
  <1>2. CASE r = target[s]
    <2>1. Out(r)' = Out(r) \cup {s} /\ s \notin Out(r)
      BY <1>2 DEF Out, Frame
    <2>2. IsFiniteSet(Out(r)') /\ Cardinality(Out(r)') = Cardinality(Out(r)) + 1
      BY <1>1, <2>1, FS_AddElement
    <2>3. free'[r] = free[r] - 1
      BY <1>2 DEF Types
    <2> QED
      BY <1>1, <2>2, <2>3
  <1>3. CASE r # target[s]
    <2>1. Out(r)' = Out(r)
      BY <1>3 DEF Out, Frame
    <2>2. free'[r] = free[r]
      BY <1>3 DEF Types
    <2> QED
      BY <1>1, <2>1, <2>2
  <1> QED
    BY <1>2, <1>3

\* A connection comes back to its pool.
LEMMA CountReleased ==
    ASSUME Types, CountInv, NEW s \in Sessions, Frame(s), link[s] # None, target[s] \in Roles,
           Release(s)
    PROVE  CountInv'
  <1> SUFFICES ASSUME NEW r \in Roles
               PROVE  IsFiniteSet(Out(r)') /\ free'[r] + Cardinality(Out(r)') = MaxConns
    BY DEF CountInv
  <1>0. link'[s] = None
    BY DEF Release, Types
  <1>1. /\ IsFiniteSet(Out(r)) /\ free[r] + Cardinality(Out(r)) = MaxConns
        /\ Cardinality(Out(r)) \in Nat /\ free[r] \in Nat
    BY FS_CardinalityType DEF CountInv, Types
  <1>2. CASE r = target[s]
    <2>1. Out(r)' = Out(r) \ {s} /\ s \in Out(r)
      BY <1>0, <1>2 DEF Out, Frame
    <2>2. IsFiniteSet(Out(r)') /\ Cardinality(Out(r)') = Cardinality(Out(r)) - 1
      BY <1>1, <2>1, FS_RemoveElement
    <2>3. free'[r] = free[r] + 1
      BY <1>2 DEF Types, Release
    <2> QED
      BY <1>1, <2>2, <2>3
  <1>3. CASE r # target[s]
    <2>1. Out(r)' = Out(r)
      BY <1>0, <1>3 DEF Out, Frame
    <2>2. free'[r] = free[r]
      BY <1>3 DEF Types, Release
    <2> QED
      BY <1>1, <2>1, <2>2
  <1> QED
    BY <1>2, <1>3

LEMMA StartQueryStep ==
    ASSUME SessionInv, NEW s \in Sessions, StartQuery(s)
    PROVE  StepOK(s)
  <1> USE DEF SessionInv, env, Goto, StartQuery
  <1>1. /\ reply[s] = <<>> /\ link[s] = None /\ target[s] \in Roles
        /\ \E q \in Queries : ~q.refused /\ cmd[s] = q.cmd
    BY DEF Local, ConnInv, ReplyInv, CommandInv, Types
  <1>2. /\ pc'[s] = "stream" /\ cmd'[s] = cmd[s] /\ stmt'[s] = "running"
        /\ link'[s] = "held" /\ target'[s] = target[s]
        /\ HasColumns(s)' = HasColumns(s)
    BY DEF Types, HasColumns
  <1>3. reply' = [reply EXCEPT ![s] = IF HasColumns(s) THEN <<"T">> ELSE <<>>]
    BY <1>1 DEF DescribeRows, Write, Types
  <1>4. (IF HasColumns(s) THEN <<"T">> ELSE <<>>) \in Seq(Replies)
    <2>1. "T" \in Replies
      BY DEF Replies
    <2>2. <<"T">> \in Seq(Replies) /\ <<>> \in Seq(Replies)
      BY <2>1
    <2> QED
      BY <2>2
  <1>5. free' \in [Roles -> Nat]
    BY <1>1 DEF Types
  <1>6. Types'
    BY <1>3, <1>4, <1>5 DEF Types, PCs
  <1>7. ConnInv(s)'
    BY <1>1, <1>2 DEF ConnInv, Roles, None
  <1>8. ReplyInv(s)'
    <2>1. reply'[s] = IF HasColumns(s) THEN <<"T">> ELSE <<>>
      BY <1>3 DEF Types
    <2>2. Rows(<<"T">>, 1) /\ Len(<<"T">>) = 1 /\ Rows(<<>>, 0) /\ Len(<<>>) = 0
      BY DEF Rows
    <2>3. Rows(reply'[s], Len(reply'[s])) /\ (Len(reply'[s]) > 0 <=> HasColumns(s))
      BY <2>1, <2>2
    <2> QED
      BY <1>2, <2>3 DEF ReplyInv
  <1>9. CommandInv(s)'
    BY <1>1, <1>2 DEF CommandInv
  <1>10. Frame(s)
    BY <1>3 DEF Frame, Types
  <1>11. CountInv'
    BY <1>1, <1>2, <1>10, CountTaken DEF None
  <1> QED
    BY <1>6, <1>7, <1>8, <1>9, <1>10, <1>11 DEF StepOK, Local

LEMMA StreamEndStep ==
    ASSUME SessionInv, NEW s \in Sessions, StreamEnd(s)
    PROVE  StepOK(s)
  <1> DEFINE m == IF stmt[s] = "done" /\ link[s] = "held" THEN "C" ELSE "E"
  <1> USE DEF SessionInv, env, Goto, StreamEnd, Write
  <1>1. /\ Rows(reply[s], Len(reply[s])) /\ (Len(reply[s]) > 0 <=> HasColumns(s))
        /\ link[s] # None /\ target[s] \in Roles
        /\ reply[s] \in Seq(Replies) /\ Len(reply[s]) \in Nat
        /\ \E q \in Queries : ~q.refused /\ cmd[s] = q.cmd
    BY DEF Local, ConnInv, ReplyInv, CommandInv, Types
  <1>2. /\ m \in Replies /\ m \in Ending /\ m # "E_0A000"
        /\ m = "C" => stmt[s] = "done"
    BY DEF Replies, Errors, Ending
  <1>3. /\ pc'[s] = "respond" /\ cmd'[s] = cmd[s] /\ stmt'[s] = stmt[s]
        /\ link'[s] = None /\ target'[s] = None
        /\ HasColumns(s)' = HasColumns(s)
        /\ reply'[s] = Append(reply[s], m)
    BY DEF Types, HasColumns, Release
  <1>4. free' \in [Roles -> Nat]
    BY <1>1 DEF Types, Release
  <1>5. Append(reply[s], m) \in Seq(Replies)
    BY <1>1, <1>2, AppendReply
  <1>6. Types'
    BY <1>4, <1>5 DEF Types, PCs, Release
  <1>7. ConnInv(s)'
    BY <1>3 DEF ConnInv
  <1> HIDE DEF m
  <1>8. /\ Answer(reply'[s], Len(reply'[s])) /\ Len(reply'[s]) = Len(reply[s]) + 1
        /\ reply'[s][Len(reply'[s])] = m
        /\ reply'[s][1] # "E_0A000"
    <2>1. /\ Answer(reply'[s], Len(reply'[s])) /\ Len(reply'[s]) = Len(reply[s]) + 1
          /\ reply'[s][Len(reply'[s])] = m
          /\ \A i \in 1 .. Len(reply[s]) : reply'[s][i] = reply[s][i]
      BY <1>1, <1>2, <1>3, AppendReply
    <2>2. CASE Len(reply[s]) = 0
      BY <1>2, <2>1, <2>2
    <2>3. CASE Len(reply[s]) > 0
      <3>1. reply[s][1] = "T"
        BY <1>1, <2>3 DEF Rows
      <3> QED
        BY <1>1, <2>1, <2>3, <3>1
    <2> QED
      BY <1>1, <2>1, <2>2, <2>3
  <1>9. ReplyInv(s)'
    BY <1>1, <1>2, <1>3, <1>8 DEF ReplyInv
  <1>10. CommandInv(s)'
    BY <1>3, <1>8 DEF CommandInv
  <1>11. Frame(s)
    BY DEF Frame, Types, Release
  <1>12. CountInv'
    BY <1>1, <1>11, CountReleased
  <1> QED
    BY <1>6, <1>7, <1>9, <1>10, <1>11, <1>12 DEF StepOK, Local

LEMMA CloseRowsStep ==
    ASSUME SessionInv, NEW s \in Sessions, CloseRows(s)
    PROVE  StepOK(s)
  <1> USE DEF SessionInv, env, Goto
  <1>1. /\ HasColumns(s)
        /\ \/ Len(reply[s]) >= 1 /\ Rows(reply[s], Len(reply[s]))
           \/ /\ Len(reply[s]) >= 2 /\ Answer(reply[s], Len(reply[s]))
              /\ reply[s][Len(reply[s])] = "E"
        /\ link[s] # None /\ target[s] \in Roles
        /\ reply[s] \in Seq(Replies) /\ Len(reply[s]) \in Nat
        /\ pc[s] = "drain" /\ Release(s)
    BY DEF Local, ConnInv, ReplyInv, Types, CloseRows
  <1>2. /\ link'[s] = None /\ target'[s] = None
        /\ free' \in [Roles -> Nat] /\ target' \in [Sessions -> Roles \cup {None}]
        /\ link' \in [Sessions -> {None, "held", "broken"}]
    BY <1>1 DEF Types, Release
  <1>3. CASE Last(reply[s]) \in Errors
    <2>1. /\ pc' = [pc EXCEPT ![s] = "respond"]
          /\ UNCHANGED <<cmd, reply, stmt, cancelled, client>>
      BY <1>3 DEF CloseRows
    <2>2. pc'[s] = "respond" /\ HasColumns(s)' = HasColumns(s)
      BY <2>1 DEF Types, HasColumns
    <2>3. /\ Len(reply[s]) >= 2 /\ Answer(reply[s], Len(reply[s]))
          /\ reply[s][Len(reply[s])] = "E" /\ reply[s][1] = "T"
      BY <1>1, <1>3 DEF Last, Rows, Errors, Answer
    <2>4. Types'
      BY <1>2, <2>1 DEF Types, PCs
    <2>5. ConnInv(s)'
      BY <1>2, <2>1, <2>2 DEF ConnInv, CloseRows
    <2>6. ReplyInv(s)'
      BY <2>1, <2>2, <2>3 DEF ReplyInv
    <2>7. CommandInv(s)'
      BY <2>1, <2>2, <2>3 DEF CommandInv
    <2>8. Frame(s)
      BY <1>1, <2>1 DEF Frame, Types, Release
    <2>9. CountInv'
      BY <1>1, <2>8, CountReleased
    <2> QED
      BY <2>4, <2>5, <2>6, <2>7, <2>8, <2>9 DEF StepOK, Local
  <1>4. CASE Last(reply[s]) \notin Errors
    <2>1. HangUp(s) /\ UNCHANGED <<cancelled, client>>
      BY <1>4 DEF CloseRows
    <2> USE <2>1 DEF HangUp, Forget
    <2>2. <<>> \in Seq(Replies) /\ NoQuery \in Commands
      BY DEF Commands
    <2>3. Types'
      BY <1>2, <2>2 DEF Types, PCs
    <2>4. pc'[s] = "closed" /\ reply'[s] = <<>> /\ cmd'[s] = NoQuery /\ stmt'[s] = None
      BY DEF Types
    <2>5. ConnInv(s)'
      BY <1>2, <2>4 DEF ConnInv, None
    <2>6. ReplyInv(s)'
      BY <2>4 DEF ReplyInv
    <2>7. CommandInv(s)'
      BY <2>4 DEF CommandInv
    <2>8. Frame(s)
      BY <1>1 DEF Frame, Types, Release
    <2>9. CountInv'
      BY <1>1, <2>8, CountReleased
    <2> QED
      BY <2>3, <2>5, <2>6, <2>7, <2>8, <2>9 DEF StepOK, Local
  <1> QED
    BY <1>3, <1>4

-----------------------------------------------------------------------------
(* The invariant holds, and what follows from it.                          *)

LEMMA SessionNext == SessionInv /\ [Next]_vars => SessionInv'
  <1> SUFFICES ASSUME SessionInv, [Next]_vars PROVE SessionInv'
    OBVIOUS
  <1>1. CASE UNCHANGED vars
    <2> USE <1>1 DEF vars, SessionInv
    <2>1. Types'
      BY DEF Types
    <2>2. CountInv'
      BY CountFrame
    <2>3. \A s \in Sessions : Local(s)'
      BY DEF Local, ConnInv, ReplyInv, CommandInv, HasColumns
    <2> QED
      BY <2>1, <2>2, <2>3
  <1>2. CASE ListenerReturn
    <2> USE <1>2 DEF ListenerReturn, SessionInv, pool
    <2>1. Types'
      BY DEF Types
    <2>2. CountInv'
      BY CountFrame
    <2>3. \A s \in Sessions : Local(s)'
      BY DEF Local, ConnInv, ReplyInv, CommandInv, HasColumns
    <2> QED
      BY <2>1, <2>2, <2>3
  <1>3. ASSUME NEW s \in Sessions, SessionStep(s) PROVE SessionInv'
    <2>1. StepOK(s)
      BY <1>3, HandshakeSteps, ReadSteps, RespondStep, StartQueryStep, QueryFailsStep,
         StreamSteps, StreamEndStep, CloseRowsStep, BackendSteps DEF SessionStep, Stream
    <2>2. \A v \in Sessions : Local(v)'
      BY <2>1, FrameLocal DEF StepOK, SessionInv
    <2> QED
      BY <2>1, <2>2 DEF StepOK, SessionInv
  <1> QED
    BY <1>1, <1>2, <1>3 DEF Next

LEMMA SessionInvariant == Spec => []SessionInv
  BY SessionInit, SessionNext, PTL DEF Spec

\* The sessions keep the types of Session, and a pool never has more
\* connections than it began with.
THEOREM SessionTypeCorrect == Spec => []TypeOK
  <1>1. SessionInv => TypeOK
    <2> SUFFICES ASSUME SessionInv PROVE TypeOK
      OBVIOUS
    <2>1. \A r \in Roles : free[r] \in 0 .. MaxConns
      BY FS_CardinalityType, SessionAssumption DEF SessionInv, Types, CountInv
    <2> QED
      BY <2>1 DEF SessionInv, Types, TypeOK, PCs
  <1> QED
    BY <1>1, SessionInvariant, PTL

\* A connection is out exactly while a session streams or closes rows, none
\* goes back with a statement running on it, and none is lost or returned
\* twice, whatever fails: handleQuery and its deferred rows.Close.
THEOREM ConnectionsDoComeBack == Spec => []ConnectionsComeBack
  <1>1. SessionInv => ConnectionsComeBack
    BY DEF SessionInv, Local, ConnInv, CountInv, Out, ConnectionsComeBack
  <1> QED
    BY <1>1, SessionInvariant, PTL

\* A client is told that a statement has completed only when it has: the
\* CommandComplete of streamResult.
THEOREM AcknowledgementsAreTrue == Spec => []AcknowledgedIsDone
  <1>1. SessionInv => AcknowledgedIsDone
    <2> SUFFICES ASSUME SessionInv, NEW s \in Sessions, pc[s] = "respond", "C" \in ToSet(reply[s])
                 PROVE  stmt[s] = "done"
      BY DEF AcknowledgedIsDone
    <2>1. /\ reply[s] \in Seq(Replies) /\ Len(reply[s]) \in Nat
          /\ Answer(reply[s], Len(reply[s]))
          /\ reply[s][Len(reply[s])] = "C" => stmt[s] = "done"
      BY DEF SessionInv, Types, Local, ReplyInv
    <2>2. PICK i \in 1 .. Len(reply[s]) : reply[s][i] = "C"
      BY <2>1 DEF ToSet
    <2>3. i = Len(reply[s])
      BY <2>1, <2>2 DEF Answer, Rows
    <2> QED
      BY <2>1, <2>2, <2>3
  <1> QED
    BY <1>1, SessionInvariant, PTL

\* Whatever fails in between, a client gets for each command one reply of the
\* simple query protocol, which ends in one ReadyForQuery: handleConn,
\* handleQuery and streamResult together.
THEOREM RepliesAreWellFormed == Spec => []ReplyWellFormed
  <1>1. SessionInv => ReplyWellFormed
    <2> SUFFICES ASSUME SessionInv, NEW s \in Sessions
                 PROVE  LET r == reply[s]
                            Ends(i) == r[i] \in Errors \cup {"C"}
                        IN  /\ pc[s] = "ready" => Last(r) = "Z"
                            /\ pc[s] \notin {"startup", "closed"} /\ r # <<"R", "S", "K", "Z">> =>
                                 \A i \in 1 .. Len(r) :
                                    /\ r[i] = "T" => i = 1
                                    /\ r[i] = "D" => i > 1 /\ r[i - 1] \in {"T", "D"}
                                    /\ Ends(i) => i = 1 \/ r[i - 1] \in {"T", "D"}
                                    /\ r[i] = "C" /\ pc[s] = "respond" =>
                                          (r[1] = "T" <=> HasColumns(s))
                                    /\ r[i] = "Z" => i = Len(r) /\ i > 1 /\ Ends(i - 1)
      BY DEF ReplyWellFormed
    <2> DEFINE r == reply[s]
               n == Len(reply[s])
    <2>0. r \in Seq(Replies) /\ n \in Nat /\ ReplyInv(s) /\ pc[s] \in PCs
      BY DEF SessionInv, Types, Local
    <2>1. pc[s] = "ready" => Last(r) = "Z"
      <3>1. Len(Greeting) = 4 /\ Greeting[4] = "Z"
        BY DEF Greeting
      <3> QED
        BY <2>0, <3>1 DEF ReplyInv, Last
    <2>2. ASSUME pc[s] \notin {"startup", "closed"}, r # Greeting, NEW i \in 1 .. n
          PROVE  /\ r[i] = "T" => i = 1
                 /\ r[i] = "D" => i > 1 /\ r[i - 1] \in {"T", "D"}
                 /\ r[i] \in Ending => i = 1 \/ r[i - 1] \in {"T", "D"}
                 /\ r[i] = "C" /\ pc[s] = "respond" => (r[1] = "T" <=> HasColumns(s))
                 /\ r[i] = "Z" => i = n /\ i > 1 /\ r[i - 1] \in Ending
      <3>1. \/ Rows(r, n) /\ pc[s] # "respond"
            \/ /\ Answer(r, n)
               /\ r[n] = "C" /\ pc[s] = "respond" => (n > 1 <=> HasColumns(s))
            \/ n >= 2 /\ r[n] = "Z" /\ Answer(r, n - 1) /\ pc[s] # "respond"
        <4>1. r = <<>> => n = 0 /\ Rows(r, n)
          BY DEF Rows
        <4> QED
          BY <2>0, <2>2, <4>1 DEF ReplyInv, PCs
      <3> HIDE DEF r, n
      <3>2. CASE Rows(r, n) /\ pc[s] # "respond"
        BY <2>0, <2>2, <3>2 DEF Rows, Ending, Errors
      <3>3. CASE /\ Answer(r, n)
                 /\ r[n] = "C" /\ pc[s] = "respond" => (n > 1 <=> HasColumns(s))
        <4>1. r[n] \in {"C", "E", "E_0A000"}
          BY <3>3 DEF Answer, Ending, Errors
        <4>2. \A j \in 1 .. n - 1 : r[j] = IF j = 1 THEN "T" ELSE "D"
          BY <3>3 DEF Answer, Rows
        <4>3. CASE i = n
          BY <2>0, <2>2, <3>3, <4>1, <4>2, <4>3 DEF Ending, Errors
        <4>4. CASE i < n
          BY <2>0, <2>2, <3>3, <4>1, <4>2, <4>4 DEF Ending, Errors
        <4> QED
          BY <2>0, <2>2, <4>3, <4>4
      <3>4. CASE n >= 2 /\ r[n] = "Z" /\ Answer(r, n - 1) /\ pc[s] # "respond"
        <4>1. r[n - 1] \in {"C", "E", "E_0A000"}
          BY <3>4 DEF Answer, Ending, Errors
        <4>2. \A j \in 1 .. n - 2 : r[j] = IF j = 1 THEN "T" ELSE "D"
          BY <2>0, <3>4 DEF Answer, Rows
        <4>3. CASE i = n
          BY <2>0, <2>2, <3>4, <4>1, <4>3 DEF Ending, Errors
        <4>4. CASE i = n - 1
          BY <2>0, <2>2, <3>4, <4>1, <4>2, <4>4 DEF Ending, Errors
        <4>5. CASE i < n - 1
          BY <2>0, <2>2, <3>4, <4>1, <4>2, <4>5 DEF Ending, Errors
        <4> QED
          BY <2>0, <2>2, <4>3, <4>4, <4>5
      <3> QED
        BY <3>1, <3>2, <3>3, <3>4
    <2>3. pc[s] \notin {"startup", "closed"} /\ r # Greeting =>
             \A i \in 1 .. n :
                /\ r[i] = "T" => i = 1
                /\ r[i] = "D" => i > 1 /\ r[i - 1] \in {"T", "D"}
                /\ r[i] \in Ending => i = 1 \/ r[i - 1] \in {"T", "D"}
                /\ r[i] = "C" /\ pc[s] = "respond" => (r[1] = "T" <=> HasColumns(s))
                /\ r[i] = "Z" => i = n /\ i > 1 /\ r[i - 1] \in Ending
      BY <2>2
    <2> QED
      BY <2>1, <2>3, Zenon DEF Greeting, Ending
  <1> QED
    BY <1>1, SessionInvariant, PTL

\* No statement that opens or ends a transaction reaches a backend and no
\* other that would run is refused as one, whatever texts clients send, except
\* texts with one of the five things of ReadersAgree: isTransactionControl and
\* its use in handleQuery.
THEOREM TransactionsDoStayOut == Spec => []TransactionsStayOut
  <1>1. SessionInv => TransactionsStayOut
    <2> SUFFICES ASSUME SessionInv, NEW s \in Sessions, cmd[s].type = "Q", ~cmd[s].odd
                 PROVE  /\ pc[s] \in {"acquire", "stream", "drain"} =>
                              cmd[s].runs \notin TransactionControl
                        /\ reply[s] # <<>> /\ reply[s][1] = "E_0A000" =>
                              cmd[s].runs \in TransactionControl \cup {"error"}
      BY DEF TransactionsStayOut
    <2>0. cmd[s] # NoQuery
      BY DEF NoQuery, None
    <2>1. ASSUME NEW q \in Queries, cmd[s] = q.cmd
          PROVE  /\ cmd[s].runs \in TransactionControl => q.refused
                 /\ q.refused => cmd[s].runs \in TransactionControl \cup {"error"}
      <3>1. PICK t \in Texts :
               q = [cmd |-> Command(t), refused |-> isTransactionControl(t),
                    level |-> consistencyFromQuery(t)]
        BY DEF Queries
      <3>2. t \in Seq(Tokens)
        BY SessionAssumption
      <3>3. cmd[s] = Command(t) /\ (q.refused <=> isTransactionControl(t))
        BY <2>1, <3>1
      <3>4. cmd[s].runs = ServerReads(t).word
        BY <3>3 DEF Command
      <3>5. cmd[s].odd = (ServerReads(t).odd > 0)
        <4>1. cmd[s] = [type |-> "Q", runs |-> ServerReads(t).word,
                        odd |-> ServerReads(t).odd > 0]
          BY <3>3, Zenon DEF Command
        <4> DEFINE b == ServerReads(t).odd > 0
        <4>2. cmd[s] = [type |-> "Q", runs |-> ServerReads(t).word, odd |-> b]
          BY <4>1
        <4> HIDE DEF b
        <4>3. cmd[s].odd = b
          BY <4>2
        <4> QED
          BY <4>3, Zenon DEF b
      <3> QED
        BY <3>2, <3>3, <3>4, <3>5, ReadersAgree
    <2>2. CASE pc[s] \in {"acquire", "stream", "drain"}
      <3>1. PICK q \in Queries : ~q.refused /\ cmd[s] = q.cmd
        BY <2>2 DEF SessionInv, Local, CommandInv
      <3>2. cmd[s].runs \notin TransactionControl
        BY <2>1, <3>1
      <3>3. ~(reply[s] # <<>> /\ reply[s][1] = "E_0A000")
        BY <2>2 DEF SessionInv, Local, ReplyInv, Rows, Answer, Types
      <3> QED
        BY <3>2, <3>3
    <2>3. CASE pc[s] = "respond"
      BY <2>0, <2>1, <2>3 DEF SessionInv, Local, CommandInv
    <2>4. CASE pc[s] \in {"absent", "startup", "ready", "closed"}
      BY <2>0, <2>4 DEF SessionInv, Local, CommandInv
    <2> QED
      BY <2>2, <2>3, <2>4 DEF SessionInv, Types, PCs
  <1> QED
    BY <1>1, SessionInvariant, PTL
=============================================================================
