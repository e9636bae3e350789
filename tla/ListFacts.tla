----------------------------- MODULE ListFacts -----------------------------
(***************************************************************************)
(* Facts about numbers, sets of numbers and lists that the proofs about    *)
(* several components rest on.                                             *)
(***************************************************************************)
EXTENDS Integers, SequencesExt, Slices, SequenceTheorems, FiniteSetTheorems, WellFoundedInduction, TLAPS

\* A set of natural numbers has a least element.
LEMMA LeastElement ==
    ASSUME NEW S \in SUBSET Nat, S # {}
    PROVE  \E m \in S : \A n \in S : m <= n
  <1>1. PICK m \in S : \A n \in S : <<n, m>> \notin OpToRel(<, Nat)
    BY NatLessThanWellFounded, WFMin
  <1>2. \A n \in S : ~(n < m)
    BY <1>1 DEF OpToRel
  <1> QED
    BY <1>2

\* Induction: unlike the theorems of NaturalsInduction this takes a set, not an
\* operator, and so can be applied to {n \in Nat : P(n)}.
LEMMA SetInduction ==
    ASSUME NEW S, 0 \in S, \A n \in Nat : n \in S => n + 1 \in S
    PROVE  Nat \subseteq S
  <1> SUFFICES ASSUME Nat \ S # {} PROVE FALSE
    OBVIOUS
  <1>1. PICK m \in Nat \ S : \A n \in Nat \ S : m <= n
    BY LeastElement
  <1>2. m # 0 /\ m - 1 \in Nat
    BY <1>1
  <1>3. m - 1 \in S
    BY <1>1, <1>2
  <1> QED
    BY <1>1, <1>2, <1>3

\* What Min and Max of FiniteSetsExt are.
LEMMA MinOfSet ==
    ASSUME NEW S \in SUBSET Nat, S # {}
    PROVE  Min(S) \in S /\ \A x \in S : Min(S) <= x
  BY LeastElement DEF Min

LEMMA MaxOfSet ==
    ASSUME NEW n \in Nat, NEW S \in SUBSET (1 .. n), S # {}
    PROVE  Max(S) \in S /\ \A x \in S : x <= Max(S)
  <1> DEFINE T == {n - x : x \in S}
  <1>1. T \in SUBSET Nat /\ T # {}
    <2>1. \A x \in S : n - x \in Nat
      OBVIOUS
    <2>2. T \subseteq Nat
      BY <2>1
    <2>3. PICK x \in S : TRUE
      OBVIOUS
    <2>4. n - x \in T
      OBVIOUS
    <2> QED
      BY <2>2, <2>4
  <1>2. PICK t \in T : \A u \in T : t <= u
    BY <1>1, LeastElement
  <1>3. PICK m \in S : t = n - m
    OBVIOUS
  <1>4. \A x \in S : m >= x
    <2> TAKE x \in S
    <2>1. n - m <= n - x
      BY <1>2, <1>3
    <2> QED
      BY <2>1
  <1> QED
    BY <1>3, <1>4 DEF Max

LEMMA MaxIsLast ==
    ASSUME NEW n \in Nat, NEW S \in SUBSET (1 .. n), n \in S
    PROVE  Max(S) = n
  <1>1. Max(S) \in S /\ n <= Max(S)
    BY MaxOfSet
  <1>2. Max(S) \in 1 .. n
    BY <1>1
  <1> QED
    BY <1>1, <1>2

\* Taking position i out of a replica list: the ones before it stay, the ones
\* after it move up (the second loop of selectPromotionCandidate).
LEMMA RemoveAtLemma ==
    ASSUME NEW S, NEW q \in Seq(S), NEW i \in 1 .. Len(q)
    PROVE  /\ RemoveAt(q, i) \in Seq(S)
           /\ Len(RemoveAt(q, i)) = Len(q) - 1
           /\ \A k \in 1 .. Len(q) - 1 :
                 RemoveAt(q, i)[k] = IF k < i THEN q[k] ELSE q[k + 1]
  <1> DEFINE a == SubSeq(q, 1, i - 1)
             b == SubSeq(q, i + 1, Len(q))
  <1>1. a \in Seq(S) /\ Len(a) = i - 1 /\ \A k \in 1 .. i - 1 : a[k] = q[k]
    OBVIOUS
  <1>2. b \in Seq(S) /\ Len(b) = Len(q) - i /\ \A k \in 1 .. Len(q) - i : b[k] = q[i + k]
    OBVIOUS
  <1>3. RemoveAt(q, i) = a \o b
    BY DEF RemoveAt
  <1> HIDE DEF a, b
  <1>4. a \o b \in Seq(S)
    BY <1>1, <1>2, ConcatProperties, Zenon
  <1>4a. Len(a \o b) = Len(q) - 1
    <2>1. Len(a \o b) = Len(a) + Len(b)
      BY <1>1, <1>2, ConcatProperties, Zenon
    <2> QED
      BY <1>1, <1>2, <2>1
  <1>5. \A k \in 1 .. Len(q) - 1 : (a \o b)[k] = IF k < i THEN q[k] ELSE q[k + 1]
    BY <1>1, <1>2
  <1> QED
    BY <1>3, <1>4, <1>4a, <1>5

-----------------------------------------------------------------------------
(* The operators of Slices. *)

\* One step of the loop of Filtered.
Filtering(q, keep, s, it) ==
    IF s = {} THEN <<>>
    ELSE IF q[Max(s)] \in keep THEN Append(it[s \ {Max(s)}], q[Max(s)])
    ELSE it[s \ {Max(s)}]

LEMMA FilteringsExist ==
    ASSUME NEW q, NEW keep, NEW n \in Nat
    PROVE  \E it : it = [s \in SUBSET (1 .. n) |-> Filtering(q, keep, s, it)]
  <1> DEFINE S == {k \in Nat : \E it : it = [s \in SUBSET (1 .. k) |-> Filtering(q, keep, s, it)]}
  <1>1. 0 \in S
    <2> DEFINE it == [s \in SUBSET (1 .. 0) |-> <<>>]
    <2>1. \A s \in SUBSET (1 .. 0) : s = {}
      OBVIOUS
    <2>2. it = [s \in SUBSET (1 .. 0) |-> Filtering(q, keep, s, it)]
      BY <2>1 DEF Filtering
    <2> QED
      BY <2>2
  <1>2. ASSUME NEW k \in Nat, k \in S PROVE k + 1 \in S
    <2>1. PICK it : it = [s \in SUBSET (1 .. k) |-> Filtering(q, keep, s, it)]
      BY <1>2
    <2> DEFINE last(s) == IF q[k + 1] \in keep THEN Append(it[s \ {k + 1}], q[k + 1])
                          ELSE it[s \ {k + 1}]
               jt == [s \in SUBSET (1 .. k + 1) |-> IF k + 1 \in s THEN last(s) ELSE it[s]]
    <2>2. ASSUME NEW s \in SUBSET (1 .. k + 1) PROVE jt[s] = Filtering(q, keep, s, jt)
      <3>1. CASE k + 1 \in s
        <4>1. Max(s) = k + 1 /\ s # {}
          <5>1. k + 1 \in Nat
            OBVIOUS
          <5> QED
            BY <3>1, <5>1, MaxIsLast
        <4>2. s \ {k + 1} \in SUBSET (1 .. k)
          OBVIOUS
        <4>3. jt[s \ {k + 1}] = it[s \ {k + 1}]
          BY <4>2
        <4> QED
          BY <3>1, <4>1, <4>3 DEF Filtering
      <3>2. CASE k + 1 \notin s
        <4>1. s \in SUBSET (1 .. k)
          BY <3>2
        <4>2. s # {} => Max(s) \in 1 .. k
          BY <4>1, MaxOfSet
        <4>3. s \ {Max(s)} \in SUBSET (1 .. k) /\ k + 1 \notin s \ {Max(s)}
          BY <3>2, <4>1
        <4>4. jt[s \ {Max(s)}] = it[s \ {Max(s)}] /\ jt[s] = it[s]
          BY <4>1, <4>3
        <4>5. it[s] = Filtering(q, keep, s, it)
          BY <2>1, <4>1
        <4> QED
          BY <4>4, <4>5 DEF Filtering
      <3> QED
        BY <3>1, <3>2
    <2>3. jt = [s \in SUBSET (1 .. k + 1) |-> Filtering(q, keep, s, jt)]
      BY <2>2
    <2> HIDE DEF jt
    <2> QED
      BY <2>3
  <1>3. n \in S
    <2> HIDE DEF S
    <2> QED
      BY <1>1, <1>2, SetInduction
  <1> QED
    BY <1>3

\* Filtered goes through the list once, in order.
LEMMA FilteredRecursion ==
    ASSUME NEW S, NEW q \in Seq(S), NEW keep
    PROVE  \E st : /\ st[0] = <<>>
                   /\ \A k \in 0 .. Len(q) - 1 :
                         st[k + 1] = IF q[k + 1] \in keep THEN Append(st[k], q[k + 1]) ELSE st[k]
                   /\ Filtered(q, keep) = st[Len(q)]
  <1> DEFINE n == Len(q)
             it == CHOOSE it : it = [s \in SUBSET (1 .. n) |-> Filtering(q, keep, s, it)]
             st == [k \in 0 .. n |-> it[1 .. k]]
  <1>0. n \in Nat /\ DOMAIN q = 1 .. n
    OBVIOUS
  <1>1. it = [s \in SUBSET (1 .. n) |-> Filtering(q, keep, s, it)]
    BY <1>0, FilteringsExist
  <1>2. Filtered(q, keep) = it[1 .. n]
    BY <1>0 DEF Filtered, FoldLeft, MapThenFoldSet, Filtering
  <1> HIDE DEF it, n
  <1>3. st[0] = <<>>
    BY <1>0, <1>1 DEF Filtering
  <1>4. ASSUME NEW k \in 0 .. n - 1
        PROVE  st[k + 1] = IF q[k + 1] \in keep THEN Append(st[k], q[k + 1]) ELSE st[k]
    <2>1. 1 .. k + 1 \in SUBSET (1 .. n) /\ 1 .. k + 1 # {}
      BY <1>0
    <2>2. Max(1 .. k + 1) = k + 1
      <3>1. k + 1 \in Nat /\ k + 1 \in 1 .. k + 1 /\ 1 .. k + 1 \in SUBSET (1 .. k + 1)
        BY <1>0
      <3> QED
        BY <3>1, MaxIsLast
    <2>3. (1 .. k + 1) \ {k + 1} = 1 .. k
      OBVIOUS
    <2>4. it[1 .. k + 1] = IF q[k + 1] \in keep THEN Append(it[1 .. k], q[k + 1]) ELSE it[1 .. k]
      BY <1>1, <2>1, <2>2, <2>3 DEF Filtering
    <2> QED
      BY <1>0, <2>4
  <1>5. Filtered(q, keep) = st[n]
    BY <1>0, <1>2
  <1> HIDE DEF st
  <1> QED
    BY <1>3, <1>4, <1>5 DEF n

\* What Filtered returns: the elements that pass, and, of a list in ascending
\* order, in ascending order.
Ascends(q) == \A j, k \in 1 .. Len(q) : j < k => q[j] < q[k]

LEMMA AppendAscends ==
    ASSUME NEW q \in Seq(Nat), NEW x \in Nat, Ascends(q), \A j \in 1 .. Len(q) : q[j] < x
    PROVE  Ascends(Append(q, x))
  <1> DEFINE r == Append(q, x)
  <1>1. Len(r) = Len(q) + 1 /\ (\A j \in 1 .. Len(q) : r[j] = q[j]) /\ r[Len(q) + 1] = x
    BY AppendProperties
  <1> HIDE DEF r
  <1>2. ASSUME NEW j \in 1 .. Len(r), NEW k \in 1 .. Len(r), j < k PROVE r[j] < r[k]
    <2>1. Len(q) \in Nat /\ j \in 1 .. Len(q)
      BY <1>1, <1>2
    <2>2. CASE k \in 1 .. Len(q)
      BY <1>1, <1>2, <2>1, <2>2 DEF Ascends
    <2>3. CASE k = Len(q) + 1
      BY <1>1, <2>1, <2>3
    <2> QED
      BY <1>1, <2>1, <2>2, <2>3
  <1> QED
    BY <1>2 DEF Ascends, r

LEMMA FilteredFacts ==
    ASSUME NEW S, NEW q \in Seq(S), NEW keep
    PROVE  /\ Filtered(q, keep) \in Seq(S)
           /\ ToSet(Filtered(q, keep)) = ToSet(q) \cap keep
  <1>1. PICK st : /\ st[0] = <<>>
                  /\ \A k \in 0 .. Len(q) - 1 :
                        st[k + 1] = IF q[k + 1] \in keep THEN Append(st[k], q[k + 1]) ELSE st[k]
                  /\ Filtered(q, keep) = st[Len(q)]
    BY FilteredRecursion
  <1> DEFINE n == Len(q)
             kept(k) == {q[j] : j \in 1 .. k} \cap keep
             Good == {k \in Nat : k <= n => st[k] \in Seq(S) /\ ToSet(st[k]) = kept(k)}
  <1>0. n \in Nat /\ DOMAIN q = 1 .. n /\ \A j \in 1 .. n : q[j] \in S
    OBVIOUS
  <1>2. 0 \in Good
    <2>1. ToSet(<<>>) = {}
      BY DEF ToSet
    <2>2. kept(0) = {}
      OBVIOUS
    <2>3. <<>> \in Seq(S)
      OBVIOUS
    <2> QED
      BY <1>1, <2>1, <2>2, <2>3
  <1>3. ASSUME NEW k \in Nat, k \in Good PROVE k + 1 \in Good
    <2> SUFFICES ASSUME k + 1 <= n
                 PROVE  st[k + 1] \in Seq(S) /\ ToSet(st[k + 1]) = kept(k + 1)
      OBVIOUS
    <2>1. st[k] \in Seq(S) /\ ToSet(st[k]) = kept(k)
      BY <1>0, <1>3
    <2>2. k \in 0 .. n - 1 /\ k + 1 \in 1 .. n /\ q[k + 1] \in S
      BY <1>0
    <2>3. {q[j] : j \in 1 .. k + 1} = {q[j] : j \in 1 .. k} \cup {q[k + 1]}
      <3>1. 1 .. k + 1 = (1 .. k) \cup {k + 1}
        OBVIOUS
      <3> QED
        BY <3>1
    <2>4. CASE q[k + 1] \in keep
      <3>1. st[k + 1] = Append(st[k], q[k + 1])
        BY <1>1, <2>2, <2>4
      <3>2. Append(st[k], q[k + 1]) \in Seq(S)
        BY <2>1, <2>2
      <3>3. ToSet(Append(st[k], q[k + 1])) = ToSet(st[k]) \cup {q[k + 1]}
        <4> DEFINE m == Len(st[k])
                   r == Append(st[k], q[k + 1])
        <4>1. /\ Len(r) = m + 1 /\ m \in Nat /\ r[m + 1] = q[k + 1]
              /\ \A i \in 1 .. m : r[i] = st[k][i]
          BY <2>1, <2>2, AppendProperties
        <4>2. DOMAIN r = (1 .. m) \cup {m + 1} /\ DOMAIN st[k] = 1 .. m
          BY <2>1, <3>2, <4>1
        <4> HIDE DEF m, r
        <4> QED
          BY <4>1, <4>2 DEF ToSet, r
      <3> QED
        BY <2>1, <2>3, <2>4, <3>1, <3>2, <3>3
    <2>5. CASE q[k + 1] \notin keep
      <3>1. st[k + 1] = st[k]
        BY <1>1, <2>2, <2>5
      <3> QED
        BY <2>1, <2>3, <2>5, <3>1
    <2> QED
      BY <2>4, <2>5
  <1>4. n \in Good
    <2> HIDE DEF Good
    <2> QED
      BY <1>0, <1>2, <1>3, SetInduction
  <1>5. kept(n) = ToSet(q) \cap keep
    BY <1>0 DEF ToSet
  <1> QED
    BY <1>0, <1>1, <1>4, <1>5

LEMMA FilteredAscends ==
    ASSUME NEW q \in Seq(Nat), NEW keep, Ascends(q)
    PROVE  Ascends(Filtered(q, keep))
  <1>1. PICK st : /\ st[0] = <<>>
                  /\ \A k \in 0 .. Len(q) - 1 :
                        st[k + 1] = IF q[k + 1] \in keep THEN Append(st[k], q[k + 1]) ELSE st[k]
                  /\ Filtered(q, keep) = st[Len(q)]
    BY FilteredRecursion
  <1> DEFINE n == Len(q)
             below(k) == \A j \in 1 .. Len(st[k]) : \A i \in k + 1 .. n : st[k][j] < q[i]
             Good == {k \in Nat : k <= n => st[k] \in Seq(Nat) /\ Ascends(st[k]) /\ below(k)}
  <1>0. n \in Nat /\ \A j \in 1 .. n : q[j] \in Nat
    OBVIOUS
  <1>2. 0 \in Good
    <2>1. <<>> \in Seq(Nat) /\ Len(<<>>) = 0
      OBVIOUS
    <2>2. 1 .. 0 = {}
      OBVIOUS
    <2> QED
      BY <1>1, <2>1, <2>2 DEF Ascends
  <1>3. ASSUME NEW k \in Nat, k \in Good PROVE k + 1 \in Good
    <2> SUFFICES ASSUME k + 1 <= n
                 PROVE  st[k + 1] \in Seq(Nat) /\ Ascends(st[k + 1]) /\ below(k + 1)
      OBVIOUS
    <2>1. st[k] \in Seq(Nat) /\ Ascends(st[k]) /\ below(k)
      BY <1>0, <1>3
    <2>2. k \in 0 .. n - 1 /\ k + 1 \in 1 .. n /\ q[k + 1] \in Nat /\ k + 1 \in k + 1 .. n
      BY <1>0
    <2>3. \A i \in k + 1 + 1 .. n : i \in k + 1 .. n /\ q[k + 1] < q[i]
      <3> TAKE i \in k + 1 + 1 .. n
      <3>1. i \in k + 1 .. n /\ i \in 1 .. n /\ k + 1 < i
        BY <1>0
      <3> QED
        BY <2>2, <3>1 DEF Ascends
    <2>4. CASE q[k + 1] \in keep
      <3> DEFINE r == Append(st[k], q[k + 1])
                 m == Len(st[k])
      <3>1. st[k + 1] = r
        BY <1>1, <2>2, <2>4
      <3>2. /\ r \in Seq(Nat) /\ Len(r) = m + 1 /\ m \in Nat /\ r[m + 1] = q[k + 1]
            /\ \A i \in 1 .. m : r[i] = st[k][i]
        BY <2>1, <2>2, AppendProperties
      <3>3. \A j \in 1 .. m : st[k][j] < q[k + 1]
        BY <2>1, <2>2
      <3>4. Ascends(r)
        BY <2>1, <2>2, <3>3, AppendAscends
      <3> HIDE DEF r, m
      <3>5. \A j \in 1 .. m + 1 : \A i \in k + 1 + 1 .. n : r[j] < q[i]
        <4> TAKE j \in 1 .. m + 1
        <4> TAKE i \in k + 1 + 1 .. n
        <4>1. CASE j \in 1 .. m
          BY <2>1, <2>3, <3>2, <4>1 DEF m
        <4>2. CASE j = m + 1
          BY <2>3, <3>2, <4>2
        <4> QED
          BY <3>2, <4>1, <4>2
      <3> QED
        BY <3>1, <3>2, <3>4, <3>5
    <2>5. CASE q[k + 1] \notin keep
      <3>1. st[k + 1] = st[k]
        BY <1>1, <2>2, <2>5
      <3>2. \A j \in 1 .. Len(st[k]) : \A i \in k + 1 + 1 .. n : st[k][j] < q[i]
        BY <2>1, <2>3
      <3> QED
        BY <2>1, <3>1, <3>2
    <2> QED
      BY <2>4, <2>5
  <1>4. n \in Good
    <2> HIDE DEF Good
    <2> QED
      BY <1>0, <1>2, <1>3, SetInduction
  <1> QED
    BY <1>0, <1>1, <1>4

\* A rearrangement of the positions of q that sorts it, as Sorted chooses one.
Sorts(f, q) == /\ f \in Bijection(1 .. Len(q), 1 .. Len(q))
               /\ \A j, k \in 1 .. Len(q) : j < k => q[f[j]] <= q[f[k]]

LEMMA GreatestAt ==
    ASSUME NEW q \in Seq(Nat), Len(q) # 0
    PROVE  \E i \in 1 .. Len(q) : \A k \in 1 .. Len(q) : q[k] <= q[i]
  <1> DEFINE Good == {k \in Nat : k + 1 <= Len(q) =>
                         \E i \in 1 .. k + 1 : \A j \in 1 .. k + 1 : q[j] <= q[i]}
  <1>0. Len(q) \in Nat /\ \A j \in 1 .. Len(q) : q[j] \in Nat
    OBVIOUS
  <1>1. 0 \in Good
    BY <1>0
  <1>2. ASSUME NEW k \in Nat, k \in Good PROVE k + 1 \in Good
    <2> SUFFICES ASSUME k + 1 + 1 <= Len(q)
                 PROVE  \E i \in 1 .. k + 1 + 1 : \A j \in 1 .. k + 1 + 1 : q[j] <= q[i]
      OBVIOUS
    <2>1. PICK i \in 1 .. k + 1 : \A j \in 1 .. k + 1 : q[j] <= q[i]
      BY <1>0, <1>2
    <2>2. q[i] \in Nat /\ q[k + 1 + 1] \in Nat /\ \A j \in 1 .. k + 1 : q[j] \in Nat
      BY <1>0
    <2> DEFINE l == k + 1 + 1
    <2>b. q[l] \in Nat
      BY <2>2
    <2>a. l \in 1 .. l /\ i \in 1 .. l /\ \A j \in 1 .. l : j \in 1 .. k + 1 \/ j = l
      OBVIOUS
    <2> SUFFICES \E m \in 1 .. l : \A j \in 1 .. l : q[j] <= q[m]
      OBVIOUS
    <2> HIDE DEF l
    <2>3. CASE q[l] <= q[i]
      BY <2>1, <2>3, <2>a
    <2>4. CASE q[i] <= q[l]
      <3>1. \A j \in 1 .. l : q[j] <= q[l]
        BY <2>1, <2>2, <2>b, <2>4, <2>a
      <3> QED
        BY <3>1, <2>a
    <2> QED
      BY <2>2, <2>b, <2>3, <2>4
  <1>3. Len(q) - 1 \in Good
    <2>1. Len(q) - 1 \in Nat
      BY <1>0
    <2> HIDE DEF Good
    <2> QED
      BY <1>1, <1>2, <2>1, SetInduction
  <1> QED
    BY <1>0, <1>3

\* Making room at position i.
Up(n, i) == [j \in 1 .. n |-> IF j < i THEN j ELSE j + 1]

LEMMA UpFacts ==
    ASSUME NEW n \in Nat, NEW i \in 1 .. n + 1
    PROVE  /\ \A j \in 1 .. n : Up(n, i)[j] \in 1 .. n + 1 /\ Up(n, i)[j] # i
           /\ \A j, k \in 1 .. n : Up(n, i)[j] = Up(n, i)[k] => j = k
           /\ \A t \in 1 .. n + 1 : t # i => \E j \in 1 .. n : Up(n, i)[j] = t
  <1>1. \A t \in 1 .. n + 1 : t # i => \E j \in 1 .. n : Up(n, i)[j] = t
    <2> TAKE t \in 1 .. n + 1
    <2>1. CASE t < i
      <3>1. t \in 1 .. n /\ Up(n, i)[t] = t
        BY <2>1 DEF Up
      <3> QED
        BY <3>1
    <2>2. CASE t > i
      <3>1. t - 1 \in 1 .. n /\ Up(n, i)[t - 1] = t
        BY <2>2 DEF Up
      <3> QED
        BY <3>1
    <2> QED
      BY <2>1, <2>2
  <1>2. \A j \in 1 .. n : Up(n, i)[j] \in 1 .. n + 1 /\ Up(n, i)[j] # i
    BY DEF Up
  <1>3. \A j, k \in 1 .. n : Up(n, i)[j] = Up(n, i)[k] => j = k
    BY DEF Up
  <1> QED
    BY <1>1, <1>2, <1>3

LEMMA SortingExists ==
    ASSUME NEW q \in Seq(Nat)
    PROVE  \E f : Sorts(f, q)
  <1> DEFINE Good == {n \in Nat : \A p \in Seq(Nat) : Len(p) = n => \E f : Sorts(f, p)}
  <1>1. 0 \in Good
    <2> SUFFICES ASSUME NEW p \in Seq(Nat), Len(p) = 0 PROVE \E f : Sorts(f, p)
      OBVIOUS
    <2>1. Sorts([k \in 1 .. 0 |-> k], p)
      BY DEF Sorts, Bijection, Injection, Surjection, IsInjective
    <2> QED
      BY <2>1
  <1>2. ASSUME NEW n \in Nat, n \in Good PROVE n + 1 \in Good
    <2> SUFFICES ASSUME NEW p \in Seq(Nat), Len(p) = n + 1 PROVE \E f : Sorts(f, p)
      OBVIOUS
    <2>0. Len(p) # 0 /\ 1 .. Len(p) = 1 .. n + 1
      OBVIOUS
    <2>1. PICK i \in 1 .. Len(p) : \A k \in 1 .. Len(p) : p[k] <= p[i]
      BY <2>0, GreatestAt, Zenon
    <2>2. i \in 1 .. n + 1 /\ \A k \in 1 .. n + 1 : p[k] <= p[i]
      BY <2>0, <2>1
    <2> DEFINE r == RemoveAt(p, i)
               up == Up(n, i)
    <2>3. r \in Seq(Nat) /\ Len(r) = n /\ \A k \in 1 .. n : r[k] = p[up[k]]
      <3>1. /\ RemoveAt(p, i) \in Seq(Nat)
            /\ Len(RemoveAt(p, i)) = Len(p) - 1
            /\ \A k \in 1 .. Len(p) - 1 :
                  RemoveAt(p, i)[k] = IF k < i THEN p[k] ELSE p[k + 1]
        BY RemoveAtLemma, Zenon
      <3> HIDE DEF r
      <3>2. Len(p) - 1 = n
        OBVIOUS
      <3>3. \A k \in 1 .. n : r[k] = IF k < i THEN p[k] ELSE p[k + 1]
        BY <3>1, <3>2, Zenon DEF r
      <3>4. \A k \in 1 .. n : p[up[k]] = IF k < i THEN p[k] ELSE p[k + 1]
        BY Zenon DEF Up
      <3> QED
        BY <3>1, <3>2, <3>3, <3>4 DEF r
    <2>4. /\ \A j \in 1 .. n : up[j] \in 1 .. n + 1 /\ up[j] # i
          /\ \A j, k \in 1 .. n : up[j] = up[k] => j = k
          /\ \A t \in 1 .. n + 1 : t # i => \E j \in 1 .. n : up[j] = t
      BY <2>2, UpFacts
    <2> HIDE DEF r, up
    <2>5. PICK g : Sorts(g, r)
      BY <1>2, <2>3
    <2>6. /\ g \in [1 .. n -> 1 .. n]
          /\ \A j, k \in 1 .. n : g[j] = g[k] => j = k
          /\ \A t \in 1 .. n : \E j \in 1 .. n : g[j] = t
          /\ \A j, k \in 1 .. n : j < k => r[g[j]] <= r[g[k]]
      BY <2>3, <2>5 DEF Sorts, Bijection, Injection, Surjection, IsInjective
    <2> DEFINE f == [k \in 1 .. n + 1 |-> IF k = n + 1 THEN i ELSE up[g[k]]]
    <2>7. \A k \in 1 .. n : f[k] = up[g[k]] /\ g[k] \in 1 .. n
      BY <2>6
    <2>8. f[n + 1] = i
      OBVIOUS
    <2>a. \A k \in 1 .. n + 1 : k \in 1 .. n \/ k = n + 1
      OBVIOUS
    <2>b. f = [k \in 1 .. n + 1 |-> f[k]] /\ \A k \in 1 .. n : k \in 1 .. n + 1
      OBVIOUS
    <2> HIDE DEF f
    <2>c. \A k \in 1 .. n : f[k] \in 1 .. n + 1 /\ f[k] # i
      <3> TAKE k \in 1 .. n
      <3>1. f[k] = up[g[k]] /\ g[k] \in 1 .. n
        BY <2>7, Zenon
      <3>2. up[g[k]] \in 1 .. n + 1 /\ up[g[k]] # i
        BY <2>4, <3>1, Zenon
      <3> QED
        BY <3>1, <3>2, Zenon
    <2>d. f \in [1 .. n + 1 -> 1 .. n + 1]
      <3>1. \A k \in 1 .. n + 1 : f[k] \in 1 .. n + 1
        BY <2>2, <2>8, <2>a, <2>c, Zenon
      <3> QED
        BY <2>b, <3>1, Zenon
    <2>e. ASSUME NEW j \in 1 .. n + 1, NEW k \in 1 .. n + 1, f[j] = f[k] PROVE j = k
      <3>1. CASE j \in 1 .. n /\ k \in 1 .. n
        <4>1. g[j] \in 1 .. n /\ g[k] \in 1 .. n /\ up[g[j]] = up[g[k]]
          BY <2>7, <2>e, <3>1, Zenon
        <4>2. g[j] = g[k]
          BY <2>4, <4>1, Zenon
        <4> QED
          BY <2>6, <3>1, <4>2, Zenon
      <3> QED
        BY <2>8, <2>a, <2>c, <2>e, <3>1, Zenon
    <2>f. ASSUME NEW t \in 1 .. n + 1 PROVE \E j \in 1 .. n + 1 : f[j] = t
      <3>1. CASE t = i
        <4>1. n + 1 \in 1 .. n + 1
          OBVIOUS
        <4> QED
          BY <2>8, <3>1, <4>1
      <3>2. CASE t # i
        <4>1. PICK j \in 1 .. n : up[j] = t
          BY <2>4, <3>2
        <4>2. PICK k \in 1 .. n : g[k] = j
          BY <2>6
        <4>3. f[k] = t /\ k \in 1 .. n + 1
          BY <2>7, <2>b, <4>1, <4>2
        <4> QED
          BY <4>3
      <3> QED
        BY <3>1, <3>2
    <2>g. ASSUME NEW j \in 1 .. n + 1, NEW k \in 1 .. n + 1, j < k PROVE p[f[j]] <= p[f[k]]
      <3>1. CASE k = n + 1
        BY <2>2, <2>8, <2>d, <3>1
      <3>2. CASE k \in 1 .. n
        <4>1. j \in 1 .. n
          BY <2>g, <3>2
        <4>2. g[j] \in 1 .. n /\ g[k] \in 1 .. n /\ r[g[j]] <= r[g[k]]
          BY <2>6, <2>g, <3>2, <4>1
        <4>3. p[up[g[j]]] = r[g[j]] /\ p[up[g[k]]] = r[g[k]]
          BY <2>3, <4>2
        <4> QED
          BY <2>7, <3>2, <4>1, <4>2, <4>3
      <3> QED
        BY <2>a, <3>1, <3>2
    <2>10. Sorts(f, p)
      BY <2>0, <2>d, <2>e, <2>f, <2>g DEF Sorts, Bijection, Injection, Surjection, IsInjective
    <2> QED
      BY <2>10
  <1>3. Len(q) \in Good
    <2> HIDE DEF Good
    <2> QED
      BY <1>1, <1>2, SetInduction
  <1> QED
    BY <1>3

\* Sorting a list without repetitions: the same elements, ascending.
LEMMA SortedFacts ==
    ASSUME NEW S \in SUBSET Nat, NEW q \in Seq(S), IsInjective(q)
    PROVE  Sorted(q) \in Seq(S) /\ ToSet(Sorted(q)) = ToSet(q) /\ Ascends(Sorted(q))
  <1> DEFINE n == Len(q)
             Asc(f) == \A j, k \in 1 .. n : j < k => q[f[j]] <= q[f[k]]
             p == CHOOSE f \in Bijection(1 .. n, 1 .. n) : Asc(f)
             r == [k \in 1 .. n |-> q[p[k]]]
  <1>a. n \in Nat /\ DOMAIN q = 1 .. n /\ q \in [1 .. n -> S]
    OBVIOUS
  <1>b. q \in [1 .. n -> Nat]
    BY <1>a
  <1>0. n \in Nat /\ DOMAIN q = 1 .. n /\ q \in Seq(Nat) /\ \A k \in 1 .. n : q[k] \in S
    BY <1>a, <1>b
  <1>1. p \in Bijection(1 .. n, 1 .. n) /\ Asc(p)
    <2>1. \E f \in Bijection(1 .. n, 1 .. n) : Asc(f)
      BY <1>0, SortingExists DEF Sorts
    <2> QED
      BY <2>1
  <1>2. Sorted(q) = r
    BY DEF Sorted
  <1> HIDE DEF p
  <1>3. /\ p \in [1 .. n -> 1 .. n]
        /\ \A j, k \in 1 .. n : p[j] = p[k] => j = k
        /\ \A t \in 1 .. n : \E j \in 1 .. n : p[j] = t
    BY <1>1 DEF Bijection, Injection, Surjection, IsInjective
  <1>4. r \in [1 .. n -> S] /\ \A k \in 1 .. n : r[k] = q[p[k]]
    BY <1>0, <1>3
  <1>5. r \in Seq(S) /\ Len(r) = n
    BY <1>0, <1>4
  <1> HIDE DEF r, n
  <1>6. ToSet(r) = ToSet(q)
    <2>1. \A k \in 1 .. n : r[k] \in ToSet(q)
      BY <1>0, <1>3, <1>4 DEF ToSet
    <2>2. \A t \in 1 .. n : \E j \in 1 .. n : r[j] = q[t]
      BY <1>3, <1>4
    <2>3. DOMAIN r = 1 .. n
      BY <1>4
    <2> QED
      BY <1>0, <2>1, <2>2, <2>3 DEF ToSet
  <1>7. Ascends(r)
    <2> SUFFICES ASSUME NEW j \in 1 .. n, NEW k \in 1 .. n, j < k PROVE r[j] < r[k]
      BY <1>5 DEF Ascends
    <2>1. q[p[j]] <= q[p[k]] /\ p[j] # p[k] /\ p[j] \in 1 .. n /\ p[k] \in 1 .. n
      BY <1>0, <1>1, <1>3
    <2>2. q[p[j]] # q[p[k]]
      BY <1>0, <2>1 DEF IsInjective
    <2>3. q[p[j]] \in Nat /\ q[p[k]] \in Nat
      BY <1>0, <2>1
    <2> QED
      BY <1>4, <2>1, <2>2, <2>3
  <1> QED
    BY <1>2, <1>5, <1>6, <1>7

\* A finite set as a list: every element once.
LEMMA SetToSeqFacts ==
    ASSUME NEW S, IsFiniteSet(S)
    PROVE  SetToSeq(S) \in Seq(S) /\ IsInjective(SetToSeq(S)) /\ ToSet(SetToSeq(S)) = S
  <1> DEFINE n == Cardinality(S)
             f == SetToSeq(S)
  <1>1. n \in Nat /\ \E g : g \in Bijection(1 .. n, S)
    BY FS_CardinalityType DEF ExistsBijection
  <1>2. \E g \in [1 .. n -> S] : IsInjective(g)
    BY <1>1 DEF Bijection, Injection
  <1>3. f \in [1 .. n -> S] /\ IsInjective(f)
    BY <1>2 DEF SetToSeq
  <1>4. f \in Injection(1 .. n, S)
    BY <1>3 DEF Injection
  <1>5. IsFiniteSet(1 .. n) /\ Cardinality(1 .. n) = n
    BY <1>1, FS_Interval
  <1>6. f \in Surjection(1 .. n, S)
    BY <1>4, <1>5, FS_Injection
  <1> HIDE DEF f, n
  <1>7. f \in Seq(S)
    BY <1>1, <1>3
  <1>8. ToSet(f) = S
    BY <1>3, <1>6 DEF ToSet, Surjection
  <1> QED
    BY <1>3, <1>7, <1>8 DEF f

-----------------------------------------------------------------------------
(* Loops written as folds. *)

\* The fold over the first n numbers with the step F, and that there is one.
IsFold(n, base, F, it) ==
    \A s \in SUBSET (1 .. n) :
        it[s] = IF s = {} THEN base ELSE F[<<Max(s), it[s \ {Max(s)}]>>]

LEMMA FoldingsExist ==
    ASSUME NEW n \in Nat, NEW A, NEW base \in A, NEW F \in [(1 .. n) \X A -> A]
    PROVE  \E it \in [SUBSET (1 .. n) -> A] : IsFold(n, base, F, it)
  <1> USE DEF IsFold
  <1> DEFINE Exists(k) == \E it \in [SUBSET (1 .. k) -> A] : IsFold(k, base, F, it)
             S == {k \in Nat : k <= n => Exists(k)}
  <1>1. 0 \in S
    <2> DEFINE it == [s \in SUBSET (1 .. 0) |-> base]
    <2>1. \A s \in SUBSET (1 .. 0) : s = {}
      OBVIOUS
    <2>2. it \in [SUBSET (1 .. 0) -> A] /\ IsFold(0, base, F, it)
      BY <2>1
    <2> QED
      BY <2>2
  <1>2. ASSUME NEW k \in Nat, k \in S PROVE k + 1 \in S
    <2> SUFFICES ASSUME k + 1 <= n PROVE Exists(k + 1)
      <3> HIDE DEF Exists
      <3> QED
        OBVIOUS
    <2>a. Exists(k)
      <3> HIDE DEF Exists
      <3> QED
        BY <1>2
    <2>1. PICK it \in [SUBSET (1 .. k) -> A] : IsFold(k, base, F, it)
      BY <2>a, Zenon
    <2> DEFINE jt == [s \in SUBSET (1 .. k + 1) |->
                        IF k + 1 \in s THEN F[<<k + 1, it[s \ {k + 1}]>>] ELSE it[s]]
    <2>2. ASSUME NEW s \in SUBSET (1 .. k + 1)
          PROVE  /\ jt[s] \in A
                 /\ jt[s] = IF s = {} THEN base ELSE F[<<Max(s), jt[s \ {Max(s)}]>>]
      <3>1. CASE k + 1 \in s
        <4>1. Max(s) = k + 1 /\ s # {}
          <5>1. k + 1 \in Nat
            OBVIOUS
          <5> QED
            BY <3>1, <5>1, MaxIsLast
        <4>2. s \ {k + 1} \in SUBSET (1 .. k) /\ s \ {k + 1} \in SUBSET (1 .. k + 1)
          OBVIOUS
        <4>3. jt[s \ {k + 1}] = it[s \ {k + 1}] /\ it[s \ {k + 1}] \in A
          BY <2>1, <4>2
        <4>4. jt[s] = F[<<k + 1, it[s \ {k + 1}]>>]
          BY <3>1
        <4>5. <<k + 1, it[s \ {k + 1}]>> \in (1 .. n) \X A
          BY <4>3
        <4> HIDE DEF jt
        <4> QED
          BY <4>1, <4>3, <4>4, <4>5
      <3>2. CASE k + 1 \notin s
        <4>1. s \in SUBSET (1 .. k)
          BY <3>2
        <4>2. s \ {Max(s)} \in SUBSET (1 .. k) /\ s \ {Max(s)} \in SUBSET (1 .. k + 1)
              /\ k + 1 \notin s \ {Max(s)}
          BY <3>2, <4>1
        <4>3. jt[s \ {Max(s)}] = it[s \ {Max(s)}] /\ jt[s] = it[s] /\ it[s] \in A
          BY <2>1, <3>2, <4>1, <4>2
        <4> HIDE DEF jt
        <4> QED
          BY <2>1, <4>1, <4>3
      <3> QED
        BY <3>1, <3>2
    <2>3. jt \in [SUBSET (1 .. k + 1) -> A] /\ IsFold(k + 1, base, F, jt)
      <3>1. jt \in [SUBSET (1 .. k + 1) -> A]
        BY <2>2
      <3> HIDE DEF jt
      <3> QED
        BY <2>2, <3>1
    <2> HIDE DEF jt
    <2> QED
      BY <2>3
  <1>3. n \in S
    <2> HIDE DEF S
    <2> QED
      BY <1>1, <1>2, SetInduction
  <1>4. Exists(n)
    <2> HIDE DEF Exists
    <2> QED
      BY <1>3
  <1> QED
    BY <1>4, Zenon

\* The elements a loop has gone through after k + 1 of its turns.
LEMMA Turns ==
    ASSUME NEW n \in Nat, NEW k \in 0 .. n - 1
    PROVE  /\ 1 .. k + 1 \in SUBSET (1 .. n) /\ 1 .. k + 1 # {}
           /\ Max(1 .. k + 1) = k + 1 /\ (1 .. k + 1) \ {k + 1} = 1 .. k
  <1>1. k + 1 \in Nat /\ k + 1 \in 1 .. k + 1 /\ 1 .. k + 1 \in SUBSET (1 .. k + 1)
    OBVIOUS
  <1>2. Max(1 .. k + 1) = k + 1
    BY <1>1, MaxIsLast
  <1> QED
    BY <1>2
=============================================================================
