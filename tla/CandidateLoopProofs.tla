------------------------ MODULE CandidateLoopProofs ------------------------
(***************************************************************************)
(* The loops of selectPromotionCandidate compute the candidate that        *)
(* HealthChecker's Promote uses, for replica lists of every length.        *)
(***************************************************************************)
EXTENDS CandidateLoop, ListFacts

LEMMA LagsAreNumbers ==
    ASSUME NEW q \in Seq(Node), NEW k \in 1 .. Len(q)
    PROVE  q[k] \in Node /\ q[k].lagMS \in Nat
  <1>1. q[k] \in Node
    OBVIOUS
  <1> QED
    BY <1>1 DEF Node

\* The first loop: one more replica has been looked at.
LEMMA SelectStepInv ==
    ASSUME LoopInv, SelectStep
    PROVE  LoopInv'
  <1> USE DEF LoopInv
  <1>1. /\ pc = "select" /\ pc' = "select" /\ i \in 1 .. Len(replicas) /\ i' = i + 1
        /\ replicas' = replicas /\ remaining' = remaining
        /\ replicas[i] \in Node
    BY DEF SelectStep
  <1>2. \A k \in 1 .. Len(replicas) : replicas[k].lagMS \in Nat
    BY LagsAreNumbers
  <1> DEFINE take == /\ replicas[i].status # "DOWN"
                     /\ best = 0 \/ replicas[i].lagMS < replicas[best].lagMS
             seen(n) == {k \in Usable(replicas) : k < n}
  <1>3. best' = IF take THEN i ELSE best
    BY DEF SelectStep
  <1>4. /\ \A k \in seen(i + 1) : k \in seen(i) \/ k = i
        /\ \A k \in seen(i) : k \in seen(i + 1) /\ k < i
        /\ i \in seen(i + 1) <=> replicas[i].status # "DOWN"
        /\ \A n : \A k \in seen(n) : k \in 1 .. Len(replicas)
    BY <1>1 DEF Usable
  <1>5. IF best = 0 THEN seen(i) = {}
        ELSE /\ best \in seen(i)
             /\ \A k \in seen(i) :
                   \/ replicas[best].lagMS < replicas[k].lagMS
                   \/ replicas[best].lagMS = replicas[k].lagMS /\ best <= k
    BY <1>1 DEF BestSoFar
  <1> HIDE DEF seen
  <1>6. IF best' = 0 THEN seen(i + 1) = {}
        ELSE /\ best' \in seen(i + 1)
             /\ \A k \in seen(i + 1) :
                   \/ replicas[best'].lagMS < replicas[k].lagMS
                   \/ replicas[best'].lagMS = replicas[k].lagMS /\ best' <= k
    <2>1. CASE take
      <3>1. best' = i /\ i # 0 /\ i \in seen(i + 1)
        BY <1>1, <1>3, <1>4, <2>1
      <3>2. ASSUME NEW k \in seen(i)
            PROVE  replicas[i].lagMS < replicas[k].lagMS
        <4>1. best # 0 /\ replicas[i].lagMS < replicas[best].lagMS
          BY <1>5, <2>1
        <4>2. /\ best \in 1 .. Len(replicas) /\ k \in 1 .. Len(replicas)
              /\ \/ replicas[best].lagMS < replicas[k].lagMS
                 \/ replicas[best].lagMS = replicas[k].lagMS
          BY <1>4, <1>5, <4>1
        <4>3. /\ replicas[i].lagMS \in Nat /\ replicas[best].lagMS \in Nat
              /\ replicas[k].lagMS \in Nat
          BY <1>1, <1>2, <4>2
        <4> QED
          BY <4>1, <4>2, <4>3
      <3> QED
        BY <1>1, <1>4, <3>1, <3>2
    <2>2. CASE ~take
      BY <1>1, <1>2, <1>3, <1>4, <1>5, <2>2
    <2> QED
      BY <2>1, <2>2
  <1>7. BestSoFar'
    BY <1>1, <1>6 DEF BestSoFar, seen
  <1>8. RemainingSoFar'
    BY <1>1 DEF RemainingSoFar, Copied
  <1> QED
    BY <1>1, <1>3, <1>7, <1>8

LEMMA SelectEndInv ==
    ASSUME LoopInv, SelectEnd
    PROVE  LoopInv'
  <1>1. BestSoFar'
    BY DEF LoopInv, SelectEnd, BestSoFar, Usable
  <1>2. RemainingSoFar'
    BY DEF LoopInv, SelectEnd, RemainingSoFar, Copied
  <1> QED
    BY <1>1, <1>2 DEF LoopInv, SelectEnd

\* The second loop: one more replica has been copied, or left out.
LEMMA CollectStepInv ==
    ASSUME LoopInv, CollectStep
    PROVE  LoopInv'
  <1> USE DEF LoopInv
  <1>1. /\ pc = "collect" /\ pc' = pc /\ i \in 1 .. Len(replicas) /\ i' = i + 1
        /\ replicas' = replicas /\ best' = best /\ best \in 1 .. Len(replicas)
        /\ replicas[i] \in Node
    BY DEF CollectStep
  <1>2. BestSoFar'
    BY <1>1 DEF BestSoFar
  <1>3. CASE i = best
    BY <1>1, <1>2, <1>3 DEF CollectStep, RemainingSoFar, Copied
  <1>4. CASE i # best
    <2>1. remaining' = Append(remaining, replicas[i])
      BY <1>4 DEF CollectStep
    <2>2. /\ remaining' \in Seq(Node) /\ Len(remaining') = Len(remaining) + 1
          /\ \A k \in 1 .. Len(remaining) : remaining'[k] = remaining[k]
          /\ remaining'[Len(remaining) + 1] = replicas[i]
      BY <1>1, <2>1
    <2>3. Len(remaining) = Copied /\ Copied' = Copied + 1
          /\ Copied \in Nat /\ Copied = IF best < i THEN i - 2 ELSE i - 1
      BY <1>1, <1>4 DEF RemainingSoFar, Copied
    <2>4. \A k \in 1 .. Copied : remaining[k] = IF k < best THEN replicas[k] ELSE replicas[k + 1]
      BY DEF RemainingSoFar
    <2>5. ASSUME NEW k \in 1 .. Copied + 1
          PROVE  remaining'[k] = IF k < best THEN replicas[k] ELSE replicas[k + 1]
      <3>1. CASE k = Copied + 1
        BY <1>1, <1>4, <2>2, <2>3, <3>1
      <3>2. CASE k \in 1 .. Copied
        BY <2>2, <2>3, <2>4, <3>2
      <3> QED
        BY <2>3, <3>1, <3>2
    <2>6. RemainingSoFar'
      BY <1>1, <2>2, <2>3, <2>5 DEF RemainingSoFar
    <2> QED
      BY <1>1, <1>2, <2>2, <2>6
  <1> QED
    BY <1>3, <1>4

LEMMA CollectEndInv ==
    ASSUME LoopInv, CollectEnd
    PROVE  LoopInv'
  <1>1. /\ pc = "collect" /\ pc' = "done" /\ i = Len(replicas) + 1
        /\ UNCHANGED <<replicas, i, best, remaining>>
    BY DEF LoopInv, CollectEnd
  <1>2. BestSoFar'
    BY <1>1 DEF LoopInv, BestSoFar
  <1>3. RemainingSoFar'
    BY <1>1 DEF LoopInv, RemainingSoFar, Copied
  <1> QED
    BY <1>1, <1>2, <1>3 DEF LoopInv

LEMMA LoopResult == LoopInv => LoopSelectsCandidate
  <1> SUFFICES ASSUME LoopInv, pc = "done" PROVE LoopSelectsCandidate
    BY DEF LoopSelectsCandidate
  <1> USE DEF LoopInv
  <1>1. CASE best = 0
    BY <1>1 DEF LoopSelectsCandidate, BestSoFar
  <1>2. CASE best # 0
    <2>1. /\ best \in Usable(replicas) /\ best \in 1 .. Len(replicas)
          /\ \A k \in Usable(replicas) :
                \/ replicas[best].lagMS < replicas[k].lagMS
                \/ replicas[best].lagMS = replicas[k].lagMS /\ best <= k
      BY <1>2 DEF BestSoFar
    <2>2. \A k \in Usable(replicas) :
             k \in 1 .. Len(replicas) /\ replicas[k].lagMS \in Nat
      BY LagsAreNumbers DEF Usable
    <2>3. selectPromotionCandidate(replicas) = {best}
      <3>1. best \in selectPromotionCandidate(replicas)
        BY <2>1 DEF selectPromotionCandidate
      <3>2. ASSUME NEW k \in selectPromotionCandidate(replicas) PROVE k = best
        <4>1. /\ k \in Usable(replicas)
              /\ \/ replicas[k].lagMS < replicas[best].lagMS
                 \/ replicas[k].lagMS = replicas[best].lagMS /\ k <= best
          BY <2>1 DEF selectPromotionCandidate
        <4>2. \/ replicas[best].lagMS < replicas[k].lagMS
              \/ replicas[best].lagMS = replicas[k].lagMS /\ best <= k
          BY <2>1, <4>1
        <4>3. replicas[k].lagMS \in Nat /\ replicas[best].lagMS \in Nat
          BY <2>1, <2>2, <4>1
        <4>4. k \in 1 .. Len(replicas)
          BY <4>1 DEF Usable
        <4>5. Len(replicas) \in Nat
          OBVIOUS
        <4> HIDE DEF LoopInv
        <4> QED
          BY <2>1, <4>1, <4>2, <4>3, <4>4, <4>5
      <3> QED
        BY <3>1, <3>2
    <2>4. /\ RemoveAt(replicas, best) \in Seq(Node)
          /\ Len(RemoveAt(replicas, best)) = Len(replicas) - 1
          /\ \A k \in 1 .. Len(replicas) - 1 :
                RemoveAt(replicas, best)[k] =
                    IF k < best THEN replicas[k] ELSE replicas[k + 1]
      BY <2>1, RemoveAtLemma
    <2>5. /\ remaining \in Seq(Node)
          /\ Len(remaining) = Len(replicas) - 1
          /\ \A k \in 1 .. Len(replicas) - 1 :
                remaining[k] = IF k < best THEN replicas[k] ELSE replicas[k + 1]
      BY <1>2, <2>1 DEF RemainingSoFar, Copied
    <2>6. remaining = RemoveAt(replicas, best)
      <3> DEFINE r == RemoveAt(replicas, best)
      <3>1. /\ r \in Seq(Node) /\ Len(r) = Len(remaining)
            /\ \A k \in 1 .. Len(remaining) : r[k] = remaining[k]
        BY <2>4, <2>5
      <3> HIDE DEF r
      <3>2. r = remaining
        BY <2>5, <3>1, SeqEqual
      <3> QED
        BY <3>2 DEF r
    <2> QED
      BY <1>2, <2>3, <2>6 DEF LoopSelectsCandidate
  <1> QED
    BY <1>1, <1>2

\* selectPromotionCandidate, whatever list it is called with, ends with the
\* least-lagged usable replica and exactly the others, or finds all DOWN.
THEOREM LoopIsCorrect == Spec => []LoopSelectsCandidate
  <1>1. Init => LoopInv
    <2> SUFFICES ASSUME Init PROVE LoopInv
      OBVIOUS
    <2>1. replicas \in Seq(Node) /\ pc = "select" /\ i = 1 /\ best = 0 /\ remaining = <<>>
      BY ReplicaListsType DEF Init
    <2>2. BestSoFar
      BY <2>1 DEF BestSoFar, Usable
    <2>3. RemainingSoFar
      BY <2>1 DEF RemainingSoFar, Copied
    <2> QED
      BY <2>1, <2>2, <2>3 DEF LoopInv
  <1>2. LoopInv /\ [Next]_vars => LoopInv'
    <2> SUFFICES ASSUME LoopInv, [Next]_vars PROVE LoopInv'
      OBVIOUS
    <2>1. CASE UNCHANGED vars
      BY <2>1 DEF vars, LoopInv, BestSoFar, RemainingSoFar, Copied
    <2> QED
      BY <2>1, SelectStepInv, SelectEndInv, CollectStepInv, CollectEndInv DEF Next
  <1> QED
    BY <1>1, <1>2, LoopResult, PTL DEF Spec
=============================================================================
