-------------------------- MODULE PrioQueue_proofs --------------------------
(***************************************************************************)
(* For every number of slots and every set of priorities: the queue is     *)
(* ordered by priority and arrival, and loses no slot.                     *)
(***************************************************************************)
EXTENDS PrioQueue, SequenceTheorems, FiniteSetTheorems, TLAPS

(***************************************************************************)
(* The inductive invariant.  PriorityFifo alone is not preserved: writing  *)
(* the priority and the past of the slot that PutInto uses, and clearing   *)
(* the slot that Take frees, must not touch a message that stays, so the   *)
(* slots have to be different.                                             *)
(***************************************************************************)
PQInv == PQTypeOK /\ SlotsConserved /\ PriorityFifo

\* What inserting a slot at position k makes of the sequence.
LEMMA InsertedFacts ==
    ASSUME PQTypeOK, NEW s \in Slots, NEW k \in 1..(Len(msgs) + 1)
    PROVE  /\ Len(msgs) \in Nat
           /\ Inserted(k, s) \in Seq(Slots)
           /\ Len(Inserted(k, s)) = Len(msgs) + 1
           /\ \A i \in 1..(Len(msgs) + 1) :
                 Inserted(k, s)[i] = IF i < k THEN msgs[i]
                                     ELSE IF i = k THEN s ELSE msgs[i - 1]
<1>1. Len(msgs) \in Nat /\ \A i \in 1..Len(msgs) : msgs[i] \in Slots
  BY LenProperties, ElementOfSeq DEF PQTypeOK
<1> DEFINE n == Len(msgs) + 1
<1>2. n \in Nat
  BY <1>1
<1>3. \A i \in 1..n : (IF i < k THEN msgs[i] ELSE IF i = k THEN s ELSE msgs[i - 1])
                        \in Slots
  BY <1>1
<1>4. Inserted(k, s) \in [1..n -> Slots]
  BY <1>3 DEF Inserted
<1>5. Inserted(k, s) \in Seq(Slots)
  BY <1>2, <1>4, SeqDef
<1>6. Len(Inserted(k, s)) = n
  <2>1. DOMAIN Inserted(k, s) = 1..n
    BY DEF Inserted
  <2>2. DOMAIN Inserted(k, s) = 1..Len(Inserted(k, s))
        /\ Len(Inserted(k, s)) \in Nat
    BY <1>5, LenProperties
  <2> QED BY <2>1, <2>2, <1>2
<1> QED BY <1>1, <1>5, <1>6 DEF Inserted

\* What taking the first message makes of the sequence.
LEMMA TailFacts ==
    ASSUME PQTypeOK, msgs # <<>>
    PROVE  /\ Len(msgs) \in Nat \ {0}
           /\ Head(msgs) = msgs[1] /\ msgs[1] \in Slots
           /\ Tail(msgs) \in Seq(Slots)
           /\ Len(Tail(msgs)) = Len(msgs) - 1
           /\ \A i \in 1..(Len(msgs) - 1) : Tail(msgs)[i] = msgs[i + 1]
<1>1. msgs \in Seq(Slots)
  BY DEF PQTypeOK
<1>2. Len(msgs) \in Nat \ {0}
  BY <1>1, EmptySeq
<1>3. /\ Tail(msgs) \in Seq(Slots) /\ Len(Tail(msgs)) = Len(msgs) - 1
      /\ \A i \in 1..Len(Tail(msgs)) : Tail(msgs)[i] = msgs[i + 1]
  BY <1>1, HeadTailProperties
<1>4. Head(msgs) = msgs[1] /\ msgs[1] \in Slots
  BY <1>1, <1>2, ElementOfSeq
<1> QED BY <1>2, <1>3, <1>4

\* mymq_send: the slot leaves the free list and gets the place its priority
\* gives it, behind every older message of the same priority.
LEMMA PutStep ==
    ASSUME PQInv, NEW pr \in Nat, NEW s, PutInto(pr, s)
    PROVE  PQInv' /\ Len(msgs') = Len(msgs) + 1
<1> USE DEF PQInv
<1>0. s \in free /\ s \in Slots
  BY DEF PutInto, PQTypeOK
<1>1. PICK k \in 1..(Len(msgs) + 1) : Placed(pr, k) /\ msgs' = Inserted(k, s)
  BY DEF PutInto
<1>2. /\ Len(msgs) \in Nat /\ k \in Nat
      /\ msgs' \in Seq(Slots) /\ Len(msgs') = Len(msgs) + 1
      /\ \A i \in 1..Len(msgs') :
            msgs'[i] = IF i < k THEN msgs[i] ELSE IF i = k THEN s ELSE msgs[i - 1]
  BY <1>0, <1>1, InsertedFacts
<1>3. /\ free' = free \ {s}
      /\ prio' = [prio EXCEPT ![s] = pr]
      /\ older' = [older EXCEPT ![s] = Queued]
  BY DEF PutInto
<1>4. \A i \in 1..Len(msgs) : msgs[i] \in Slots /\ msgs[i] # s /\ msgs[i] \in Queued
  BY <1>0 DEF SlotsConserved, Queued
<1>5. PQTypeOK'
  <2>1. prio' \in [Slots -> Nat]
    BY <1>3 DEF PQTypeOK
  <2>2. Queued \subseteq Slots
    BY DEF SlotsConserved
  <2>3. older' \in [Slots -> SUBSET Slots]
    BY <1>3, <2>2 DEF PQTypeOK
  <2> QED BY <1>2, <1>3, <2>1, <2>3 DEF PQTypeOK
<1>6. SlotsConserved'
  <2>1. Queued' = Queued \cup {s}
    <3>1. \A x \in Queued' : x \in Queued \cup {s}
      BY <1>2 DEF Queued
    <3>2. s \in Queued'
      <4>1. k \in 1..Len(msgs') /\ msgs'[k] = s
        BY <1>2
      <4> QED BY <4>1 DEF Queued
    <3>3. ASSUME NEW i \in 1..Len(msgs) PROVE msgs[i] \in Queued'
      <4>1. CASE i < k
        <5>1. i \in 1..Len(msgs') /\ msgs'[i] = msgs[i]
          BY <4>1, <1>2
        <5> QED BY <5>1 DEF Queued
      <4>2. CASE ~(i < k)
        <5>1. i + 1 \in 1..Len(msgs') /\ msgs'[i + 1] = msgs[i]
          BY <4>2, <1>2
        <5> QED BY <5>1 DEF Queued
      <4> QED BY <4>1, <4>2
    <3> QED BY <3>1, <3>2, <3>3 DEF Queued
  <2>2. (Queued \cup free = Slots)' /\ (Queued \cap free = {})'
    BY <1>0, <1>3, <2>1 DEF SlotsConserved, Slots
  <2>3. \A i, j \in 1..Len(msgs') : msgs'[i] = msgs'[j] => i = j
    <3> SUFFICES ASSUME NEW i \in 1..Len(msgs'), NEW j \in 1..Len(msgs'),
                        msgs'[i] = msgs'[j]
                 PROVE  i = j
      OBVIOUS
    <3> DEFINE Old(x) == IF x < k THEN x ELSE x - 1
    <3>1. \A x \in 1..Len(msgs') : x # k => Old(x) \in 1..Len(msgs)
                                            /\ msgs'[x] = msgs[Old(x)]
      BY <1>2
    <3>2. msgs'[k] = s /\ k \in 1..Len(msgs')
      BY <1>2
    <3>3. CASE i = k \/ j = k
      BY <3>1, <3>2, <3>3, <1>4
    <3>4. CASE i # k /\ j # k
      <4>1. Old(i) = Old(j)
        BY <3>1, <3>4 DEF SlotsConserved
      <4> QED BY <4>1, <3>4, <1>2
    <3> QED BY <3>3, <3>4
  <2>4. Cardinality(free') = MaxMsg - Len(msgs')
    <3>1. IsFiniteSet(Slots)
      BY QueueAssumption, FS_Interval DEF Slots
    <3>2. IsFiniteSet(free)
      BY <3>1, FS_Subset DEF PQTypeOK
    <3>3. Cardinality(free \ {s}) = Cardinality(free) - 1
      BY <3>2, <1>0, FS_RemoveElement
    <3> QED BY <3>3, <1>2, <1>3, QueueAssumption DEF SlotsConserved
  <2> QED BY <2>2, <2>3, <2>4 DEF SlotsConserved
<1>7. PriorityFifo'
  <2> SUFFICES ASSUME NEW i \in 1..Len(msgs'), NEW j \in 1..Len(msgs'), i < j
               PROVE  \/ prio'[msgs'[i]] > prio'[msgs'[j]]
                      \/ /\ prio'[msgs'[i]] = prio'[msgs'[j]]
                         /\ msgs'[i] \in older'[msgs'[j]]
    BY DEF PriorityFifo
  <2>1. \A x \in 1..Len(msgs) : /\ prio'[msgs[x]] = prio[msgs[x]]
                                /\ older'[msgs[x]] = older[msgs[x]]
                                /\ prio[msgs[x]] \in Nat
    BY <1>3, <1>4 DEF PQTypeOK
  <2>2. prio'[s] = pr /\ older'[s] = Queued
    BY <1>0, <1>3 DEF PQTypeOK
  <2>3. CASE j = k
    <3>1. /\ i \in 1..Len(msgs) /\ msgs'[i] = msgs[i] /\ msgs'[j] = s
          /\ i \in 1..(k - 1)
      BY <2>3, <1>2
    <3>2. ~(pr > prio[msgs[i]])
      BY <3>1, <1>1 DEF Placed
    <3> QED BY <3>1, <3>2, <2>1, <2>2, <1>4
  <2>4. CASE i = k
    <3>1. /\ j - 1 \in 1..Len(msgs) /\ msgs'[j] = msgs[j - 1] /\ msgs'[i] = s
          /\ k \in 1..Len(msgs) /\ k <= j - 1
      BY <2>4, <1>2
    <3>2. pr > prio[msgs[k]]
      BY <3>1, <1>1 DEF Placed
    <3>3. prio[msgs[k]] >= prio[msgs[j - 1]]
      <4> DEFINE m == j - 1
      <4>1. m \in 1..Len(msgs) /\ k \in 1..Len(msgs) /\ (k = m \/ k < m)
        BY <3>1, <1>2
      <4> HIDE DEF m
      <4>2. prio[msgs[k]] >= prio[msgs[m]]
        BY <4>1, <2>1 DEF PriorityFifo
      <4> QED BY <4>2 DEF m
    <3> QED BY <3>1, <3>2, <3>3, <2>1, <2>2
  <2>5. CASE i # k /\ j # k
    <3> DEFINE Old(x) == IF x < k THEN x ELSE x - 1
    <3>1. /\ Old(i) \in 1..Len(msgs) /\ msgs'[i] = msgs[Old(i)]
          /\ Old(j) \in 1..Len(msgs) /\ msgs'[j] = msgs[Old(j)]
          /\ Old(i) < Old(j)
      BY <2>5, <1>2
    <3> HIDE DEF Old
    <3> QED BY <3>1, <2>1 DEF PriorityFifo
  <2> QED BY <2>3, <2>4, <2>5
<1> QED BY <1>2, <1>5, <1>6, <1>7

\* mymq_receive: the first message leaves, its slot is free again and in
\* nobody's past.
LEMMA TakeStep ==
    ASSUME PQInv, Take
    PROVE  PQInv' /\ Len(msgs') = Len(msgs) - 1
<1> USE DEF PQInv
<1> DEFINE h == msgs[1]
<1>1. /\ Len(msgs) \in Nat \ {0} /\ h \in Slots /\ Head(msgs) = h
      /\ msgs' \in Seq(Slots) /\ Len(msgs') = Len(msgs) - 1
      /\ \A i \in 1..Len(msgs') : msgs'[i] = msgs[i + 1]
  BY TailFacts DEF Take
<1>2. /\ free' = free \cup {h} /\ prio' = prio
      /\ older' = [s \in Slots |-> IF s = h THEN {} ELSE older[s] \ {h}]
  BY <1>1 DEF Take
<1>3. \A i \in 1..Len(msgs') :
         /\ i + 1 \in 1..Len(msgs) /\ msgs[i + 1] # h
         /\ msgs[i + 1] \in Slots
  BY <1>1, ElementOfSeq DEF SlotsConserved, PQTypeOK
<1>4. PQTypeOK'
  <2>1. older' \in [Slots -> SUBSET Slots]
    BY <1>2 DEF PQTypeOK
  <2> QED BY <1>1, <1>2, <2>1 DEF PQTypeOK
<1>5. SlotsConserved'
  <2>1. Queued' = Queued \ {h}
    <3>1. \A x \in Queued' : x \in Queued \ {h}
      BY <1>1, <1>3 DEF Queued
    <3>2. ASSUME NEW i \in 1..Len(msgs), msgs[i] # h PROVE msgs[i] \in Queued'
      <4>1. i - 1 \in 1..Len(msgs') /\ msgs'[i - 1] = msgs[i]
        BY <3>2, <1>1
      <4> QED BY <4>1 DEF Queued
    <3> QED BY <3>1, <3>2 DEF Queued
  <2>2. h \in Queued
    BY <1>1 DEF Queued
  <2>3. (Queued \cup free = Slots)' /\ (Queued \cap free = {})'
    BY <1>2, <2>1, <2>2 DEF SlotsConserved, Slots
  <2>4. \A i, j \in 1..Len(msgs') : msgs'[i] = msgs'[j] => i = j
    <3> SUFFICES ASSUME NEW i \in 1..Len(msgs'), NEW j \in 1..Len(msgs'),
                        msgs'[i] = msgs'[j]
                 PROVE  i = j
      OBVIOUS
    <3>1. msgs[i + 1] = msgs[j + 1] /\ i + 1 \in 1..Len(msgs) /\ j + 1 \in 1..Len(msgs)
      BY <1>1, <1>3
    <3>2. i + 1 = j + 1
      BY <3>1 DEF SlotsConserved
    <3> QED BY <3>2, <1>1
  <2>5. Cardinality(free') = MaxMsg - Len(msgs')
    <3>1. IsFiniteSet(Slots)
      BY QueueAssumption, FS_Interval DEF Slots
    <3>2. IsFiniteSet(free)
      BY <3>1, FS_Subset DEF PQTypeOK
    <3>3. h \notin free
      BY <2>2 DEF SlotsConserved
    <3>4. Cardinality(free \cup {h}) = Cardinality(free) + 1
      BY <3>2, <3>3, FS_AddElement
    <3> QED BY <3>4, <1>1, <1>2, QueueAssumption DEF SlotsConserved
  <2> QED BY <2>3, <2>4, <2>5 DEF SlotsConserved
<1>6. PriorityFifo'
  <2> SUFFICES ASSUME NEW i \in 1..Len(msgs'), NEW j \in 1..Len(msgs'), i < j
               PROVE  \/ prio'[msgs'[i]] > prio'[msgs'[j]]
                      \/ /\ prio'[msgs'[i]] = prio'[msgs'[j]]
                         /\ msgs'[i] \in older'[msgs'[j]]
    BY DEF PriorityFifo
  <2>1. /\ i + 1 \in 1..Len(msgs) /\ j + 1 \in 1..Len(msgs) /\ i + 1 < j + 1
        /\ msgs'[i] = msgs[i + 1] /\ msgs'[j] = msgs[j + 1]
        /\ msgs[i + 1] # h /\ msgs[j + 1] # h /\ msgs[j + 1] \in Slots
    BY <1>1, <1>3
  <2>2. \/ prio[msgs[i + 1]] > prio[msgs[j + 1]]
        \/ /\ prio[msgs[i + 1]] = prio[msgs[j + 1]]
           /\ msgs[i + 1] \in older[msgs[j + 1]]
    BY <2>1 DEF PriorityFifo
  <2>3. older'[msgs[j + 1]] = older[msgs[j + 1]] \ {h}
    BY <2>1, <1>2
  <2> QED BY <2>1, <2>2, <2>3, <1>2
<1> QED BY <1>1, <1>4, <1>5, <1>6

\* The queue starts empty, with every slot free.
LEMMA PQInitInv == PQInit => PQInv
<1> SUFFICES ASSUME PQInit PROVE PQInv
  OBVIOUS
<1>1. msgs = <<>> /\ msgs \in Seq(Slots) /\ Len(msgs) = 0
  BY EmptySeq DEF PQInit
<1>2. Queued = {} /\ free = Slots
  BY <1>1 DEF PQInit, Queued
<1>3. Cardinality(Slots) = MaxMsg
  BY QueueAssumption, FS_Interval DEF Slots
<1>4. PQTypeOK
  BY <1>1, <1>2 DEF PQInit, PQTypeOK
<1>5. SlotsConserved
  BY <1>1, <1>2, <1>3, QueueAssumption DEF SlotsConserved
<1>6. PriorityFifo
  BY <1>1 DEF PriorityFifo
<1> QED BY <1>4, <1>5, <1>6 DEF PQInv

\* The ordered queue keeps its invariant, for every number of slots.
LEMMA PQInvariance == PQSpec => []PQInv
<1>1. PQInv /\ [PQNext]_pqvars => PQInv'
  <2> SUFFICES ASSUME PQInv, [PQNext]_pqvars PROVE PQInv'
    OBVIOUS
  <2>1. CASE Take
    BY <2>1, TakeStep
  <2>2. CASE \E pr \in Prios : Put(pr)
    <3>1. PICK pr \in Prios, s \in free : PutInto(pr, s)
      BY <2>2 DEF Put
    <3>2. pr \in Nat
      BY QueueAssumption
    <3> QED BY <3>1, <3>2, PutStep
  <2>3. CASE UNCHANGED pqvars
    BY <2>3 DEF pqvars, PQInv, PQTypeOK, SlotsConserved, PriorityFifo, Queued
  <2> QED BY <2>1, <2>2, <2>3 DEF PQNext
<1> QED BY <1>1, PQInitInv, PTL DEF PQSpec

\* What the linked lists implement is ordered and loses no slot: MqLinks
\* implements PQSpec, and PQSpec has this for any size.
THEOREM OrderedQueue == PQSpec => [](SlotsConserved /\ PriorityFifo)
<1>1. PQInv => SlotsConserved /\ PriorityFifo
  BY DEF PQInv
<1> QED BY <1>1, PQInvariance, PTL
=============================================================================
