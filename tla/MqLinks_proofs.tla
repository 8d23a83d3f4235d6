--------------------------- MODULE MqLinks_proofs ---------------------------
(***************************************************************************)
(* For every number of slots and every set of priorities: the two linked   *)
(* lists in the mapped file hold every slot once, neither err_dump of      *)
(* mymq_send and mymq_receive is reached, and the lists implement the      *)
(* ordered queue of module PrioQueue.                                      *)
(***************************************************************************)
EXTENDS MqLinks, LinkedLists, FunctionTheorems

\* The slot at place k of a list, 0 in front of it and behind it.
At(q, k) == IF k \in 1..Len(q) THEN q[k] ELSE 0

Distinct(q) == \A i, j \in 1..Len(q) : q[i] = q[j] => i = j

\* The links next lead from slot i through q and end there.
Chain(next, q, i) ==
    /\ q \in Seq(Slots) /\ Distinct(q)
    /\ i = At(q, 1)
    /\ \A k \in 1..Len(q) : next[q[k]] = At(q, k + 1)

-----------------------------------------------------------------------------
(* Sequences of slots                                                      *)

\* A sequence of different slots is as long as the set of its slots is large.
LEMMA CountElements ==
    ASSUME NEW q \in Seq(Slots), Distinct(q)
    PROVE  /\ Cardinality(Elements(q)) = Len(q) /\ IsFiniteSet(Elements(q))
           /\ Elements(q) \subseteq Slots
           /\ Len(q) \in Nat /\ Len(q) <= MaxMsg
  <1> DEFINE n == Len(q)
             f == [i \in 1..n |-> q[i]]
             E == Elements(q)
  <1>1. n \in Nat /\ \A i \in 1..n : q[i] \in Slots
    OBVIOUS
  <1>2. E \subseteq Slots
    BY <1>1 DEF Elements
  <1>3. f \in [1..n -> E] /\ \A i, j \in 1..n : f[i] = f[j] => i = j
    BY DEF Elements, Distinct
  <1>4. \A e \in E : \E i \in 1..n : f[i] = e
    BY DEF Elements
  <1> HIDE DEF f, E, n
  <1>5. f \in Bijection(1..n, E)
    BY <1>3, <1>4 DEF Bijection, Injection, Surjection, IsInjective
  <1>6. Cardinality(E) = n
    BY <1>1, <1>5, FS_CountingElements DEF ExistsBijection
  <1>7. IsFiniteSet(Slots) /\ Cardinality(Slots) = MaxMsg
    BY LinksAssumption, FS_Interval DEF Slots
  <1>8. IsFiniteSet(E) /\ Cardinality(E) <= Cardinality(Slots)
    BY <1>2, <1>7, FS_Subset
  <1> QED
    BY <1>1, <1>2, <1>6, <1>7, <1>8 DEF E, n

\* A function that is given by its first value and a step, of which there is
\* one.
IsRun(w, g, n, x) ==
    /\ w = [i \in 0..n |-> w[i]] /\ w[0] = x
    /\ \A i \in 0..n : i # n => w[i + 1] = g[w[i]]

LEMMA RunExists ==
    ASSUME NEW g, NEW N \in Nat, NEW x
    PROVE  \E w : IsRun(w, g, N, x)
  <1> DEFINE S == {n \in Nat : \E w : IsRun(w, g, n, x)}
  <1>1. 0 \in S
    <2> DEFINE w == [i \in 0..0 |-> x]
    <2>1. IsRun(w, g, 0, x)
      BY DEF IsRun
    <2> QED
      BY <2>1
  <1>2. ASSUME NEW n \in Nat, n \in S PROVE n + 1 \in S
    <2>1. PICK v : IsRun(v, g, n, x)
      BY <1>2
    <2> DEFINE w == [i \in 0..n + 1 |-> IF i = n + 1 THEN g[v[n]] ELSE v[i]]
    <2>2. /\ \A i \in 0..n : w[i] = v[i]
          /\ w[n + 1] = g[v[n]] /\ w = [i \in 0..n + 1 |-> w[i]]
      OBVIOUS
    <2> HIDE DEF w
    <2>3. w[0] = x
      <3>1. 0 \in 0..n
        OBVIOUS
      <3> QED
        BY <2>1, <2>2, <3>1 DEF IsRun
    <2>4. ASSUME NEW i \in 0..n + 1, i # n + 1 PROVE w[i + 1] = g[w[i]]
      <3>1. i \in 0..n /\ (i # n => i + 1 \in 0..n)
        BY <2>4
      <3> QED
        BY <2>1, <2>2, <3>1 DEF IsRun
    <2>5. IsRun(w, g, n + 1, x)
      BY <2>2, <2>3, <2>4 DEF IsRun
    <2> QED
      BY <2>5
  <1> HIDE DEF S
  <1>3. N \in S
    BY <1>1, <1>2, NatSetInduction
  <1> QED
    BY <1>3 DEF S

-----------------------------------------------------------------------------
(* What the two recursive functions compute                                *)

\* Following the links finds the list.
LEMMA ListIs ==
    ASSUME NEW next, NEW q, NEW i, Chain(next, q, i)
    PROVE  ListFrom(next, i) = q
  <1>1. /\ q \in Seq(Slots) /\ Len(q) \in Nat /\ Len(q) <= MaxMsg
        /\ MaxMsg \in Nat /\ Slots = 1..MaxMsg
        /\ \A k \in 1..Len(q) : q[k] \in 1..MaxMsg
    BY CountElements, LinksAssumption DEF Chain, Slots
  <1>2. i = At(q, 1) /\ \A k \in 1..Len(q) : next[q[k]] = At(q, k + 1)
    BY DEF Chain
  <1> DEFINE IsSlots(w) ==
               w = [n \in 0..MaxMsg |-> IF n = 0 THEN i
                                        ELSE IF w[n - 1] = 0 THEN 0 ELSE next[w[n - 1]]]
             w == CHOOSE v : IsSlots(v)
  <1>3. \E v : IsSlots(v)
    <2>1. PICK v : IsWalk(v, next, MaxMsg, i)
      BY <1>1, WalkExists
    <2>2. ASSUME NEW n \in 0..MaxMsg, n # 0
          PROVE  v[n] = IF v[n - 1] = 0 THEN 0 ELSE next[v[n - 1]]
      <3>1. n - 1 \in 0..MaxMsg /\ n - 1 # MaxMsg /\ (n - 1) + 1 = n
        BY <1>1, <2>2
      <3> QED
        BY <2>1, <3>1 DEF IsWalk
    <2>3. v[0] = i /\ v = [n \in 0..MaxMsg |-> v[n]]
      BY <2>1 DEF IsWalk
    <2>4. \A n \in 0..MaxMsg : v[n] = IF n = 0 THEN i
                                      ELSE IF v[n - 1] = 0 THEN 0 ELSE next[v[n - 1]]
      BY <2>2, <2>3
    <2> QED
      BY <2>3, <2>4
  <1>4. IsSlots(w)
    <2> HIDE DEF IsSlots
    <2> QED
      BY <1>3
  <1>5. ListFrom(next, i)
          = [k \in 1..Cardinality({n \in 0..MaxMsg : w[n] # 0}) |-> w[k - 1]]
    BY DEF ListFrom
  <1> HIDE DEF w
  <1>6. \A n \in 0..MaxMsg : w[n] = At(q, n + 1)
    <2> DEFINE S == {n \in Nat : n <= MaxMsg => w[n] = At(q, n + 1)}
    <2>1. 0 \in S
      <3>1. 0 \in 0..MaxMsg /\ 0 + 1 = 1
        BY <1>1
      <3>2. w[0] = i
        BY <1>4, <3>1
      <3> QED
        BY <1>2, <3>1, <3>2
    <2>2. ASSUME NEW n \in Nat, n \in S PROVE n + 1 \in S
      <3> SUFFICES ASSUME n + 1 <= MaxMsg PROVE w[n + 1] = At(q, (n + 1) + 1)
        OBVIOUS
      <3>1. n + 1 \in 0..MaxMsg /\ n + 1 # 0 /\ (n + 1) - 1 = n /\ n <= MaxMsg
        BY <1>1
      <3>2. w[n + 1] = IF w[n] = 0 THEN 0 ELSE next[w[n]]
        BY <1>4, <3>1
      <3>3. w[n] = At(q, n + 1)
        BY <2>2, <3>1
      <3>4. CASE n + 1 \in 1..Len(q)
        <4>1. w[n] = q[n + 1] /\ q[n + 1] # 0
          BY <1>1, <3>3, <3>4 DEF At
        <4> QED
          BY <1>2, <3>2, <3>4, <4>1
      <3>5. CASE n + 1 \notin 1..Len(q)
        <4>1. w[n] = 0 /\ (n + 1) + 1 \notin 1..Len(q)
          BY <1>1, <3>3, <3>5 DEF At
        <4> QED
          BY <3>2, <4>1 DEF At
      <3> QED
        BY <3>4, <3>5
    <2> HIDE DEF S
    <2>3. \A n \in Nat : n \in S
      BY <2>1, <2>2, NatSetInduction
    <2> QED
      BY <1>1, <2>3 DEF S
  <1>7. {n \in 0..MaxMsg : w[n] # 0} = 0..(Len(q) - 1)
    <2>1. \A n \in 0..MaxMsg : w[n] # 0 <=> n + 1 \in 1..Len(q)
      BY <1>1, <1>6 DEF At
    <2> QED
      BY <1>1, <2>1
  <1>8. Cardinality(0..(Len(q) - 1)) = Len(q)
    <2> DEFINE m == Len(q) - 1
    <2>1. 0 \in Int /\ m \in Int
      BY <1>1
    <2> HIDE DEF m
    <2>2. Cardinality(0..m) = IF 0 > m THEN 0 ELSE m - 0 + 1
      BY <2>1, FS_Interval
    <2> QED
      BY <1>1, <2>2 DEF m
  <1>9. \A k \in 1..Len(q) : w[k - 1] = q[k]
    <2> SUFFICES ASSUME NEW k \in 1..Len(q) PROVE w[k - 1] = q[k]
      OBVIOUS
    <2>1. k - 1 \in 0..MaxMsg /\ (k - 1) + 1 = k
      BY <1>1
    <2> QED
      BY <1>6, <2>1 DEF At
  <1>10. q = [k \in 1..Len(q) |-> q[k]]
    BY <1>1
  <1> QED
    BY <1>5, <1>7, <1>8, <1>9, <1>10

\* The walk of mymq_send stops at the first message of a lower priority, or
\* behind the last message, and knows the link that leads there.
LEMMA PlaceIs ==
    ASSUME NEW q, Chain(msg_next, q, mqh_head), NEW prio
    PROVE  \E k \in 1..(Len(q) + 1) :
              /\ \A i \in 1..(k - 1) : ~(prio > msg_prio[q[i]])
              /\ k <= Len(q) => prio > msg_prio[q[k]]
              /\ FindPlace(prio) = [pmsg |-> At(q, k - 1), index |-> At(q, k)]
  <1>1. /\ q \in Seq(Slots) /\ Len(q) \in Nat /\ Len(q) <= MaxMsg
        /\ MaxMsg \in Nat
        /\ \A k \in 1..Len(q) : q[k] \in 1..MaxMsg
    BY CountElements, LinksAssumption DEF Chain, Slots
  <1>2. mqh_head = At(q, 1) /\ \A k \in 1..Len(q) : msg_next[q[k]] = At(q, k + 1)
    BY DEF Chain
  <1> DEFINE Cells == {At(q, k) : k \in 0..(Len(q) + 1)}
             Step(w) == IF w.index = 0 \/ prio > msg_prio[w.index] THEN w
                        ELSE [pmsg |-> w.index, index |-> msg_next[w.index]]
             P(k) == [pmsg |-> At(q, k - 1), index |-> At(q, k)]
             first == [pmsg |-> 0, index |-> mqh_head]
             IsPlaces(w) == w = [n \in 0..MaxMsg |-> IF n = 0 THEN first
                                                     ELSE Step(w[n - 1])]
             w == CHOOSE v : IsPlaces(v)
             Passed(k) == \A i \in 1..(k - 1) : ~(prio > msg_prio[q[i]])
             Stop(k) == k = Len(q) + 1 \/ prio > msg_prio[q[k]]
  <1>3. FindPlace(prio) = w[MaxMsg]
    BY DEF FindPlace
  <1>4. first = P(1)
    BY <1>1, <1>2 DEF At
  <1>5. ASSUME NEW k \in 1..(Len(q) + 1)
        PROVE  Step(P(k)) = IF Stop(k) THEN P(k) ELSE P(k + 1)
    <2>1. CASE k = Len(q) + 1
      BY <1>1, <2>1 DEF At
    <2>2. CASE k # Len(q) + 1
      <3>1. /\ k \in 1..Len(q) /\ At(q, k) = q[k] /\ q[k] # 0
            /\ msg_next[q[k]] = At(q, k + 1) /\ (k + 1) - 1 = k
        BY <1>1, <1>2, <2>2 DEF At
      <3> QED
        BY <2>2, <3>1
    <2> QED
      BY <2>1, <2>2
  <1> HIDE DEF P, first
  <1>6. \E v : IsPlaces(v)
    <2> DEFINE D == {P(k) : k \in 1..(Len(q) + 1)}
               g == [x \in D |-> Step(x)]
    <2>0. PICK v : IsRun(v, g, MaxMsg, first)
      <3> HIDE DEF g
      <3> QED
        BY <1>1, RunExists
    <2>1. /\ v = [i \in 0..MaxMsg |-> v[i]] /\ v[0] = first
          /\ \A i \in 0..MaxMsg : i # MaxMsg => v[i + 1] = g[v[i]]
      BY <2>0 DEF IsRun
    <2>2. \A x \in D : g[x] = Step(x) /\ Step(x) \in D
      <3> SUFFICES ASSUME NEW k \in 1..(Len(q) + 1) PROVE Step(P(k)) \in D
        OBVIOUS
      <3>1. ~Stop(k) => k + 1 \in 1..(Len(q) + 1)
        BY <1>1
      <3> HIDE DEF Step
      <3> QED
        BY <1>5, <3>1
    <2> HIDE DEF g, D, Step
    <2>3. \A n \in 0..MaxMsg : v[n] \in D
      <3> DEFINE S == {n \in Nat : n <= MaxMsg => v[n] \in D}
      <3>1. 0 \in S
        <4>1. 1 \in 1..(Len(q) + 1)
          BY <1>1
        <4> QED
          BY <1>4, <2>1, <4>1 DEF D
      <3>2. ASSUME NEW n \in Nat, n \in S PROVE n + 1 \in S
        <4> SUFFICES ASSUME n + 1 <= MaxMsg PROVE v[n + 1] \in D
          OBVIOUS
        <4>1. n \in 0..MaxMsg /\ n # MaxMsg /\ n <= MaxMsg
          BY <1>1
        <4> QED
          BY <2>1, <2>2, <3>2, <4>1
      <3> HIDE DEF S
      <3>3. \A n \in Nat : n \in S
        BY <3>1, <3>2, NatSetInduction
      <3> QED
        BY <1>1, <3>3 DEF S
    <2>4. ASSUME NEW n \in 0..MaxMsg, n # 0 PROVE v[n] = Step(v[n - 1])
      <3>1. n - 1 \in 0..MaxMsg /\ n - 1 # MaxMsg /\ (n - 1) + 1 = n
        BY <1>1, <2>4
      <3> QED
        BY <2>1, <2>2, <2>3, <3>1
    <2>5. \A n \in 0..MaxMsg : v[n] = IF n = 0 THEN first ELSE Step(v[n - 1])
      BY <2>1, <2>4
    <2> QED
      BY <2>1, <2>5
  <1>7. IsPlaces(w)
    <2> HIDE DEF IsPlaces
    <2> QED
      BY <1>6
  <1> HIDE DEF w, Step
  <1>8. \A n \in 0..MaxMsg : \E k \in 1..(Len(q) + 1) :
            Passed(k) /\ w[n] = P(k) /\ (k = n + 1 \/ Stop(k))
    <2> DEFINE R(n, k) == Passed(k) /\ w[n] = P(k) /\ (k = n + 1 \/ Stop(k))
               S == {n \in Nat : n <= MaxMsg => \E k \in 1..(Len(q) + 1) : R(n, k)}
    <2>1. 0 \in S
      <3>1. 0 \in 0..MaxMsg /\ 1 \in 1..(Len(q) + 1) /\ 0 + 1 = 1
        BY <1>1
      <3>2. w[0] = P(1)
        BY <1>4, <1>7, <3>1
      <3>3. R(0, 1)
        BY <3>1, <3>2
      <3> QED
        BY <3>1, <3>3
    <2>2. ASSUME NEW n \in Nat, n \in S PROVE n + 1 \in S
      <3> SUFFICES ASSUME n + 1 <= MaxMsg
                   PROVE  \E k \in 1..(Len(q) + 1) : R(n + 1, k)
        OBVIOUS
      <3>1. n + 1 \in 0..MaxMsg /\ n + 1 # 0 /\ (n + 1) - 1 = n /\ n <= MaxMsg
        BY <1>1
      <3>2. w[n + 1] = Step(w[n])
        BY <1>7, <3>1
      <3>3. PICK k \in 1..(Len(q) + 1) : R(n, k)
        BY <2>2, <3>1
      <3>4. CASE Stop(k)
        <4>1. w[n + 1] = P(k)
          BY <1>5, <3>2, <3>3, <3>4
        <4> QED
          BY <3>3, <3>4, <4>1
      <3>5. CASE ~Stop(k)
        <4>1. w[n + 1] = P(k + 1) /\ k = n + 1
          BY <1>5, <3>2, <3>3, <3>5
        <4>2. k + 1 \in 1..(Len(q) + 1) /\ \A i \in 1..((k + 1) - 1) : i = k \/ i \in 1..(k - 1)
          BY <1>1, <3>5
        <4>3. Passed(k + 1)
          BY <3>3, <3>5, <4>2
        <4> QED
          BY <4>1, <4>2, <4>3
      <3> QED
        BY <3>4, <3>5
    <2> HIDE DEF S
    <2>3. \A n \in Nat : n \in S
      BY <2>1, <2>2, NatSetInduction
    <2> QED
      BY <1>1, <2>3 DEF S
  <1>9. PICK k \in 1..(Len(q) + 1) :
            Passed(k) /\ w[MaxMsg] = P(k) /\ (k = MaxMsg + 1 \/ Stop(k))
    <2>1. MaxMsg \in 0..MaxMsg
      BY <1>1
    <2> QED
      BY <1>8, <2>1
  <1>10. Stop(k)
    BY <1>1, <1>9
  <1>11. k <= Len(q) => prio > msg_prio[q[k]]
    BY <1>1, <1>10
  <1> QED
    BY <1>3, <1>9, <1>11 DEF P

-----------------------------------------------------------------------------
(* The inductive invariant                                                 *)

\* q are the messages and r the free slots.
Holds(next, head, free, q, r) ==
    /\ Chain(next, q, head) /\ Chain(next, r, free)
    /\ Elements(q) \cup Elements(r) = Slots
    /\ Elements(q) \cap Elements(r) = {}

LinksType ==
    /\ msg_next \in [Slots -> 0..MaxMsg]
    /\ msg_prio \in [Slots -> Nat]
    /\ older \in [Slots -> SUBSET Slots]

LinksInv ==
    /\ LinksType
    /\ \E q, r : Holds(msg_next, mqh_head, mqh_free, q, r) /\ mq_curmsgs = Len(q)

\* q with slot s at place k, as the ordered queue has it.
Ins(q, k, s) ==
    [i \in 1..(Len(q) + 1) |-> IF i < k THEN q[i] ELSE IF i = k THEN s ELSE q[i - 1]]

LEMMA InsFacts ==
    ASSUME NEW q \in Seq(Slots), Distinct(q), NEW s \in Slots, s \notin Elements(q),
           NEW k \in 1..(Len(q) + 1)
    PROVE  /\ Ins(q, k, s) \in Seq(Slots) /\ Len(Ins(q, k, s)) = Len(q) + 1
           /\ Distinct(Ins(q, k, s))
           /\ Elements(Ins(q, k, s)) = Elements(q) \cup {s}
  <1> DEFINE p == Ins(q, k, s)
  <1>1. Len(q) \in Nat /\ \A i \in 1..Len(q) : q[i] \in Slots /\ q[i] # s
    BY DEF Elements
  <1>2. \A i \in 1..(Len(q) + 1) : p[i] = IF i < k THEN q[i]
                                          ELSE IF i = k THEN s ELSE q[i - 1]
    BY DEF Ins
  <1>3. p \in [1..(Len(q) + 1) -> Slots]
    BY <1>1 DEF Ins
  <1>4. p \in Seq(Slots) /\ Len(p) = Len(q) + 1
    <2>1. Len(q) + 1 \in Nat
      BY <1>1
    <2> HIDE DEF p
    <2> QED
      BY <1>3, <2>1
  <1> HIDE DEF p
  <1>5. Distinct(p)
    <2> SUFFICES ASSUME NEW i \in 1..(Len(q) + 1), NEW j \in 1..(Len(q) + 1), p[i] = p[j]
                 PROVE  i = j
      BY <1>4 DEF Distinct
    <2>1. CASE i = k \/ j = k
      BY <1>1, <1>2, <2>1
    <2>2. CASE i # k /\ j # k
      <3> DEFINE Old(x) == IF x < k THEN x ELSE x - 1
      <3>1. Old(i) \in 1..Len(q) /\ Old(j) \in 1..Len(q)
        BY <1>1, <2>2
      <3>2. p[i] = q[Old(i)] /\ p[j] = q[Old(j)]
        BY <1>1, <1>2, <2>2
      <3>3. Old(i) = Old(j)
        BY <3>1, <3>2 DEF Distinct
      <3> QED
        BY <1>1, <2>2, <3>3
    <2> QED
      BY <2>1, <2>2
  <1>6. Elements(p) \subseteq Elements(q) \cup {s}
    <2> SUFFICES ASSUME NEW i \in 1..(Len(q) + 1) PROVE p[i] \in Elements(q) \cup {s}
      BY <1>4 DEF Elements
    <2>1. CASE i < k
      BY <1>1, <1>2, <2>1 DEF Elements
    <2>2. CASE i = k
      BY <1>1, <1>2, <2>2
    <2>3. CASE i > k
      <3>1. i - 1 \in 1..Len(q) /\ p[i] = q[i - 1]
        BY <1>1, <1>2, <2>3
      <3> QED
        BY <3>1 DEF Elements
    <2> QED
      BY <1>1, <2>1, <2>2, <2>3
  <1>7. Elements(q) \cup {s} \subseteq Elements(p)
    <2>1. s \in Elements(p)
      <3>1. k \in 1..Len(p) /\ p[k] = s
        BY <1>1, <1>2, <1>4
      <3> QED
        BY <3>1 DEF Elements
    <2>2. ASSUME NEW i \in 1..Len(q) PROVE q[i] \in Elements(p)
      <3>1. CASE i < k
        <4>1. i \in 1..Len(p) /\ p[i] = q[i]
          BY <1>1, <1>2, <1>4, <3>1
        <4> QED
          BY <4>1 DEF Elements
      <3>2. CASE ~(i < k)
        <4>1. i + 1 \in 1..Len(p) /\ p[i + 1] = q[i]
          BY <1>1, <1>2, <1>4, <3>2
        <4> QED
          BY <4>1 DEF Elements
      <3> QED
        BY <3>1, <3>2
    <2> QED
      BY <2>1, <2>2 DEF Elements
  <1> QED
    BY <1>4, <1>5, <1>6, <1>7 DEF p

LEMMA TailFacts ==
    ASSUME NEW q \in Seq(Slots), Distinct(q), q # <<>>
    PROVE  /\ Tail(q) \in Seq(Slots) /\ Len(q) \in Nat \ {0} /\ Head(q) = q[1]
           /\ Len(Tail(q)) = Len(q) - 1 /\ q[1] \in Slots
           /\ \A i \in 1..(Len(q) - 1) : Tail(q)[i] = q[i + 1]
           /\ Distinct(Tail(q))
           /\ Elements(Tail(q)) = Elements(q) \ {q[1]}
           /\ q[1] \in Elements(q)
  <1> DEFINE t == Tail(q)
  <1>1. /\ t \in Seq(Slots) /\ Len(q) \in Nat \ {0} /\ Head(q) = q[1]
        /\ Len(t) = Len(q) - 1 /\ q[1] \in Slots
        /\ \A i \in 1..(Len(q) - 1) : t[i] = q[i + 1]
    OBVIOUS
  <1> HIDE DEF t
  <1>2. \A i \in 1..Len(t) : i + 1 \in 1..Len(q) /\ i + 1 # 1 /\ t[i] = q[i + 1]
    BY <1>1
  <1>3. 1 \in 1..Len(q)
    BY <1>1
  <1>4. Distinct(t)
    <2> SUFFICES ASSUME NEW i \in 1..Len(t), NEW j \in 1..Len(t), t[i] = t[j]
                 PROVE  i = j
      BY DEF Distinct
    <2>1. i + 1 = j + 1
      BY <1>2 DEF Distinct
    <2> QED
      BY <1>1, <2>1
  <1>5. Elements(t) \subseteq Elements(q) \ {q[1]}
    BY <1>2, <1>3 DEF Elements, Distinct
  <1>6. Elements(q) \ {q[1]} \subseteq Elements(t)
    <2> SUFFICES ASSUME NEW i \in 1..Len(q), i # 1 PROVE q[i] \in Elements(t)
      BY DEF Elements
    <2>1. i - 1 \in 1..Len(t) /\ t[i - 1] = q[i]
      BY <1>1
    <2> QED
      BY <2>1 DEF Elements
  <1> QED
    BY <1>1, <1>3, <1>4, <1>5, <1>6 DEF t, Elements

\* Links that lead somewhere: a list is empty exactly if it starts with 0.
LEMMA ChainStart ==
    ASSUME NEW next, NEW q, NEW i, Chain(next, q, i)
    PROVE  /\ i = 0 <=> q = <<>>
           /\ i # 0 => i = q[1] /\ i \in Slots /\ next[i] = At(q, 2)
  <1>1. q \in Seq(Slots) /\ i = At(q, 1) /\ 0 \notin Slots
    BY DEF Chain, Slots
  <1>2. CASE q = <<>>
    BY <1>1, <1>2 DEF At
  <1>3. CASE q # <<>>
    <2>1. 1 \in 1..Len(q) /\ q[1] \in Slots
      BY <1>1, <1>3
    <2> QED
      BY <1>1, <1>3, <2>1 DEF At, Chain
  <1> QED
    BY <1>2, <1>3

\* The links of the rest of a list, when only slots outside it change.
LEMMA ChainTail ==
    ASSUME NEW next, NEW next2, NEW q, NEW i, Chain(next, q, i), i # 0,
           \A s \in Elements(q) \ {i} : next2[s] = next[s]
    PROVE  Chain(next2, Tail(q), next[i])
  <1>1. q \in Seq(Slots) /\ Distinct(q) /\ q # <<>> /\ i = q[1] /\ next[i] = At(q, 2)
    BY ChainStart DEF Chain
  <1> DEFINE t == Tail(q)
  <1>2. /\ t \in Seq(Slots) /\ Len(q) \in Nat \ {0} /\ Len(t) = Len(q) - 1
        /\ \A k \in 1..Len(t) : t[k] = q[k + 1]
        /\ Distinct(t) /\ Elements(t) = Elements(q) \ {i}
    BY <1>1, TailFacts
  <1> HIDE DEF t
  <1>3. \A k \in 1..(Len(t) + 1) : At(t, k) = At(q, k + 1)
    BY <1>2 DEF At
  <1>4. ASSUME NEW k \in 1..Len(t) PROVE next2[t[k]] = At(t, k + 1)
    <2>1. t[k] \in Elements(q) \ {i} /\ k + 1 \in 1..Len(q) /\ t[k] = q[k + 1]
      BY <1>2 DEF Elements
    <2>2. next2[t[k]] = At(q, (k + 1) + 1)
      BY <2>1 DEF Chain
    <2>3. k + 1 \in 1..(Len(t) + 1)
      BY <1>2
    <2> QED
      BY <1>3, <2>2, <2>3
  <1>5. next[i] = At(t, 1)
    <2>1. 1 \in 1..(Len(t) + 1)
      BY <1>2
    <2> QED
      BY <1>1, <1>3, <2>1
  <1> QED
    BY <1>2, <1>4, <1>5 DEF Chain, t

\* The links of a list with slot s put at place k.
LEMMA ChainInsert ==
    ASSUME NEW next, NEW next2, NEW q, NEW i, Chain(next, q, i),
           NEW s \in Slots, s \notin Elements(q), NEW k \in 1..(Len(q) + 1),
           NEW i2, i2 = IF k = 1 THEN s ELSE i,
           next2[s] = At(q, k), k # 1 => next2[q[k - 1]] = s,
           \A j \in 1..Len(q) : j # k - 1 => next2[q[j]] = next[q[j]]
    PROVE  Chain(next2, Ins(q, k, s), i2)
  <1> DEFINE p == Ins(q, k, s)
  <1>1. /\ q \in Seq(Slots) /\ Distinct(q) /\ i = At(q, 1) /\ Len(q) \in Nat
        /\ \A j \in 1..Len(q) : next[q[j]] = At(q, j + 1)
    BY DEF Chain
  <1>2. /\ p \in Seq(Slots) /\ Len(p) = Len(q) + 1 /\ Distinct(p)
        /\ \A j \in 1..(Len(q) + 1) : p[j] = IF j < k THEN q[j]
                                             ELSE IF j = k THEN s ELSE q[j - 1]
    BY <1>1, InsFacts DEF Ins
  <1> HIDE DEF p
  <1>3. i2 = At(p, 1)
    BY <1>1, <1>2 DEF At
  <1>4. ASSUME NEW j \in 1..Len(p) PROVE next2[p[j]] = At(p, j + 1)
    <2>1. CASE j = k
      <3>1. p[j] = s /\ At(p, j + 1) = At(q, k)
        BY <1>1, <1>2, <2>1 DEF At
      <3> QED
        BY <3>1
    <2>2. CASE j = k - 1
      <3>1. k # 1 /\ p[j] = q[k - 1] /\ At(p, j + 1) = s
        BY <1>1, <1>2, <2>2 DEF At
      <3> QED
        BY <3>1
    <2>3. CASE j < k - 1
      <3>1. /\ j \in 1..Len(q) /\ j # k - 1 /\ p[j] = q[j]
            /\ At(p, j + 1) = At(q, j + 1)
        BY <1>1, <1>2, <2>3 DEF At
      <3> QED
        BY <1>1, <3>1
    <2>4. CASE j > k
      <3>1. /\ j - 1 \in 1..Len(q) /\ j - 1 # k - 1 /\ p[j] = q[j - 1]
            /\ At(p, j + 1) = At(q, (j - 1) + 1)
        BY <1>1, <1>2, <2>4 DEF At
      <3> QED
        BY <1>1, <3>1
    <2> QED
      BY <1>1, <1>2, <2>1, <2>2, <2>3, <2>4
  <1> QED
    BY <1>2, <1>3, <1>4 DEF Chain, p

-----------------------------------------------------------------------------
(* The steps                                                               *)

\* The lists read off the links are q and r.
LEMMA ListsAre ==
    ASSUME NEW next, NEW head, NEW free, NEW q, NEW r, Holds(next, head, free, q, r)
    PROVE  ListFrom(next, head) = q /\ ListFrom(next, free) = r
  BY ListIs DEF Holds

LEMMA InitHolds ==
    ASSUME Init
    PROVE  LinksType /\ mq_curmsgs = 0
           /\ Holds(msg_next, mqh_head, mqh_free, <<>>, [i \in 1..MaxMsg |-> i])
  <1> DEFINE r == [i \in 1..MaxMsg |-> i]
  <1>1. MaxMsg \in Nat /\ MaxMsg # 0 /\ Slots = 1..MaxMsg
    BY LinksAssumption DEF Slots
  <1>2. LinksType /\ mq_curmsgs = 0
    BY <1>1 DEF Init, LinksType
  <1>3. r \in Seq(Slots) /\ Len(r) = MaxMsg /\ \A i \in 1..MaxMsg : r[i] = i
    <2>1. r \in [1..MaxMsg -> Slots]
      BY <1>1
    <2>2. \A i \in 1..MaxMsg : r[i] = i
      OBVIOUS
    <2> HIDE DEF r
    <2> QED
      BY <1>1, <2>1, <2>2
  <1> HIDE DEF r
  <1>4. Chain(msg_next, <<>>, mqh_head)
    BY DEF Chain, Init, At, Distinct
  <1>5. Chain(msg_next, r, mqh_free)
    BY <1>1, <1>3 DEF Chain, Init, At, Distinct
  <1>6. Elements(<<>>) = {} /\ Elements(r) = Slots
    <2>1. Elements(<<>>) = {}
      BY DEF Elements
    <2>2. Elements(r) = Slots
      BY <1>1, <1>3 DEF Elements
    <2> QED
      BY <2>1, <2>2
  <1> QED
    BY <1>2, <1>4, <1>5, <1>6 DEF Holds, r

\* mymq_receive takes the head of the one list to the head of the other.
LEMMA ReceiveHolds ==
    ASSUME LinksType, NEW q, NEW r, Holds(msg_next, mqh_head, mqh_free, q, r),
           mq_curmsgs = Len(q), Receive
    PROVE  /\ q # <<>> /\ mqh_head = Head(q)
           /\ Holds(msg_next', mqh_head', mqh_free', Tail(q), Ins(r, 1, Head(q)))
           /\ Elements(Ins(r, 1, Head(q))) = Elements(r) \cup {Head(q)}
           /\ mq_curmsgs' = Len(Tail(q)) /\ LinksType'
  <1> DEFINE s == mqh_head
  <1>1. /\ s # 0 /\ mqh_head' = msg_next[s] /\ mqh_free' = s
        /\ msg_next' = [msg_next EXCEPT ![s] = mqh_free]
        /\ mq_curmsgs' = mq_curmsgs - 1 /\ msg_prio' = msg_prio
        /\ older' = [t \in Slots |-> IF t = s THEN {} ELSE older[t] \ {s}]
    BY DEF Receive
  <1>2. /\ Chain(msg_next, q, s) /\ Chain(msg_next, r, mqh_free)
        /\ Elements(q) \cup Elements(r) = Slots /\ Elements(q) \cap Elements(r) = {}
        /\ q \in Seq(Slots) /\ Distinct(q) /\ r \in Seq(Slots) /\ Distinct(r)
        /\ msg_next \in [Slots -> 0..MaxMsg]
    BY DEF Holds, Chain, LinksType
  <1> HIDE DEF s
  <1>3. q # <<>> /\ s = q[1] /\ s \in Slots
    BY <1>1, <1>2, ChainStart
  <1>4. /\ Len(Tail(q)) = Len(q) - 1 /\ Elements(Tail(q)) = Elements(q) \ {s}
        /\ s \in Elements(q) /\ Head(q) = s
    BY <1>2, <1>3, TailFacts
  <1>5. /\ msg_next'[s] = mqh_free
        /\ \A t \in Slots : t # s => msg_next'[t] = msg_next[t]
    BY <1>1, <1>2, <1>3
  <1>6. Chain(msg_next', Tail(q), mqh_head')
    <2>1. \A t \in Elements(q) \ {s} : msg_next'[t] = msg_next[t]
      BY <1>2, <1>5
    <2> QED
      BY <1>1, <1>2, <2>1, ChainTail
  <1>7. s \notin Elements(r) /\ 1 \in 1..(Len(r) + 1) /\ Len(r) \in Nat
    BY <1>2, <1>4
  <1>8. Chain(msg_next', Ins(r, 1, s), mqh_free')
    <2>1. msg_next'[s] = At(r, 1)
      BY <1>2, <1>5 DEF Chain
    <2>2. \A j \in 1..Len(r) : msg_next'[r[j]] = msg_next[r[j]]
      <3> SUFFICES ASSUME NEW j \in 1..Len(r) PROVE msg_next'[r[j]] = msg_next[r[j]]
        OBVIOUS
      <3>1. r[j] \in Slots /\ r[j] # s
        BY <1>2, <1>7 DEF Elements
      <3> QED
        BY <1>5, <3>1
    <2>3. mqh_free' = IF 1 = 1 THEN s ELSE mqh_free
      BY <1>1
    <2> QED
      BY <1>2, <1>3, <1>7, <2>1, <2>2, <2>3, ChainInsert
  <1>9. Elements(Ins(r, 1, s)) = Elements(r) \cup {s}
    BY <1>2, <1>3, <1>7, InsFacts
  <1>10. Holds(msg_next', mqh_head', mqh_free', Tail(q), Ins(r, 1, s))
    BY <1>2, <1>4, <1>6, <1>8, <1>9 DEF Holds
  <1>11. LinksType'
    <2>1. mqh_free \in 0..MaxMsg
      BY <1>2, ChainStart, LinksAssumption DEF Slots
    <2>2. msg_next' \in [Slots -> 0..MaxMsg]
      BY <1>1, <1>2, <2>1
    <2>3. msg_prio' \in [Slots -> Nat] /\ older' \in [Slots -> SUBSET Slots]
      BY <1>1 DEF LinksType
    <2> QED
      BY <2>2, <2>3 DEF LinksType
  <1> QED
    BY <1>1, <1>3, <1>4, <1>9, <1>10, <1>11 DEF s

\* mymq_send takes the head of the free list to its place among the messages.
LEMMA SendHolds ==
    ASSUME LinksType, NEW q, NEW r, Holds(msg_next, mqh_head, mqh_free, q, r),
           mq_curmsgs = Len(q), NEW prio \in Prios, Send(prio)
    PROVE  /\ mqh_free \in Elements(r) /\ Elements(Tail(r)) = Elements(r) \ {mqh_free}
           /\ \E k \in 1..(Len(q) + 1) :
                 /\ \A i \in 1..(k - 1) : ~(prio > msg_prio[q[i]])
                 /\ k <= Len(q) => prio > msg_prio[q[k]]
                 /\ Holds(msg_next', mqh_head', mqh_free', Ins(q, k, mqh_free), Tail(r))
                 /\ mq_curmsgs' = Len(Ins(q, k, mqh_free))
           /\ LinksType'
  <1> DEFINE s == mqh_free
             place == FindPlace(prio)
             linked == [msg_next EXCEPT ![s] = place.index]
  <1>1. /\ s # 0 /\ mqh_free' = msg_next[s]
        /\ mqh_head' = IF place.pmsg = 0 THEN s ELSE mqh_head
        /\ msg_next' = IF place.pmsg = 0 THEN linked
                       ELSE [linked EXCEPT ![place.pmsg] = s]
        /\ mq_curmsgs' = mq_curmsgs + 1
        /\ msg_prio' = [msg_prio EXCEPT ![s] = prio]
        /\ older' = [older EXCEPT ![s] = Elements(ListFrom(msg_next, mqh_head))]
    BY DEF Send
  <1>2. /\ Chain(msg_next, q, mqh_head) /\ Chain(msg_next, r, s)
        /\ Elements(q) \cup Elements(r) = Slots /\ Elements(q) \cap Elements(r) = {}
        /\ q \in Seq(Slots) /\ Distinct(q) /\ r \in Seq(Slots) /\ Distinct(r)
        /\ msg_next \in [Slots -> 0..MaxMsg] /\ Len(q) \in Nat
    BY DEF Holds, Chain, LinksType
  <1> HIDE DEF s
  <1>3. r # <<>> /\ s = r[1] /\ s \in Slots
    BY <1>1, <1>2, ChainStart
  <1>4. Elements(Tail(r)) = Elements(r) \ {s} /\ s \in Elements(r)
    BY <1>2, <1>3, TailFacts
  <1>5. s \notin Elements(q)
    BY <1>2, <1>4
  <1>6. PICK k \in 1..(Len(q) + 1) :
              /\ \A i \in 1..(k - 1) : ~(prio > msg_prio[q[i]])
              /\ k <= Len(q) => prio > msg_prio[q[k]]
              /\ place = [pmsg |-> At(q, k - 1), index |-> At(q, k)]
    BY <1>2, PlaceIs
  <1> HIDE DEF place
  <1>7. place.pmsg = At(q, k - 1) /\ place.index = At(q, k)
    BY <1>6
  <1>8. /\ k = 1 => place.pmsg = 0
        /\ k # 1 => /\ k - 1 \in 1..Len(q) /\ place.pmsg = q[k - 1]
                    /\ q[k - 1] \in Slots /\ q[k - 1] # s /\ q[k - 1] # 0
    <2>1. k - 1 \in 1..Len(q) <=> k # 1
      BY <1>2
    <2>2. ASSUME k # 1 PROVE q[k - 1] \in Slots /\ q[k - 1] # s /\ q[k - 1] # 0
      BY <1>2, <1>5, <2>1, <2>2, LinksAssumption DEF Elements, Slots
    <2> QED
      BY <1>7, <2>1, <2>2 DEF At
  <1>9. /\ linked \in [Slots -> 0..MaxMsg] /\ linked[s] = At(q, k)
        /\ \A t \in Slots : t # s => linked[t] = msg_next[t]
    <2>1. At(q, k) \in 0..MaxMsg
      BY <1>2, LinksAssumption DEF At, Slots
    <2> QED
      BY <1>2, <1>3, <1>7, <2>1
  <1> HIDE DEF linked
  <1>10. /\ msg_next' \in [Slots -> 0..MaxMsg] /\ msg_next'[s] = At(q, k)
         /\ k # 1 => msg_next'[q[k - 1]] = s
         /\ \A t \in Slots : t # s /\ (k = 1 \/ t # q[k - 1]) => msg_next'[t] = msg_next[t]
    <2>1. CASE k = 1
      BY <1>1, <1>8, <1>9, <2>1
    <2>2. CASE k # 1
      <3>1. msg_next' = [linked EXCEPT ![q[k - 1]] = s]
        BY <1>1, <1>8, <2>2
      <3>2. s \in 0..MaxMsg
        BY <1>3, LinksAssumption DEF Slots
      <3> QED
        BY <1>8, <1>9, <2>2, <3>1, <3>2
    <2> QED
      BY <2>1, <2>2
  <1>11. Chain(msg_next', Ins(q, k, s), mqh_head')
    <2>1. mqh_head' = IF k = 1 THEN s ELSE mqh_head
      BY <1>1, <1>8
    <2>2. ASSUME NEW j \in 1..Len(q), j # k - 1 PROVE msg_next'[q[j]] = msg_next[q[j]]
      <3>1. q[j] \in Slots /\ q[j] # s
        BY <1>2, <1>5 DEF Elements
      <3>2. k = 1 \/ q[j] # q[k - 1]
        BY <1>2, <1>8, <2>2 DEF Distinct
      <3> QED
        BY <1>10, <3>1, <3>2
    <2>3. /\ Chain(msg_next, q, mqh_head) /\ s \in Slots /\ s \notin Elements(q)
          /\ msg_next'[s] = At(q, k) /\ (k # 1 => msg_next'[q[k - 1]] = s)
          /\ \A j \in 1..Len(q) : j # k - 1 => msg_next'[q[j]] = msg_next[q[j]]
      BY <1>2, <1>3, <1>5, <1>10, <2>2
    <2> QED
      BY <2>1, <2>3, ChainInsert
  <1>12. Chain(msg_next', Tail(r), mqh_free')
    <2>1. \A t \in Elements(r) \ {s} : msg_next'[t] = msg_next[t]
      <3> SUFFICES ASSUME NEW t \in Elements(r) \ {s} PROVE msg_next'[t] = msg_next[t]
        OBVIOUS
      <3>1. t \in Slots /\ t \notin Elements(q)
        BY <1>2
      <3>2. k # 1 => q[k - 1] \in Elements(q)
        BY <1>8 DEF Elements
      <3> QED
        BY <1>10, <3>1, <3>2
    <2> QED
      BY <1>1, <1>2, <2>1, ChainTail
  <1>13. /\ Elements(Ins(q, k, s)) = Elements(q) \cup {s}
         /\ Len(Ins(q, k, s)) = Len(q) + 1
    BY <1>2, <1>3, <1>5, InsFacts
  <1>14. Holds(msg_next', mqh_head', mqh_free', Ins(q, k, s), Tail(r))
    BY <1>2, <1>4, <1>11, <1>12, <1>13 DEF Holds
  <1>15. LinksType'
    <2>1. msg_prio' \in [Slots -> Nat]
      BY <1>1, LinksAssumption DEF LinksType
    <2>2. Elements(ListFrom(msg_next, mqh_head)) \subseteq Slots
      BY <1>2, ListIs
    <2>3. older' \in [Slots -> SUBSET Slots]
      BY <1>1, <2>2 DEF LinksType
    <2> QED
      BY <1>10, <2>1, <2>3 DEF LinksType
  <1> QED
    BY <1>1, <1>4, <1>6, <1>13, <1>14, <1>15 DEF s

-----------------------------------------------------------------------------
(* The theorems                                                            *)

\* The two lists hold every slot once, and mq_curmsgs counts the messages,
\* whatever mymq_send and mymq_receive do.
THEOREM LinksInvariant == Spec => []LinksInv
  <1>1. Init => LinksInv
    <2> SUFFICES ASSUME Init PROVE LinksInv
      OBVIOUS
    <2>1. Len(<<>>) = 0
      OBVIOUS
    <2> QED
      BY <2>1, InitHolds DEF LinksInv
  <1>2. LinksInv /\ [Next]_vars => LinksInv'
    <2> SUFFICES ASSUME LinksInv, [Next]_vars PROVE LinksInv'
      OBVIOUS
    <2>1. PICK q, r : Holds(msg_next, mqh_head, mqh_free, q, r) /\ mq_curmsgs = Len(q)
      BY DEF LinksInv
    <2>2. LinksType
      BY DEF LinksInv
    <2>3. CASE Receive
      BY <2>1, <2>2, <2>3, ReceiveHolds DEF LinksInv
    <2>4. ASSUME NEW prio \in Prios, Send(prio) PROVE LinksInv'
      BY <2>1, <2>2, <2>4, SendHolds DEF LinksInv
    <2>5. CASE UNCHANGED vars
      BY <2>1, <2>2, <2>5 DEF LinksInv, LinksType, vars
    <2> QED
      BY <2>3, <2>4, <2>5 DEF Next
  <1> QED
    BY <1>1, <1>2, PTL DEF Spec

\* How many slots are left, and that one is left while the queue is not full.
LEMMA Counts ==
    ASSUME NEW q, NEW r, Holds(msg_next, mqh_head, mqh_free, q, r)
    PROVE  /\ Cardinality(Elements(r)) = MaxMsg - Len(q)
           /\ Len(q) \in Nat /\ Distinct(q)
           /\ Len(q) < MaxMsg => mqh_free # 0
           /\ Len(q) > 0 => mqh_head # 0
  <1>1. /\ Chain(msg_next, q, mqh_head) /\ Chain(msg_next, r, mqh_free)
        /\ Elements(q) \cup Elements(r) = Slots /\ Elements(q) \cap Elements(r) = {}
        /\ q \in Seq(Slots) /\ Distinct(q) /\ r \in Seq(Slots) /\ Distinct(r)
    BY DEF Holds, Chain
  <1>2. /\ Cardinality(Elements(q)) = Len(q) /\ IsFiniteSet(Elements(q)) /\ Len(q) \in Nat
        /\ Cardinality(Elements(r)) = Len(r) /\ IsFiniteSet(Elements(r)) /\ Len(r) \in Nat
    BY <1>1, CountElements
  <1>3. Cardinality(Slots) = MaxMsg /\ MaxMsg \in Nat
    BY LinksAssumption, FS_Interval DEF Slots
  <1>4. Cardinality({}) = 0
    BY FS_EmptySet
  <1>5. MaxMsg = Len(q) + Len(r)
    <2>1. Cardinality(Elements(q) \cup Elements(r)) = Cardinality(Elements(q))
            + Cardinality(Elements(r)) - Cardinality(Elements(q) \cap Elements(r))
      BY <1>2, FS_Union
    <2>2. /\ Cardinality(Elements(q) \cup Elements(r)) = MaxMsg
          /\ Cardinality(Elements(q) \cap Elements(r)) = 0
      BY <1>1, <1>3, <1>4
    <2> QED
      BY <1>2, <1>3, <2>1, <2>2
  <1>6. Len(q) < MaxMsg => r # <<>>
    BY <1>2, <1>3, <1>5
  <1>7. Len(q) > 0 => q # <<>>
    OBVIOUS
  <1> QED
    BY <1>1, <1>2, <1>3, <1>5, <1>6, <1>7, ChainStart

\* Neither err_dump is reached: mymq_send finds a free slot when mq_curmsgs
\* says that there is room, mymq_receive a message when it says that there is
\* one.
THEOREM DumpsNever == Spec => []NeverDumps
  <1>1. LinksInv => NeverDumps
    <2> SUFFICES ASSUME LinksInv PROVE NeverDumps
      OBVIOUS
    <2>1. PICK q, r : Holds(msg_next, mqh_head, mqh_free, q, r) /\ mq_curmsgs = Len(q)
      BY DEF LinksInv
    <2>2. ListFrom(msg_next, mqh_head) = q
      BY <2>1, ListsAre
    <2> QED
      BY <2>1, <2>2, Counts DEF NeverDumps
  <1> QED
    BY <1>1, LinksInvariant, PTL

\* No slot of the file is lost, on both lists or twice on one of them.
THEOREM SlotsKept == Spec => []LinksConserveSlots
  <1>1. LinksInv => LinksConserveSlots
    <2> SUFFICES ASSUME LinksInv PROVE LinksConserveSlots
      OBVIOUS
    <2>1. PICK q, r : Holds(msg_next, mqh_head, mqh_free, q, r) /\ mq_curmsgs = Len(q)
      BY DEF LinksInv
    <2>2. ListFrom(msg_next, mqh_head) = q /\ ListFrom(msg_next, mqh_free) = r
      BY <2>1, ListsAre
    <2>3. /\ Elements(q) \cup Elements(r) = Slots /\ Elements(q) \cap Elements(r) = {}
          /\ Cardinality(Elements(r)) = MaxMsg - Len(q) /\ Distinct(q)
      BY <2>1, Counts DEF Holds
    <2>4. Queue!Queued = Elements(q) /\ Queue!Slots = Slots
      BY <2>2 DEF Queue!Queued, Queue!Slots, Elements, Slots
    <2>5. Queue!Cardinality(Elements(r)) = Cardinality(Elements(r))
      BY DEF Queue!Cardinality, Cardinality
    <2> QED
      BY <2>2, <2>3, <2>4, <2>5 DEF LinksConserveSlots, Queue!SlotsConserved, Distinct
  <1> QED
    BY <1>1, LinksInvariant, PTL

\* The linked lists implement the ordered queue: mymq_receive takes the first
\* message, mymq_send puts one in front of the first message of a lower
\* priority, and nothing else happens to the queue.
THEOREM LinksRefinement == Spec => ImplementsPrioQueue
  <1>1. Init => Queue!PQInit
    <2> SUFFICES ASSUME Init PROVE Queue!PQInit
      OBVIOUS
    <2> DEFINE r == [i \in 1..MaxMsg |-> i]
    <2>1. Holds(msg_next, mqh_head, mqh_free, <<>>, r)
      BY InitHolds
    <2> HIDE DEF r
    <2>2. ListFrom(msg_next, mqh_head) = <<>> /\ ListFrom(msg_next, mqh_free) = r
      BY <2>1, ListsAre
    <2>3. Elements(<<>>) = {}
      BY DEF Elements
    <2>4. Elements(r) = Slots
      BY <2>1, <2>3 DEF Holds
    <2> QED
      BY <2>2, <2>4 DEF Queue!PQInit, Queue!Slots, Slots, Init
  <1>2. LinksInv /\ [Next]_vars => [Queue!PQNext]_(Queue!pqvars)
    <2> SUFFICES ASSUME LinksInv, [Next]_vars PROVE [Queue!PQNext]_(Queue!pqvars)
      OBVIOUS
    <2>1. PICK q, r : Holds(msg_next, mqh_head, mqh_free, q, r) /\ mq_curmsgs = Len(q)
      BY DEF LinksInv
    <2>2. LinksType
      BY DEF LinksInv
    <2>3. ListFrom(msg_next, mqh_head) = q /\ ListFrom(msg_next, mqh_free) = r
      BY <2>1, ListsAre
    <2>4. CASE Receive
      <3> DEFINE p == Ins(r, 1, Head(q))
      <3>1. /\ q # <<>> /\ mqh_head = Head(q)
            /\ Holds(msg_next', mqh_head', mqh_free', Tail(q), p)
            /\ Elements(p) = Elements(r) \cup {Head(q)}
        BY <2>1, <2>2, <2>4, ReceiveHolds
      <3> HIDE DEF p
      <3>2. ListFrom(msg_next, mqh_head)' = Tail(q) /\ ListFrom(msg_next, mqh_free)' = p
        BY <3>1, ListsAre
      <3>3. Elements(ListFrom(msg_next, mqh_free))' = Elements(p)
        BY <3>2 DEF Elements
      <3>4. /\ msg_prio' = msg_prio
            /\ older' = [t \in Slots |-> IF t = Head(q) THEN {} ELSE older[t] \ {Head(q)}]
        BY <2>4, <3>1 DEF Receive
      <3>5. Queue!Take
        BY <2>3, <3>1, <3>2, <3>3, <3>4 DEF Queue!Take, Queue!Slots, Slots
      <3> QED
        BY <3>5 DEF Queue!PQNext
    <2>5. ASSUME NEW prio \in Prios, Send(prio) PROVE Queue!PQNext
      <3>1. /\ mqh_free \in Elements(r)
            /\ Elements(Tail(r)) = Elements(r) \ {mqh_free}
        BY <2>1, <2>2, <2>5, SendHolds
      <3>2. PICK k \in 1..(Len(q) + 1) :
              /\ \A i \in 1..(k - 1) : ~(prio > msg_prio[q[i]])
              /\ k <= Len(q) => prio > msg_prio[q[k]]
              /\ Holds(msg_next', mqh_head', mqh_free', Ins(q, k, mqh_free), Tail(r))
        BY <2>1, <2>2, <2>5, SendHolds
      <3>3. /\ ListFrom(msg_next, mqh_head)' = Ins(q, k, mqh_free)
            /\ ListFrom(msg_next, mqh_free)' = Tail(r)
        BY <3>2, ListsAre
      <3>4. Elements(ListFrom(msg_next, mqh_free))' = Elements(Tail(r))
        BY <3>3 DEF Elements
      <3>5. /\ msg_prio' = [msg_prio EXCEPT ![mqh_free] = prio]
            /\ older' = [older EXCEPT ![mqh_free] = Elements(q)]
        BY <2>3, <2>5 DEF Send
      <3>6. Queue!Placed(prio, k)
        BY <2>3, <3>2 DEF Queue!Placed
      <3>7. Queue!Inserted(k, mqh_free) = Ins(q, k, mqh_free) /\ Queue!Queued = Elements(q)
        BY <2>3 DEF Queue!Inserted, Queue!Queued, Ins, Elements
      <3>8. Queue!PutInto(prio, mqh_free)
        <4>1. \E n \in 1..(Len(q) + 1) :
                 Queue!Placed(prio, n)
                 /\ ListFrom(msg_next, mqh_head)' = Queue!Inserted(n, mqh_free)
          BY <3>3, <3>6, <3>7
        <4> QED
          BY <2>3, <3>1, <3>4, <3>5, <3>7, <4>1 DEF Queue!PutInto
      <3>9. Queue!Put(prio)
        BY <2>3, <3>1, <3>8 DEF Queue!Put
      <3> QED
        BY <3>9 DEF Queue!PQNext
    <2>6. CASE UNCHANGED vars
      BY <2>6 DEF vars, Queue!pqvars, ListFrom, Elements
    <2> QED
      BY <2>4, <2>5, <2>6 DEF Next
  <1> QED
    BY <1>1, <1>2, LinksInvariant, PTL DEF Spec, ImplementsPrioQueue, Queue!PQSpec

Proved == INSTANCE PrioQueue_proofs WITH msgs <- ListFrom(msg_next, mqh_head),
                                         free <- Elements(ListFrom(msg_next, mqh_free)),
                                         prio <- msg_prio

\* What is proved of the ordered queue therefore holds of the links: the list
\* from mqh_head is ordered by priority, and by arrival within a priority.
THEOREM LinksOrdered == Spec => []Queue!PriorityFifo
  <1>1. Queue!PQInit => Proved!PQInit
    BY DEF Queue!PQInit, Proved!PQInit, Queue!Slots, Proved!Slots
  <1>2. Queue!Take => Proved!Take
    BY DEF Queue!Take, Proved!Take, Queue!Slots, Proved!Slots
  <1>3. ASSUME NEW pr, Queue!Put(pr) PROVE Proved!Put(pr)
    BY <1>3 DEF Queue!Put, Proved!Put, Queue!PutInto, Proved!PutInto,
                Queue!Placed, Proved!Placed, Queue!Inserted, Proved!Inserted,
                Queue!Queued, Proved!Queued
  <1>4. [Queue!PQNext]_(Queue!pqvars) => [Proved!PQNext]_(Proved!pqvars)
    BY <1>2, <1>3 DEF Queue!PQNext, Proved!PQNext, Queue!pqvars, Proved!pqvars
  <1>5. Proved!QueueAssumption
    BY LinksAssumption
  <1>6. Proved!PQSpec => [](Proved!SlotsConserved /\ Proved!PriorityFifo)
    BY <1>5, Proved!OrderedQueue
  <1>7. Proved!PriorityFifo => Queue!PriorityFifo
    BY DEF Proved!PriorityFifo, Queue!PriorityFifo
  <1> QED
    BY <1>1, <1>4, <1>6, <1>7, LinksRefinement, PTL
       DEF ImplementsPrioQueue, Queue!PQSpec, Proved!PQSpec
=============================================================================
