---------------------------- MODULE LinkedLists -----------------------------
(***************************************************************************)
(* Singly linked lists in an array: f[x] is the successor of cell x, and 0 *)
(* ends a list.  The cells that a list consists of are described without   *)
(* recursion, as the least set that contains the first cell and is closed  *)
(* under f, so that facts about them can be proved by exhibiting a closed  *)
(* set.  The lemmas say what the usual operations do to a list: a step     *)
(* along it, a new cell in front, a cell taken out.  They are used in the  *)
(* proofs about the hash chains and the free list of the database and      *)
(* about the message queue.                                                *)
(***************************************************************************)
EXTENDS Naturals, FiniteSets, FiniteSetTheorems, WellFoundedInduction, TLAPS

Closed(f, S) == \A s \in S : f[s] = 0 \/ f[s] \in S

\* The cells of U on the way from cell x along f.
Reach(f, U, x) ==
    {s \in U : \A S \in SUBSET U : Closed(f, S) /\ (x = 0 \/ x \in S) => s \in S}

\* The cells on the way from root r, which is no cell itself, form a list: no
\* two of them, the root included, have the same successor.
IsList(f, U, r) ==
    \A x, y \in {r} \cup Reach(f, U, f[r]) : f[x] = f[y] /\ f[x] # 0 => x = y

-----------------------------------------------------------------------------
(* Induction over the natural numbers, stated for sets                     *)

\* Every nonempty set of natural numbers has a least element.
LEMMA LeastNat ==
    ASSUME NEW T \in SUBSET Nat, T # {}
    PROVE  \E m \in T : \A t \in T : m <= t
  <1> DEFINE I == {0..t : t \in T}
             R == StrictSubsetOrdering(Nat)
  <1>1. I \subseteq FiniteSubsetsOf(Nat)
    <2> SUFFICES ASSUME NEW t \in T
                 PROVE  0..t \in FiniteSubsetsOf(Nat)
      OBVIOUS
    <2>1. IsFiniteSet(0..t)
      BY FS_Interval
    <2> QED
      BY <2>1 DEF FiniteSubsetsOf
  <1>2. I # {}
    OBVIOUS
  <1>3. IsWellFoundedOn(R, FiniteSubsetsOf(Nat))
    BY FS_StrictSubsetOrderingWellFounded
  <1> HIDE DEF R, I
  <1>4. PICK x \in I : \A y \in I : ~(<<y, x>> \in R)
    BY <1>1, <1>2, <1>3, WFMin
  <1>5. PICK m \in T : x = 0..m
    BY DEF I
  <1>6. ASSUME NEW t \in T, t < m PROVE FALSE
    <2>1. 0..t \in I
      BY DEF I
    <2>2. /\ 0..t \in SUBSET Nat /\ 0..m \in SUBSET Nat
          /\ 0..t \subseteq 0..m /\ 0..t # 0..m
      BY <1>6
    <2> QED
      BY <2>1, <2>2, <1>4, <1>5 DEF R, StrictSubsetOrdering
  <1> QED
    BY <1>6

\* A set that holds 0 and with each number the next holds all numbers.
LEMMA NatSetInduction ==
    ASSUME NEW S, 0 \in S, \A n \in Nat : n \in S => n + 1 \in S
    PROVE  \A n \in Nat : n \in S
  <1> SUFFICES ASSUME Nat \ S # {} PROVE FALSE
    OBVIOUS
  <1>1. PICK m \in Nat \ S : \A t \in Nat \ S : m <= t
    BY LeastNat
  <1>2. m # 0 /\ m - 1 \in Nat /\ m - 1 \in S
    BY <1>1
  <1> QED
    BY <1>2, <1>1

-----------------------------------------------------------------------------
(* The cells of a list                                                     *)

\* The first cell is on the list, with each cell its successor is, and nothing
\* else: a closed set with the first cell holds all of the list.
LEMMA ReachClosed ==
    ASSUME NEW f, NEW U, Closed(f, U), NEW x, x = 0 \/ x \in U
    PROVE  /\ x = 0 \/ x \in Reach(f, U, x)
           /\ Closed(f, Reach(f, U, x))
           /\ Reach(f, U, x) \subseteq U
  BY DEF Reach, Closed

LEMMA ReachLeast ==
    ASSUME NEW f, NEW U, NEW x, NEW S \in SUBSET U, Closed(f, S), x = 0 \/ x \in S
    PROVE  Reach(f, U, x) \subseteq S
  BY DEF Reach

\* A list does not depend on the links outside of it.
LEMMA ReachFrame ==
    ASSUME NEW f, NEW g, NEW U, Closed(f, U), NEW x, x = 0 \/ x \in U,
           \A s \in Reach(f, U, x) : g[s] = f[s]
    PROVE  Reach(g, U, x) = Reach(f, U, x)
  <1> DEFINE R == Reach(f, U, x)
  <1>1. (x = 0 \/ x \in R) /\ Closed(f, R) /\ R \in SUBSET U
    BY ReachClosed
  <1> HIDE DEF R
  <1>2. Closed(g, R)
    BY <1>1 DEF Closed, R
  <1>3. Reach(g, U, x) \subseteq R
    BY <1>1, <1>2, ReachLeast
  <1>4. ASSUME NEW S \in SUBSET U, Closed(g, S), x = 0 \/ x \in S
        PROVE  R \subseteq S
    <2>1. Closed(f, S \cap R)
      BY <1>4, <1>1 DEF Closed, R
    <2>2. x = 0 \/ x \in S \cap R
      BY <1>1, <1>4
    <2>3. S \cap R \in SUBSET U
      BY <1>1
    <2> QED
      BY <2>1, <2>2, <2>3, ReachLeast DEF R
  <1>5. R \subseteq Reach(g, U, x)
    BY <1>4, <1>1 DEF Reach
  <1> QED
    BY <1>3, <1>5 DEF R

\* One step along a list.
LEMMA ReachStep ==
    ASSUME NEW f, NEW U, Closed(f, U), 0 \notin U, NEW x \in U
    PROVE  Reach(f, U, x) = {x} \cup Reach(f, U, f[x])
  <1> DEFINE R == Reach(f, U, f[x])
  <1>1. (f[x] = 0 \/ f[x] \in R) /\ Closed(f, R) /\ R \subseteq U
    BY ReachClosed DEF Closed
  <1>2. x \in Reach(f, U, x) /\ Closed(f, Reach(f, U, x)) /\ Reach(f, U, x) \in SUBSET U
    BY ReachClosed
  <1>3. f[x] = 0 \/ f[x] \in Reach(f, U, x)
    BY <1>2 DEF Closed
  <1>4. R \subseteq Reach(f, U, x)
    BY <1>2, <1>3, ReachLeast
  <1> HIDE DEF R
  <1>5. Closed(f, {x} \cup R) /\ {x} \cup R \in SUBSET U
    BY <1>1 DEF Closed
  <1>6. Reach(f, U, x) \subseteq {x} \cup R
    BY <1>5, ReachLeast
  <1> QED
    BY <1>2, <1>4, <1>6 DEF R

LEMMA ReachNothing ==
    ASSUME NEW f, NEW U
    PROVE  Reach(f, U, 0) = {}
  <1>1. Closed(f, {}) /\ {} \in SUBSET U
    BY DEF Closed
  <1> QED
    BY <1>1, ReachLeast

\* A cell on the list leads to a part of the list.
LEMMA ReachPart ==
    ASSUME NEW f, NEW U, Closed(f, U), NEW x, x = 0 \/ x \in U,
           NEW y, y = 0 \/ y \in Reach(f, U, x)
    PROVE  Reach(f, U, y) \subseteq Reach(f, U, x)
  <1>1. Closed(f, Reach(f, U, x)) /\ Reach(f, U, x) \in SUBSET U
    BY ReachClosed
  <1> QED
    BY <1>1, ReachLeast

-----------------------------------------------------------------------------
(* Lists end, and operations on lists                                      *)

\* A list has no cycle: no nonempty part of it is closed without an end.
LEMMA ListEnds ==
    ASSUME NEW f, NEW U, Closed(f, U), IsFiniteSet(U), 0 \notin U,
           NEW r, r \notin U, f[r] = 0 \/ f[r] \in U, IsList(f, U, r),
           NEW S \in SUBSET Reach(f, U, f[r]), S # {}
    PROVE  \E s \in S : f[s] \notin S
  <1> DEFINE R == Reach(f, U, f[r])
  <1> SUFFICES ASSUME \A s \in S : f[s] \in S
               PROVE  FALSE
    OBVIOUS
  <1>1. (f[r] = 0 \/ f[r] \in R) /\ Closed(f, R) /\ R \subseteq U
    BY ReachClosed
  <1>2. \A x, y \in {r} \cup R : f[x] = f[y] /\ f[x] # 0 => x = y
    BY DEF IsList
  <1> HIDE DEF R
  <1>3. S \subseteq R /\ S \subseteq U /\ 0 \notin S /\ r \notin S
    BY <1>1 DEF R
  <1> DEFINE h == [s \in S |-> f[s]]
  <1>4. h \in [S -> S]
    OBVIOUS
  <1>5. \A x, y \in S : h[x] = h[y] => x = y
    BY <1>2, <1>3
  <1>6. h \in Injection(S, S)
    BY <1>4, <1>5 DEF Injection, IsInjective
  <1>7. IsFiniteSet(S)
    BY <1>3, FS_Subset
  <1>8. h \in Surjection(S, S)
    BY <1>6, <1>7, FS_Injection
  <1>9. \A y \in S : \E x \in S : h[x] = y
    BY <1>8 DEF Surjection
  <1>10. \A y \in S : \E x \in S : f[x] = y
    BY <1>9
  <1>11. Closed(f, R \ S)
    BY <1>1, <1>2, <1>3, <1>10 DEF Closed
  <1>12. f[r] \notin S
    BY <1>2, <1>3, <1>10
  <1>13. R \subseteq R \ S
    BY <1>11, <1>12, <1>1, ReachLeast DEF R
  <1> QED
    BY <1>13, <1>3

\* A list is not changed by what happens to other cells.
LEMMA ListFrame ==
    ASSUME NEW f, NEW g, NEW U, Closed(f, U), NEW r, f[r] = 0 \/ f[r] \in U,
           IsList(f, U, r),
           g[r] = f[r], \A s \in Reach(f, U, f[r]) : g[s] = f[s]
    PROVE  Reach(g, U, g[r]) = Reach(f, U, f[r]) /\ IsList(g, U, r)
  <1>1. Reach(g, U, f[r]) = Reach(f, U, f[r])
    BY ReachFrame
  <1> QED
    BY <1>1 DEF IsList

\* A new cell in front of a list.
LEMMA ListPrepend ==
    ASSUME NEW f, NEW g, NEW U, Closed(f, U), 0 \notin U,
           NEW r, r \notin U, f[r] = 0 \/ f[r] \in U, IsList(f, U, r),
           NEW n \in U, n \notin Reach(f, U, f[r]), f[n] = f[r],
           g[r] = n, \A u \in U : g[u] = f[u]
    PROVE  /\ Reach(g, U, g[r]) = {n} \cup Reach(f, U, f[r])
           /\ IsList(g, U, r)
  <1> DEFINE R == Reach(f, U, f[r])
  <1>1. (f[r] = 0 \/ f[r] \in R) /\ Closed(f, R) /\ R \subseteq U
    BY ReachClosed
  <1>2. Closed(g, U)
    BY DEF Closed
  <1>3. Reach(g, U, n) = {n} \cup Reach(g, U, g[n])
    BY <1>2, ReachStep
  <1>4. Reach(g, U, f[r]) = R
    BY <1>1, ReachFrame
  <1>5. Reach(g, U, g[r]) = {n} \cup R
    BY <1>3, <1>4
  <1>6. \A x, y \in {r} \cup R : f[x] = f[y] /\ f[x] # 0 => x = y
    BY DEF IsList
  <1> HIDE DEF R
  <1>7. \A s \in R : f[s] # n
    BY <1>1 DEF Closed, R
  <1>8. ASSUME NEW x \in {r} \cup {n} \cup R, NEW y \in {r} \cup {n} \cup R,
               g[x] = g[y], g[x] # 0
        PROVE  x = y
    BY <1>1, <1>6, <1>7, <1>8
  <1> QED
    BY <1>5, <1>8 DEF IsList, R

\* A cell s taken out of a list, where x is the cell, or the root, before it.
LEMMA ListRemove ==
    ASSUME NEW f, NEW g, NEW U, Closed(f, U), IsFiniteSet(U), 0 \notin U,
           NEW r, r \notin U, f[r] = 0 \/ f[r] \in U, IsList(f, U, r),
           NEW x \in {r} \cup Reach(f, U, f[r]), NEW s, s = f[x], s # 0,
           g[x] = f[s], \A u \in {r} \cup U : u # x => g[u] = f[u]
    PROVE  /\ Reach(g, U, g[r]) = Reach(f, U, f[r]) \ {s}
           /\ IsList(g, U, r)
           /\ s \in Reach(f, U, f[r])
           /\ x # s
  <1> DEFINE R == Reach(f, U, f[r])
  <1>1. (f[r] = 0 \/ f[r] \in R) /\ Closed(f, R) /\ R \subseteq U
    BY ReachClosed
  <1>2. s \in R
    BY <1>1 DEF Closed
  <1>3. f[s] # s
    <2>1. {s} \in SUBSET Reach(f, U, f[r]) /\ {s} # {}
      BY <1>2
    <2>2. \E t \in {s} : f[t] \notin {s}
      BY <2>1, ListEnds
    <2> QED
      BY <2>2
  <1>4. \A y, z \in {r} \cup R : f[y] = f[z] /\ f[y] # 0 => y = z
    BY DEF IsList
  <1> HIDE DEF R
  <1>5. x # s
    BY <1>3
  <1>6. Closed(g, R \ {s}) /\ (g[r] = 0 \/ g[r] \in R \ {s})
    BY <1>1, <1>2, <1>3, <1>4, <1>5 DEF Closed, R
  <1>7. Reach(g, U, g[r]) \subseteq R \ {s}
    BY <1>6, <1>1, ReachLeast
  <1>8. ASSUME NEW S \in SUBSET U, Closed(g, S), g[r] = 0 \/ g[r] \in S
        PROVE  R \ {s} \subseteq S
    <2>1. CASE x \in S \/ x = r
      <3>1. Closed(f, S \cup {s}) /\ S \cup {s} \in SUBSET U
        BY <2>1, <1>8, <1>1, <1>2 DEF Closed
      <3>2. f[r] = 0 \/ f[r] \in S \cup {s}
        BY <1>8
      <3> QED
        BY <3>1, <3>2, ReachLeast DEF R
    <2>2. CASE x \notin S /\ x # r
      <3>1. Closed(f, S) /\ (f[r] = 0 \/ f[r] \in S)
        BY <2>2, <1>8 DEF Closed
      <3> QED
        BY <3>1, ReachLeast DEF R
    <2> QED
      BY <2>1, <2>2
  <1>9. R \ {s} \subseteq Reach(g, U, g[r])
    BY <1>8, <1>1 DEF Reach
  <1>10. Reach(g, U, g[r]) = R \ {s}
    BY <1>7, <1>9
  <1>11. ASSUME NEW y \in {r} \cup (R \ {s}), NEW z \in {r} \cup (R \ {s}),
                g[y] = g[z], g[y] # 0
         PROVE  y = z
    BY <1>1, <1>2, <1>4, <1>5, <1>11 DEF R
  <1> QED
    BY <1>10, <1>11, <1>2, <1>5 DEF IsList, R

-----------------------------------------------------------------------------
(* Walking along a list                                                    *)

\* w follows the links for n steps from cell x, and stays at 0 once it is there.
IsWalk(w, f, n, x) ==
    /\ w = [i \in 0..n |-> w[i]] /\ w[0] = x
    /\ \A i \in 0..n : i # n => w[i + 1] = IF w[i] = 0 THEN 0 ELSE f[w[i]]

Visited(w, n) == {w[i] : i \in 0..n} \ {0}

\* There is such a walk: the recursive function that is one exists.
LEMMA WalkExists ==
    ASSUME NEW f, NEW N \in Nat, NEW x
    PROVE  \E w : IsWalk(w, f, N, x)
  <1> DEFINE S == {n \in Nat : \E w : IsWalk(w, f, n, x)}
  <1>1. 0 \in S
    <2> DEFINE w == [i \in 0..0 |-> x]
    <2>1. IsWalk(w, f, 0, x)
      BY DEF IsWalk
    <2> QED
      BY <2>1
  <1>2. ASSUME NEW n \in Nat, n \in S PROVE n + 1 \in S
    <2>1. PICK v : IsWalk(v, f, n, x)
      BY <1>2
    <2> DEFINE next == IF v[n] = 0 THEN 0 ELSE f[v[n]]
               w == [i \in 0..n + 1 |-> IF i = n + 1 THEN next ELSE v[i]]
    <2>2. (\A i \in 0..n : w[i] = v[i]) /\ w[n + 1] = next /\ w = [i \in 0..n + 1 |-> w[i]]
      OBVIOUS
    <2> HIDE DEF w
    <2>3. w[0] = x
      <3>1. 0 \in 0..n /\ v[0] = x
        BY <2>1 DEF IsWalk
      <3> QED
        BY <2>2, <3>1
    <2>4. ASSUME NEW i \in 0..n + 1, i # n + 1
          PROVE  w[i + 1] = IF w[i] = 0 THEN 0 ELSE f[w[i]]
      <3>1. i \in 0..n /\ (i # n => i + 1 \in 0..n)
        BY <2>4
      <3> QED
        BY <2>1, <2>2, <3>1 DEF IsWalk
    <2>5. IsWalk(w, f, n + 1, x)
      BY <2>2, <2>3, <2>4 DEF IsWalk
    <2> QED
      BY <2>5
  <1> HIDE DEF S
  <1>3. N \in S
    BY <1>1, <1>2, NatSetInduction
  <1> QED
    BY <1>3 DEF S

\* A walk of N steps along a list in an array of N cells reaches the end of the
\* list and comes past all of its cells.
LEMMA WalkVisits ==
    ASSUME NEW f, NEW N \in Nat, Closed(f, 1..N),
           NEW r, r \notin 1..N, f[r] = 0 \/ f[r] \in 1..N, IsList(f, 1..N, r),
           NEW w, IsWalk(w, f, N, f[r])
    PROVE  w[N] = 0 /\ Visited(w, N) = Reach(f, 1..N, f[r])
  <1>0. w[0] = f[r] /\ \A i \in 0..N : i # N => w[i + 1] = IF w[i] = 0 THEN 0 ELSE f[w[i]]
    BY DEF IsWalk
  <1> DEFINE R == Reach(f, 1..N, f[r])
  <1>1. /\ f[r] = 0 \/ f[r] \in R
        /\ Closed(f, R) /\ R \subseteq 1..N
    BY ReachClosed
  <1> HIDE DEF R
  <1>2. \A i \in 0..N : w[i] = 0 \/ w[i] \in R
    <2> DEFINE S == {n \in Nat : n <= N => w[n] = 0 \/ w[n] \in R}
    <2>1. 0 \in S
      BY <1>0, <1>1
    <2>2. ASSUME NEW n \in Nat, n \in S PROVE n + 1 \in S
      <3> SUFFICES ASSUME n + 1 <= N PROVE w[n + 1] = 0 \/ w[n + 1] \in R
        OBVIOUS
      <3>1. n \in 0..N /\ n # N /\ n <= N
        OBVIOUS
      <3>2. w[n + 1] = IF w[n] = 0 THEN 0 ELSE f[w[n]]
        BY <1>0, <3>1
      <3>3. w[n] = 0 \/ w[n] \in R
        BY <2>2, <3>1
      <3> QED
        BY <1>1, <3>2, <3>3 DEF Closed
    <2> HIDE DEF S
    <2>3. \A n \in Nat : n \in S
      BY <2>1, <2>2, NatSetInduction
    <2> QED
      BY <2>3 DEF S
  <1>3. w[N] = 0
    <2> SUFFICES ASSUME w[N] # 0 PROVE FALSE
      OBVIOUS
    \* A walk that has reached the end stays there.
    <2>1. \A i \in 0..N : w[i] # 0
      <3> SUFFICES ASSUME NEW i \in 0..N, w[i] = 0 PROVE FALSE
        OBVIOUS
      <3> DEFINE S == {n \in Nat : i + n <= N => w[i + n] = 0}
      <3>1. 0 \in S
        OBVIOUS
      <3>2. ASSUME NEW n \in Nat, n \in S PROVE n + 1 \in S
        <4> SUFFICES ASSUME i + (n + 1) <= N PROVE w[i + (n + 1)] = 0
          OBVIOUS
        <4>1. i + n \in 0..N /\ i + n # N /\ (i + n) + 1 = i + (n + 1) /\ i + n <= N
          OBVIOUS
        <4>2. w[i + n] = 0
          BY <3>2, <4>1
        <4>3. w[(i + n) + 1] = 0
          BY <1>0, <4>1, <4>2
        <4> QED
          BY <4>1, <4>3
      <3> HIDE DEF S
      <3>3. \A n \in Nat : n \in S
        BY <3>1, <3>2, NatSetInduction
      <3>4. N - i \in Nat /\ i + (N - i) = N /\ N <= N
        OBVIOUS
      <3>5. N - i \in S
        BY <3>3, <3>4
      <3>6. w[i + (N - i)] = 0
        BY <3>4, <3>5 DEF S
      <3> QED
        BY <3>4, <3>6
    <2>2. \A i \in 0..N : w[i] \in R
      BY <1>2, <2>1
    <2> DEFINE g == [i \in 0..N |-> w[i]]
    <2>3. g \in [0..N -> 1..N]
      BY <1>1, <2>2
    <2>4. /\ IsFiniteSet(0..N) /\ IsFiniteSet(1..N)
          /\ Cardinality(0..N) = N + 1 /\ Cardinality(1..N) = N
      <3>1. 0 \in Int /\ 1 \in Int /\ N \in Int
        OBVIOUS
      <3>2. /\ IsFiniteSet(0..N) /\ Cardinality(0..N) = IF 0 > N THEN 0 ELSE N - 0 + 1
            /\ IsFiniteSet(1..N) /\ Cardinality(1..N) = IF 1 > N THEN 0 ELSE N - 1 + 1
        BY <3>1, FS_Interval
      <3> QED
        BY <3>2
    <2>5. \E i, j \in 0..N : i # j /\ g[i] = g[j]
      <3> DEFINE A == 0..N
                 B == 1..N
      <3>1. Cardinality(B) < Cardinality(A) /\ IsFiniteSet(A) /\ IsFiniteSet(B)
        BY <2>4
      <3>2. g \in [A -> B]
        BY <2>3
      <3> HIDE DEF g, A, B
      <3>3. \E i, j \in A : i # j /\ g[i] = g[j]
        BY <3>1, <3>2, FS_PigeonHole
      <3> QED
        BY <3>3 DEF A
    <2>6. PICK i, j \in 0..N : i < j /\ w[i] = w[j]
      BY <2>5
    \* Between the two visits the walk goes round a closed part of the list.
    <2> DEFINE S == {w[m] : m \in i..j - 1}
    <2>7. S \in SUBSET R /\ S # {}
      <3>1. i \in i..j - 1
        BY <2>6
      <3>2. \A m \in i..j - 1 : m \in 0..N
        OBVIOUS
      <3>3. \A m \in i..j - 1 : w[m] \in R
        BY <2>2, <3>2
      <3> QED
        BY <3>1, <3>3
    <2>8. \A s \in S : f[s] \in S
      <3> SUFFICES ASSUME NEW m \in i..j - 1 PROVE f[w[m]] \in S
        OBVIOUS
      <3>1. m \in 0..N /\ m # N /\ m + 1 <= j /\ (m + 1 = j \/ m + 1 \in i..j - 1)
        BY <2>6
      <3>2. f[w[m]] = w[m + 1]
        BY <1>0, <2>1, <3>1
      <3>3. i \in i..j - 1
        BY <2>6
      <3> QED
        BY <2>6, <3>1, <3>2, <3>3
    <2> HIDE DEF S
    <2>9. 0 \notin 1..N
      OBVIOUS
    <2>10. \E s \in S : f[s] \notin S
      BY <2>4, <2>7, <2>9, ListEnds DEF R
    <2> QED
      BY <2>8, <2>10
  <1>4. {w[i] : i \in 0..N} \ {0} \subseteq R
    BY <1>2
  <1>5. R \subseteq {w[i] : i \in 0..N} \ {0}
    <2> DEFINE W == {w[i] : i \in 0..N} \ {0}
    <2>1. W \in SUBSET (1..N)
      BY <1>1, <1>2
    <2>2. f[r] = 0 \/ f[r] \in W
      <3>1. 0 \in 0..N
        OBVIOUS
      <3> QED
        BY <1>0, <3>1
    <2>3. Closed(f, W)
      <3> SUFFICES ASSUME NEW i \in 0..N, w[i] # 0 PROVE f[w[i]] = 0 \/ f[w[i]] \in W
        BY DEF Closed
      <3>1. i # N /\ i + 1 \in 0..N
        BY <1>3
      <3>2. f[w[i]] = w[i + 1]
        BY <1>0, <3>1
      <3> QED
        BY <3>1, <3>2
    <2> HIDE DEF W
    <2>4. R \subseteq W
      BY <2>1, <2>2, <2>3, ReachLeast DEF R
    <2> QED
      BY <2>4 DEF W
  <1> QED
    BY <1>3, <1>4, <1>5 DEF R, Visited
=============================================================================
