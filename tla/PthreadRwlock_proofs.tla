------------------------ MODULE PthreadRwlock_proofs ------------------------
(***************************************************************************)
(* Proofs about PthreadRwlock for every finite set of threads, both        *)
(* versions of the lock and every set of cancellable threads.              *)
(***************************************************************************)
EXTENDS PthreadRwlock, FiniteSetTheorems, TLAPS

RQ == At("rdwait") \cup At("rdcancel")   \* counted as waiting readers
WQ == At("wrwait") \cup At("wrcancel")   \* counted as waiting writers

(***************************************************************************)
(* The inductive invariant.  The counts are exact, the sleepers on a       *)
(* condition variable are among the threads counted as waiting on it, and  *)
(* only threads that may be cancelled ever are.                            *)
(***************************************************************************)
Asleep ==
    /\ condreaders \subseteq At("rdwait")
    /\ condwriters \subseteq At("wrwait")
    /\ At("rdcancel") \cup At("wrcancel") \subseteq Cancellable

IInv == TypeOK /\ RefcountExact /\ WaitCountsExact /\ Asleep

-----------------------------------------------------------------------------
\* Any set of threads picked by what they do is finite, so it has a size.
LEMMA AtFinite ==
    ASSUME NEW l \in PC
    PROVE  IsFiniteSet(At(l))
BY RwlockAssumption, FS_Subset DEF At

\* The sets of waiting threads are finite too.
LEMMA QueuesFinite == IsFiniteSet(RQ) /\ IsFiniteSet(WQ)
BY RwlockAssumption, FS_Subset DEF RQ, WQ, At

\* Adding a new thread to a finite set, or taking a member away, changes its
\* size by one.
LEMMA CardStep ==
    ASSUME NEW S, IsFiniteSet(S), NEW x
    PROVE  /\ Cardinality(S) \in Nat
           /\ x \notin S => Cardinality(S \cup {x}) = Cardinality(S) + 1
           /\ x \in S => /\ Cardinality(S \ {x}) = Cardinality(S) - 1
                         /\ Cardinality(S) > 0
           /\ (Cardinality(S) = 0) <=> (S = {})
<1>1. Cardinality(S) \in Nat
  BY FS_CardinalityType
<1>2. x \notin S => Cardinality(S \cup {x}) = Cardinality(S) + 1
  BY FS_AddElement
<1>3. (Cardinality(S) = 0) <=> (S = {})
  BY FS_EmptySet
<1>4. ASSUME x \in S
      PROVE  Cardinality(S \ {x}) = Cardinality(S) - 1 /\ Cardinality(S) > 0
  <2>1. Cardinality(S \ {x}) = Cardinality(S) - 1
    BY <1>4, FS_RemoveElement
  <2>2. S # {}
    BY <1>4
  <2> QED BY <2>1, <2>2, <1>1, <1>3
<1> QED BY <1>1, <1>2, <1>3, <1>4

\* How the sets of threads change when one thread moves on.
LEMMA Move ==
    ASSUME pc \in [Threads -> PC], NEW t \in Threads, NEW a \in PC,
           pc' = [pc EXCEPT ![t] = a]
    PROVE  /\ pc' \in [Threads -> PC]
           /\ \A l \in PC : At(l)' = IF l = a THEN At(l) \cup {t}
                                              ELSE At(l) \ {t}
           /\ \A l \in PC : l # a /\ pc[t] # l => At(l)' = At(l)
           /\ \A l \in PC : t \in At(l) <=> pc[t] = l
BY DEF At, PC

-----------------------------------------------------------------------------
\* What the invariant says about the sets of threads, in the form the steps
\* below use it.
LEMMA CountFacts ==
    ASSUME IInv
    PROVE  /\ rw_nwaitreaders = Cardinality(RQ) /\ rw_nwaitwriters = Cardinality(WQ)
           /\ rw_nwaitreaders > 0 <=> RQ # {}
           /\ rw_nwaitwriters > 0 <=> WQ # {}
           /\ rw_refcount = 0 => At("reading") = {} /\ At("writing") = {}
           /\ rw_refcount > 0 => At("reading") # {} /\ At("writing") = {}
           /\ rw_refcount < 0 => rw_refcount = -1
           /\ rw_refcount >= 0 => rw_refcount = Cardinality(At("reading"))
<1>1. "reading" \in PC
  BY DEF PC
<1>2. IsFiniteSet(At("reading"))
  BY <1>1, AtFinite
<1>3. /\ Cardinality(At("reading")) \in Nat
      /\ (Cardinality(At("reading")) = 0) <=> (At("reading") = {})
  BY <1>2, CardStep
<1>4. /\ Cardinality(RQ) \in Nat /\ Cardinality(WQ) \in Nat
      /\ (Cardinality(RQ) = 0) <=> (RQ = {})
      /\ (Cardinality(WQ) = 0) <=> (WQ = {})
  BY QueuesFinite, CardStep
<1>5. rw_nwaitreaders = Cardinality(RQ) /\ rw_nwaitwriters = Cardinality(WQ)
  BY DEF IInv, WaitCountsExact, RQ, WQ
<1>6. /\ rw_nwaitreaders > 0 <=> RQ # {}
      /\ rw_nwaitwriters > 0 <=> WQ # {}
  BY <1>4, <1>5
<1>7. CASE rw_refcount = -1
  BY <1>5, <1>6, <1>7
<1>8. CASE rw_refcount = Cardinality(At("reading")) /\ At("writing") = {}
  BY <1>3, <1>5, <1>6, <1>8
<1> QED BY <1>7, <1>8 DEF IInv, RefcountExact

\* A thread that becomes a reader keeps the invariant, wherever it comes from,
\* if no writer holds the lock and the readers' count is kept.
LEMMA BecomesReader ==
    ASSUME IInv, NEW t \in Threads, Step(t),
           pc[t] \in {"idle", "rdwait"}, t \notin condreaders, ~RdMustWait,
           rw_refcount' = rw_refcount + 1,
           rw_nwaitreaders' = IF pc[t] = "rdwait" THEN rw_nwaitreaders - 1
                                                  ELSE rw_nwaitreaders,
           pc' = [pc EXCEPT ![t] = "reading"],
           UNCHANGED <<rw_nwaitwriters, condreaders, condwriters>>
    PROVE  IInv'
<1> USE DEF IInv
<1>1. /\ pc' \in [Threads -> PC]
      /\ At("reading")' = At("reading") \cup {t}
      /\ At("writing")' = At("writing") \ {t}
      /\ At("rdwait")' = At("rdwait") \ {t}
      /\ At("rdcancel")' = At("rdcancel") \ {t}
      /\ At("wrwait")' = At("wrwait") \ {t}
      /\ At("wrcancel")' = At("wrcancel") \ {t}
      /\ t \notin At("reading") /\ t \notin At("writing")
      /\ t \in At("rdwait") <=> pc[t] = "rdwait"
      /\ t \notin At("rdcancel") /\ t \notin WQ
  BY Move DEF TypeOK, PC, WQ
<1>2. RQ' = (IF pc[t] = "rdwait" THEN RQ \ {t} ELSE RQ) /\ WQ' = WQ
  BY <1>1 DEF RQ, WQ
<1>3. rw_refcount >= 0 /\ rw_refcount = Cardinality(At("reading"))
      /\ At("writing") = {}
  BY CountFacts DEF RdMustWait, TypeOK, RefcountExact
<1>4. rw_refcount' = Cardinality(At("reading")')
  <2>1. IsFiniteSet(At("reading"))
    BY AtFinite DEF PC
  <2> QED BY <2>1, <1>1, <1>3, CardStep
<1>5. RefcountExact'
  BY <1>1, <1>3, <1>4 DEF RefcountExact
<1>6. WaitCountsExact'
  <2>1. rw_nwaitreaders' = Cardinality(RQ')
    <3>1. pc[t] = "rdwait" => t \in RQ
      BY <1>1 DEF RQ
    <3>2. t \in RQ => Cardinality(RQ \ {t}) = Cardinality(RQ) - 1
      BY CardStep, QueuesFinite
    <3> QED BY <1>2, <3>1, <3>2, CountFacts
  <2>2. rw_nwaitwriters' = Cardinality(WQ')
    BY <1>2, CountFacts
  <2> QED BY <2>1, <2>2 DEF WaitCountsExact, RQ, WQ
<1>7. TypeOK'
  <2>1. rw_nwaitreaders' \in Nat
    <3>1. CASE pc[t] = "rdwait"
      <4>1. RQ # {}
        BY <3>1, <1>1 DEF RQ
      <4> QED BY <4>1, <3>1, CountFacts DEF TypeOK
    <3>2. CASE pc[t] # "rdwait"
      BY <3>2 DEF TypeOK
    <3> QED BY <3>1, <3>2
  <2> QED BY <2>1, <1>1, <1>3 DEF TypeOK, Step
<1>8. Asleep'
  BY <1>1 DEF Asleep, WQ
<1> QED BY <1>5, <1>6, <1>7, <1>8

\* The same for the thread that becomes the writer of a free lock.
LEMMA BecomesWriter ==
    ASSUME IInv, NEW t \in Threads, Step(t),
           pc[t] \in {"idle", "wrwait"}, t \notin condwriters, ~WrMustWait,
           rw_refcount' = -1,
           rw_nwaitwriters' = IF pc[t] = "wrwait" THEN rw_nwaitwriters - 1
                                                  ELSE rw_nwaitwriters,
           pc' = [pc EXCEPT ![t] = "writing"],
           UNCHANGED <<rw_nwaitreaders, condreaders, condwriters>>
    PROVE  IInv'
<1> USE DEF IInv
<1>1. /\ pc' \in [Threads -> PC]
      /\ At("writing")' = At("writing") \cup {t}
      /\ At("reading")' = At("reading") \ {t}
      /\ At("rdwait")' = At("rdwait") \ {t}
      /\ At("rdcancel")' = At("rdcancel") \ {t}
      /\ At("wrwait")' = At("wrwait") \ {t}
      /\ At("wrcancel")' = At("wrcancel") \ {t}
      /\ t \in At("wrwait") <=> pc[t] = "wrwait"
      /\ t \notin At("wrcancel") /\ t \notin RQ
  BY Move DEF TypeOK, PC, RQ
<1>2. WQ' = (IF pc[t] = "wrwait" THEN WQ \ {t} ELSE WQ) /\ RQ' = RQ
  BY <1>1 DEF RQ, WQ
<1>3. At("reading") = {} /\ At("writing") = {}
  BY CountFacts DEF WrMustWait
<1>5. RefcountExact'
  BY <1>1, <1>3 DEF RefcountExact
<1>6. WaitCountsExact'
  <2>1. rw_nwaitwriters' = Cardinality(WQ')
    <3>1. pc[t] = "wrwait" => t \in WQ
      BY <1>1 DEF WQ
    <3>2. t \in WQ => Cardinality(WQ \ {t}) = Cardinality(WQ) - 1
      BY CardStep, QueuesFinite
    <3> QED BY <1>2, <3>1, <3>2, CountFacts
  <2>2. rw_nwaitreaders' = Cardinality(RQ')
    BY <1>2, CountFacts
  <2> QED BY <2>1, <2>2 DEF WaitCountsExact, RQ, WQ
<1>7. TypeOK'
  <2>1. rw_nwaitwriters' \in Nat
    <3>1. CASE pc[t] = "wrwait"
      <4>1. WQ # {}
        BY <3>1, <1>1 DEF WQ
      <4> QED BY <4>1, <3>1, CountFacts DEF TypeOK
    <3>2. CASE pc[t] # "wrwait"
      BY <3>2 DEF TypeOK
    <3> QED BY <3>1, <3>2
  <2> QED BY <2>1, <1>1 DEF TypeOK, Step
<1>8. Asleep'
  BY <1>1 DEF Asleep, RQ
<1> QED BY <1>5, <1>6, <1>7, <1>8

\* A thread that starts to wait for the readers' turn.
LEMMA StartsRdwait ==
    ASSUME IInv, NEW t \in Threads, Step(t),
           pc[t] = "idle", rw_nwaitreaders' = rw_nwaitreaders + 1,
           condreaders' = condreaders \cup {t},
           pc' = [pc EXCEPT ![t] = "rdwait"],
           UNCHANGED <<rw_refcount, rw_nwaitwriters, condwriters>>
    PROVE  IInv'
<1> USE DEF IInv
<1>1. /\ pc' \in [Threads -> PC]
      /\ At("reading")' = At("reading") /\ At("writing")' = At("writing")
      /\ At("rdwait")' = At("rdwait") \cup {t}
      /\ At("rdcancel")' = At("rdcancel")
      /\ At("wrwait")' = At("wrwait")
      /\ At("wrcancel")' = At("wrcancel")
      /\ t \notin RQ
  BY Move DEF TypeOK, PC, RQ
<1>2. RQ' = RQ \cup {t} /\ WQ' = WQ
  BY <1>1 DEF RQ, WQ
<1>3. WaitCountsExact'
  <2>1. Cardinality(RQ \cup {t}) = Cardinality(RQ) + 1
    BY <1>1, CardStep, QueuesFinite
  <2> QED BY <1>2, <2>1, CountFacts DEF WaitCountsExact, RQ, WQ
<1>4. TypeOK' /\ Asleep' /\ RefcountExact'
  BY <1>1 DEF TypeOK, Step, Asleep, RefcountExact
<1> QED BY <1>3, <1>4

\* The same for the writers' turn.
LEMMA StartsWrwait ==
    ASSUME IInv, NEW t \in Threads, Step(t),
           pc[t] = "idle", rw_nwaitwriters' = rw_nwaitwriters + 1,
           condwriters' = condwriters \cup {t},
           pc' = [pc EXCEPT ![t] = "wrwait"],
           UNCHANGED <<rw_refcount, rw_nwaitreaders, condreaders>>
    PROVE  IInv'
<1> USE DEF IInv
<1>1. /\ pc' \in [Threads -> PC]
      /\ At("reading")' = At("reading") /\ At("writing")' = At("writing")
      /\ At("rdwait")' = At("rdwait")
      /\ At("rdcancel")' = At("rdcancel")
      /\ At("wrwait")' = At("wrwait") \cup {t}
      /\ At("wrcancel")' = At("wrcancel")
      /\ t \notin WQ
  BY Move DEF TypeOK, PC, WQ
<1>2. WQ' = WQ \cup {t} /\ RQ' = RQ
  BY <1>1 DEF RQ, WQ
<1>3. WaitCountsExact'
  <2>1. Cardinality(WQ \cup {t}) = Cardinality(WQ) + 1
    BY <1>1, CardStep, QueuesFinite
  <2> QED BY <1>2, <2>1, CountFacts DEF WaitCountsExact, RQ, WQ
<1>4. TypeOK' /\ Asleep' /\ RefcountExact'
  BY <1>1 DEF TypeOK, Step, Asleep, RefcountExact
<1> QED BY <1>3, <1>4

\* A woken thread that has to sleep again, a spurious wakeup and the steps of
\* destroy change neither the counts nor what a thread is doing.
LEMMA OnlySleepChanges ==
    ASSUME IInv, UNCHANGED <<counts, pc>>,
           rw_magic' \in BOOLEAN, dpc' \in DPC, still' \subseteq Threads,
           condreaders' \subseteq At("rdwait"), condwriters' \subseteq At("wrwait")
    PROVE  IInv'
BY DEF IInv, TypeOK, RefcountExact, WaitCountsExact, Asleep, At, counts

\* unlock: the reference count follows the holder that leaves.
LEMMA Unlocks ==
    ASSUME IInv, NEW t \in Threads, Unlock(t)
    PROVE  IInv'
<1> USE DEF IInv
<1>0. /\ Step(t)
      /\ pc[t] \in {"reading", "writing"} /\ pc' = [pc EXCEPT ![t] = "idle"]
      /\ rw_refcount' = Released
      /\ UNCHANGED <<rw_nwaitreaders, rw_nwaitwriters>>
  BY DEF Unlock
<1>1. /\ pc' \in [Threads -> PC]
      /\ At("reading")' = At("reading") \ {t}
      /\ At("writing")' = At("writing") \ {t}
      /\ At("rdwait")' = At("rdwait") /\ At("rdcancel")' = At("rdcancel")
      /\ At("wrwait")' = At("wrwait") /\ At("wrcancel")' = At("wrcancel")
      /\ t \in At("reading") \/ t \in At("writing")
  BY <1>0, Move DEF TypeOK, PC
<1>2. condreaders' \subseteq condreaders /\ condwriters' \subseteq condwriters
  BY DEF Unlock, WakeWaiters, SignalWriters
<1>3. RefcountExact' /\ rw_refcount' \in Nat
  <2>1. CASE rw_refcount = -1
    <3>1. rw_refcount' = 0
      BY <2>1, <1>0 DEF Released
    <3>2. At("reading") = {} /\ \E u \in Threads : At("writing") = {u}
      <4>1. IsFiniteSet(At("reading"))
        BY AtFinite DEF PC
      <4>2. Cardinality(At("reading")) \in Nat
        BY <4>1, CardStep
      <4> QED BY <4>2, <2>1 DEF RefcountExact
    <3>3. At("reading")' = {} /\ At("writing")' = {}
      BY <3>2, <1>1
    <3>4. Cardinality(At("reading"))' = 0
      BY <3>3, FS_EmptySet
    <3>5. rw_refcount' = Cardinality(At("reading"))' /\ At("writing")' = {}
      BY <3>1, <3>3, <3>4
    <3>6. RefcountExact'
      BY <3>5 DEF RefcountExact
    <3>7. rw_refcount' \in Nat
      BY <3>1
    <3> QED BY <3>6, <3>7
  <2>2. CASE rw_refcount # -1
    <3>1. rw_refcount = Cardinality(At("reading")) /\ At("writing") = {}
      BY <2>2 DEF RefcountExact
    <3>2. t \in At("reading") /\ At("writing")' = {}
      BY <3>1, <1>1
    <3>3. IsFiniteSet(At("reading"))
      BY AtFinite DEF PC
    <3>4. /\ Cardinality(At("reading") \ {t}) = Cardinality(At("reading")) - 1
          /\ Cardinality(At("reading")) > 0 /\ Cardinality(At("reading")) \in Nat
      BY <3>2, <3>3, CardStep
    <3>5. rw_refcount' = rw_refcount - 1
      BY <3>1, <3>4, <1>0 DEF Released
    <3>6. rw_refcount' = Cardinality(At("reading"))' /\ rw_refcount' \in Nat
      <4>1. Cardinality(At("reading"))' = Cardinality(At("reading") \ {t})
        BY <1>1
      <4> QED BY <4>1, <3>1, <3>4, <3>5
    <3>7. RefcountExact'
      BY <3>2, <3>6 DEF RefcountExact
    <3> QED BY <3>6, <3>7
  <2> QED BY <2>1, <2>2
<1>4. TypeOK' /\ WaitCountsExact' /\ Asleep'
  BY <1>0, <1>1, <1>2, <1>3 DEF Step, TypeOK, WaitCountsExact, Asleep
<1> QED BY <1>3, <1>4

\* A cancelled thread stays counted until its handler takes it off the count.
LEMMA Cancels ==
    ASSUME IInv, NEW t \in Threads, CancelRdwait(t) \/ CancelWrwait(t)
    PROVE  IInv'
<1> USE DEF IInv
<1>1. CASE CancelRdwait(t)
  <2>1. t \in At("rdwait") /\ pc[t] = "rdwait" /\ t \in Cancellable
    BY <1>1 DEF CancelRdwait, Asleep, At
  <2>2. /\ pc' \in [Threads -> PC]
        /\ At("reading")' = At("reading") /\ At("writing")' = At("writing")
        /\ At("rdwait")' = At("rdwait") \ {t}
        /\ At("rdcancel")' = At("rdcancel") \cup {t}
        /\ At("wrwait")' = At("wrwait") /\ At("wrcancel")' = At("wrcancel")
    BY <1>1, <2>1, Move DEF CancelRdwait, TypeOK, PC
  <2>3. RQ' = RQ /\ WQ' = WQ
    BY <2>1, <2>2 DEF RQ, WQ
  <2>4. WaitCountsExact'
    BY <1>1, <2>3, CountFacts DEF CancelRdwait, counts, WaitCountsExact, RQ, WQ
  <2>5. TypeOK' /\ RefcountExact' /\ Asleep'
    BY <1>1, <2>1, <2>2
       DEF CancelRdwait, counts, Step, TypeOK, RefcountExact, Asleep
  <2> QED BY <2>4, <2>5
<1>2. CASE CancelWrwait(t)
  <2>1. t \in At("wrwait") /\ pc[t] = "wrwait" /\ t \in Cancellable
    BY <1>2 DEF CancelWrwait, Asleep, At
  <2>2. /\ pc' \in [Threads -> PC]
        /\ At("reading")' = At("reading") /\ At("writing")' = At("writing")
        /\ At("wrwait")' = At("wrwait") \ {t}
        /\ At("wrcancel")' = At("wrcancel") \cup {t}
        /\ At("rdwait")' = At("rdwait") /\ At("rdcancel")' = At("rdcancel")
    BY <1>2, <2>1, Move DEF CancelWrwait, TypeOK, PC
  <2>3. RQ' = RQ /\ WQ' = WQ
    BY <2>1, <2>2 DEF RQ, WQ
  <2>4. WaitCountsExact'
    BY <1>2, <2>3, CountFacts DEF CancelWrwait, counts, WaitCountsExact, RQ, WQ
  <2>5. TypeOK' /\ RefcountExact' /\ Asleep'
    BY <1>2, <2>1, <2>2
       DEF CancelWrwait, counts, Step, TypeOK, RefcountExact, Asleep
  <2> QED BY <2>4, <2>5
<1> QED BY <1>1, <1>2

\* The two cleanup handlers.
LEMMA CleansUp ==
    ASSUME IInv, NEW t \in Threads, CleanupRdwait(t) \/ CleanupWrwait(t)
    PROVE  IInv'
<1> USE DEF IInv
<1>1. CASE CleanupRdwait(t)
  <2>1. /\ pc' \in [Threads -> PC]
        /\ At("reading")' = At("reading") /\ At("writing")' = At("writing")
        /\ At("rdwait")' = At("rdwait")
        /\ At("rdcancel")' = At("rdcancel") \ {t}
        /\ At("wrwait")' = At("wrwait") /\ At("wrcancel")' = At("wrcancel")
        /\ t \in At("rdcancel") /\ t \notin At("rdwait")
    BY <1>1, Move DEF CleanupRdwait, TypeOK, PC
  <2>2. RQ' = RQ \ {t} /\ WQ' = WQ /\ t \in RQ
    BY <2>1 DEF RQ, WQ
  <2>3. Cardinality(RQ \ {t}) = Cardinality(RQ) - 1 /\ Cardinality(RQ) > 0
    BY <2>2, CardStep, QueuesFinite
  <2>4. WaitCountsExact' /\ rw_nwaitreaders' \in Nat
    <3>1. rw_nwaitreaders' = Cardinality(RQ') /\ rw_nwaitwriters' = Cardinality(WQ')
      BY <1>1, <2>2, <2>3, CountFacts DEF CleanupRdwait
    <3>2. rw_nwaitreaders' \in Nat
      BY <1>1, <2>3, CountFacts DEF CleanupRdwait, TypeOK
    <3>3. WaitCountsExact'
      BY <3>1 DEF WaitCountsExact, RQ, WQ
    <3> QED BY <3>2, <3>3
  <2>5. TypeOK' /\ RefcountExact' /\ Asleep'
    BY <1>1, <2>1, <2>4
       DEF CleanupRdwait, Step, TypeOK, RefcountExact, Asleep
  <2> QED BY <2>4, <2>5
<1>2. CASE CleanupWrwait(t)
  <2>1. /\ pc' \in [Threads -> PC]
        /\ At("reading")' = At("reading") /\ At("writing")' = At("writing")
        /\ At("wrwait")' = At("wrwait")
        /\ At("wrcancel")' = At("wrcancel") \ {t}
        /\ At("rdwait")' = At("rdwait") /\ At("rdcancel")' = At("rdcancel")
        /\ t \in At("wrcancel") /\ t \notin At("wrwait")
    BY <1>2, Move DEF CleanupWrwait, TypeOK, PC
  <2>2. WQ' = WQ \ {t} /\ RQ' = RQ /\ t \in WQ
    BY <2>1 DEF RQ, WQ
  <2>3. Cardinality(WQ \ {t}) = Cardinality(WQ) - 1 /\ Cardinality(WQ) > 0
    BY <2>2, CardStep, QueuesFinite
  <2>4. WaitCountsExact' /\ rw_nwaitwriters' \in Nat
    <3>1. rw_nwaitreaders' = Cardinality(RQ') /\ rw_nwaitwriters' = Cardinality(WQ')
      BY <1>2, <2>2, <2>3, CountFacts DEF CleanupWrwait
    <3>2. rw_nwaitwriters' \in Nat
      BY <1>2, <2>3, CountFacts DEF CleanupWrwait, TypeOK
    <3>3. WaitCountsExact'
      BY <3>1 DEF WaitCountsExact, RQ, WQ
    <3> QED BY <3>2, <3>3
  <2>5. TypeOK' /\ RefcountExact' /\ Asleep'
    BY <1>2, <2>1, <2>4
       DEF CleanupWrwait, Step, TypeOK, RefcountExact, Asleep
  <2> QED BY <2>4, <2>5
<1> QED BY <1>1, <1>2

\* No step of destroy touches what the invariant speaks of.
LEMMA Destroys ==
    ASSUME IInv, Destroy
    PROVE  IInv'
<1>1. /\ UNCHANGED <<counts, condreaders, condwriters, pc>>
      /\ rw_magic' \in BOOLEAN /\ dpc' \in DPC /\ still' \subseteq Threads
  BY DEF IInv, TypeOK, DPC, Destroy, DestroyBegin, DestroyReaders,
         DestroyWriters, DestroyLast
<1> QED BY <1>1, OnlySleepChanges DEF IInv, Asleep

\* init finds the lock unused and starts from zero counts.
LEMMA Inits ==
    ASSUME IInv, InitLock
    PROVE  IInv'
<1> USE DEF IInv
<1>1. \A l \in PC \ {"idle", "dead"} : At(l)' = {}
  BY DEF InitLock, Unused, At
<1>2. /\ At("reading")' = {} /\ At("writing")' = {} /\ At("rdwait")' = {}
      /\ At("rdcancel")' = {} /\ At("wrwait")' = {} /\ At("wrcancel")' = {}
  BY <1>1 DEF PC
<1>3. Cardinality({}) = 0
  BY FS_EmptySet
<1>4. RefcountExact' /\ WaitCountsExact' /\ Asleep'
  BY <1>2, <1>3 DEF InitLock, RefcountExact, WaitCountsExact, Asleep
<1>5. TypeOK'
  BY DEF InitLock, TypeOK
<1> QED BY <1>4, <1>5

-----------------------------------------------------------------------------
\* The lock starts in a state of the invariant.
LEMMA InitIInv == Init => IInv
<1> SUFFICES ASSUME Init PROVE IInv
  OBVIOUS
<1>1. \A l \in PC \ {"idle"} : At(l) = {}
  BY DEF Init, At
<1>2. /\ At("reading") = {} /\ At("writing") = {} /\ At("rdwait") = {}
      /\ At("rdcancel") = {} /\ At("wrwait") = {} /\ At("wrcancel") = {}
  BY <1>1 DEF PC
<1>3. Cardinality({}) = 0
  BY FS_EmptySet
<1>4. RefcountExact /\ WaitCountsExact /\ Asleep
  BY <1>2, <1>3 DEF Init, RefcountExact, WaitCountsExact, Asleep
<1>5. TypeOK
  BY DEF Init, TypeOK, PC, DPC
<1> QED BY <1>4, <1>5 DEF IInv

\* A woken or calling thread is not asleep, so it may be moved by the lemmas.
LEMMA AwakeIfIdle ==
    ASSUME IInv, NEW t \in Threads, pc[t] = "idle"
    PROVE  t \notin condreaders /\ t \notin condwriters
BY DEF IInv, Asleep, At

\* Every step of every thread keeps the invariant.
LEMMA NextIInv == IInv /\ [Next]_vars => IInv'
<1> SUFFICES ASSUME IInv, [Next]_vars PROVE IInv'
  OBVIOUS
<1>1. CASE Destroy
  BY <1>1, Destroys
<1>2. CASE InitLock
  BY <1>2, Inits
<1>3. ASSUME NEW t \in Threads, Thread(t) PROVE IInv'
  <2>1. CASE Rdlock(t)
    <3>1. CASE RdMustWait
      BY <2>1, <3>1, StartsRdwait DEF Rdlock
    <3>2. CASE ~RdMustWait
      BY <2>1, <3>2, BecomesReader, AwakeIfIdle DEF Rdlock
    <3> QED BY <3>1, <3>2
  <2>2. CASE RdlockWoken(t)
    <3>1. CASE RdMustWait
      <4>1. /\ UNCHANGED <<counts, pc>> /\ Step(t)
            /\ condreaders' = condreaders \cup {t} /\ UNCHANGED condwriters
            /\ t \in At("rdwait")
        BY <2>2, <3>1 DEF RdlockWoken, At
      <4>2. condreaders' \subseteq At("rdwait") /\ condwriters' \subseteq At("wrwait")
        BY <4>1 DEF IInv, Asleep
      <4> QED BY <4>1, <4>2, OnlySleepChanges DEF Step, IInv, TypeOK
    <3>2. CASE ~RdMustWait
      BY <2>2, <3>2, BecomesReader DEF RdlockWoken
    <3> QED BY <3>1, <3>2
  <2>3. CASE Wrlock(t)
    <3>1. CASE WrMustWait
      BY <2>3, <3>1, StartsWrwait DEF Wrlock
    <3>2. CASE ~WrMustWait
      BY <2>3, <3>2, BecomesWriter, AwakeIfIdle DEF Wrlock
    <3> QED BY <3>1, <3>2
  <2>4. CASE WrlockWoken(t)
    <3>1. CASE WrMustWait
      <4>1. /\ UNCHANGED <<counts, pc>> /\ Step(t)
            /\ condwriters' = condwriters \cup {t} /\ UNCHANGED condreaders
            /\ t \in At("wrwait")
        BY <2>4, <3>1 DEF WrlockWoken, At
      <4>2. condreaders' \subseteq At("rdwait") /\ condwriters' \subseteq At("wrwait")
        BY <4>1 DEF IInv, Asleep
      <4> QED BY <4>1, <4>2, OnlySleepChanges DEF Step, IInv, TypeOK
    <3>2. CASE ~WrMustWait
      BY <2>4, <3>2, BecomesWriter DEF WrlockWoken
    <3> QED BY <3>1, <3>2
  <2>5. CASE Tryrdlock(t)
    BY <2>5, BecomesReader, AwakeIfIdle DEF Tryrdlock, RdMustWait
  <2>6. CASE Trywrlock(t)
    BY <2>6, BecomesWriter, AwakeIfIdle DEF Trywrlock, WrMustWait
  <2>7. CASE Unlock(t)
    BY <2>7, Unlocks
  <2>8. CASE SpuriousWakeup(t)
    <3>1. /\ UNCHANGED <<counts, pc>> /\ Step(t)
          /\ condreaders' \subseteq At("rdwait") /\ condwriters' \subseteq At("wrwait")
      BY <2>8 DEF SpuriousWakeup, IInv, Asleep
    <3> QED BY <3>1, OnlySleepChanges DEF Step, IInv, TypeOK
  <2>9. CASE CancelRdwait(t) \/ CancelWrwait(t)
    BY <2>9, Cancels
  <2>10. CASE CleanupRdwait(t) \/ CleanupWrwait(t)
    BY <2>10, CleansUp
  <2> QED BY <1>3, <2>1, <2>2, <2>3, <2>4, <2>5, <2>6, <2>7, <2>8, <2>9, <2>10
          DEF Thread
<1>4. CASE Undefined \/ UNCHANGED vars
  <2>1. /\ UNCHANGED <<counts, pc, rw_magic, dpc, still>>
        /\ condreaders' \subseteq At("rdwait") /\ condwriters' \subseteq At("wrwait")
    BY <1>4 DEF Undefined, vars, IInv, Asleep
  <2> QED BY <2>1, OnlySleepChanges DEF IInv, TypeOK
<1> QED BY <1>1, <1>2, <1>3, <1>4 DEF Next

\* The invariant holds in every reachable state.
LEMMA Invariance == Spec => []IInv
BY InitIInv, NextIInv, PTL DEF Spec

\* Both versions of the lock keep their variables well typed: no count ever
\* drops below zero and rw_refcount never below -1.
THEOREM TypeCorrect == Spec => []TypeOK
<1>1. IInv => TypeOK
  BY DEF IInv
<1> QED BY <1>1, Invariance, PTL

\* rw_refcount is -1 exactly while one writer is alone in the lock, and the
\* number of readers otherwise, for any number of threads.
THEOREM RefcountCorrect == Spec => []RefcountExact
<1>1. IInv => RefcountExact
  BY DEF IInv
<1> QED BY <1>1, Invariance, PTL

\* The waiting counts are exact, with cancellation as well.
THEOREM WaitCountsCorrect == Spec => []WaitCountsExact
<1>1. IInv => WaitCountsExact
  BY DEF IInv
<1> QED BY <1>1, Invariance, PTL

-----------------------------------------------------------------------------
(***************************************************************************)
(* What destroy knows, in each of its steps, of the threads that did       *)
(* nothing since it began: what a count of 0 ruled out when it was read is *)
(* ruled out for good.                                                     *)
(***************************************************************************)
NoHolder == \A t \in still : pc[t] \notin {"reading", "writing"}
NoReader == \A t \in still : pc[t] # "rdcancel" /\ t \notin condreaders
NoWriter == \A t \in still : pc[t] # "wrcancel" /\ t \notin condwriters

DestroyInv ==
    /\ dpc # "no" \/ ~rw_magic => NoHolder
    /\ dpc \in {"writers", "last"} \/ ~rw_magic => NoReader
    /\ dpc = "last" \/ ~rw_magic => NoWriter

\* A step of one thread moves no other thread, and puts no other to sleep.
LEMMA OnlyOneMoves ==
    ASSUME IInv, NEW t \in Threads, Thread(t)
    PROVE  /\ Step(t)
           /\ \A u \in Threads \ {t} :
                pc'[u] = pc[u] /\ (u \in condreaders' => u \in condreaders)
                              /\ (u \in condwriters' => u \in condwriters)
<1> USE DEF IInv, TypeOK
<1>1. CASE Rdlock(t) \/ RdlockWoken(t) \/ Tryrdlock(t)
  BY <1>1 DEF Rdlock, RdlockWoken, Tryrdlock
<1>2. CASE Wrlock(t) \/ WrlockWoken(t) \/ Trywrlock(t)
  BY <1>2 DEF Wrlock, WrlockWoken, Trywrlock
<1>3. CASE Unlock(t) \/ SpuriousWakeup(t)
  BY <1>3 DEF Unlock, WakeWaiters, SignalWriters, SpuriousWakeup
<1>4. CASE CancelRdwait(t) \/ CancelWrwait(t)
  BY <1>4 DEF CancelRdwait, CancelWrwait
<1>5. CASE CleanupRdwait(t) \/ CleanupWrwait(t)
  BY <1>5 DEF CleanupRdwait, CleanupWrwait
<1> QED BY <1>1, <1>2, <1>3, <1>4, <1>5 DEF Thread

\* A waiting count that is read as 0 leaves no sleeper and no handler to run,
\* even if a woken waiter has just taken itself off it.
LEMMA SeenZero ==
    ASSUME IInv
    PROVE  /\ 0 \in SeenReaders => condreaders = {} /\ At("rdcancel") = {}
           /\ 0 \in SeenWriters => condwriters = {} /\ At("wrcancel") = {}
<1>1. /\ condreaders \cup At("rdcancel") \subseteq RQ
      /\ condwriters \cup At("wrcancel") \subseteq WQ
      /\ \A t \in At("rdwait") \ condreaders : t \notin condreaders \cup At("rdcancel")
      /\ \A t \in At("wrwait") \ condwriters : t \notin condwriters \cup At("wrcancel")
  BY DEF IInv, Asleep, RQ, WQ, At
<1>2. ASSUME rw_nwaitreaders = 0 PROVE RQ = {}
  BY <1>2, CountFacts
<1>3. ASSUME rw_nwaitwriters = 0 PROVE WQ = {}
  BY <1>3, CountFacts
<1>4. ASSUME NEW t \in At("rdwait") \ condreaders, rw_nwaitreaders - 1 = 0
      PROVE  RQ = {t}
  <2>1. t \in RQ /\ Cardinality(RQ) = 1
    BY <1>4, CountFacts DEF RQ, IInv, TypeOK
  <2>2. Cardinality(RQ \ {t}) = 0 /\ IsFiniteSet(RQ \ {t})
    BY <2>1, CardStep, QueuesFinite, FS_RemoveElement
  <2>3. RQ \ {t} = {}
    BY <2>2, CardStep
  <2> QED BY <2>1, <2>3
<1>5. ASSUME NEW t \in At("wrwait") \ condwriters, rw_nwaitwriters - 1 = 0
      PROVE  WQ = {t}
  <2>1. t \in WQ /\ Cardinality(WQ) = 1
    BY <1>5, CountFacts DEF WQ, IInv, TypeOK
  <2>2. Cardinality(WQ \ {t}) = 0 /\ IsFiniteSet(WQ \ {t})
    BY <2>1, CardStep, QueuesFinite, FS_RemoveElement
  <2>3. WQ \ {t} = {}
    BY <2>2, CardStep
  <2> QED BY <2>1, <2>3
<1>6. 0 \in SeenReaders => condreaders = {} /\ At("rdcancel") = {}
  <2>1. CASE rw_nwaitreaders = 0
    BY <2>1, <1>1, <1>2
  <2>2. CASE \E t \in At("rdwait") \ condreaders : rw_nwaitreaders - 1 = 0
    BY <2>2, <1>1, <1>4
  <2> QED BY <2>1, <2>2 DEF SeenReaders
<1>7. 0 \in SeenWriters => condwriters = {} /\ At("wrcancel") = {}
  <2>1. CASE rw_nwaitwriters = 0
    BY <2>1, <1>1, <1>3
  <2>2. CASE \E t \in At("wrwait") \ condwriters : rw_nwaitwriters - 1 = 0
    BY <2>2, <1>1, <1>5
  <2> QED BY <2>1, <2>2 DEF SeenWriters
<1> QED BY <1>6, <1>7

\* Every step keeps what destroy knows.
LEMMA DestroyStep ==
    ASSUME IInv, DestroyInv, [Next]_vars
    PROVE  DestroyInv'
<1> USE DEF DestroyInv, NoHolder, NoReader, NoWriter
<1>0. still \subseteq Threads /\ rw_magic \in BOOLEAN
  BY DEF IInv, TypeOK
<1>1. CASE DestroyBegin
  <2>1. At("reading") = {} /\ At("writing") = {}
    BY <1>1, CountFacts DEF DestroyBegin
  <2> QED BY <1>1, <2>1 DEF DestroyBegin, At
<1>2. CASE DestroyReaders
  <2>1. CASE dpc' = "writers" /\ UNCHANGED still /\ 0 \in SeenReaders
    <3>1. condreaders = {} /\ At("rdcancel") = {}
      BY <2>1, SeenZero
    <3> QED BY <1>2, <2>1, <3>1, <1>0 DEF DestroyReaders, At
  <2>2. CASE dpc' = "no" /\ still' = {}
    BY <1>2, <2>2 DEF DestroyReaders
  <2> QED BY <1>2, <2>1, <2>2 DEF DestroyReaders
<1>3. CASE DestroyWriters
  <2>1. CASE dpc' = "last" /\ UNCHANGED still /\ 0 \in SeenWriters
    <3>1. condwriters = {} /\ At("wrcancel") = {}
      BY <2>1, SeenZero
    <3> QED BY <1>3, <2>1, <3>1, <1>0 DEF DestroyWriters, At
  <2>2. CASE dpc' = "no" /\ still' = {}
    BY <1>3, <2>2 DEF DestroyWriters
  <2> QED BY <1>3, <2>1, <2>2 DEF DestroyWriters
<1>4. CASE DestroyLast
  BY <1>4 DEF DestroyLast
<1>5. CASE InitLock
  BY <1>5 DEF InitLock
<1>6. ASSUME NEW t \in Threads, Thread(t) PROVE DestroyInv'
  <2>1. /\ Step(t)
        /\ \A u \in Threads \ {t} :
             pc'[u] = pc[u] /\ (u \in condreaders' => u \in condreaders)
                           /\ (u \in condwriters' => u \in condwriters)
    BY <1>6, OnlyOneMoves
  <2> QED BY <2>1, <1>0 DEF Step
<1>7. CASE Undefined \/ UNCHANGED vars
  BY <1>7 DEF Undefined, vars
<1> QED BY <1>1, <1>2, <1>3, <1>4, <1>5, <1>6, <1>7 DEF Next, Destroy

\* destroy, which reads the counts one by one and without the mutex, never
\* destroys the lock under a thread that holds it, sleeps for it or is still
\* to run its cancellation handler all through the call.
THEOREM DestroySafe == Spec => []DestroySeesUsers
<1>1. Init => DestroyInv
  BY DEF Init, DestroyInv
<1>2. IInv /\ DestroyInv /\ [Next]_vars => DestroyInv'
  BY DestroyStep
<1>3. DestroyInv => DestroySeesUsers
  BY DEF DestroyInv, NoHolder, NoReader, NoWriter, DestroySeesUsers
<1> QED BY <1>1, <1>2, <1>3, Invariance, PTL DEF Spec

-----------------------------------------------------------------------------
\* How one step changes the sets of holders: nobody's hold changes, a thread
\* that does not hold the lock gets it, or a holder lets it go.
LEMMA HolderSteps ==
    ASSUME IInv, [Next]_vars
    PROVE  \/ At("reading")' = At("reading") /\ At("writing")' = At("writing")
           \/ \E t \in Threads :
                /\ ~RdMustWait /\ At("writing") = {} /\ t \notin At("reading")
                /\ At("reading")' = At("reading") \cup {t}
                /\ At("writing")' = At("writing")
           \/ \E t \in Threads :
                /\ At("reading") = {} /\ At("writing") = {}
                /\ At("writing")' = {t} /\ At("reading")' = At("reading")
           \/ \E t \in Threads :
                /\ t \in At("reading") \/ t \in At("writing")
                /\ At("reading")' = At("reading") \ {t}
                /\ At("writing")' = At("writing") \ {t}
<1>1. CASE UNCHANGED pc
  BY <1>1 DEF At
<1>2. ASSUME NEW t \in Threads, NEW a \in PC \ {"reading", "writing"},
             pc[t] \notin {"reading", "writing"}, pc' = [pc EXCEPT ![t] = a]
      PROVE  At("reading")' = At("reading") /\ At("writing")' = At("writing")
  BY <1>2, Move DEF IInv, TypeOK, PC
<1>3. ASSUME NEW t \in Threads, ~RdMustWait, pc[t] \notin {"reading", "writing"},
             pc' = [pc EXCEPT ![t] = "reading"]
      PROVE  /\ ~RdMustWait /\ At("writing") = {} /\ t \notin At("reading")
             /\ At("reading")' = At("reading") \cup {t}
             /\ At("writing")' = At("writing")
  <2>1. /\ t \notin At("reading")
        /\ At("reading")' = At("reading") \cup {t}
        /\ At("writing")' = At("writing")
    BY <1>3, Move DEF IInv, TypeOK, PC
  <2>2. At("writing") = {}
    BY <1>3, CountFacts DEF RdMustWait, IInv, TypeOK
  <2> QED BY <1>3, <2>1, <2>2
<1>4. ASSUME NEW t \in Threads, ~WrMustWait, pc[t] \notin {"reading", "writing"},
             pc' = [pc EXCEPT ![t] = "writing"]
      PROVE  /\ At("reading") = {} /\ At("writing") = {}
             /\ At("writing")' = {t} /\ At("reading")' = At("reading")
  <2>1. /\ At("writing")' = At("writing") \cup {t}
        /\ At("reading")' = At("reading")
    BY <1>4, Move DEF IInv, TypeOK, PC
  <2>2. At("reading") = {} /\ At("writing") = {}
    BY <1>4, CountFacts DEF WrMustWait
  <2> QED BY <2>1, <2>2
<1>5. ASSUME NEW t \in Threads, Unlock(t)
      PROVE  /\ t \in At("reading") \/ t \in At("writing")
             /\ At("reading")' = At("reading") \ {t}
             /\ At("writing")' = At("writing") \ {t}
  <2>1. pc[t] \in {"reading", "writing"} /\ pc' = [pc EXCEPT ![t] = "idle"]
    BY <1>5 DEF Unlock
  <2> QED BY <2>1, Move DEF IInv, TypeOK, PC
<1>6. CASE Destroy \/ InitLock \/ Undefined \/ UNCHANGED vars
  BY <1>1, <1>6 DEF Destroy, DestroyBegin, DestroyReaders, DestroyWriters,
                    DestroyLast, InitLock, Undefined, vars
<1>7. ASSUME NEW t \in Threads, Thread(t)
      PROVE  \/ UNCHANGED pc
             \/ /\ pc[t] \notin {"reading", "writing"}
                /\ \E a \in PC \ {"reading", "writing"} : pc' = [pc EXCEPT ![t] = a]
             \/ /\ ~RdMustWait /\ pc[t] \notin {"reading", "writing"}
                /\ pc' = [pc EXCEPT ![t] = "reading"]
             \/ /\ ~WrMustWait /\ pc[t] \notin {"reading", "writing"}
                /\ pc' = [pc EXCEPT ![t] = "writing"]
             \/ Unlock(t)
  <2>1. CASE Rdlock(t) \/ RdlockWoken(t) \/ Tryrdlock(t)
    BY <2>1 DEF Rdlock, RdlockWoken, Tryrdlock, RdMustWait, PC
  <2>2. CASE Wrlock(t) \/ WrlockWoken(t) \/ Trywrlock(t)
    BY <2>2 DEF Wrlock, WrlockWoken, Trywrlock, WrMustWait, PC
  <2>3. CASE SpuriousWakeup(t)
    BY <2>3 DEF SpuriousWakeup
  <2>4. CASE CancelRdwait(t) \/ CancelWrwait(t)
    <3>1. pc[t] \in {"rdwait", "wrwait"}
      BY <2>4 DEF CancelRdwait, CancelWrwait, IInv, Asleep, At
    <3> QED BY <2>4, <3>1 DEF CancelRdwait, CancelWrwait, PC
  <2>5. CASE CleanupRdwait(t) \/ CleanupWrwait(t)
    BY <2>5 DEF CleanupRdwait, CleanupWrwait, PC
  <2> QED BY <1>7, <2>1, <2>2, <2>3, <2>4, <2>5 DEF Thread
<1>8. CASE \E t \in Threads : Thread(t)
  <2>1. PICK t \in Threads : Thread(t)
    BY <1>8
  <2> QED BY <2>1, <1>1, <1>2, <1>3, <1>4, <1>5, <1>7
<1> QED BY <1>6, <1>8 DEF Next

\* The counters and condition variables implement the abstract lock: many
\* readers or one writer, for any number of threads and with cancellation.
THEOREM Refinement == Spec => ImplementsRWLock
<1>1. Init => Abstract!Init
  BY DEF Init, Abstract!Init, At
<1>2. IInv /\ [Next]_vars => [Abstract!Next]_(Abstract!vars)
  <2> SUFFICES ASSUME IInv, [Next]_vars
               PROVE  [Abstract!Next]_(Abstract!vars)
    OBVIOUS
  <2>1. CASE At("reading")' = At("reading") /\ At("writing")' = At("writing")
    BY <2>1 DEF Abstract!vars
  <2>2. ASSUME NEW t \in Threads, At("writing") = {}, t \notin At("reading"),
               At("reading")' = At("reading") \cup {t},
               At("writing")' = At("writing")
        PROVE  Abstract!Next
    BY <2>2 DEF Abstract!Next, Abstract!AcquireRead
  <2>3. ASSUME NEW t \in Threads, At("reading") = {}, At("writing") = {},
               At("writing")' = {t}, At("reading")' = At("reading")
        PROVE  Abstract!Next
    BY <2>3 DEF Abstract!Next, Abstract!AcquireWrite
  <2>4. ASSUME NEW t \in Threads, t \in At("reading") \/ t \in At("writing"),
               At("reading")' = At("reading") \ {t},
               At("writing")' = At("writing") \ {t}
        PROVE  Abstract!Next
    <3>1. (t \in At("reading") /\ At("writing")' = At("writing"))
          \/ (t \in At("writing") /\ At("reading")' = At("reading"))
      BY <2>4 DEF At
    <3> QED BY <2>4, <3>1 DEF Abstract!Next, Abstract!Release
  <2> QED BY <2>1, <2>2, <2>3, <2>4, HolderSteps
<1> QED BY <1>1, <1>2, Invariance, PTL DEF Spec, ImplementsRWLock, Abstract!Spec

\* While a writer waits no reader is let in, by whatever function it asks.
THEOREM WriterPreference == Spec => WritersPreferred
<1>1. IInv /\ [Next]_vars
        => [At("wrwait") # {} => At("reading")' \subseteq At("reading")]_vars
  <2> SUFFICES ASSUME IInv, [Next]_vars, At("wrwait") # {}
               PROVE  At("reading")' \subseteq At("reading")
    OBVIOUS
  <2>1. WQ # {}
    BY DEF WQ
  <2>2. RdMustWait
    BY <2>1, CountFacts DEF RdMustWait
  <2> QED BY <2>2, HolderSteps
<1> QED BY <1>1, Invariance, PTL DEF Spec, WritersPreferred

-----------------------------------------------------------------------------
\* Without cancellation, a step keeps every wakeup that the invariant promises.
LEMMA WakeupStep ==
    ASSUME Cancellable = {}, IInv, NoLostWakeup, [Next]_vars
    PROVE  NoLostWakeup'
<1> USE DEF NoLostWakeup
<1>a. IInv'
  BY NextIInv
<1>b. /\ condreaders \subseteq At("rdwait") /\ condwriters \subseteq At("wrwait")
      /\ At("rdcancel") = {} /\ At("wrcancel") = {}
  BY DEF IInv, Asleep
<1>c. /\ rw_refcount \in Nat \cup {-1} /\ rw_refcount' \in Nat \cup {-1}
      /\ rw_nwaitwriters \in Nat /\ rw_nwaitwriters' \in Nat
      /\ rw_nwaitreaders \in Nat /\ pc \in [Threads -> PC]
  BY <1>a DEF IInv, TypeOK
<1>1. CASE Destroy
  BY <1>1 DEF Destroy, DestroyBegin, DestroyReaders, DestroyWriters,
              DestroyLast, counts, At
<1>2. CASE InitLock
  BY <1>2 DEF InitLock
<1>3. ASSUME NEW t \in Threads, Thread(t) PROVE NoLostWakeup'
  <2>1. CASE Rdlock(t)
    <3>1. At("wrwait")' = At("wrwait")
      BY <2>1, <1>c, Move DEF Rdlock, PC
    <3> QED BY <2>1, <3>1, <1>c DEF Rdlock, RdMustWait
  <2>2. CASE RdlockWoken(t)
    <3>1. At("wrwait")' = At("wrwait")
      BY <2>2, <1>c, Move DEF RdlockWoken, At, PC
    <3> QED BY <2>2, <3>1, <1>c DEF RdlockWoken, RdMustWait, counts
  <2>3. CASE Wrlock(t)
    <3>1. CASE WrMustWait
      BY <2>3, <3>1, <1>c DEF Wrlock, WrMustWait
    <3>2. CASE ~WrMustWait
      BY <2>3, <3>2, <1>c DEF Wrlock
    <3> QED BY <3>1, <3>2
  <2>4. CASE WrlockWoken(t)
    <3>1. CASE WrMustWait
      BY <2>4, <3>1, <1>c DEF WrlockWoken, WrMustWait, counts
    <3>2. CASE ~WrMustWait
      BY <2>4, <3>2, <1>c DEF WrlockWoken
    <3> QED BY <3>1, <3>2
  <2>5. CASE Tryrdlock(t)
    BY <2>5, <1>c DEF Tryrdlock
  <2>6. CASE Trywrlock(t)
    BY <2>6, <1>c DEF Trywrlock
  <2>7. CASE Unlock(t)
    <3>1. At("wrwait")' = At("wrwait")
      BY <2>7, <1>c, Move DEF Unlock, PC
    <3>2. UNCHANGED <<rw_nwaitreaders, rw_nwaitwriters>> /\ rw_refcount' = Released
      BY <2>7 DEF Unlock
    <3>3. CASE rw_nwaitwriters > 0
      <4>1. CASE rw_refcount' = 0
        <5>1. SignalWriters
          BY <2>7, <3>2, <3>3, <4>1 DEF Unlock, WakeWaiters, UnlockSignals
        <5>2. condwriters' # {} => At("wrwait")' \ condwriters' # {}
          BY <5>1, <3>1, <1>b DEF SignalWriters
        <5> QED BY <5>2, <3>2, <3>3
      <4>2. CASE rw_refcount' # 0
        BY <4>2, <3>2, <3>3
      <4> QED BY <4>1, <4>2
    <3>4. CASE ~(rw_nwaitwriters > 0)
      <4>1. WQ = {}
        BY <3>4, CountFacts
      <4>2. condwriters = {} /\ condwriters' = {}
        BY <4>1, <2>7, <3>4, <1>b DEF Unlock, WakeWaiters, WQ
      <4>3. condreaders' = {}
        <5>1. CASE rw_nwaitreaders > 0
          BY <5>1, <2>7, <3>4 DEF Unlock, WakeWaiters
        <5>2. CASE ~(rw_nwaitreaders > 0)
          <6>1. RQ = {}
            BY <5>2, CountFacts
          <6> QED BY <6>1, <5>2, <2>7, <3>4, <1>b DEF Unlock, WakeWaiters, RQ
        <5> QED BY <5>1, <5>2
      <4> QED BY <4>2, <4>3
    <3> QED BY <3>3, <3>4
  <2>8. CASE SpuriousWakeup(t)
    <3>1. At("wrwait")' = At("wrwait") /\ UNCHANGED <<rw_refcount, rw_nwaitwriters>>
      BY <2>8 DEF SpuriousWakeup, counts, At
    <3>2. condreaders' \subseteq condreaders /\ condwriters' \subseteq condwriters
      BY <2>8 DEF SpuriousWakeup
    <3> QED BY <3>1, <3>2
  <2>9. CASE CancelRdwait(t) \/ CancelWrwait(t)
    BY <2>9 DEF CancelRdwait, CancelWrwait
  <2>10. CASE CleanupRdwait(t) \/ CleanupWrwait(t)
    BY <2>10, <1>b DEF CleanupRdwait, CleanupWrwait, At
  <2> QED BY <1>3, <2>1, <2>2, <2>3, <2>4, <2>5, <2>6, <2>7, <2>8, <2>9, <2>10
          DEF Thread
<1>4. CASE Undefined \/ UNCHANGED vars
  BY <1>4 DEF Undefined, vars, counts, At
<1> QED BY <1>1, <1>2, <1>3, <1>4 DEF Next

\* If no thread is ever cancelled, neither version of the lock loses a wakeup:
\* sleepers on a lock they could take are always about to be overtaken only by
\* a writer that is already awake or whose turn comes first.
THEOREM WakeupsKept ==
    ASSUME Cancellable = {}
    PROVE  Spec => []NoLostWakeup
<1>1. Init => NoLostWakeup
  BY DEF Init, NoLostWakeup
<1>2. IInv /\ NoLostWakeup /\ [Next]_vars => NoLostWakeup'
  BY WakeupStep
<1> QED BY <1>1, <1>2, Invariance, PTL DEF Spec
=============================================================================
