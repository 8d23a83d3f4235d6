--------------------------- MODULE PthreadRwlock ---------------------------
(***************************************************************************)
(* The read-write lock of unpv22e/my_rwlock and the variant with           *)
(* cancellation handlers of unpv22e/my_rwlock_cancel.                      *)
(*                                                                         *)
(* Every function of the lock runs between one pthread_mutex_lock and the  *)
(* matching unlock (or the pthread_cond_wait that releases the mutex), so  *)
(* each such critical section is one action.  A thread that sleeps in      *)
(* pthread_cond_wait is in condreaders or condwriters; once signalled it   *)
(* leaves that set and competes for the mutex like any other thread, so    *)
(* newcomers may overtake it.                                              *)
(*                                                                         *)
(* Every thread holds the lock at most once at a time.  Calls that fail    *)
(* (EBUSY from the try functions, EINVAL from the rw_magic test or from    *)
(* init's attr test) change nothing.                                       *)
(*                                                                         *)
(* pthread_rwlock_destroy alone takes no mutex: it reads the three counts  *)
(* one after the other and then destroys the lock, and the critical        *)
(* sections of the others fall between its steps.                          *)
(***************************************************************************)
EXTENDS Integers, FiniteSets

CONSTANTS Threads,        \* the threads that use the lock
          CancelVersion,  \* TRUE: my_rwlock_cancel, FALSE: my_rwlock
          Cancellable     \* the threads pthread_cancel may be called on

(***************************************************************************)
(* my_rwlock has no cleanup handlers: its testcancel.c says that a         *)
(* cancelled waiter leaves the lock unusable, so nobody is cancelled there.*)
(***************************************************************************)
ASSUME RwlockAssumption ==
    /\ IsFiniteSet(Threads)
    /\ CancelVersion \in BOOLEAN
    /\ Cancellable \subseteq Threads
    /\ ~CancelVersion => Cancellable = {}

VARIABLES
    rw_magic,         \* rw_magic = RW_MAGIC: the lock is initialised
    rw_refcount,      \* -1 if a writer has the lock, else # readers
    rw_nwaitreaders,  \* the number of waiting readers
    rw_nwaitwriters,  \* the number of waiting writers
    condreaders,      \* threads asleep on rw_condreaders
    condwriters,      \* threads asleep on rw_condwriters
    pc,               \* what each thread is doing
    dpc,              \* which count the call of destroy reads next
    still             \* history: threads that did nothing since it began

counts == <<rw_refcount, rw_nwaitreaders, rw_nwaitwriters>>
vars == <<rw_magic, counts, condreaders, condwriters, pc, dpc, still>>

PC == {"idle",                  \* outside the lock, not holding it
       "rdwait", "wrwait",      \* in pthread_cond_wait
       "rdcancel", "wrcancel",  \* cancelled there, handler still to run
       "reading", "writing",    \* holding the lock
       "dead"}                  \* terminated by the cancellation

DPC == {"no",                   \* nobody is in pthread_rwlock_destroy
        "readers", "writers",   \* about to read that waiting count
        "last"}                 \* all three were 0: about to destroy

At(l) == {t \in Threads : pc[t] = l}

Init ==   \* PTHREAD_RWLOCK_INITIALIZER
    /\ rw_magic = TRUE
    /\ rw_refcount = 0 /\ rw_nwaitreaders = 0 /\ rw_nwaitwriters = 0
    /\ condreaders = {} /\ condwriters = {}
    /\ pc = [t \in Threads |-> "idle"]
    /\ dpc = "no" /\ still = {}

\* A step of thread t on a lock that is not destroyed.  (What a thread does
\* with a destroyed mutex or condition variable is undefined.)
Step(t) ==
    /\ rw_magic
    /\ still' = still \ {t}
    /\ UNCHANGED <<rw_magic, dpc>>

-----------------------------------------------------------------------------
\* The conditions of the two while loops.  (The Bug operators of this module
\* are no part of it: each is the operator below it with a plausible mistake,
\* on which a property is tried.)
Bug_RdIgnoresWriters == rw_refcount < 0
Bug_WrIgnoresReaders == rw_refcount < 0
RdMustWait == rw_refcount < 0 \/ rw_nwaitwriters > 0
WrMustWait == rw_refcount # 0

\* pthread_rwlock_rdlock up to its return or its first pthread_cond_wait.
Rdlock(t) ==
    /\ Step(t) /\ pc[t] = "idle"
    /\ \/ /\ RdMustWait
          /\ rw_nwaitreaders' = rw_nwaitreaders + 1
          /\ condreaders' = condreaders \cup {t}
          /\ pc' = [pc EXCEPT ![t] = "rdwait"]
          /\ UNCHANGED rw_refcount
       \/ /\ ~RdMustWait
          /\ rw_refcount' = rw_refcount + 1
          /\ pc' = [pc EXCEPT ![t] = "reading"]
          /\ UNCHANGED <<rw_nwaitreaders, condreaders>>
    /\ UNCHANGED <<rw_nwaitwriters, condwriters>>

\* The rest of its loop once a waiting reader was woken and has the mutex:
\* it stops being counted as waiting, and waits again if it must.
RdlockWoken(t) ==
    /\ Step(t) /\ pc[t] = "rdwait" /\ t \notin condreaders
    /\ \/ /\ RdMustWait
          /\ condreaders' = condreaders \cup {t}
          /\ UNCHANGED <<counts, pc>>
       \/ /\ ~RdMustWait
          /\ rw_nwaitreaders' = rw_nwaitreaders - 1
          /\ rw_refcount' = rw_refcount + 1
          /\ pc' = [pc EXCEPT ![t] = "reading"]
          /\ UNCHANGED <<rw_nwaitwriters, condreaders>>
    /\ UNCHANGED condwriters

\* pthread_rwlock_wrlock up to its return or its first pthread_cond_wait.
Wrlock(t) ==
    /\ Step(t) /\ pc[t] = "idle"
    /\ \/ /\ WrMustWait
          /\ rw_nwaitwriters' = rw_nwaitwriters + 1
          /\ condwriters' = condwriters \cup {t}
          /\ pc' = [pc EXCEPT ![t] = "wrwait"]
          /\ UNCHANGED rw_refcount
       \/ /\ ~WrMustWait
          /\ rw_refcount' = -1
          /\ pc' = [pc EXCEPT ![t] = "writing"]
          /\ UNCHANGED <<rw_nwaitwriters, condwriters>>
    /\ UNCHANGED <<rw_nwaitreaders, condreaders>>

WrlockWoken(t) ==
    /\ Step(t) /\ pc[t] = "wrwait" /\ t \notin condwriters
    /\ \/ /\ WrMustWait
          /\ condwriters' = condwriters \cup {t}
          /\ UNCHANGED <<counts, pc>>
       \/ /\ ~WrMustWait
          /\ rw_nwaitwriters' = rw_nwaitwriters - 1
          /\ rw_refcount' = -1
          /\ pc' = [pc EXCEPT ![t] = "writing"]
          /\ UNCHANGED <<rw_nwaitreaders, condwriters>>
    /\ UNCHANGED condreaders

\* The try functions when they succeed; otherwise they return EBUSY.
Tryrdlock(t) ==
    /\ Step(t) /\ pc[t] = "idle"
    /\ ~(rw_refcount < 0 \/ rw_nwaitwriters > 0)
    /\ rw_refcount' = rw_refcount + 1
    /\ pc' = [pc EXCEPT ![t] = "reading"]
    /\ UNCHANGED <<rw_nwaitreaders, rw_nwaitwriters, condreaders, condwriters>>

Bug_TryIgnoresReaders(t) ==
    /\ Step(t) /\ pc[t] = "idle"
    /\ ~(rw_refcount < 0)
    /\ rw_refcount' = -1
    /\ pc' = [pc EXCEPT ![t] = "writing"]
    /\ UNCHANGED <<rw_nwaitreaders, rw_nwaitwriters, condreaders, condwriters>>

Trywrlock(t) ==
    /\ Step(t) /\ pc[t] = "idle"
    /\ ~(rw_refcount # 0)
    /\ rw_refcount' = -1
    /\ pc' = [pc EXCEPT ![t] = "writing"]
    /\ UNCHANGED <<rw_nwaitreaders, rw_nwaitwriters, condreaders, condwriters>>

Bug_ReleasedDecrements == rw_refcount - 1

\* What unlock leaves in rw_refcount; a count of 0 is the err_dump branch.
Released == IF rw_refcount > 0 THEN rw_refcount - 1
            ELSE IF rw_refcount = -1 THEN 0 ELSE rw_refcount

\* pthread_cond_signal(&rw->rw_condwriters): wakes one sleeper, if any.
SignalWriters ==
    \/ \E w \in condwriters : condwriters' = condwriters \ {w}
    \/ condwriters = {} /\ UNCHANGED condwriters

Bug_UnlockKeepsQuiet == CancelVersion \/ Released # 0

\* When unlock signals a writer: my_rwlock only if the lock became free,
\* my_rwlock_cancel after every unlock.
UnlockSignals == CancelVersion \/ Released = 0

Bug_WakeOneReader ==
    \/ /\ rw_nwaitwriters > 0
       /\ IF UnlockSignals THEN SignalWriters ELSE UNCHANGED condwriters
       /\ UNCHANGED condreaders
    \/ /\ ~(rw_nwaitwriters > 0)
       /\ \/ \E r \in condreaders : condreaders' = condreaders \ {r}
          \/ condreaders = {} /\ UNCHANGED condreaders
       /\ UNCHANGED condwriters

\* Whom unlock wakes: a writer if one waits, else every waiting reader.
WakeWaiters ==
    \/ /\ rw_nwaitwriters > 0
       /\ IF UnlockSignals THEN SignalWriters ELSE UNCHANGED condwriters
       /\ UNCHANGED condreaders
    \/ /\ ~(rw_nwaitwriters > 0)
       /\ condreaders' = IF rw_nwaitreaders > 0 THEN {} ELSE condreaders
       /\ UNCHANGED condwriters

Unlock(t) ==
    /\ Step(t) /\ pc[t] \in {"reading", "writing"}
    /\ rw_refcount' = Released
    /\ WakeWaiters
    /\ pc' = [pc EXCEPT ![t] = "idle"]
    /\ UNCHANGED <<rw_nwaitreaders, rw_nwaitwriters>>

\* pthread_cond_wait may return without a signal; both loops allow for it.
SpuriousWakeup(t) ==
    /\ Step(t)
    /\ \/ t \in condreaders /\ condreaders' = condreaders \ {t}
                            /\ UNCHANGED condwriters
       \/ t \in condwriters /\ condwriters' = condwriters \ {t}
                            /\ UNCHANGED condreaders
    /\ UNCHANGED <<counts, pc>>

-----------------------------------------------------------------------------
\* pthread_cancel reaches a thread asleep in pthread_cond_wait: it leaves the
\* condition variable and must get the mutex back before its handler runs.
CancelRdwait(t) ==
    /\ Step(t) /\ t \in Cancellable /\ t \in condreaders
    /\ condreaders' = condreaders \ {t}
    /\ pc' = [pc EXCEPT ![t] = "rdcancel"]
    /\ UNCHANGED <<counts, condwriters>>

CancelWrwait(t) ==
    /\ Step(t) /\ t \in Cancellable /\ t \in condwriters
    /\ condwriters' = condwriters \ {t}
    /\ pc' = [pc EXCEPT ![t] = "wrcancel"]
    /\ UNCHANGED <<counts, condreaders>>

\* rwlock_cancelrdwait and rwlock_cancelwrwait: take the waiter off the count
\* and release the mutex.  Neither wakes anybody.
CleanupRdwait(t) ==
    /\ Step(t) /\ pc[t] = "rdcancel"
    /\ rw_nwaitreaders' = rw_nwaitreaders - 1
    /\ pc' = [pc EXCEPT ![t] = "dead"]
    /\ UNCHANGED <<rw_refcount, rw_nwaitwriters, condreaders, condwriters>>

Bug_CleanupForgetsCount(t) ==
    /\ Step(t) /\ pc[t] = "wrcancel"
    /\ pc' = [pc EXCEPT ![t] = "dead"]
    /\ UNCHANGED <<counts, condreaders, condwriters>>

CleanupWrwait(t) ==
    /\ Step(t) /\ pc[t] = "wrcancel"
    /\ rw_nwaitwriters' = rw_nwaitwriters - 1
    /\ pc' = [pc EXCEPT ![t] = "dead"]
    /\ UNCHANGED <<rw_refcount, rw_nwaitreaders, condreaders, condwriters>>

-----------------------------------------------------------------------------
(***************************************************************************)
(* pthread_rwlock_destroy, by one caller at a time.  A count that is not 0 *)
(* ends it with EBUSY.                                                     *)
(***************************************************************************)
DestroyBegin ==   \* the call, and its reading of rw_refcount
    /\ rw_magic /\ dpc = "no"
    /\ rw_refcount = 0
    /\ dpc' = "readers" /\ still' = Threads
    /\ UNCHANGED <<rw_magic, counts, condreaders, condwriters, pc>>

\* What a read without the mutex may find in a waiting count: a woken waiter
\* takes itself off the count before it looks whether it must wait again.
SeenReaders == {rw_nwaitreaders}
          \cup {rw_nwaitreaders - 1 : t \in At("rdwait") \ condreaders}
SeenWriters == {rw_nwaitwriters}
          \cup {rw_nwaitwriters - 1 : t \in At("wrwait") \ condwriters}

Bug_DestroyIgnoresReaders ==
    /\ dpc = "readers"
    /\ dpc' = "writers" /\ UNCHANGED still
    /\ UNCHANGED <<rw_magic, counts, condreaders, condwriters, pc>>

DestroyReaders ==
    /\ dpc = "readers"
    /\ \E seen \in SeenReaders :
          \/ seen = 0 /\ dpc' = "writers" /\ UNCHANGED still
          \/ seen # 0 /\ dpc' = "no" /\ still' = {}
    /\ UNCHANGED <<rw_magic, counts, condreaders, condwriters, pc>>

DestroyWriters ==
    /\ dpc = "writers"
    /\ \E seen \in SeenWriters :
          \/ seen = 0 /\ dpc' = "last" /\ UNCHANGED still
          \/ seen # 0 /\ dpc' = "no" /\ still' = {}
    /\ UNCHANGED <<rw_magic, counts, condreaders, condwriters, pc>>

DestroyLast ==
    /\ dpc = "last"
    /\ rw_magic' = FALSE
    /\ dpc' = "no"
    /\ UNCHANGED <<counts, condreaders, condwriters, pc, still>>

Destroy == DestroyBegin \/ DestroyReaders \/ DestroyWriters \/ DestroyLast

Unused == \A t \in Threads : pc[t] \in {"idle", "dead"}

\* pthread_rwlock_init of a destroyed lock that nobody is using.
InitLock ==
    /\ ~rw_magic /\ Unused
    /\ rw_nwaitreaders' = 0 /\ rw_nwaitwriters' = 0 /\ rw_refcount' = 0
    /\ condreaders' = {} /\ condwriters' = {}
    /\ rw_magic' = TRUE
    /\ still' = {}
    /\ UNCHANGED <<pc, dpc>>

\* The lock was destroyed while in use: the behaviour is followed no further.
Undefined ==
    /\ ~rw_magic /\ ~Unused
    /\ UNCHANGED vars

Thread(t) ==
    \/ Rdlock(t) \/ RdlockWoken(t) \/ Wrlock(t) \/ WrlockWoken(t)
    \/ Tryrdlock(t) \/ Trywrlock(t) \/ Unlock(t) \/ SpuriousWakeup(t)
    \/ CancelRdwait(t) \/ CancelWrwait(t)
    \/ CleanupRdwait(t) \/ CleanupWrwait(t)

Next == Destroy \/ InitLock \/ Undefined \/ \E t \in Threads : Thread(t)

Spec == Init /\ [][Next]_vars

(***************************************************************************)
(* The mutex is given to every thread that keeps waiting for it, and a     *)
(* holder of the lock gives it back.  Nobody has to call a lock function,  *)
(* cancel a thread or be woken for no reason.                              *)
(***************************************************************************)
Fairness == \A t \in Threads :
    /\ WF_vars(RdlockWoken(t)) /\ WF_vars(WrlockWoken(t))
    /\ WF_vars(CleanupRdwait(t)) /\ WF_vars(CleanupWrwait(t))
    /\ WF_vars(Unlock(t))

FairSpec == Spec /\ Fairness

-----------------------------------------------------------------------------
TypeOK ==
    /\ rw_magic \in BOOLEAN
    /\ rw_refcount \in Nat \cup {-1}
    /\ rw_nwaitreaders \in Nat /\ rw_nwaitwriters \in Nat
    /\ condreaders \subseteq Threads /\ condwriters \subseteq Threads
    /\ pc \in [Threads -> PC]
    /\ dpc \in DPC
    /\ still \subseteq Threads

\* rw_refcount tells exactly who holds the lock: -1 for the one writer, else
\* the number of readers.  So a writer is alone, and unlock never reaches its
\* err_dump.
RefcountExact ==
    \/ /\ rw_refcount = -1
       /\ At("reading") = {}
       /\ \E t \in Threads : At("writing") = {t}
    \/ /\ rw_refcount = Cardinality(At("reading"))
       /\ At("writing") = {}

\* The two waiting counts are exact through signals, spurious wakeups,
\* waiting again and cancellation: a cancelled thread counts until its
\* handler has run.
WaitCountsExact ==
    /\ rw_nwaitreaders = Cardinality(At("rdwait") \cup At("rdcancel"))
    /\ rw_nwaitwriters = Cardinality(At("wrwait") \cup At("wrcancel"))

\* destroy takes no mutex and reads the counts one after the other, so the lock
\* may be destroyed under a thread that moves meanwhile (a newcomer, a woken
\* waiter), and under one that is still inside unlock after the count was
\* given back.  But destroy never misses a thread that stays: one that holds
\* the lock, sleeps for it or has its cancellation handler still to run all
\* through the call is seen in one of the three counts, and destroy refuses.
DestroySeesUsers ==
    ~rw_magic => \A t \in still :
        /\ pc[t] \notin {"reading", "writing", "rdcancel", "wrcancel"}
        /\ t \notin condreaders \cup condwriters

\* Without cancellation no wakeup is lost: writers asleep on a free lock mean
\* that some writer was already signalled, and readers asleep on a lock that
\* no writer holds mean that a writer waits whose turn comes first.
NoLostWakeup ==
    /\ rw_refcount = 0 /\ condwriters # {} => At("wrwait") \ condwriters # {}
    /\ rw_refcount >= 0 /\ condreaders # {} => rw_nwaitwriters > 0

\* Writers are preferred: from the moment a writer waits until it got the
\* lock, or was cancelled and cleaned up, no new reader gets in.
WritersPreferred ==
    [][At("wrwait") # {} => At("reading")' \subseteq At("reading")]_vars

\* A free lock that somebody waits for is taken again, or nobody waits for it
\* any longer.  (Unless somebody destroys it under them.)
FreeLockIsTaken ==
    rw_refcount = 0 /\ At("rdwait") \cup At("wrwait") # {}
        ~> \/ rw_refcount # 0 \/ At("rdwait") \cup At("wrwait") = {}
           \/ ~rw_magic

Abstract == INSTANCE RWLock WITH readers <- At("reading"),
                                 writers <- At("writing")

\* The counters and condition variables implement the abstract lock.
ImplementsRWLock == Abstract!Spec
=============================================================================
