------------------------------- MODULE RWLock -------------------------------
(***************************************************************************)
(* What a read-write lock promises its callers, whatever is inside it: any *)
(* number of readers or one writer, never both.  There are no counters, no *)
(* condition variables and no waiting here; PthreadRwlock implements it.   *)
(***************************************************************************)
CONSTANT Threads            \* the threads that may use the lock

VARIABLES readers,          \* the threads that hold it for reading
          writers           \* the threads that hold it for writing

vars == <<readers, writers>>

Init == readers = {} /\ writers = {}

\* A thread becomes a reader: nobody may be writing.
AcquireRead(t) ==
    /\ t \notin readers
    /\ writers = {}
    /\ readers' = readers \cup {t}
    /\ UNCHANGED writers

\* A thread becomes the writer: nobody may hold the lock in any mode.
AcquireWrite(t) ==
    /\ readers = {} /\ writers = {}
    /\ writers' = {t}
    /\ UNCHANGED readers

\* A holder gives the lock up.
Release(t) ==
    \/ t \in readers /\ readers' = readers \ {t} /\ UNCHANGED writers
    \/ t \in writers /\ writers' = writers \ {t} /\ UNCHANGED readers

Next == \E t \in Threads : AcquireRead(t) \/ AcquireWrite(t) \/ Release(t)

Spec == Init /\ [][Next]_vars
=============================================================================
