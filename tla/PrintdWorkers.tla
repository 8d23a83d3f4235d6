--------------------------- MODULE PrintdWorkers ----------------------------
(***************************************************************************)
(* The list of client threads of apue/printer/printd.c: a doubly linked    *)
(* list that starts at `workers', to which every client thread adds itself *)
(* and from which its cleanup handler takes it, and along which SIGTERM    *)
(* cancels the threads.  All three hold workerlock, so each is one step.   *)
(***************************************************************************)
EXTENDS Naturals, FiniteSets

CONSTANTS Threads,   \* the client threads; each owns at most one list cell
          Null

VARIABLES
    workers,       \* the head of the list
    next, prev,    \* the links of the cells
    outstanding,   \* the threads that have added themselves and still run
    cancelled,     \* the threads that pthread_cancel was called for
    killed,        \* kill_workers was called
    undefined      \* a cell was used after free()

vars == <<workers, next, prev, outstanding, cancelled, killed, undefined>>

Init ==
    /\ workers = Null
    /\ next = [t \in Threads |-> Null] /\ prev = [t \in Threads |-> Null]
    /\ outstanding = {} /\ cancelled = {}
    /\ killed = FALSE /\ undefined = FALSE

\* The cells on the way along next from the head.
Listed ==
    LET cell[k \in 0..Cardinality(Threads)] ==
          IF k = 0 THEN workers
          ELSE IF cell[k - 1] = Null THEN Null ELSE next[cell[k - 1]]
    IN  {cell[k] : k \in 0..Cardinality(Threads)} \ {Null}

\* add_worker puts the new cell in front of the head, but makes it the head
\* only if the list is empty.
AddWorker(t) ==
    /\ t \notin outstanding /\ ~undefined
    /\ outstanding' = outstanding \cup {t}
    /\ next' = [next EXCEPT ![t] = workers]
    /\ IF workers = Null
       THEN workers' = t /\ prev' = [prev EXCEPT ![t] = Null]
       ELSE /\ prev' = [prev EXCEPT ![t] = Null, ![workers] = t]
            /\ UNCHANGED workers
    /\ undefined' = (workers # Null /\ workers \notin outstanding)
    /\ UNCHANGED <<cancelled, killed>>

\* client_cleanup unlinks and frees the cell if it finds it from the head.
ClientCleanup(t) ==
    /\ t \in outstanding /\ ~undefined
    /\ outstanding' = outstanding \ {t}
    /\ undefined' = ~(Listed \subseteq outstanding)
    /\ IF t \in Listed
       THEN /\ prev' = IF next[t] = Null THEN prev
                       ELSE [prev EXCEPT ![next[t]] = prev[t]]
            /\ next' = IF prev[t] = Null THEN next
                       ELSE [next EXCEPT ![prev[t]] = next[t]]
            /\ workers' = IF prev[t] = Null THEN next[t] ELSE workers
       ELSE UNCHANGED <<workers, next, prev>>
    /\ UNCHANGED <<cancelled, killed>>

\* kill_workers, called by signal_thread before exit().
KillWorkers ==
    /\ ~killed /\ ~undefined
    /\ killed' = TRUE
    /\ cancelled' = Listed
    /\ undefined' = ~(Listed \subseteq outstanding)
    /\ UNCHANGED <<workers, next, prev, outstanding>>

Next ==
    \/ ~killed /\ \E t \in Threads : AddWorker(t) \/ ClientCleanup(t)
    \/ KillWorkers

Spec == Init /\ [][Next]_vars

\* What the comment on kill_workers says: it cancels all outstanding workers.
KillsAllOutstanding == killed => outstanding \subseteq cancelled
=============================================================================
