-------------------------------- MODULE MyMq --------------------------------
(***************************************************************************)
(* The processes that share one message queue of unpv22e/my_pxmsg_mmap:    *)
(* mymq_send, mymq_receive, mymq_notify, mymq_setattr, mymq_close and what *)
(* happens when a process dies.                                            *)
(*                                                                         *)
(* Each function holds mqh_lock from start to end, except while it sleeps  *)
(* in pthread_cond_wait, so each part between two sleeps is one action.    *)
(* Senders and receivers sleep on the same condition variable, mqh_wait.   *)
(* A woken process leaves condq and competes for mqh_lock.                 *)
(*                                                                         *)
(* Calls that fail (EBADF, EMSGSIZE, EAGAIN of a non-blocking descriptor,  *)
(* EBUSY of mymq_notify) and mymq_getattr change nothing.  A process dies  *)
(* outside mqh_lock; dying inside it leaves the mutex locked for ever.     *)
(* The Bug operators are operators of the module with a plausible mistake, *)
(* on which its properties are tried.                                      *)
(***************************************************************************)
EXTENDS PrioQueue

CONSTANTS Procs,     \* the processes, one descriptor each
          Mortal,    \* those that may die
          NoPid      \* mqh_pid = 0

ASSUME ProcsAssumption ==
    /\ IsFiniteSet(Procs)
    /\ Mortal \subseteq Procs
    /\ NoPid \notin Procs

VARIABLES
    mq_curmsgs,   \* the number of messages in the queue's attributes
    mqh_nwait,    \* # threads blocked in mq_receive()
    mqh_pid,      \* the process registered for notification, or NoPid
    mqh_signal,   \* mqh_event.sigev_notify = SIGEV_SIGNAL
    nonblock,     \* O_NONBLOCK in mqi_flags of each descriptor
    condq,        \* the processes asleep on mqh_wait
    pc,           \* what each process is doing
    pending,      \* the priority of the message a blocked sender holds
    signalled     \* processes sent the notification since they registered

hdr == <<mq_curmsgs, mqh_nwait, mqh_pid, mqh_signal>>
procs == <<nonblock, condq, pc, pending>>
vars == <<pqvars, hdr, procs, signalled>>

PC == {"closed", "open",         \* without and with a descriptor
       "sendwait", "recvwait",   \* in pthread_cond_wait
       "dead", "deadrecv"}       \* dead; died blocked in mymq_receive

At(l) == {p \in Procs : pc[p] = l}

Init ==
    /\ PQInit
    /\ mq_curmsgs = 0 /\ mqh_nwait = 0
    /\ mqh_pid = NoPid /\ mqh_signal = FALSE
    /\ nonblock = [p \in Procs |-> FALSE]
    /\ condq = {}
    /\ pc = [p \in Procs |-> "closed"]
    /\ pending = [p \in Procs |-> 0]
    /\ signalled = {}

\* mymq_open of the initialised queue (MqOpen models how that is known).
Open(p, nb) ==
    /\ pc[p] = "closed"
    /\ nonblock' = [nonblock EXCEPT ![p] = nb]
    /\ pc' = [pc EXCEPT ![p] = "open"]
    /\ UNCHANGED <<pqvars, hdr, condq, pending, signalled>>

\* pthread_cond_signal(&mqhdr->mqh_wait): wakes one sleeper of either kind.
CondSignal ==
    \/ \E q \in condq : condq' = condq \ {q}
    \/ condq = {} /\ UNCHANGED condq

Bug_SignalWhenNotEmpty(p, pr) ==
    /\ Put(pr)
    /\ IF mq_curmsgs # 0 THEN CondSignal ELSE UNCHANGED condq
    /\ mq_curmsgs' = mq_curmsgs + 1
    /\ pc' = [pc EXCEPT ![p] = "open"]
    /\ pending' = [pending EXCEPT ![p] = 0]

\* The second half of mymq_send: the message goes into the queue, and the
\* condition variable is signalled if the queue was empty.
Insert(p, pr) ==
    /\ Put(pr)
    /\ IF mq_curmsgs = 0 THEN CondSignal ELSE UNCHANGED condq
    /\ mq_curmsgs' = mq_curmsgs + 1
    /\ pc' = [pc EXCEPT ![p] = "open"]
    /\ pending' = [pending EXCEPT ![p] = 0]

\* A message for an empty queue in whose mymq_receive nobody is blocked is
\* announced to the registered process, which is then no longer registered.
NotifyRegistered ==
    IF mq_curmsgs = 0 /\ mqh_pid # NoPid /\ mqh_nwait = 0
    THEN /\ mqh_pid' = NoPid
         /\ signalled' = IF mqh_signal THEN signalled \cup {mqh_pid} ELSE signalled
    ELSE UNCHANGED <<mqh_pid, signalled>>

Full == mq_curmsgs >= MaxMsg

\* mymq_send when there is room.
Send(p, pr) ==
    /\ pc[p] = "open" /\ ~Full
    /\ Insert(p, pr) /\ NotifyRegistered
    /\ UNCHANGED <<mqh_nwait, mqh_signal, nonblock>>

\* mymq_send of a blocking descriptor when the queue is full.
SendBlocks(p, pr) ==
    /\ pc[p] = "open" /\ Full /\ ~nonblock[p]
    /\ condq' = condq \cup {p}
    /\ pc' = [pc EXCEPT ![p] = "sendwait"]
    /\ pending' = [pending EXCEPT ![p] = pr]
    /\ UNCHANGED <<pqvars, hdr, nonblock, signalled>>

\* The blocked sender has mqh_lock again.  It goes on behind the test for an
\* empty queue, so it announces its message to nobody.
SendWoken(p) ==
    /\ pc[p] = "sendwait" /\ p \notin condq
    /\ \/ /\ Full
          /\ condq' = condq \cup {p}
          /\ UNCHANGED <<pqvars, mq_curmsgs, pc, pending>>
       \/ /\ ~Full
          /\ Insert(p, pending[p])
    /\ UNCHANGED <<mqh_nwait, mqh_pid, mqh_signal, nonblock, signalled>>

Bug_RemoveKeepsCount(p) ==
    /\ Take
    /\ IF mq_curmsgs = MaxMsg THEN CondSignal ELSE UNCHANGED condq
    /\ pc' = [pc EXCEPT ![p] = "open"]
    /\ UNCHANGED mq_curmsgs

Bug_RemoveTestsTooLate(p) ==
    /\ Take
    /\ mq_curmsgs' = mq_curmsgs - 1
    /\ IF mq_curmsgs' = MaxMsg THEN CondSignal ELSE UNCHANGED condq
    /\ pc' = [pc EXCEPT ![p] = "open"]

\* The second half of mymq_receive: the first message leaves the queue, and
\* the condition variable is signalled if the queue was full.
Remove(p) ==
    /\ Take
    /\ IF mq_curmsgs = MaxMsg THEN CondSignal ELSE UNCHANGED condq
    /\ mq_curmsgs' = mq_curmsgs - 1
    /\ pc' = [pc EXCEPT ![p] = "open"]

\* mymq_receive when there is a message.
Receive(p) ==
    /\ pc[p] = "open" /\ mq_curmsgs # 0
    /\ Remove(p)
    /\ UNCHANGED <<mqh_nwait, mqh_pid, mqh_signal, nonblock, pending, signalled>>

Bug_ReceiveBlocksUncounted(p) ==
    /\ pc[p] = "open" /\ mq_curmsgs = 0 /\ ~nonblock[p]
    /\ condq' = condq \cup {p}
    /\ pc' = [pc EXCEPT ![p] = "recvwait"]
    /\ UNCHANGED <<pqvars, hdr, nonblock, pending, signalled>>

\* mymq_receive of a blocking descriptor when the queue is empty.
ReceiveBlocks(p) ==
    /\ pc[p] = "open" /\ mq_curmsgs = 0 /\ ~nonblock[p]
    /\ mqh_nwait' = mqh_nwait + 1
    /\ condq' = condq \cup {p}
    /\ pc' = [pc EXCEPT ![p] = "recvwait"]
    /\ UNCHANGED <<pqvars, mq_curmsgs, mqh_pid, mqh_signal, nonblock, pending,
                   signalled>>

Bug_ReceiveCountsEveryWakeup(p) ==
    /\ pc[p] = "recvwait" /\ p \notin condq
    /\ \/ /\ mq_curmsgs = 0
          /\ condq' = condq \cup {p}
          /\ mqh_nwait' = mqh_nwait + 1
          /\ UNCHANGED <<pqvars, mq_curmsgs, pc>>
       \/ /\ mq_curmsgs # 0
          /\ mqh_nwait' = mqh_nwait - 1
          /\ Remove(p)
    /\ UNCHANGED <<mqh_pid, mqh_signal, nonblock, pending, signalled>>

\* The blocked receiver has mqh_lock again.
ReceiveWoken(p) ==
    /\ pc[p] = "recvwait" /\ p \notin condq
    /\ \/ /\ mq_curmsgs = 0
          /\ condq' = condq \cup {p}
          /\ UNCHANGED <<pqvars, mq_curmsgs, mqh_nwait, pc>>
       \/ /\ mq_curmsgs # 0
          /\ mqh_nwait' = mqh_nwait - 1
          /\ Remove(p)
    /\ UNCHANGED <<mqh_pid, mqh_signal, nonblock, pending, signalled>>

\* pthread_cond_wait may return without a signal; both loops allow for it.
SpuriousWakeup(p) ==
    /\ p \in condq
    /\ condq' = condq \ {p}
    /\ UNCHANGED <<pqvars, hdr, nonblock, pc, pending, signalled>>

-----------------------------------------------------------------------------
Dead == At("dead") \cup At("deadrecv")

Bug_NotifyTakesOver(p, sig) ==
    /\ pc[p] = "open"
    /\ mqh_pid' = p
    /\ mqh_signal' = sig
    /\ signalled' = signalled \ {p}
    /\ UNCHANGED <<pqvars, mq_curmsgs, mqh_nwait, procs>>

\* mymq_notify(mqd, notification): nobody may be registered, except a process
\* that kill(pid, 0) finds gone.
Notify(p, sig) ==
    /\ pc[p] = "open"
    /\ mqh_pid = NoPid \/ mqh_pid \in Dead
    /\ mqh_pid' = p
    /\ mqh_signal' = sig
    /\ signalled' = signalled \ {p}
    /\ UNCHANGED <<pqvars, mq_curmsgs, mqh_nwait, procs>>

Bug_UnregisterNobody(p) == UNCHANGED mqh_pid

\* mymq_notify(mqd, NULL).
Unregister(p) == mqh_pid' = IF mqh_pid = p THEN NoPid ELSE mqh_pid

NotifyNull(p) ==
    /\ pc[p] = "open"
    /\ Unregister(p)
    /\ UNCHANGED <<pqvars, mq_curmsgs, mqh_nwait, mqh_signal, procs, signalled>>

\* mymq_close: unregisters, unmaps and frees the descriptor.
Close(p) ==
    /\ pc[p] = "open"
    /\ Unregister(p)
    /\ pc' = [pc EXCEPT ![p] = "closed"]
    /\ UNCHANGED <<pqvars, mq_curmsgs, mqh_nwait, mqh_signal, nonblock, condq,
                   pending, signalled>>

\* mymq_setattr changes O_NONBLOCK of the descriptor and nothing else.
Setattr(p, nb) ==
    /\ pc[p] = "open"
    /\ nonblock' = [nonblock EXCEPT ![p] = nb]
    /\ UNCHANGED <<pqvars, hdr, condq, pc, pending, signalled>>

\* The process is killed; nothing in the file is put right.
Die(p) ==
    /\ p \in Mortal /\ pc[p] \in {"open", "sendwait", "recvwait"}
    /\ pc' = [pc EXCEPT ![p] = IF pc[p] = "recvwait" THEN "deadrecv" ELSE "dead"]
    /\ pending' = [pending EXCEPT ![p] = 0]
    /\ condq' = condq \ {p}
    /\ UNCHANGED <<pqvars, hdr, nonblock, signalled>>

Proc(p) ==
    \/ SendWoken(p) \/ Receive(p) \/ ReceiveBlocks(p) \/ ReceiveWoken(p)
    \/ SpuriousWakeup(p) \/ NotifyNull(p) \/ Close(p) \/ Die(p)
    \/ \E pr \in Prios : Send(p, pr) \/ SendBlocks(p, pr)
    \/ \E b \in BOOLEAN : Open(p, b) \/ Notify(p, b) \/ Setattr(p, b)

Next == \E p \in Procs : Proc(p)

Spec == Init /\ [][Next]_vars

(***************************************************************************)
(* A process that was woken gets mqh_lock in the end.  Nobody has to call  *)
(* a function, and no wakeup comes without a signal.                       *)
(***************************************************************************)
Fairness == \A p \in Procs : WF_vars(SendWoken(p)) /\ WF_vars(ReceiveWoken(p))

FairSpec == Spec /\ Fairness

-----------------------------------------------------------------------------
TypeOK ==
    /\ PQTypeOK
    /\ mq_curmsgs \in Nat /\ mqh_nwait \in Nat
    /\ mqh_pid \in Procs \cup {NoPid} /\ mqh_signal \in BOOLEAN
    /\ nonblock \in [Procs -> BOOLEAN]
    /\ condq \subseteq Procs
    /\ pc \in [Procs -> PC]
    /\ pending \in [Procs -> Nat]
    /\ \A p \in At("sendwait") : pending[p] \in Prios
    /\ signalled \subseteq Procs

\* mq_curmsgs, kept by hand in the attributes, is the length of the list, and
\* the queue never holds more than mq_maxmsg messages.
CurmsgsExact == mq_curmsgs = Len(msgs) /\ mq_curmsgs <= MaxMsg

\* mqueue.h calls mqh_nwait the number of threads blocked in mq_receive(), and
\* through spurious wakeups, waiting again and other receivers that are faster
\* it is just that, until the first receiver dies blocked: nobody takes a dead
\* one off the count.
NwaitExact == At("deadrecv") = {} => mqh_nwait = Cardinality(At("recvwait"))

\* A process that closed its descriptor is not registered any more, and one
\* that is registered has not been sent the signal for this registration:
\* nobody is notified twice, or about a queue it has left.
RegistrationExact ==
    mqh_pid # NoPid => /\ pc[mqh_pid] # "closed"
                       /\ mqh_pid \notin signalled

\* A living process stays registered until it unregisters, closes the queue,
\* or a message arrives in the empty queue: no other process takes its place.
RegistrationKept ==
    [][\A p \in Procs :
          mqh_pid = p /\ p \notin Dead /\ mqh_pid' # p
            => \/ NotifyNull(p) \/ Close(p)
               \/ mqh_pid' = NoPid /\ msgs = <<>> /\ msgs' # <<>>]_vars

\* Somebody blocked in mymq_receive does not sleep on while there are messages.
BlockedReceiverWakes ==
    \A p \in Procs : pc[p] = "recvwait" /\ msgs # <<>>
                        ~> pc[p] # "recvwait" \/ msgs = <<>>

\* Somebody blocked in mymq_send does not sleep on while there is room.
BlockedSenderWakes ==
    \A p \in Procs : pc[p] = "sendwait" /\ Len(msgs) < MaxMsg
                        ~> pc[p] # "sendwait" \/ Len(msgs) = MaxMsg
=============================================================================
