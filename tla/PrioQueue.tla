----------------------------- MODULE PrioQueue -----------------------------
(***************************************************************************)
(* The messages of a Posix message queue, as the callers of mymq_send and  *)
(* mymq_receive see them: a sequence of occupied slots of the mapped file, *)
(* the slots that are free, and two operations.  Which free slot is used,  *)
(* and the links that hold the lists together, are left to MqLinks; the    *)
(* processes, their blocking and the notification are in MyMq.             *)
(***************************************************************************)
EXTENDS Naturals, Sequences, FiniteSets

CONSTANTS MaxMsg,   \* mq_maxmsg: the number of slots in the file
          Prios     \* the priorities used by senders

\* mymq_open refuses mq_maxmsg <= 0; msg_prio is unsigned.
ASSUME QueueAssumption == MaxMsg \in Nat \ {0} /\ Prios \subseteq Nat

VARIABLES msgs,     \* the messages, from mqh_head along msg_next
          free,     \* the slots on the list that starts at mqh_free
          prio,     \* msg_prio of each slot
          older     \* history: the queued messages that arrived before it

pqvars == <<msgs, free, prio, older>>

Slots == 1..MaxMsg
Queued == {msgs[i] : i \in 1..Len(msgs)}

PQInit ==   \* the file is zero-filled and all slots are on the free list
    /\ msgs = <<>>
    /\ free = Slots
    /\ prio = [s \in Slots |-> 0]
    /\ older = [s \in Slots |-> {}]

Bug_PlacedBeforeEquals(pr, k) ==
    /\ \A i \in 1..(k - 1) : ~(pr >= prio[msgs[i]])
    /\ k <= Len(msgs) => pr >= prio[msgs[k]]

\* Where the walk of mymq_send stops: at the first message of a lower
\* priority, or behind the last one.
Placed(pr, k) ==
    /\ \A i \in 1..(k - 1) : ~(pr > prio[msgs[i]])
    /\ k <= Len(msgs) => pr > prio[msgs[k]]

Inserted(k, s) ==
    [i \in 1..(Len(msgs) + 1) |-> IF i < k THEN msgs[i]
                                  ELSE IF i = k THEN s ELSE msgs[i - 1]]

\* A message of priority pr goes into the free slot s.
PutInto(pr, s) ==
    /\ s \in free
    /\ \E k \in 1..(Len(msgs) + 1) : Placed(pr, k) /\ msgs' = Inserted(k, s)
    /\ free' = free \ {s}
    /\ prio' = [prio EXCEPT ![s] = pr]
    /\ older' = [older EXCEPT ![s] = Queued]

Put(pr) == \E s \in free : PutInto(pr, s)

Bug_TakeKeepsSlot ==
    /\ msgs # <<>>
    /\ msgs' = Tail(msgs)
    /\ older' = [s \in Slots |-> IF s = Head(msgs) THEN {}
                                 ELSE older[s] \ {Head(msgs)}]
    /\ UNCHANGED <<prio, free>>

\* The first message is taken and its slot becomes free.
Take ==
    /\ msgs # <<>>
    /\ msgs' = Tail(msgs)
    /\ free' = free \cup {Head(msgs)}
    /\ older' = [s \in Slots |-> IF s = Head(msgs) THEN {}
                                 ELSE older[s] \ {Head(msgs)}]
    /\ UNCHANGED prio

PQNext == Take \/ \E pr \in Prios : Put(pr)

PQSpec == PQInit /\ [][PQNext]_pqvars

-----------------------------------------------------------------------------
PQTypeOK ==
    /\ msgs \in Seq(Slots)
    /\ free \subseteq Slots
    /\ prio \in [Slots -> Nat]
    /\ older \in [Slots -> SUBSET Slots]

\* Every slot holds one message or is free, never both and never two, and the
\* number of free slots is what the number of messages leaves: so a queue that
\* is not full has a free slot and mymq_send never reaches its err_dump.
SlotsConserved ==
    /\ Queued \cup free = Slots
    /\ Queued \cap free = {}
    /\ \A i, j \in 1..Len(msgs) : msgs[i] = msgs[j] => i = j
    /\ Cardinality(free) = MaxMsg - Len(msgs)

\* The queue is ordered by priority, and by arrival within a priority: a
\* receiver gets the oldest of the messages of the highest priority.
PriorityFifo ==
    \A i, j \in 1..Len(msgs) : i < j =>
        \/ prio[msgs[i]] > prio[msgs[j]]
        \/ prio[msgs[i]] = prio[msgs[j]] /\ msgs[i] \in older[msgs[j]]
=============================================================================
