------------------------------ MODULE MqLinks ------------------------------
(***************************************************************************)
(* The two singly linked lists in the mapped file of unpv22e/my_pxmsg_mmap:*)
(* messages from mqh_head and free slots from mqh_free, linked by msg_next *)
(* with 0 as the end.  A slot's number stands for its byte offset.  All of *)
(* this runs with mqh_lock held, so an operation is one step.              *)
(***************************************************************************)
EXTENDS Naturals, Sequences, FiniteSets

CONSTANTS MaxMsg, Prios

ASSUME LinksAssumption == MaxMsg \in Nat \ {0} /\ Prios \subseteq Nat

VARIABLES mqh_head, mqh_free,    \* first message, first free slot, or 0
          msg_next, msg_prio,    \* of each slot
          mq_curmsgs,
          older                  \* history, as in PrioQueue

vars == <<mqh_head, mqh_free, msg_next, msg_prio, mq_curmsgs, older>>

Slots == 1..MaxMsg

\* The list from slot i along the links next, which is empty for 0; a cyclic
\* one is cut after MaxMsg + 1 slots.
ListFrom(next, i) ==
    LET slot[n \in 0..MaxMsg] ==
            IF n = 0 THEN i
            ELSE IF slot[n - 1] = 0 THEN 0 ELSE next[slot[n - 1]]
    IN  [k \in 1..Cardinality({n \in 0..MaxMsg : slot[n] # 0}) |-> slot[k - 1]]

Elements(list) == {list[i] : i \in 1..Len(list)}

Init ==
    /\ mqh_head = 0 /\ mqh_free = 1
    /\ msg_next = [s \in Slots |-> IF s < MaxMsg THEN s + 1 ELSE 0]
    /\ msg_prio = [s \in Slots |-> 0]
    /\ mq_curmsgs = 0
    /\ older = [s \in Slots |-> {}]

\* The walk of mymq_send after n rounds of its loop: the link to change (that
\* of slot pmsg, or mqh_head for 0) and the message in front of which the new
\* one goes (0: the end).
FindPlace(prio) ==
    LET walk[n \in 0..MaxMsg] ==
            IF n = 0 THEN [pmsg |-> 0, index |-> mqh_head]
            ELSE LET w == walk[n - 1]
                 IN  IF w.index = 0 \/ prio > msg_prio[w.index] THEN w
                     ELSE [pmsg |-> w.index, index |-> msg_next[w.index]]
    IN  walk[MaxMsg]

Bug_SendForgetsHead(prio) ==
    LET freeindex == mqh_free
        place == FindPlace(prio)
        linked == [msg_next EXCEPT ![freeindex] = place.index]
    IN  /\ mq_curmsgs < MaxMsg /\ freeindex # 0
        /\ msg_prio' = [msg_prio EXCEPT ![freeindex] = prio]
        /\ mqh_free' = msg_next[freeindex]
        /\ mqh_head' = IF mqh_head = 0 THEN freeindex ELSE mqh_head
        /\ msg_next' = IF place.pmsg = 0 THEN linked
                       ELSE [linked EXCEPT ![place.pmsg] = freeindex]
        /\ mq_curmsgs' = mq_curmsgs + 1
        /\ older' = [older EXCEPT ![freeindex] =
                                    Elements(ListFrom(msg_next, mqh_head))]

\* mymq_send once there is room.
Send(prio) ==
    LET freeindex == mqh_free
        place == FindPlace(prio)
        linked == [msg_next EXCEPT ![freeindex] = place.index]
    IN  /\ mq_curmsgs < MaxMsg /\ freeindex # 0
        /\ msg_prio' = [msg_prio EXCEPT ![freeindex] = prio]
        /\ mqh_free' = msg_next[freeindex]
        /\ mqh_head' = IF place.pmsg = 0 THEN freeindex ELSE mqh_head
        /\ msg_next' = IF place.pmsg = 0 THEN linked
                       ELSE [linked EXCEPT ![place.pmsg] = freeindex]
        /\ mq_curmsgs' = mq_curmsgs + 1
        /\ older' = [older EXCEPT ![freeindex] =
                                    Elements(ListFrom(msg_next, mqh_head))]

Bug_ReceiveLosesFreeList ==
    LET index == mqh_head
    IN  /\ mq_curmsgs > 0 /\ index # 0
        /\ mqh_head' = msg_next[index]
        /\ mqh_free' = index
        /\ mq_curmsgs' = mq_curmsgs - 1
        /\ older' = [s \in Slots |-> IF s = index THEN {} ELSE older[s] \ {index}]
        /\ UNCHANGED <<msg_next, msg_prio>>

\* mymq_receive once there is a message: its slot goes to the front of the
\* free list.
Receive ==
    LET index == mqh_head
    IN  /\ mq_curmsgs > 0 /\ index # 0
        /\ mqh_head' = msg_next[index]
        /\ msg_next' = [msg_next EXCEPT ![index] = mqh_free]
        /\ mqh_free' = index
        /\ mq_curmsgs' = mq_curmsgs - 1
        /\ older' = [s \in Slots |-> IF s = index THEN {} ELSE older[s] \ {index}]
        /\ UNCHANGED msg_prio

Next == Receive \/ \E prio \in Prios : Send(prio)

Spec == Init /\ [][Next]_vars

-----------------------------------------------------------------------------
\* mq_curmsgs and the two lists agree, so that neither err_dump is reached: a
\* queue that is not full has a free slot, one that is not empty a message.
NeverDumps ==
    /\ mq_curmsgs < MaxMsg => mqh_free # 0
    /\ mq_curmsgs > 0 => mqh_head # 0
    /\ mq_curmsgs = Len(ListFrom(msg_next, mqh_head))

Queue == INSTANCE PrioQueue WITH msgs <- ListFrom(msg_next, mqh_head),
                                 free <- Elements(ListFrom(msg_next, mqh_free)),
                                 prio <- msg_prio

\* The linked lists implement the ordered queue: the walk inserts at the right
\* place whichever link it has to change, and no slot is lost or linked twice.
ImplementsPrioQueue == Queue!PQSpec

\* What the ordered queue promises, read off the links.
LinksConserveSlots == Queue!SlotsConserved
=============================================================================
