---------------------------- MODULE MyMq_proofs ----------------------------
(***************************************************************************)
(* For any finite set of processes, any of which may die, any number of    *)
(* slots and any priorities: the counters of the queue's header are exact, *)
(* the messages are ordered, no slot is lost and registrations are sound.  *)
(***************************************************************************)
EXTENDS MyMq, PrioQueue_proofs

RQ == At("recvwait") \cup At("deadrecv")   \* what mqh_nwait counts

NwaitInv == mqh_nwait = Cardinality(RQ)

(***************************************************************************)
(* The inductive invariant: the type invariant, that of the ordered queue  *)
(* and the three statements about the header, which depend on each other   *)
(* only through the types.                                                 *)
(***************************************************************************)
IInv == TypeOK /\ PQInv /\ CurmsgsExact /\ NwaitInv /\ RegistrationExact

-----------------------------------------------------------------------------
\* What Insert and Remove do to the queue and the message count.
LEMMA InsertStep ==
    ASSUME IInv, NEW p \in Procs, NEW pr \in Nat, ~Full, Insert(p, pr)
    PROVE  PQInv' /\ CurmsgsExact' /\ mq_curmsgs' \in Nat
<1>1. PICK s \in free : PutInto(pr, s)
  BY DEF Insert, Put
<1>2. PQInv' /\ Len(msgs') = Len(msgs) + 1
  BY <1>1, PutStep DEF IInv
<1>3. mq_curmsgs \in Nat /\ mq_curmsgs = Len(msgs) /\ mq_curmsgs' = mq_curmsgs + 1
  BY DEF IInv, TypeOK, CurmsgsExact, Insert
<1>4. CurmsgsExact' /\ mq_curmsgs' \in Nat
  BY <1>2, <1>3, QueueAssumption DEF CurmsgsExact, Full
<1> QED BY <1>2, <1>4

LEMMA RemoveStep ==
    ASSUME IInv, NEW p \in Procs, mq_curmsgs # 0, Remove(p)
    PROVE  PQInv' /\ CurmsgsExact' /\ mq_curmsgs' \in Nat
<1>1. PQInv' /\ Len(msgs') = Len(msgs) - 1
  BY TakeStep DEF IInv, Remove
<1>2. mq_curmsgs \in Nat /\ mq_curmsgs = Len(msgs) /\ mq_curmsgs <= MaxMsg
      /\ mq_curmsgs' = mq_curmsgs - 1
  BY DEF IInv, TypeOK, CurmsgsExact, Remove
<1>3. CurmsgsExact' /\ mq_curmsgs' \in Nat
  BY <1>1, <1>2, QueueAssumption DEF CurmsgsExact
<1> QED BY <1>1, <1>3

\* Every step of a process is a step of the ordered queue, or leaves it alone.
LEMMA QueueStep ==
    ASSUME IInv, [Next]_vars
    PROVE  /\ PQInv' /\ CurmsgsExact' /\ mq_curmsgs' \in Nat
           /\ [PQNext]_pqvars
<1>1. CASE UNCHANGED <<pqvars, mq_curmsgs>>
  <2>1. PQInv'
    BY <1>1 DEF IInv, pqvars, PQInv, PQTypeOK, SlotsConserved, PriorityFifo, Queued
  <2>2. CurmsgsExact' /\ mq_curmsgs' \in Nat
    BY <1>1 DEF IInv, TypeOK, pqvars, CurmsgsExact
  <2> QED BY <1>1, <2>1, <2>2
<1>2. CASE UNCHANGED vars
  BY <1>1, <1>2 DEF vars, hdr
<1>3. ASSUME NEW p \in Procs, Proc(p)
      PROVE  \/ UNCHANGED <<pqvars, mq_curmsgs>>
             \/ mq_curmsgs # 0 /\ Remove(p)
             \/ ~Full /\ pc[p] = "sendwait" /\ Insert(p, pending[p])
             \/ ~Full /\ \E pr \in Prios : Insert(p, pr)
  <2>1. CASE SendWoken(p)
    BY <2>1 DEF SendWoken
  <2>2. CASE Receive(p) \/ ReceiveBlocks(p) \/ ReceiveWoken(p)
    BY <2>2 DEF Receive, ReceiveBlocks, ReceiveWoken
  <2>3. CASE SpuriousWakeup(p) \/ NotifyNull(p) \/ Close(p) \/ Die(p)
    BY <2>3 DEF SpuriousWakeup, NotifyNull, Close, Die, hdr
  <2>4. CASE \E pr \in Prios : Send(p, pr) \/ SendBlocks(p, pr)
    BY <2>4 DEF Send, SendBlocks, hdr
  <2>5. CASE \E b \in BOOLEAN : Open(p, b) \/ Notify(p, b) \/ Setattr(p, b)
    BY <2>5 DEF Open, Notify, Setattr, hdr
  <2> QED BY <1>3, <2>1, <2>2, <2>3, <2>4, <2>5 DEF Proc
<1>4. ASSUME NEW p \in Procs, mq_curmsgs # 0, Remove(p)
      PROVE  PQInv' /\ CurmsgsExact' /\ mq_curmsgs' \in Nat /\ PQNext
  BY <1>4, RemoveStep DEF Remove, PQNext
<1>5. ASSUME NEW p \in Procs, ~Full, NEW pr \in Prios, Insert(p, pr)
      PROVE  PQInv' /\ CurmsgsExact' /\ mq_curmsgs' \in Nat /\ PQNext
  <2>1. pr \in Nat
    BY QueueAssumption
  <2> QED BY <1>5, <2>1, InsertStep DEF Insert, PQNext
<1>6. ASSUME NEW p \in Procs, ~Full, pc[p] = "sendwait", Insert(p, pending[p])
      PROVE  PQInv' /\ CurmsgsExact' /\ mq_curmsgs' \in Nat /\ PQNext
  <2>1. pending[p] \in Prios
    BY <1>6 DEF IInv, TypeOK, At
  <2> QED BY <1>5, <1>6, <2>1
<1> QED BY <1>1, <1>2, <1>3, <1>4, <1>5, <1>6 DEF Next

-----------------------------------------------------------------------------
\* How the sets of processes change when one process moves on.
LEMMA MoveProc ==
    ASSUME pc \in [Procs -> PC], NEW p \in Procs, NEW a \in PC,
           pc' = [pc EXCEPT ![p] = a]
    PROVE  /\ pc' \in [Procs -> PC]
           /\ \A l \in PC : At(l)' = IF l = a THEN At(l) \cup {p}
                                              ELSE At(l) \ {p}
           /\ \A l \in PC : l # a /\ pc[p] # l => At(l)' = At(l)
           /\ \A l \in PC : p \in At(l) <=> pc[p] = l
BY DEF At, PC

\* The counted receivers are finitely many.
LEMMA RQFinite == IsFiniteSet(RQ)
BY ProcsAssumption, FS_Subset DEF RQ, At

\* mqh_nwait follows the set it counts: it grows when a receiver blocks,
\* shrinks when one got its message, and is left alone by all other steps,
\* the death of a blocked receiver included.
LEMMA NwaitStep ==
    ASSUME IInv, [Next]_vars
    PROVE  NwaitInv' /\ mqh_nwait' \in Nat
<1>0. /\ pc \in [Procs -> PC] /\ mqh_nwait \in Nat
      /\ mqh_nwait = Cardinality(RQ)
  BY DEF IInv, TypeOK, NwaitInv, RQ
<1>1. ASSUME RQ' = RQ, UNCHANGED mqh_nwait
      PROVE  NwaitInv' /\ mqh_nwait' \in Nat
  <2>1. mqh_nwait' = Cardinality(RQ')
    BY <1>0, <1>1
  <2>2. NwaitInv'
    BY <2>1 DEF NwaitInv, RQ
  <2>3. mqh_nwait' \in Nat
    BY <1>0, <1>1
  <2> QED BY <2>2, <2>3
<1>2. ASSUME NEW p \in Procs, NEW a \in PC \ {"recvwait", "deadrecv"},
             pc[p] \notin {"recvwait", "deadrecv"}, pc' = [pc EXCEPT ![p] = a]
      PROVE  RQ' = RQ
  <2>1. /\ At("recvwait")' = At("recvwait")
        /\ At("deadrecv")' = At("deadrecv")
    BY <1>0, <1>2, MoveProc DEF PC
  <2> QED BY <2>1 DEF RQ
<1>3. CASE UNCHANGED vars
  <2>1. RQ' = RQ /\ UNCHANGED mqh_nwait
    BY <1>3 DEF vars, hdr, procs, RQ, At
  <2> QED BY <2>1, <1>1
<1>4. ASSUME NEW p \in Procs, Proc(p) PROVE NwaitInv' /\ mqh_nwait' \in Nat
  <2>1. CASE SendWoken(p)
    <3>1. UNCHANGED mqh_nwait /\ (UNCHANGED pc \/ pc' = [pc EXCEPT ![p] = "open"])
          /\ pc[p] = "sendwait"
      BY <2>1 DEF SendWoken, Insert
    <3>2. RQ' = RQ
      <4>1. CASE UNCHANGED pc
        BY <4>1 DEF RQ, At
      <4>2. CASE pc' = [pc EXCEPT ![p] = "open"]
        BY <3>1, <4>2, <1>2 DEF PC
      <4> QED BY <3>1, <4>1, <4>2
    <3> QED BY <3>1, <3>2, <1>1
  <2>2. CASE Receive(p)
    <3>1. UNCHANGED mqh_nwait /\ pc' = [pc EXCEPT ![p] = "open"] /\ pc[p] = "open"
      BY <2>2 DEF Receive, Remove
    <3>2. RQ' = RQ
      BY <3>1, <1>2 DEF PC
    <3> QED BY <3>1, <3>2, <1>1
  <2>3. CASE ReceiveBlocks(p)
    <3>1. /\ pc[p] = "open" /\ pc' = [pc EXCEPT ![p] = "recvwait"]
          /\ mqh_nwait' = mqh_nwait + 1
      BY <2>3 DEF ReceiveBlocks
    <3>2. /\ At("recvwait")' = At("recvwait") \cup {p}
          /\ At("deadrecv")' = At("deadrecv") /\ p \notin RQ
      BY <3>1, <1>0, MoveProc DEF PC, RQ
    <3>3. RQ' = RQ \cup {p}
      BY <3>2 DEF RQ
    <3>4. Cardinality(RQ \cup {p}) = Cardinality(RQ) + 1
      BY <3>2, RQFinite, FS_AddElement
    <3>5. mqh_nwait' = Cardinality(RQ') /\ mqh_nwait' \in Nat
      BY <3>1, <3>3, <3>4, <1>0
    <3>6. NwaitInv'
      BY <3>5 DEF NwaitInv, RQ
    <3> QED BY <3>5, <3>6
  <2>4. CASE ReceiveWoken(p)
    <3>1. CASE mq_curmsgs = 0
      <4>1. RQ' = RQ /\ UNCHANGED mqh_nwait
        BY <2>4, <3>1 DEF ReceiveWoken, RQ, At
      <4> QED BY <4>1, <1>1
    <3>2. CASE mq_curmsgs # 0
      <4>1. /\ pc[p] = "recvwait" /\ pc' = [pc EXCEPT ![p] = "open"]
            /\ mqh_nwait' = mqh_nwait - 1
        BY <2>4, <3>2 DEF ReceiveWoken, Remove
      <4>2. /\ At("recvwait")' = At("recvwait") \ {p} /\ p \in At("recvwait")
            /\ At("deadrecv")' = At("deadrecv") /\ p \notin At("deadrecv")
        BY <4>1, <1>0, MoveProc DEF PC
      <4>3. RQ' = RQ \ {p} /\ p \in RQ
        BY <4>2 DEF RQ
      <4>4. /\ Cardinality(RQ \ {p}) = Cardinality(RQ) - 1
            /\ Cardinality(RQ \ {p}) \in Nat
        BY <4>3, RQFinite, FS_RemoveElement, FS_CardinalityType
      <4>5. mqh_nwait' = Cardinality(RQ') /\ mqh_nwait' \in Nat
        BY <4>1, <4>3, <4>4, <1>0
      <4>6. NwaitInv'
        BY <4>5 DEF NwaitInv, RQ
      <4> QED BY <4>5, <4>6
    <3> QED BY <3>1, <3>2
  <2>5. CASE SpuriousWakeup(p) \/ NotifyNull(p)
    <3>1. RQ' = RQ /\ UNCHANGED mqh_nwait
      BY <2>5 DEF SpuriousWakeup, NotifyNull, hdr, procs, RQ, At
    <3> QED BY <3>1, <1>1
  <2>6. CASE Close(p)
    <3>1. UNCHANGED mqh_nwait /\ pc' = [pc EXCEPT ![p] = "closed"] /\ pc[p] = "open"
      BY <2>6 DEF Close
    <3>2. RQ' = RQ
      BY <3>1, <1>2 DEF PC
    <3> QED BY <3>1, <3>2, <1>1
  <2>7. CASE Die(p)
    <3>1. UNCHANGED mqh_nwait
      BY <2>7 DEF Die, hdr
    <3>2. CASE pc[p] = "recvwait"
      <4>1. pc' = [pc EXCEPT ![p] = "deadrecv"]
        BY <2>7, <3>2 DEF Die
      <4>2. /\ At("recvwait")' = At("recvwait") \ {p} /\ p \in At("recvwait")
            /\ At("deadrecv")' = At("deadrecv") \cup {p}
        BY <3>2, <4>1, <1>0, MoveProc DEF PC
      <4>3. RQ' = RQ
        BY <4>2 DEF RQ
      <4> QED BY <4>3, <3>1, <1>1
    <3>3. CASE pc[p] # "recvwait"
      <4>1. pc' = [pc EXCEPT ![p] = "dead"] /\ pc[p] \notin {"recvwait", "deadrecv"}
        BY <2>7, <3>3 DEF Die
      <4>2. RQ' = RQ
        BY <4>1, <1>2 DEF PC
      <4> QED BY <4>2, <3>1, <1>1
    <3> QED BY <3>2, <3>3
  <2>8. CASE \E pr \in Prios : Send(p, pr) \/ SendBlocks(p, pr)
    <3>1. UNCHANGED mqh_nwait /\ pc[p] = "open"
          /\ \E a \in {"open", "sendwait"} : pc' = [pc EXCEPT ![p] = a]
      BY <2>8 DEF Send, SendBlocks, Insert, hdr
    <3>2. RQ' = RQ
      BY <3>1, <1>2 DEF PC
    <3> QED BY <3>1, <3>2, <1>1
  <2>9. CASE \E b \in BOOLEAN : Open(p, b) \/ Notify(p, b) \/ Setattr(p, b)
    <3>1. /\ UNCHANGED mqh_nwait
          /\ \/ UNCHANGED pc
             \/ pc[p] = "closed" /\ pc' = [pc EXCEPT ![p] = "open"]
      BY <2>9 DEF Open, Notify, Setattr, hdr, procs
    <3>2. RQ' = RQ
      <4>1. CASE UNCHANGED pc
        BY <4>1 DEF RQ, At
      <4>2. CASE pc[p] = "closed" /\ pc' = [pc EXCEPT ![p] = "open"]
        BY <4>2, <1>2 DEF PC
      <4> QED BY <3>1, <4>1, <4>2
    <3> QED BY <3>1, <3>2, <1>1
  <2> QED BY <1>4, <2>1, <2>2, <2>3, <2>4, <2>5, <2>6, <2>7, <2>8, <2>9 DEF Proc
<1> QED BY <1>3, <1>4 DEF Next

\* Registrations stay sound, and the other variables well typed.
LEMMA RestStep ==
    ASSUME IInv, [Next]_vars
    PROVE  TypeOK' /\ RegistrationExact'
<1> DEFINE Rest ==
        /\ mqh_pid \in Procs \cup {NoPid} /\ mqh_signal \in BOOLEAN
        /\ nonblock \in [Procs -> BOOLEAN]
        /\ condq \subseteq Procs
        /\ pc \in [Procs -> PC]
        /\ pending \in [Procs -> Nat]
        /\ \A p \in Procs : pc[p] = "sendwait" => pending[p] \in Prios
        /\ signalled \subseteq Procs
        /\ mqh_pid # NoPid => /\ pc[mqh_pid] # "closed"
                              /\ mqh_pid \notin signalled
<1>0. Rest
  BY DEF IInv, TypeOK, RegistrationExact, At
<1>1. ASSUME UNCHANGED vars PROVE Rest'
  BY <1>0, <1>1 DEF vars, hdr, procs
<1>2. ASSUME NEW p \in Procs, Proc(p) PROVE Rest'
  <2>a. NoPid \notin Procs
    BY ProcsAssumption
  <2>b. CondSignal => condq' \subseteq Procs
    BY <1>0 DEF CondSignal
  <2>1. CASE SendWoken(p)
    BY <2>1, <2>a, <2>b, <1>0 DEF SendWoken, Insert, PC
  <2>2. CASE Receive(p)
    BY <2>2, <2>a, <2>b, <1>0 DEF Receive, Remove, PC
  <2>3. CASE ReceiveBlocks(p)
    BY <2>3, <2>a, <1>0 DEF ReceiveBlocks, PC
  <2>4. CASE ReceiveWoken(p)
    BY <2>4, <2>a, <2>b, <1>0 DEF ReceiveWoken, Remove, PC
  <2>5. CASE SpuriousWakeup(p)
    BY <2>5, <1>0 DEF SpuriousWakeup, hdr
  <2>6. CASE NotifyNull(p)
    BY <2>6, <1>0 DEF NotifyNull, Unregister, procs
  <2>7. CASE Close(p)
    BY <2>7, <2>a, <1>0 DEF Close, Unregister, PC
  <2>8. CASE Die(p)
    BY <2>8, <2>a, <1>0 DEF Die, hdr, PC
  <2>9. ASSUME NEW pr \in Prios, Send(p, pr) \/ SendBlocks(p, pr) PROVE Rest'
    <3>1. pr \in Nat
      BY QueueAssumption
    <3>2. CASE Send(p, pr)
      <4>1. /\ pc[p] = "open" /\ pc' = [pc EXCEPT ![p] = "open"]
            /\ pending' = [pending EXCEPT ![p] = 0]
            /\ UNCHANGED <<mqh_signal, nonblock>> /\ condq' \subseteq Procs
        BY <3>2, <2>b, <1>0 DEF Send, Insert
      <4>2. pc' = pc
        BY <4>1, <1>0
      <4>3. /\ mqh_pid' \in {mqh_pid, NoPid}
            /\ signalled' \subseteq Procs
            /\ mqh_pid' # NoPid => signalled' = signalled
        BY <3>2, <1>0 DEF Send, NotifyRegistered
      <4> QED BY <4>1, <4>2, <4>3, <1>0
    <3>3. CASE SendBlocks(p, pr)
      BY <3>1, <3>3, <2>a, <1>0 DEF SendBlocks, hdr, PC
    <3> QED BY <2>9, <3>2, <3>3
  <2>10. ASSUME NEW b \in BOOLEAN, Open(p, b) \/ Notify(p, b) \/ Setattr(p, b)
         PROVE  Rest'
    <3>1. CASE Open(p, b)
      BY <3>1, <2>a, <1>0 DEF Open, hdr, PC
    <3>2. CASE Notify(p, b)
      BY <3>2, <2>a, <1>0 DEF Notify, procs
    <3>3. CASE Setattr(p, b)
      BY <3>3, <1>0 DEF Setattr, hdr
    <3> QED BY <2>10, <3>1, <3>2, <3>3
  <2> QED BY <1>2, <2>1, <2>2, <2>3, <2>4, <2>5, <2>6, <2>7, <2>8, <2>9, <2>10
          DEF Proc
<1>3. Rest'
  BY <1>1, <1>2 DEF Next
<1>4. PQTypeOK' /\ mq_curmsgs' \in Nat
  BY QueueStep DEF PQInv
<1>5. mqh_nwait' \in Nat
  BY NwaitStep
<1> QED BY <1>3, <1>4, <1>5 DEF TypeOK, RegistrationExact, At

-----------------------------------------------------------------------------
\* A new queue is in the invariant.
LEMMA InitIInv == Init => IInv
<1> SUFFICES ASSUME Init PROVE IInv
  OBVIOUS
<1>1. PQInv /\ PQTypeOK
  BY PQInitInv DEF Init, PQInv
<1>2. CurmsgsExact
  BY EmptySeq, QueueAssumption DEF Init, PQInit, CurmsgsExact
<1>3. RQ = {}
  BY DEF Init, RQ, At
<1>4. NwaitInv
  BY <1>3, FS_EmptySet DEF Init, NwaitInv, RQ
<1>5. TypeOK /\ RegistrationExact
  BY <1>1 DEF Init, TypeOK, RegistrationExact, PC, At
<1> QED BY <1>1, <1>2, <1>4, <1>5 DEF IInv

\* The invariant holds in every reachable state.
LEMMA Invariance == Spec => []IInv
<1>1. IInv /\ [Next]_vars => IInv'
  BY QueueStep, NwaitStep, RestStep DEF IInv
<1> QED BY <1>1, InitIInv, PTL DEF Spec

\* No count of the header leaves its type, however processes block and die.
THEOREM MqTypeCorrect == Spec => []TypeOK
<1>1. IInv => TypeOK
  BY DEF IInv
<1> QED BY <1>1, Invariance, PTL

\* mq_curmsgs is the number of messages and never exceeds mq_maxmsg.
THEOREM MqCurmsgsCorrect == Spec => []CurmsgsExact
<1>1. IInv => CurmsgsExact
  BY DEF IInv
<1> QED BY <1>1, Invariance, PTL

\* Whoever sends and receives, blocks, wakes or dies: messages are received in
\* the order of their priorities and, within one, of their arrival.
THEOREM MqOrdered == Spec => []PriorityFifo
<1>1. IInv => PriorityFifo
  BY DEF IInv, PQInv
<1> QED BY <1>1, Invariance, PTL

\* No slot of the file is lost or used twice.
THEOREM MqSlotsCorrect == Spec => []SlotsConserved
<1>1. IInv => SlotsConserved
  BY DEF IInv, PQInv
<1> QED BY <1>1, Invariance, PTL

\* mqh_nwait is the number of threads blocked in mq_receive(), as long as none
\* of them has died there; those that have stay counted.
THEOREM MqNwaitCorrect == Spec => []NwaitExact
<1>1. IInv => NwaitExact
  <2> SUFFICES ASSUME IInv, At("deadrecv") = {}
               PROVE  mqh_nwait = Cardinality(At("recvwait"))
    BY DEF NwaitExact
  <2>1. RQ = At("recvwait")
    BY DEF RQ
  <2> QED BY <2>1 DEF IInv, NwaitInv
<1> QED BY <1>1, Invariance, PTL

\* No process is notified twice for one registration or after its close.
THEOREM MqRegistrationCorrect == Spec => []RegistrationExact
<1>1. IInv => RegistrationExact
  BY DEF IInv
<1> QED BY <1>1, Invariance, PTL

\* The processes drive the ordered queue only by its own two operations.
THEOREM MqImplementsQueue == Spec => PQSpec
<1>1. Init => PQInit
  BY DEF Init
<1>2. IInv /\ [Next]_vars => [PQNext]_pqvars
  BY QueueStep
<1> QED BY <1>1, <1>2, Invariance, PTL DEF Spec, PQSpec

\* A step that ends the registration of a living process is its own, or puts
\* a message into the empty queue.
LEMMA RegistrationStep ==
    ASSUME IInv, [Next]_vars, NEW p \in Procs,
           mqh_pid = p, p \notin Dead, mqh_pid' # p
    PROVE  \/ NotifyNull(p) \/ Close(p)
           \/ mqh_pid' = NoPid /\ msgs = <<>> /\ msgs' # <<>>
<1>1. PICK q \in Procs : Proc(q)
  BY DEF Next, vars, hdr
<1>2. mqh_pid # NoPid
  BY ProcsAssumption
<1>3. CASE SendWoken(q) \/ Receive(q) \/ ReceiveBlocks(q) \/ ReceiveWoken(q)
           \/ SpuriousWakeup(q) \/ Die(q)
  BY <1>3 DEF SendWoken, Receive, ReceiveBlocks, ReceiveWoken, SpuriousWakeup, Die, hdr
<1>4. CASE NotifyNull(q) \/ Close(q)
  <2>1. q = p
    BY <1>4 DEF NotifyNull, Close, Unregister
  <2> QED BY <1>4, <2>1
<1>5. ASSUME NEW pr \in Prios, Send(q, pr) \/ SendBlocks(q, pr)
      PROVE  mqh_pid' = NoPid /\ msgs = <<>> /\ msgs' # <<>>
  <2>1. Send(q, pr)
    BY <1>5 DEF SendBlocks, hdr
  <2>2. mqh_pid' = NoPid /\ mq_curmsgs = 0 /\ Insert(q, pr) /\ mq_curmsgs' = 1
    BY <2>1 DEF Send, NotifyRegistered, Insert
  <2>3. CurmsgsExact /\ CurmsgsExact' /\ PQTypeOK
    BY QueueStep DEF IInv, PQInv
  <2>4. Len(msgs) = 0 /\ Len(msgs') = 1 /\ msgs \in Seq(Slots)
    BY <2>2, <2>3 DEF CurmsgsExact, PQTypeOK
  <2> QED BY <2>2, <2>4, EmptySeq
<1>6. ASSUME NEW b \in BOOLEAN, Open(q, b) \/ Notify(q, b) \/ Setattr(q, b)
      PROVE  FALSE
  BY <1>2, <1>6 DEF Open, Notify, Setattr, hdr
<1> QED BY <1>1, <1>3, <1>4, <1>5, <1>6 DEF Proc

\* A living process stays registered until it unregisters, closes the queue,
\* or a message arrives in the empty queue.
THEOREM MqRegistrationKept == Spec => RegistrationKept
<1>1. IInv /\ [Next]_vars
        => [\A p \in Procs :
               mqh_pid = p /\ p \notin Dead /\ mqh_pid' # p
                 => \/ NotifyNull(p) \/ Close(p)
                    \/ mqh_pid' = NoPid /\ msgs = <<>> /\ msgs' # <<>>]_vars
  BY RegistrationStep
<1> QED BY <1>1, Invariance, PTL DEF Spec, RegistrationKept
=============================================================================
