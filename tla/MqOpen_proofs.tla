--------------------------- MODULE MqOpen_proofs ---------------------------
(***************************************************************************)
(* For any processes, any of which may fail or die, and any inodes: a      *)
(* queue has one initialiser, and the file that the name leads to is ready *)
(* for everybody who opened it.                                            *)
(***************************************************************************)
EXTENDS MqOpen, TLAPS

(***************************************************************************)
(* The inductive invariant adds what mymq_open knows at its labels: from   *)
(* open() on it has a file, before fchmod() the file is ready, behind the  *)
(* loop it is ready if the name still leads to it, and inside the loop     *)
(* there is a try left.                                                    *)
(***************************************************************************)
Labels ==
    \A p \in Procs :
        /\ pc[p] \in {"init", "chmod", "stat", "map", "opened"} => fd[p] \in Inodes
        /\ pc[p] = "chmod" => fd[p] \in ready
        /\ pc[p] \in {"map", "opened"} /\ fd[p] = path => fd[p] \in ready
        /\ pc[p] = "stat" => tries[p] < MaxTries

IInv == TypeOK /\ OneInitialiser /\ BitOffMeansReady /\ Labels

\* No file, no process, no name.
LEMMA InitIInv == Init => IInv
BY OpenAssumption
   DEF Init, IInv, TypeOK, OneInitialiser, BitOffMeansReady, Labels, PC

\* The types of the local variables, when mymq_open goes on or returns.
LEMMA GotoTypes ==
    ASSUME TypeOK, NEW p \in Procs, NEW l \in PC, Goto(p, l)
    PROVE  /\ pc' \in [Procs -> PC]
           /\ pc'[p] = l /\ \A q \in Procs \ {p} : pc'[q] = pc[q]
BY DEF TypeOK, Goto

LEMMA ReturnTypes ==
    ASSUME TypeOK, NEW p \in Procs, NEW l \in PC, Return(p, l)
    PROVE  /\ pc' \in [Procs -> PC]
           /\ pc'[p] = l /\ \A q \in Procs \ {p} : pc'[q] = pc[q]
           /\ oflag' \in [Procs -> SUBSET {"O_CREAT", "O_EXCL"}]
           /\ created' \in [Procs -> BOOLEAN]
           /\ tries' \in [Procs -> 0..MaxTries]
           /\ \A q \in Procs \ {p} : tries'[q] = tries[q]
BY OpenAssumption DEF TypeOK, Goto, Return

\* A process that leaves the file alone and does not become an initialiser,
\* an opener or a poller keeps the invariant.
LEMMA LeavesFile ==
    ASSUME IInv, NEW p \in Procs, UNCHANGED <<xbit, ready>>,
           path' \in {path, NoFile},
           pc' \in [Procs -> PC], \A q \in Procs \ {p} : pc'[q] = pc[q],
           pc'[p] \in {"idle", "again", "exists", "err", "dead"},
           oflag' \in [Procs -> SUBSET {"O_CREAT", "O_EXCL"}],
           created' \in [Procs -> BOOLEAN],
           tries' \in [Procs -> 0..MaxTries],
           \A q \in Procs \ {p} : tries'[q] = tries[q],
           fd' = fd \/ fd' = [fd EXCEPT ![p] = NoFile]
    PROVE  IInv'
<1> USE DEF IInv
<1>1. \A q \in Procs \ {p} : fd'[q] = fd[q]
  BY DEF TypeOK
<1>2. TypeOK'
  BY DEF TypeOK
<1>3. OneInitialiser'
  BY <1>1 DEF OneInitialiser
<1>4. BitOffMeansReady'
  BY OpenAssumption DEF BitOffMeansReady
<1>5. Labels'
  BY <1>1, OpenAssumption DEF Labels
<1> QED BY <1>2, <1>3, <1>4, <1>5

\* Creating the file takes an inode that nobody can see, so what is known
\* about everybody else's file stays true.
LEMMA CreateStep ==
    ASSUME IInv, NEW p \in Procs, Create(p)
    PROVE  IInv'
<1> USE DEF IInv
<1>1. PICK ino \in Unreachable :
         /\ path' = ino /\ fd' = [fd EXCEPT ![p] = ino]
         /\ xbit' = xbit \cup {ino} /\ ready' = ready \ {ino}
  BY DEF Create
<1>2. /\ ino \in Inodes /\ \A q \in Procs : fd[q] # ino
      /\ fd'[p] = ino /\ \A q \in Procs \ {p} : fd'[q] = fd[q]
  BY <1>1 DEF Unreachable, TypeOK
<1>3. /\ pc' \in [Procs -> PC] /\ pc'[p] = "init"
      /\ \A q \in Procs \ {p} : pc'[q] = pc[q]
  BY GotoTypes DEF Create, PC
<1>4. TypeOK'
  BY <1>1, <1>2, <1>3 DEF Create, TypeOK
<1>5. OneInitialiser'
  BY <1>1, <1>2, <1>3 DEF OneInitialiser
<1>6. BitOffMeansReady'
  BY <1>1 DEF BitOffMeansReady
<1>7. Labels'
  BY <1>1, <1>2, <1>3 DEF Create, Labels
<1> QED BY <1>4, <1>5, <1>6, <1>7

\* The creator's own two steps.
LEMMA MakeStep ==
    ASSUME IInv, NEW p \in Procs, Initialise(p) \/ Fchmod(p)
    PROVE  IInv'
<1> USE DEF IInv
<1>1. CASE Initialise(p)
  <2>1. /\ pc' \in [Procs -> PC] /\ pc'[p] = "chmod"
        /\ \A q \in Procs \ {p} : pc'[q] = pc[q]
    BY <1>1, GotoTypes DEF Initialise, PC
  <2>2. TypeOK'
    BY <1>1, <2>1 DEF Initialise, TypeOK, Labels
  <2>3. OneInitialiser' /\ BitOffMeansReady' /\ Labels'
    BY <1>1, <2>1 DEF Initialise, OneInitialiser, BitOffMeansReady, Labels
  <2> QED BY <2>2, <2>3
<1>2. CASE Fchmod(p)
  <2>1. /\ pc' \in [Procs -> PC] /\ pc'[p] = "opened"
        /\ \A q \in Procs \ {p} : pc'[q] = pc[q]
        /\ oflag' \in [Procs -> SUBSET {"O_CREAT", "O_EXCL"}]
        /\ created' \in [Procs -> BOOLEAN]
        /\ tries' \in [Procs -> 0..MaxTries]
        /\ \A q \in Procs \ {p} : tries'[q] = tries[q]
    BY <1>2, ReturnTypes DEF Fchmod, PC
  <2>2. /\ pc[p] = "chmod" /\ xbit' = xbit \ {fd[p]}
        /\ UNCHANGED <<path, ready, fd>>
    BY <1>2 DEF Fchmod
  <2>3. TypeOK'
    BY <2>1, <2>2 DEF TypeOK
  <2>4. OneInitialiser'
    BY <2>1, <2>2 DEF OneInitialiser
  <2>5. BitOffMeansReady' /\ Labels'
    BY <2>1, <2>2 DEF BitOffMeansReady, Labels
  <2> QED BY <2>3, <2>4, <2>5
<1> QED BY <1>1, <1>2

\* The steps of a process that waits for the creator.
LEMMA WaitStep ==
    ASSUME IInv, NEW p \in Procs, OpenExisting(p) \/ Stat(p) \/ Map(p)
    PROVE  IInv'
<1> USE DEF IInv
<1>1. CASE OpenExisting(p)
  <2>1. CASE path = NoFile
    <3>1. PICK l \in {"again", "err"} : Goto(p, l)
      BY <1>1, <2>1 DEF OpenExisting, Vanished
    <3>2. /\ pc' \in [Procs -> PC] /\ pc'[p] = l
          /\ \A q \in Procs \ {p} : pc'[q] = pc[q]
      BY <3>1, GotoTypes DEF PC
    <3> QED BY <1>1, <2>1, <3>2, LeavesFile DEF OpenExisting, TypeOK
  <2>2. CASE path # NoFile
    <3>1. /\ fd' = [fd EXCEPT ![p] = path] /\ tries' = [tries EXCEPT ![p] = 0]
          /\ UNCHANGED <<path, xbit, ready, oflag, created>> /\ path \in Inodes
      BY <1>1, <2>2 DEF OpenExisting, TypeOK
    <3>2. /\ pc' \in [Procs -> PC] /\ pc'[p] = "stat"
          /\ \A q \in Procs \ {p} : pc'[q] = pc[q]
      BY <1>1, <2>2, GotoTypes DEF OpenExisting, PC
    <3>a. tries' \in [Procs -> 0..MaxTries]
      BY <3>1, OpenAssumption DEF TypeOK
    <3>b. fd' \in [Procs -> Inodes \cup {NoFile}]
      BY <3>1 DEF TypeOK
    <3>3. TypeOK'
      BY <3>1, <3>2, <3>a, <3>b DEF TypeOK
    <3>4. OneInitialiser' /\ BitOffMeansReady' /\ Labels'
      BY <3>1, <3>2, OpenAssumption
         DEF OneInitialiser, BitOffMeansReady, Labels, TypeOK
    <3> QED BY <3>3, <3>4
  <2> QED BY <2>1, <2>2
<1>2. CASE Stat(p)
  <2>1. CASE path = NoFile
    <3>1. PICK l \in {"again", "err"} : Goto(p, l)
      BY <1>2, <2>1 DEF Stat, Vanished
    <3>2. /\ pc' \in [Procs -> PC] /\ pc'[p] = l
          /\ \A q \in Procs \ {p} : pc'[q] = pc[q]
      BY <3>1, GotoTypes DEF PC
    <3> QED BY <1>2, <2>1, <3>2, LeavesFile DEF Stat, TypeOK
  <2>2. CASE path # NoFile /\ path \notin xbit
    <3>1. UNCHANGED <<path, xbit, ready, oflag, created, fd, tries>> /\ pc[p] = "stat"
      BY <1>2, <2>2 DEF Stat
    <3>2. /\ pc' \in [Procs -> PC] /\ pc'[p] = "map"
          /\ \A q \in Procs \ {p} : pc'[q] = pc[q]
      BY <1>2, <2>2, GotoTypes DEF Stat, PC
    <3>3. TypeOK' /\ OneInitialiser' /\ BitOffMeansReady'
      BY <3>1, <3>2 DEF TypeOK, OneInitialiser, BitOffMeansReady
    <3>4. Labels'
      BY <2>2, <3>1, <3>2 DEF BitOffMeansReady, Labels
    <3> QED BY <3>3, <3>4
  <2>3. CASE path # NoFile /\ path \in xbit
    <3>1. /\ UNCHANGED <<path, xbit, ready, oflag, created, fd>> /\ pc[p] = "stat"
          /\ tries' = [tries EXCEPT ![p] = tries[p] + 1]
      BY <1>2, <2>3 DEF Stat
    <3>2. tries[p] < MaxTries /\ tries[p] \in Nat /\ MaxTries \in Nat
      BY <3>1, OpenAssumption DEF Labels, TypeOK
    <3>3. /\ tries' \in [Procs -> 0..MaxTries] /\ tries'[p] = tries[p] + 1
          /\ \A q \in Procs \ {p} : tries'[q] = tries[q]
      BY <3>1, <3>2 DEF TypeOK
    <3>4. Goto(p, IF tries[p] + 1 = MaxTries THEN "err" ELSE "stat")
      BY <1>2, <2>3 DEF Stat
    <3>5. CASE tries[p] + 1 = MaxTries
      <4>1. /\ pc' \in [Procs -> PC] /\ pc'[p] = "err"
            /\ \A q \in Procs \ {p} : pc'[q] = pc[q]
        BY <3>4, <3>5, GotoTypes DEF PC
      <4> QED BY <3>1, <3>3, <4>1, LeavesFile DEF TypeOK
    <3>6. CASE tries[p] + 1 # MaxTries
      <4>1. /\ pc' \in [Procs -> PC] /\ pc'[p] = "stat"
            /\ \A q \in Procs \ {p} : pc'[q] = pc[q]
        BY <3>4, <3>6, GotoTypes DEF PC
      <4>2. TypeOK' /\ OneInitialiser' /\ BitOffMeansReady'
        BY <3>1, <3>3, <4>1 DEF TypeOK, OneInitialiser, BitOffMeansReady
      <4>3. tries'[p] < MaxTries
        BY <3>2, <3>3, <3>6
      <4>4. Labels'
        BY <3>1, <3>3, <4>1, <4>3 DEF Labels
      <4> QED BY <4>2, <4>4
    <3> QED BY <3>5, <3>6
  <2> QED BY <2>1, <2>2, <2>3
<1>3. CASE Map(p)
  <2>1. /\ pc' \in [Procs -> PC] /\ pc'[p] = "opened"
        /\ \A q \in Procs \ {p} : pc'[q] = pc[q]
        /\ oflag' \in [Procs -> SUBSET {"O_CREAT", "O_EXCL"}]
        /\ created' \in [Procs -> BOOLEAN]
        /\ tries' \in [Procs -> 0..MaxTries]
        /\ \A q \in Procs \ {p} : tries'[q] = tries[q]
    BY <1>3, ReturnTypes DEF Map, PC
  <2>2. UNCHANGED <<path, xbit, ready, fd>> /\ pc[p] = "map"
    BY <1>3 DEF Map
  <2>3. TypeOK' /\ OneInitialiser' /\ BitOffMeansReady' /\ Labels'
    BY <2>1, <2>2 DEF TypeOK, OneInitialiser, BitOffMeansReady, Labels
  <2> QED BY <2>3
<1> QED BY <1>1, <1>2, <1>3

\* Every step keeps the invariant.
LEMMA NextIInv == IInv /\ [Next]_vars => IInv'
<1> SUFFICES ASSUME IInv, [Next]_vars PROVE IInv'
  OBVIOUS
<1>0. TypeOK
  BY DEF IInv
<1>1. CASE Unlink
  <2>1. TypeOK' /\ OneInitialiser' /\ BitOffMeansReady'
    BY <1>1 DEF Unlink, IInv, TypeOK, OneInitialiser, BitOffMeansReady
  <2>2. Labels'
    BY <1>1, OpenAssumption DEF Unlink, IInv, Labels
  <2> QED BY <2>1, <2>2 DEF IInv
<1>2. CASE UNCHANGED vars
  BY <1>2 DEF vars, IInv, TypeOK, OneInitialiser, BitOffMeansReady, Labels
<1>3. ASSUME NEW p \in Procs, Proc(p) PROVE IInv'
  <2>1. CASE Create(p)
    BY <2>1, CreateStep
  <2>2. CASE CreateExists(p)
    <3>1. CASE "O_EXCL" \in oflag[p]
      BY <2>2, <3>1, <1>0, ReturnTypes, LeavesFile DEF CreateExists, PC
    <3>2. CASE "O_EXCL" \notin oflag[p]
      BY <2>2, <3>2, <1>0, GotoTypes, LeavesFile DEF CreateExists, PC, TypeOK
    <3> QED BY <3>1, <3>2
  <2>3. CASE Initialise(p) \/ Fchmod(p)
    BY <2>3, MakeStep
  <2>4. CASE CallFails(p)
    <3>1. CASE Return(p, "idle")
      BY <2>4, <3>1, <1>0, ReturnTypes, LeavesFile DEF CallFails, PC
    <3>2. CASE Goto(p, "err") /\ UNCHANGED <<oflag, created, tries>>
      BY <2>4, <3>2, <1>0, GotoTypes, LeavesFile DEF CallFails, PC, TypeOK
    <3> QED BY <2>4, <3>1, <3>2 DEF CallFails
  <2>5. CASE OpenExisting(p) \/ Stat(p) \/ Map(p)
    BY <2>5, WaitStep
  <2>6. CASE Err(p)
    BY <2>6, <1>0, ReturnTypes, LeavesFile DEF Err, PC
  <2>7. CASE Close(p)
    BY <2>7, <1>0, ReturnTypes, LeavesFile DEF Close, PC
  <2>8. CASE Die(p)
    BY <2>8, <1>0, ReturnTypes, LeavesFile DEF Die, PC
  <2>9. ASSUME NEW flags \in {{}, {"O_CREAT"}, {"O_CREAT", "O_EXCL"}},
               Call(p, flags)
        PROVE  IInv'
    <3>1. PICK l \in {"again", "exists"} : Goto(p, l)
      BY <2>9 DEF Call
    <3>2. /\ pc' \in [Procs -> PC] /\ pc'[p] = l
          /\ \A q \in Procs \ {p} : pc'[q] = pc[q]
      BY <3>1, <1>0, GotoTypes DEF PC
    <3>3. oflag' \in [Procs -> SUBSET {"O_CREAT", "O_EXCL"}]
      BY <2>9, <1>0 DEF Call, TypeOK
    <3> QED BY <2>9, <3>2, <3>3, <1>0, LeavesFile DEF Call, TypeOK
  <2> QED BY <1>3, <2>1, <2>2, <2>3, <2>4, <2>5, <2>6, <2>7, <2>8, <2>9
          DEF Proc, Running
<1> QED BY <1>1, <1>2, <1>3 DEF Next

\* The invariant holds in every reachable state.
LEMMA Invariance == Spec => []IInv
BY InitIInv, NextIInv, PTL DEF Spec

\* mymq_open keeps its variables well typed; it never polls more than
\* MAX_TRIES times.
THEOREM OpenTypeCorrect == Spec => []TypeOK
<1>1. IInv => TypeOK
  BY DEF IInv
<1> QED BY <1>1, Invariance, PTL

\* However many processes race, fail, die and unlink: a file has one
\* initialiser, which never touches it after its execute bit is off.
THEOREM SingleInitialiser == Spec => []OneInitialiser
<1>1. IInv => OneInitialiser
  BY DEF IInv
<1> QED BY <1>1, Invariance, PTL

\* The execute bit goes off last: a named file without it is initialised.
THEOREM BitOffIsReady == Spec => []BitOffMeansReady
<1>1. IInv => BitOffMeansReady
  BY DEF IInv
<1> QED BY <1>1, Invariance, PTL

\* Whoever opened the queue that the name leads to has an initialised one.
THEOREM NamedQueueIsReady == Spec => []NamedIsReady
<1>1. IInv => NamedIsReady
  BY DEF IInv, Labels, NamedIsReady
<1> QED BY <1>1, Invariance, PTL
=============================================================================
