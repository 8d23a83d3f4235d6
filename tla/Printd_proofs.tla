--------------------------- MODULE Printd_proofs ----------------------------
(***************************************************************************)
(* Proofs about the print spooler of module Printd, for any set of clients *)
(* and any bounds: type correctness, that the printer thread does not miss *)
(* a job, that no SIGHUP is lost, that the spool directory keeps every     *)
(* accepted job across crashes, that a job is printed with its own file,   *)
(* and that an accepted job is held by the daemon, once.                   *)
(***************************************************************************)
EXTENDS Printd, FiniteSetTheorems, TLAPS

-----------------------------------------------------------------------------
(* Sequences                                                               *)

\* What the three operations on the job list do to the set of its entries.
LEMMA SeqType ==
    ASSUME NEW S, NEW s \in Seq(S), NEW e \in S
    PROVE  /\ Append(s, e) \in Seq(S) /\ <<e>> \o s \in Seq(S)
           /\ s # <<>> => Head(s) \in S /\ Tail(s) \in Seq(S)
  OBVIOUS

\* A job made of a number and a client.
LEMMA JobType ==
    ASSUME NEW n \in Numbers, NEW c \in Clients
    PROVE  [id |-> n, client |-> c] \in Job
  BY DEF Job

\* NoJob is not a job.
LEMMA JobParts ==
    /\ \A x \in Job : x.id \in Numbers /\ x.client \in Clients
    /\ NoJob \notin Job /\ NoJob.client \notin Clients
  BY PrintdAssumption DEF Job, NoJob, Numbers

\* No number is None.
LEMMA NoneIsNoNumber == None \notin Numbers /\ Numbers \subseteq Int
  BY PrintdAssumption DEF Numbers

-----------------------------------------------------------------------------
(* Type correctness                                                        *)

LEMMA InitType == Init => TypeOK
  <1> SUFFICES ASSUME Init PROVE TypeOK
    OBVIOUS
  <1> USE PrintdAssumption DEF Init
  <1>1. data \in [Numbers -> Clients \cup {None}]
    OBVIOUS
  <1>2. reqs \in [Numbers -> Clients \cup {None, Short}]
    OBVIOUS
  <1>3. jobfile \in Numbers \cup {None, Mixed} /\ nextjob \in Numbers
        /\ ends \in 0..MaxEnds
    BY DEF Numbers
  <1>4. wpc \in [Clients -> WPC] /\ jobs \in Seq(Job)
    BY DEF WPC
  <1>5. jobid \in [Clients -> Numbers \cup {None}] /\ life \in [Clients -> 0..MaxEnds]
    OBVIOUS
  <1> QED
    BY <1>1, <1>2, <1>3, <1>4, <1>5 DEF TypeOK, PPC

\* What ends the daemon leaves every variable in its type.
LEMMA EndType == TypeOK /\ ends < MaxEnds /\ End => TypeOK'
  <1> SUFFICES ASSUME TypeOK, ends < MaxEnds, End PROVE TypeOK'
    OBVIOUS
  <1> USE PrintdAssumption DEF TypeOK, Sent, End, files, PPC, WPC
  <1>1. ends' \in 0..MaxEnds
    OBVIOUS
  <1>2. wpc' \in [Clients -> WPC]
    OBVIOUS
  <1>3. jobs' \in Seq(Job)
    OBVIOUS
  <1>4. nextjob' \in Numbers
    BY DEF Numbers
  <1>5. \A c \in Clients : wpc'[c] \in {"new", "number", "gone"}
    OBVIOUS
  <1> QED
    BY <1>1, <1>2, <1>3, <1>4, <1>5

\* A data file that is removed while the printer thread has it open is still
\* there for it; one that is created over it is what it reads.
LEMMA UnlinkType ==
    ASSUME TypeOK, NEW n \in Numbers, UnlinkFile(n), UNCHANGED <<ppc, jp>>
    PROVE  /\ data' \in [Numbers -> Clients \cup {None}]
           /\ fd' \in Clients \cup {None}
           /\ ppc' = "send" => Sent' \in Clients
  <1>1. ppc = "send" => jp.id \in Numbers
    BY JobParts DEF TypeOK
  <1>2. /\ data \in [Numbers -> Clients \cup {None}]
        /\ fd \in Clients \cup {None}
        /\ ppc = "send" => Sent \in Clients
    BY DEF TypeOK
  <1> QED
    BY <1>1, <1>2, PrintdAssumption DEF UnlinkFile, Sent

LEMMA CreatType ==
    ASSUME TypeOK, NEW n \in Numbers, NEW c \in Clients,
           data' = [data EXCEPT ![n] = c], UNCHANGED <<fd, ppc, jp>>
    PROVE  /\ data' \in [Numbers -> Clients \cup {None}]
           /\ ppc' = "send" => Sent' \in Clients
  <1>1. ppc = "send" => jp.id \in Numbers
    BY JobParts DEF TypeOK
  <1>2. /\ data \in [Numbers -> Clients \cup {None}]
        /\ ppc = "send" => Sent \in Clients
    BY DEF TypeOK
  <1> QED
    BY <1>1, <1>2, PrintdAssumption DEF Sent

\* main, its scan of the spool directory, and the signals.
LEMMA MainType ==
    TypeOK /\ (Start \/ Scan \/ SigHup \/ SigTerm \/ Stop) => TypeOK'
  <1> SUFFICES ASSUME TypeOK, Start \/ Scan \/ SigHup \/ SigTerm \/ Stop
      PROVE TypeOK'
    OBVIOUS
  <1> USE PrintdAssumption
      DEF TypeOK, Sent, spool, files, queue, config, main, thread, outside
  <1>1. CASE Start
    <2>1. nextjob' \in Numbers
      BY <1>1 DEF Start, Numbers
    <2>2. unread' \subseteq Numbers
      BY <1>1 DEF Start
    <2> QED
      BY <1>1, <2>1, <2>2 DEF Start
  <1>2. CASE ScanSignal
    BY <1>2 DEF ScanSignal, Signal, PPC
  <1>3. CASE ScanDone
    BY <1>3 DEF ScanDone
  <1>4. ASSUME NEW n \in Numbers, ScanEntry(n) PROVE TypeOK'
    <2>0. reqs[n] \in Clients => [id |-> n, client |-> reqs[n]] \in Job
      BY JobType
    <2>1. jobs' \in Seq(Job)
      <3>1. CASE reqs[n] \in Clients /\ Append_job(n, reqs[n])
        <4> HIDE DEF TypeOK
        <4>1. jobs \in Seq(Job)
          BY DEF TypeOK
        <4> QED
          BY <3>1, <4>1, <2>0, SeqType DEF Append_job
      <3>2. CASE UNCHANGED jobs
        BY <3>2
      <3> QED
        BY <1>4, <3>1, <3>2 DEF ScanEntry
    <2>2. /\ data' \in [Numbers -> Clients \cup {None}]
          /\ fd' \in Clients \cup {None}
          /\ ppc' = "send" => Sent' \in Clients
      BY <1>4, UnlinkType DEF ScanEntry
    <2>3. reqs' \in [Numbers -> Clients \cup {None, Short}]
      BY <1>4 DEF ScanEntry
    <2> QED
      BY <1>4, <2>1, <2>2, <2>3 DEF ScanEntry
  <1>5. ASSUME NEW n \in Numbers, ScanSkips(n) PROVE TypeOK'
    BY <1>5 DEF ScanSkips
  <1>6. CASE SigHup
    BY <1>6 DEF SigHup
  <1>7. CASE SigTerm
    BY <1>7 DEF SigTerm
  <1>8. CASE Stop
    BY <1>8, EndType DEF Stop
  <1> QED
    BY <1>1, <1>2, <1>3, <1>4, <1>5, <1>6, <1>7, <1>8 DEF Scan

\* A request file is created, written or removed.
LEMMA ReqsType ==
    ASSUME NEW n \in Numbers, NEW r \in Clients \cup {None, Short},
           reqs \in [Numbers -> Clients \cup {None, Short}]
    PROVE  [reqs EXCEPT ![n] = r] \in [Numbers -> Clients \cup {None, Short}]
  OBVIOUS

\* The threads of the clients.
LEMMA WorkerType ==
    ASSUME TypeOK, NEW c \in Clients, Connect(c) \/ Worker(c) \/ Cancelled(c)
    PROVE  TypeOK'
  <1> USE PrintdAssumption
      DEF TypeOK, Sent, spool, files, queue, config, main, thread, outside, Step
  <1>1. CASE Connect(c) \/ Cancelled(c) \/ HeaderFails(c)
    <2>1. /\ wpc' \in [Clients -> WPC] /\ UNCHANGED jobid
          /\ \A d \in Clients : wpc'[d] \in {wpc[d], "number", "gone"}
      BY <1>1 DEF Connect, Cancelled, HeaderFails, WPC
    <2>2. \A d \in Clients : wpc'[d] \notin {"new", "number", "gone"}
                               => jobid'[d] \in Numbers
      BY <2>1
    <2>3. UNCHANGED <<files, queue, config, main, thread, outside>>
      BY <1>1 DEF Connect, Cancelled, HeaderFails
    <2> QED
      BY <2>1, <2>2, <2>3
  <1>2. CASE GetNewjobno(c)
    <2>1. nextjob' \in Numbers
      BY <1>2 DEF GetNewjobno, NextNumber, Numbers
    <2>2. jobid' \in [Clients -> Numbers \cup {None}] /\ jobid'[c] \in Numbers
      BY <1>2 DEF GetNewjobno, Numbers
    <2>3. \A d \in Clients : wpc'[d] \notin {"new", "number", "gone"}
                               => jobid'[d] \in Numbers
      BY <1>2, <2>2 DEF GetNewjobno
    <2> QED
      BY <1>2, <2>1, <2>2, <2>3 DEF GetNewjobno, WPC
  <1>3. CASE CreatData(c) \/ Receive(c)
    <2>1. jobid[c] \in Numbers
      BY <1>3 DEF CreatData, Receive
    <2>2. /\ data' \in [Numbers -> Clients \cup {None}]
          /\ fd' \in Clients \cup {None}
          /\ ppc' = "send" => Sent' \in Clients
      BY <1>3, <2>1, CreatType, UnlinkType DEF CreatData, Receive
    <2>3. /\ wpc' \in [Clients -> WPC] /\ UNCHANGED jobid
          /\ \A d \in Clients : d = c \/ wpc'[d] = wpc[d]
      BY <1>3 DEF CreatData, Receive, WPC
    <2>4. \A d \in Clients : wpc'[d] \notin {"new", "number", "gone"}
                               => jobid'[d] \in Numbers
      BY <2>1, <2>3
    <2> QED
      BY <1>3, <2>2, <2>3, <2>4 DEF CreatData, Receive
  <1>4. CASE CreatReq(c) \/ WriteReq(c)
    <2>1. jobid[c] \in Numbers
      BY <1>4 DEF CreatReq, WriteReq
    <2>2. /\ data' \in [Numbers -> Clients \cup {None}]
          /\ fd' \in Clients \cup {None}
          /\ ppc' = "send" => Sent' \in Clients
      BY <1>4, <2>1, UnlinkType DEF CreatReq, WriteReq
    <2>3. reqs' \in [Numbers -> Clients \cup {None, Short}]
      <3>1. reqs' = reqs \/ \E r \in {Short, None, c} :
                                reqs' = [reqs EXCEPT ![jobid[c]] = r]
        BY <1>4 DEF CreatReq, WriteReq
      <3>2. reqs \in [Numbers -> Clients \cup {None, Short}]
        OBVIOUS
      <3> HIDE DEF TypeOK
      <3> QED
        BY <2>1, <3>1, <3>2, ReqsType
    <2>4. /\ wpc' \in [Clients -> WPC]
          /\ \A d \in Clients : wpc'[d] \notin {"new", "number", "gone"}
                                => jobid[d] \in Numbers
      BY <1>4, <2>1 DEF CreatReq, WriteReq, WPC
    <2>5. UNCHANGED <<jobfile, queue, config, main, thread, outside>>
      BY <1>4 DEF CreatReq, WriteReq
    <2> QED
      BY <2>2, <2>3, <2>4, <2>5
  <1>5. CASE Answer(c)
    BY <1>5 DEF Answer, WPC
  <1>6. CASE AddJob(c)
    <2>1. jobid[c] \in Numbers
      BY <1>6 DEF AddJob
    <2>2. jobs' \in Seq(Job)
      <3>1. [id |-> jobid[c], client |-> c] \in Job
        BY <2>1, JobType
      <3>2. Append(jobs, [id |-> jobid[c], client |-> c]) \in Seq(Job)
        BY <3>1, SeqType
      <3> QED
        BY <1>6, <3>2 DEF AddJob, Append_job
    <2>3. /\ ppc' \in PPC
          /\ IF ppc' \in {"get", "asleep"} THEN jp' = NoJob ELSE jp' \in Job
          /\ ppc' = "send" => Sent' \in Clients
      BY <1>6 DEF AddJob, Signal, PPC
    <2> QED
      BY <1>6, <2>1, <2>2, <2>3 DEF AddJob, WPC
  <1> QED
    BY <1>1, <1>2, <1>3, <1>4, <1>5, <1>6 DEF Worker

\* The printer thread.
LEMMA PrinterType == TypeOK /\ (Printer \/ SpuriousWakeup) => TypeOK'
  <1> SUFFICES ASSUME TypeOK, Printer \/ SpuriousWakeup PROVE TypeOK'
    OBVIOUS
  <1> USE PrintdAssumption
      DEF TypeOK, Sent, spool, files, queue, config, main, outside, PPC
  <1>1. CASE SpuriousWakeup
    BY <1>1 DEF SpuriousWakeup
  <1>2. CASE GetJob
    <2>1. CASE jobs = <<>>
      BY <1>2, <2>1 DEF GetJob
    <2>2. CASE jobs # <<>>
      <3>1. Head(jobs) \in Job /\ Tail(jobs) \in Seq(Job)
        BY <2>2, SeqType
      <3> QED
        BY <1>2, <2>2, <3>1 DEF GetJob
    <2> QED
      BY <2>1, <2>2
  <1>3. CASE UpdateJobno
    <2>1. jobfile' \in Numbers \cup {None, Mixed}
      BY <1>3 DEF UpdateJobno, Numbers
    <2> QED
      BY <1>3, <2>1 DEF UpdateJobno
  <1>4. CASE CheckConfig
    BY <1>4 DEF CheckConfig
  <1>5. CASE InitPrinter
    BY <1>5, EndType DEF InitPrinter
  <1>6. CASE OpenData
    <2>1. lost' \subseteq Numbers /\ jp.id \in Numbers
      BY <1>6, JobParts DEF OpenData
    <2>2. ppc' = "send" => Sent' \in Clients
      BY <1>6, <2>1 DEF OpenData
    <2> QED
      BY <1>6, <2>1, <2>2 DEF OpenData
  <1>7. CASE SendFails \/ SendOk
    <2>1. jp.client \in Clients
      BY <1>7, JobParts DEF SendFails, SendOk
    <2>2. Sent \in Clients
      BY <1>7 DEF SendFails, SendOk
    <2>3. printed' \subseteq Clients \X Clients
      BY <1>7, <2>1, <2>2 DEF SendFails, SendOk
    <2> QED
      BY <1>7, <2>3 DEF SendFails, SendOk
  <1>8. CASE UnlinkData
    BY <1>8 DEF UnlinkData
  <1>9. CASE UnlinkReq
    BY <1>9 DEF UnlinkReq
  <1>10. CASE ReplaceJob
    <2>1. jobs' \in Seq(Job)
      BY <1>10, SeqType DEF ReplaceJob
    <2> QED
      BY <1>10, <2>1 DEF ReplaceJob
  <1> QED
    BY <1>1, <1>2, <1>3, <1>4, <1>5, <1>6, <1>7, <1>8, <1>9, <1>10 DEF Printer

LEMMA NextType == TypeOK /\ [Next]_vars => TypeOK'
  <1>1. TypeOK /\ UNCHANGED vars => TypeOK'
    BY DEF TypeOK, Sent, vars, spool, files, queue, config, main, thread, outside
  <1> QED
    BY <1>1, MainType, WorkerType, PrinterType DEF Next

\* Every variable keeps its type: through the wrap-around and a job file that
\* mixes two numbers, nextjob is a 32-bit number (any one, a negative one too),
\* a client thread that works with a job number has been given one, and the
\* printer thread works on a real job.
THEOREM TypeCorrect == Spec => []TypeOK
  BY InitType, NextType, PTL DEF Spec

-----------------------------------------------------------------------------
(* The printer thread and the signal                                       *)

\* A signal on the way is not lost by a step of main, ...
LEMMA MainWakes ==
    ASSUME TypeOK, NoLostWakeup, Start \/ Scan \/ SigHup \/ SigTerm \/ Stop
    PROVE  NoLostWakeup'
  <1> USE DEF NoLostWakeup, spool, files, queue, config, main, thread, outside
  <1>1. CASE Start \/ SigHup \/ SigTerm \/ ScanDone \/ ScanSignal
    BY <1>1 DEF Start, SigHup, SigTerm, ScanDone, ScanSignal, Signal
  <1>2. ASSUME NEW n \in Numbers, ScanEntry(n) \/ ScanSkips(n)
        PROVE NoLostWakeup'
    BY <1>2 DEF ScanEntry, ScanSkips
  <1>3. CASE Stop
    BY <1>3 DEF Stop, End
  <1> QED
    BY <1>1, <1>2, <1>3 DEF Scan

\* ... of a client, ...
LEMMA WorkerWakes ==
    ASSUME TypeOK, NoLostWakeup, NEW c \in Clients,
           Connect(c) \/ Worker(c) \/ Cancelled(c)
    PROVE  NoLostWakeup'
  <1> USE DEF NoLostWakeup, spool, files, queue, config, main, thread, outside, Step
  <1>0. wpc \in [Clients -> WPC]
    BY DEF TypeOK
  <1>1. CASE AddJob(c)
    BY <1>0, <1>1 DEF AddJob, Signal
  <1>2. CASE Connect(c) \/ Cancelled(c) \/ HeaderFails(c) \/ GetNewjobno(c)
               \/ CreatData(c)
    BY <1>0, <1>2 DEF Connect, Cancelled, HeaderFails, GetNewjobno, CreatData
  <1>3. CASE Receive(c) \/ CreatReq(c) \/ WriteReq(c) \/ Answer(c)
    BY <1>0, <1>3 DEF Receive, CreatReq, WriteReq, Answer
  <1> QED
    BY <1>1, <1>2, <1>3 DEF Worker

\* ... or of the printer thread, which sleeps only on an empty list.
LEMMA PrinterWakes ==
    ASSUME TypeOK, NoLostWakeup, Printer \/ SpuriousWakeup
    PROVE  NoLostWakeup'
  <1> USE DEF NoLostWakeup, spool, files, queue, config, main, outside
  <1>1. CASE SpuriousWakeup \/ GetJob \/ UpdateJobno \/ CheckConfig \/ OpenData
    BY <1>1 DEF SpuriousWakeup, GetJob, UpdateJobno, CheckConfig, OpenData
  <1>2. CASE InitPrinter
    BY <1>2 DEF InitPrinter, End
  <1>3. CASE SendFails \/ SendOk \/ UnlinkData \/ UnlinkReq \/ ReplaceJob
    BY <1>3 DEF SendFails, SendOk, UnlinkData, UnlinkReq, ReplaceJob
  <1> QED
    BY <1>1, <1>2, <1>3 DEF Printer

\* The printer thread never sleeps while a job is on the list and no signal is
\* on its way, though add_job signals without the lock.
THEOREM PrinterNotMissed == Spec => []NoLostWakeup
  <1>1. Init => NoLostWakeup
    BY DEF Init, NoLostWakeup
  <1>2. NoLostWakeup /\ UNCHANGED vars => NoLostWakeup'
    BY DEF NoLostWakeup, vars, spool, files, queue, config, main, thread, outside
  <1>3. TypeOK /\ NoLostWakeup /\ [Next]_vars => NoLostWakeup'
    BY <1>2, MainWakes, WorkerWakes, PrinterWakes DEF Next
  <1> QED
    BY <1>1, <1>3, TypeCorrect, PTL DEF Spec

-----------------------------------------------------------------------------
(* SIGHUP                                                                  *)

\* reread is cleared before the configuration is read, so a SIGHUP that comes
\* in between sets it again.
THEOREM HupNotLost == Spec => []PrinterCurrent
  <1>1. Init => PrinterCurrent
    BY DEF Init, PrinterCurrent
  <1>2. ASSUME PrinterCurrent, [Next]_vars PROVE PrinterCurrent'
    <2> USE <1>2 DEF PrinterCurrent, spool, files, queue, config, main, thread, outside
    <2>1. CASE UNCHANGED vars
      BY <2>1 DEF vars
    <2>2. CASE Start \/ Scan \/ SigHup \/ SigTerm \/ Stop
      <3>1. CASE Start \/ SigHup \/ SigTerm
        BY <3>1 DEF Start, SigHup, SigTerm
      <3>2. CASE Stop
        BY <3>2 DEF Stop, End
      <3>3. CASE Scan
        BY <3>3 DEF Scan, ScanEntry, ScanSkips, ScanDone, ScanSignal, Signal
      <3> QED
        BY <2>2, <3>1, <3>2, <3>3
    <2>3. ASSUME NEW c \in Clients, Connect(c) \/ Worker(c) \/ Cancelled(c)
          PROVE PrinterCurrent'
      BY <2>3 DEF Worker, Connect, Cancelled, HeaderFails, GetNewjobno, CreatData,
                  Receive, CreatReq, WriteReq, Answer, AddJob, Signal
    <2>4. CASE Printer \/ SpuriousWakeup
      <3>1. CASE InitPrinter
        BY <3>1 DEF InitPrinter, End
      <3>2. CASE CheckConfig \/ GetJob \/ UpdateJobno \/ SpuriousWakeup
        BY <3>2 DEF CheckConfig, GetJob, UpdateJobno, SpuriousWakeup
      <3>3. CASE OpenData \/ SendFails \/ SendOk \/ UnlinkData \/ UnlinkReq
                   \/ ReplaceJob
        BY <3>3 DEF OpenData, SendFails, SendOk, UnlinkData, UnlinkReq, ReplaceJob
      <3> QED
        BY <2>4, <3>1, <3>2, <3>3 DEF Printer
    <2> QED
      BY <2>1, <2>2, <2>3, <2>4 DEF Next
  <1> QED
    BY <1>1, <1>2, PTL DEF Spec

-----------------------------------------------------------------------------
(* What was accepted stays in the spool                                    *)

\* Numbers are given before anything is stored, jobs accepted after it is, and
\* client threads run only when the scan of the directory is over.
NumbersGiven ==
    \A c \in Clients :
        /\ wpc[c] \in {"new", "number"} => jobid[c] = None
        /\ wpc[c] \notin {"addjob", "signal", "gone"} => c \notin acked
        /\ c \in acked => jobid[c] \in Numbers
        /\ wpc[c] \notin {"new", "gone"} => phase = "serve"

\* A request and a job carry the number their client was given.
RequestsNamed == \A n \in Numbers : reqs[n] \in Clients => jobid[reqs[n]] = n

Named(x) == x.id = jobid[x.client]

JobsNamed ==
    /\ \A i \in 1..Len(jobs) : Named(jobs[i])
    /\ jp \in Job => Named(jp)

\* The printer thread removes the files of a job only after it was printed.
OnlyPrintedRemoved ==
    ppc \in {"unlinkdata", "unlinkreq"} => IsPrinted(jp.client)

Excused(c) == IsPrinted(c) \/ Shared(c) \/ c \in dropped

\* What a client thread has written is there, even if it is not accepted yet.
WorkersStored ==
    \A c \in Clients :
        /\ wpc[c] \in {"receive", "creatreq", "writereq"}
             => Excused(c) \/ data[jobid[c]] = c
        /\ wpc[c] = "answer"
             => Excused(c) \/ (data[jobid[c]] = c /\ reqs[jobid[c]] = c)

SpoolInv ==
    /\ TypeOK
    /\ NumbersGiven /\ RequestsNamed /\ JobsNamed /\ OnlyPrintedRemoved
    /\ WorkersStored /\ SpoolKeepsAccepted

\* A step that leaves the files and the numbers alone and lets no client thread
\* go on storing keeps what is stored.
LEMMA StoredFrame ==
    ASSUME TypeOK, WorkersStored, SpoolKeepsAccepted,
           UNCHANGED <<data, reqs, jobid, acked, dropped>>, printed \subseteq printed',
           \A c \in Clients : \/ wpc'[c] = wpc[c]
                              \/ wpc'[c] \in {"number", "creat", "addjob",
                                              "signal", "gone"}
    PROVE  WorkersStored' /\ SpoolKeepsAccepted'
  <1>1. \A c \in Clients : Excused(c) => Excused(c)'
    BY DEF Excused, IsPrinted, Shared
  <1>2. WorkersStored'
    BY <1>1 DEF WorkersStored
  <1>3. SpoolKeepsAccepted'
    BY <1>1 DEF SpoolKeepsAccepted, Excused, TypeOK
  <1> QED
    BY <1>2, <1>3

\* A step that leaves the list and the printer thread's job alone.
LEMMA NamedFrame ==
    ASSUME JobsNamed, OnlyPrintedRemoved,
           UNCHANGED <<jobid, jobs, jp>>, printed \subseteq printed',
           ppc' = ppc \/ ppc' \notin {"unlinkdata", "unlinkreq"}
    PROVE  JobsNamed' /\ OnlyPrintedRemoved'
  BY DEF JobsNamed, Named, OnlyPrintedRemoved, IsPrinted

\* The process ends: the list is empty, the files stay.
LEMMA EndSpool == SpoolInv /\ ends < MaxEnds /\ End => SpoolInv'
  <1> SUFFICES ASSUME SpoolInv, ends < MaxEnds, End PROVE SpoolInv'
    OBVIOUS
  <1> USE DEF SpoolInv, End, files
  <1>1. TypeOK'
    BY EndType
  <1>2. NumbersGiven'
    BY DEF NumbersGiven, TypeOK
  <1>3. RequestsNamed'
    BY DEF RequestsNamed
  <1>4. JobsNamed' /\ OnlyPrintedRemoved'
    BY JobParts DEF JobsNamed, OnlyPrintedRemoved
  <1>5. WorkersStored' /\ SpoolKeepsAccepted'
    BY StoredFrame DEF TypeOK
  <1> QED
    BY <1>1, <1>2, <1>3, <1>4, <1>5

\* A job put on the list carries its number.
LEMMA AppendNamed ==
    ASSUME TypeOK, JobsNamed, NEW c \in Clients, jobid[c] \in Numbers,
           Append_job(jobid[c], c), UNCHANGED <<jobid, jp>>
    PROVE  JobsNamed'
  <1> DEFINE x == [id |-> jobid[c], client |-> c]
  <1>1. x \in Job /\ Named(x)
    BY JobType DEF Named
  <1>2. jobs \in Seq(Job) /\ jobs' = Append(jobs, x)
    BY DEF TypeOK, Append_job
  <1> HIDE DEF x
  <1>3. \A i \in 1..Len(jobs') : jobs'[i] = x \/ (i \in 1..Len(jobs)
                                                  /\ jobs'[i] = jobs[i])
    BY <1>1, <1>2
  <1> QED
    BY <1>1, <1>3 DEF JobsNamed, Named

\* main, its scan, and the signals.
LEMMA MainSpool ==
    ASSUME SpoolInv, Start \/ Scan \/ SigHup \/ SigTerm \/ Stop
    PROVE  SpoolInv'
  <1> USE DEF SpoolInv, spool, files, queue, config, main, thread, outside
  <1>0. TypeOK'
    BY MainType
  <1>1. CASE Start \/ SigHup \/ SigTerm \/ ScanDone
    <2> USE <1>1 DEF Start, SigHup, SigTerm, ScanDone
    <2>1. NumbersGiven'
      BY DEF NumbersGiven
    <2>2. RequestsNamed'
      BY DEF RequestsNamed
    <2>3. JobsNamed' /\ OnlyPrintedRemoved'
      BY NamedFrame
    <2>4. WorkersStored' /\ SpoolKeepsAccepted'
      BY StoredFrame
    <2> QED
      BY <1>0, <2>1, <2>2, <2>3, <2>4
  <1>2. CASE ScanSignal
    <2> USE <1>2 DEF ScanSignal, Signal
    <2>1. NumbersGiven'
      BY DEF NumbersGiven
    <2>2. RequestsNamed'
      BY DEF RequestsNamed
    <2>3. JobsNamed' /\ OnlyPrintedRemoved'
      BY NamedFrame
    <2>4. WorkersStored' /\ SpoolKeepsAccepted'
      BY StoredFrame
    <2> QED
      BY <1>0, <2>1, <2>2, <2>3, <2>4
  <1>3. ASSUME NEW n \in Numbers, ScanSkips(n) PROVE SpoolInv'
    <2> USE <1>3 DEF ScanSkips
    <2>1. NumbersGiven'
      BY DEF NumbersGiven
    <2>2. RequestsNamed'
      BY DEF RequestsNamed
    <2>3. JobsNamed' /\ OnlyPrintedRemoved'
      BY NamedFrame
    <2>4. WorkersStored' /\ SpoolKeepsAccepted'
      BY StoredFrame
    <2> QED
      BY <1>0, <2>1, <2>2, <2>3, <2>4
  <1>4. ASSUME NEW n \in Numbers, ScanEntry(n) PROVE SpoolInv'
    <2>1. NumbersGiven'
      BY <1>4 DEF ScanEntry, NumbersGiven
    <2>2. CASE reqs[n] \in Clients /\ Append_job(n, reqs[n])
                 /\ UNCHANGED <<data, reqs, thread, wpc, outside>>
      <3>2. jobid[reqs[n]] = n
        BY <2>2 DEF RequestsNamed
      <3>3. JobsNamed'
        BY <2>2, <3>2, AppendNamed
      <3>4. RequestsNamed' /\ OnlyPrintedRemoved'
        BY <2>2 DEF RequestsNamed, OnlyPrintedRemoved, IsPrinted
      <3>5. WorkersStored' /\ SpoolKeepsAccepted'
        BY <2>2, StoredFrame
      <3> QED
        BY <1>0, <2>1, <3>3, <3>4, <3>5
    <2>3. CASE /\ data' = [data EXCEPT ![n] = None]
               /\ reqs' = [reqs EXCEPT ![n] = None]
               /\ dropped' = dropped \cup ({reqs[n]} \cap acked)
               /\ UNCHANGED <<jobs, thread, wpc, jobid, acked, printed>>
      <3>2. JobsNamed' /\ OnlyPrintedRemoved'
        BY <2>3, NamedFrame
      <3>3. RequestsNamed'
        BY <2>3, PrintdAssumption DEF RequestsNamed, TypeOK
      <3>4. WorkersStored'
        BY <1>4, <2>3 DEF WorkersStored, NumbersGiven, ScanEntry
      <3>5. SpoolKeepsAccepted'
        <4> SUFFICES ASSUME NEW d \in acked
                     PROVE  Excused(d)' \/ (data'[jobid[d]] = d /\ reqs'[jobid[d]] = d)
          BY <2>3 DEF SpoolKeepsAccepted, Excused
        <4>1. Excused(d) => Excused(d)'
          BY <2>3 DEF Excused, IsPrinted, Shared
        <4>2. Excused(d) \/ (data[jobid[d]] = d /\ reqs[jobid[d]] = d)
          BY DEF SpoolKeepsAccepted, Excused
        <4>3. jobid[d] \in Numbers
          BY DEF TypeOK, NumbersGiven
        <4>4. CASE jobid[d] # n
          BY <2>3, <4>1, <4>2, <4>3, <4>4 DEF TypeOK
        <4>5. CASE jobid[d] = n
          BY <2>3, <4>1, <4>2, <4>5 DEF Excused
        <4> QED
          BY <4>4, <4>5
      <3> QED
        BY <1>0, <2>1, <3>2, <3>3, <3>4, <3>5
    <2> QED
      BY <1>4, <2>2, <2>3 DEF ScanEntry, UnlinkFile
  <1>5. CASE Stop
    BY <1>5, EndSpool DEF Stop
  <1> QED
    BY <1>1, <1>2, <1>3, <1>4, <1>5 DEF Scan

\* A client thread that works on its own files disturbs no client but those
\* that share its number.
LEMMA OthersStored ==
    ASSUME SpoolInv, NEW c \in Clients, jobid[c] \in Numbers, NEW v, NEW w,
           data' = [data EXCEPT ![jobid[c]] = v] \/ UNCHANGED data,
           reqs' = [reqs EXCEPT ![jobid[c]] = w] \/ UNCHANGED reqs,
           UNCHANGED <<jobid, acked, printed, dropped>>,
           \A d \in Clients \ {c} : wpc'[d] = wpc[d],
           c \notin acked \/ Excused(c)
    PROVE  /\ SpoolKeepsAccepted'
           /\ \A d \in Clients \ {c} :
                 /\ wpc'[d] \in {"receive", "creatreq", "writereq"}
                      => Excused(d)' \/ data'[jobid'[d]] = d
                 /\ wpc'[d] = "answer"
                      => Excused(d)' \/ (data'[jobid'[d]] = d
                                         /\ reqs'[jobid'[d]] = d)
  <1>1. \A d \in Clients : Excused(d) => Excused(d)'
    BY DEF Excused, IsPrinted, Shared
  <1>2. ASSUME NEW d \in Clients \ {c}, jobid[d] = jobid[c] PROVE Excused(d)'
    BY <1>2 DEF Excused, Shared
  <1>3. ASSUME NEW d \in Clients \ {c}, jobid[d] \in Numbers, jobid[d] # jobid[c]
        PROVE  data'[jobid'[d]] = data[jobid[d]] /\ reqs'[jobid'[d]] = reqs[jobid[d]]
    BY <1>3 DEF SpoolInv, TypeOK
  <1>4. SpoolKeepsAccepted'
    <2>1. SUFFICES ASSUME NEW d \in acked
          PROVE Excused(d)' \/ (data'[jobid'[d]] = d /\ reqs'[jobid'[d]] = d)
      BY DEF SpoolKeepsAccepted, Excused
    <2>2. d \in Clients /\ jobid[d] \in Numbers
      BY DEF SpoolInv, TypeOK, NumbersGiven
    <2> QED
      BY <1>1, <1>2, <1>3, <2>2 DEF SpoolInv, SpoolKeepsAccepted, Excused
  <1>5. \A d \in Clients \ {c} : wpc[d] \notin {"new", "number", "gone"}
                                   => jobid[d] \in Numbers
    BY DEF SpoolInv, TypeOK
  <1> QED
    BY <1>1, <1>2, <1>3, <1>4, <1>5 DEF SpoolInv, WorkersStored

\* The client threads.
LEMMA WorkerSpool ==
    ASSUME SpoolInv, NEW c \in Clients, Connect(c) \/ Worker(c) \/ Cancelled(c)
    PROVE  SpoolInv'
  <1> USE DEF SpoolInv, spool, files, queue, config, main, thread, outside, Step
  <1>0. /\ TypeOK' /\ wpc \in [Clients -> WPC]
        /\ jobid \in [Clients -> Numbers \cup {None}]
    BY WorkerType DEF TypeOK
  <1>1. CASE Connect(c) \/ HeaderFails(c) \/ Cancelled(c)
    <2> USE <1>1 DEF Connect, HeaderFails, Cancelled
    <2>1. NumbersGiven'
      BY <1>0 DEF NumbersGiven
    <2>2. RequestsNamed'
      BY DEF RequestsNamed
    <2>3. JobsNamed' /\ OnlyPrintedRemoved'
      BY NamedFrame
    <2>4. WorkersStored' /\ SpoolKeepsAccepted'
      BY <1>0, StoredFrame
    <2> QED
      BY <1>0, <2>1, <2>2, <2>3, <2>4
  <1>2. CASE GetNewjobno(c)
    <2> USE <1>2 DEF GetNewjobno
    <2>0. jobid[c] = None /\ c \notin acked /\ None \notin Numbers
      BY NoneIsNoNumber DEF NumbersGiven
    <2>1. NumbersGiven'
      BY <1>0, <2>0 DEF NumbersGiven
    <2>2. \A d \in Clients : jobid[d] \in Numbers => d # c /\ jobid'[d] = jobid[d]
      BY <1>0, <2>0
    <2>3. \A d \in Clients : jobid[d] \in Numbers /\ Excused(d) => Excused(d)'
      BY <1>0, <2>2 DEF Excused, IsPrinted, Shared
    <2>4. RequestsNamed'
      BY <2>2 DEF RequestsNamed, TypeOK
    <2>5. JobsNamed'
      <3>1. \A x \in Job : Named(x) => Named(x)'
        BY <2>2, JobParts DEF Named
      <3>2. \A i \in 1..Len(jobs) : jobs[i] \in Job
        BY DEF TypeOK
      <3> QED
        BY <3>1, <3>2 DEF JobsNamed
    <2>6. OnlyPrintedRemoved'
      BY DEF OnlyPrintedRemoved, IsPrinted
    <2>7. WorkersStored'
      <3>1. SUFFICES ASSUME NEW d \in Clients,
                            wpc'[d] \in {"receive", "creatreq", "writereq", "answer"}
            PROVE /\ d # c /\ wpc'[d] = wpc[d] /\ jobid[d] \in Numbers
        BY <2>2, <2>3 DEF WorkersStored
      <3> QED
        BY <1>0, <3>1 DEF TypeOK
    <2>8. SpoolKeepsAccepted'
      <3>1. \A d \in acked : d \in Clients /\ jobid[d] \in Numbers
        BY DEF TypeOK, NumbersGiven
      <3> QED
        BY <2>2, <2>3, <3>1 DEF SpoolKeepsAccepted, Excused
    <2> QED
      BY <1>0, <2>1, <2>4, <2>5, <2>6, <2>7, <2>8
  <1>3. CASE CreatData(c) \/ Receive(c) \/ CreatReq(c) \/ WriteReq(c)
    <2> DEFINE v == IF wpc'[c] = "receive" THEN c ELSE None
               w == IF wpc'[c] = "answer" THEN c
                    ELSE IF wpc'[c] = "writereq" THEN Short ELSE None
    <2>0. jobid[c] \in Numbers /\ c \notin acked
      BY <1>3 DEF TypeOK, NumbersGiven, CreatData, Receive, CreatReq, WriteReq
    <2>1. /\ data' = [data EXCEPT ![jobid[c]] = v] \/ UNCHANGED data
          /\ reqs' = [reqs EXCEPT ![jobid[c]] = w] \/ UNCHANGED reqs
      BY <1>0, <1>3 DEF CreatData, Receive, CreatReq, WriteReq, UnlinkFile
    <2>2. /\ UNCHANGED <<jobid, acked, printed, dropped, jobs, jp, ppc, phase>>
          /\ \A d \in Clients \ {c} : wpc'[d] = wpc[d]
      BY <1>0, <1>3 DEF CreatData, Receive, CreatReq, WriteReq
    <2>3. NumbersGiven'
      BY <1>0, <1>3, <2>0 DEF NumbersGiven, CreatData, Receive, CreatReq, WriteReq
    <2>4. RequestsNamed'
      <3>1. w \in Clients => w = c
        BY PrintdAssumption
      <3>2. reqs \in [Numbers -> Clients \cup {None, Short}] /\ RequestsNamed
        BY DEF TypeOK
      <3> HIDE DEF w, SpoolInv
      <3> QED
        BY <2>0, <2>1, <2>2, <3>1, <3>2 DEF RequestsNamed
    <2>5. JobsNamed' /\ OnlyPrintedRemoved'
      BY <2>2, NamedFrame
    <2>6. /\ SpoolKeepsAccepted'
          /\ \A d \in Clients \ {c} :
                 /\ wpc'[d] \in {"receive", "creatreq", "writereq"}
                      => Excused(d)' \/ data'[jobid'[d]] = d
                 /\ wpc'[d] = "answer"
                      => Excused(d)' \/ (data'[jobid'[d]] = d
                                         /\ reqs'[jobid'[d]] = d)
      <3> HIDE DEF v, w, SpoolInv
      <3> QED
        BY <2>0, <2>1, <2>2, OthersStored
    <2>7. Excused(c) => Excused(c)'
      BY <2>2 DEF Excused, IsPrinted, Shared
    <2>8. /\ wpc'[c] \in {"receive", "creatreq", "writereq"}
               => Excused(c)' \/ data'[jobid'[c]] = c
          /\ wpc'[c] = "answer"
               => Excused(c)' \/ (data'[jobid'[c]] = c /\ reqs'[jobid'[c]] = c)
      <3>1. CASE CreatData(c)
        BY <1>0, <2>0, <2>2, <3>1 DEF CreatData, TypeOK
      <3>2. CASE Receive(c)
        BY <1>0, <2>0, <2>2, <2>7, <3>2 DEF Receive, TypeOK, WorkersStored
      <3>3. CASE CreatReq(c)
        BY <1>0, <2>0, <2>2, <2>7, <3>3 DEF CreatReq, TypeOK, WorkersStored
      <3>4. CASE WriteReq(c)
        BY <1>0, <2>0, <2>2, <2>7, <3>4 DEF WriteReq, TypeOK, WorkersStored
      <3> QED
        BY <1>3, <3>1, <3>2, <3>3, <3>4
    <2>9. WorkersStored'
      BY <2>6, <2>8 DEF WorkersStored
    <2> QED
      BY <1>0, <2>3, <2>4, <2>5, <2>6, <2>9
  <1>4. CASE Answer(c)
    <2> USE <1>4 DEF Answer
    <2>1. NumbersGiven'
      BY <1>0 DEF NumbersGiven, TypeOK
    <2>2. RequestsNamed'
      BY DEF RequestsNamed
    <2>3. JobsNamed' /\ OnlyPrintedRemoved'
      BY NamedFrame
    <2>4. \A d \in Clients : Excused(d) => Excused(d)'
      BY DEF Excused, IsPrinted, Shared
    <2>5. WorkersStored'
      BY <1>0, <2>4 DEF WorkersStored
    <2>6. SpoolKeepsAccepted'
      BY <2>4 DEF SpoolKeepsAccepted, WorkersStored, Excused, TypeOK
    <2> QED
      BY <1>0, <2>1, <2>2, <2>3, <2>5, <2>6
  <1>5. CASE AddJob(c)
    <2> USE <1>5 DEF AddJob
    <2>1. NumbersGiven'
      BY <1>0 DEF NumbersGiven
    <2>2. RequestsNamed'
      BY DEF RequestsNamed
    <2>3. JobsNamed'
      <3>1. CASE wpc[c] = "addjob"
        <4>1. jobid[c] \in Numbers
          BY <3>1 DEF TypeOK
        <4> QED
          BY <3>1, <4>1, AppendNamed
      <3>2. CASE wpc[c] = "signal"
        BY <3>2 DEF JobsNamed, Named
      <3> QED
        BY <3>1, <3>2
    <2>4. OnlyPrintedRemoved'
      BY DEF OnlyPrintedRemoved, IsPrinted, Signal
    <2>5. WorkersStored' /\ SpoolKeepsAccepted'
      BY <1>0, StoredFrame
    <2> QED
      BY <1>0, <2>1, <2>2, <2>3, <2>4, <2>5
  <1> QED
    BY <1>1, <1>2, <1>3, <1>4, <1>5 DEF Worker

\* The printer thread.
LEMMA PrinterSpool ==
    ASSUME SpoolInv, Printer \/ SpuriousWakeup
    PROVE  SpoolInv'
  <1> USE DEF SpoolInv, spool, files, queue, config, main, outside
  <1>0. TypeOK'
    BY PrinterType
  <1>1. CASE UpdateJobno \/ CheckConfig \/ SpuriousWakeup
    <2> USE <1>1 DEF UpdateJobno, CheckConfig, SpuriousWakeup
    <2>1. NumbersGiven' /\ RequestsNamed'
      BY DEF NumbersGiven, RequestsNamed
    <2>2. JobsNamed' /\ OnlyPrintedRemoved'
      BY NamedFrame
    <2>3. WorkersStored' /\ SpoolKeepsAccepted'
      BY StoredFrame
    <2> QED
      BY <1>0, <2>1, <2>2, <2>3
  <1>2. CASE InitPrinter
    <2>1. CASE ends < MaxEnds /\ End
      BY <2>1, EndSpool
    <2>2. CASE ~(ends < MaxEnds /\ End)
      <3>0. /\ UNCHANGED <<files, queue, reread, main, jp, wpc, outside>>
            /\ ppc' = "open"
        BY <1>2, <2>2 DEF InitPrinter
      <3>1. NumbersGiven' /\ RequestsNamed'
        BY <3>0 DEF NumbersGiven, RequestsNamed
      <3>2. JobsNamed' /\ OnlyPrintedRemoved'
        BY <3>0, NamedFrame
      <3>3. WorkersStored' /\ SpoolKeepsAccepted'
        BY <3>0, StoredFrame
      <3> QED
        BY <1>0, <3>1, <3>2, <3>3
    <2> QED
      BY <2>1, <2>2
  <1>3. CASE GetJob \/ OpenData \/ ReplaceJob
    <2>0. /\ UNCHANGED <<data, reqs, jobid, acked, printed, dropped, wpc, phase>>
          /\ ppc' \notin {"unlinkdata", "unlinkreq"}
      BY <1>3 DEF GetJob, OpenData, ReplaceJob
    <2>1. NumbersGiven' /\ RequestsNamed'
      BY <2>0 DEF NumbersGiven, RequestsNamed
    <2>2. OnlyPrintedRemoved'
      BY <2>0 DEF OnlyPrintedRemoved
    <2>3. WorkersStored' /\ SpoolKeepsAccepted'
      BY <2>0, StoredFrame
    <2>4. jobs \in Seq(Job) /\ (ppc = "replace" => jp \in Job)
      BY DEF TypeOK
    <2>5. \A x : Named(x)' <=> Named(x)
      BY <2>0 DEF Named
    <2>6. ASSUME GetJob PROVE JobsNamed'
      <3>1. CASE jobs = <<>>
        BY <2>0, <2>6, <3>1 DEF GetJob, JobsNamed, Named
      <3>2. CASE jobs # <<>>
        <4>1. jp' = jobs[1] /\ jobs' = Tail(jobs)
          BY <2>4, <2>6, <3>2 DEF GetJob
        <4>2. \A i \in 1..Len(Tail(jobs)) : i + 1 \in 1..Len(jobs)
                                            /\ Tail(jobs)[i] = jobs[i + 1]
          BY <2>4, <3>2
        <4>3. 1 \in 1..Len(jobs)
          BY <2>4, <3>2
        <4> QED
          BY <2>0, <4>1, <4>2, <4>3 DEF JobsNamed, Named
      <3> QED
        BY <3>1, <3>2
    <2>7. ASSUME OpenData PROVE JobsNamed'
      BY <2>0, <2>7, JobParts DEF OpenData, JobsNamed, Named
    <2>8. ASSUME ReplaceJob PROVE JobsNamed'
      <3>1. jp \in Job /\ jobs' = <<jp>> \o jobs /\ jp' = NoJob
        BY <2>4, <2>8 DEF ReplaceJob
      <3>2. \A i \in 1..Len(jobs') : jobs'[i] = jp \/ (i - 1 \in 1..Len(jobs)
                                                      /\ jobs'[i] = jobs[i - 1])
        BY <2>4, <3>1
      <3> QED
        BY <2>0, <3>1, <3>2, JobParts DEF JobsNamed, Named
    <2> QED
      BY <1>0, <1>3, <2>1, <2>2, <2>3, <2>6, <2>7, <2>8
  <1>4. CASE SendFails \/ SendOk
    <2>0. /\ UNCHANGED <<data, reqs, jobid, acked, dropped, wpc, phase, jobs, jp>>
          /\ printed \subseteq printed'
      BY <1>4 DEF SendFails, SendOk
    <2>1. NumbersGiven' /\ RequestsNamed'
      BY <2>0 DEF NumbersGiven, RequestsNamed
    <2>2. JobsNamed'
      BY <2>0 DEF JobsNamed, Named
    <2>3. WorkersStored' /\ SpoolKeepsAccepted'
      BY <2>0, StoredFrame
    <2>4. OnlyPrintedRemoved'
      <3>1. CASE SendOk
        <4>1. Sent \in Clients
          BY <3>1 DEF SendOk, TypeOK
        <4> QED
          BY <3>1, <4>1 DEF SendOk, OnlyPrintedRemoved, IsPrinted
      <3>2. CASE SendFails
        BY <3>2 DEF SendFails, OnlyPrintedRemoved
      <3> QED
        BY <1>4, <3>1, <3>2
    <2> QED
      BY <1>0, <2>1, <2>2, <2>3, <2>4
  <1>5. CASE UnlinkData \/ UnlinkReq
    <2>0. /\ jp \in Job /\ Named(jp) /\ IsPrinted(jp.client)
          /\ jp.id \in Numbers /\ jp.client \in Clients
      BY <1>5, JobParts
         DEF UnlinkData, UnlinkReq, TypeOK, JobsNamed, OnlyPrintedRemoved
    <2> PICK c \in Clients : c = jp.client
      BY <2>0
    <2>1. /\ data' = [data EXCEPT ![jobid[c]] = None] \/ UNCHANGED data
          /\ reqs' = [reqs EXCEPT ![jobid[c]] = None] \/ UNCHANGED reqs
          /\ UNCHANGED <<jobid, acked, printed, dropped, wpc, phase, jobs>>
      BY <1>5, <2>0 DEF UnlinkData, UnlinkReq, Named
    <2>2. NumbersGiven'
      BY <2>1 DEF NumbersGiven
    <2>3. RequestsNamed'
      BY <2>0, <2>1, PrintdAssumption DEF RequestsNamed, TypeOK
    <2>4. JobsNamed' /\ OnlyPrintedRemoved'
      <3>1. CASE UnlinkData
        BY <2>1, <3>1 DEF UnlinkData, JobsNamed, Named, OnlyPrintedRemoved, IsPrinted
      <3>2. CASE UnlinkReq
        BY <2>1, <3>2, JobParts DEF UnlinkReq, JobsNamed, Named, OnlyPrintedRemoved
      <3> QED
        BY <1>5, <3>1, <3>2
    <2>5. /\ SpoolKeepsAccepted'
          /\ \A d \in Clients \ {c} :
                 /\ wpc'[d] \in {"receive", "creatreq", "writereq"}
                      => Excused(d)' \/ data'[jobid'[d]] = d
                 /\ wpc'[d] = "answer"
                      => Excused(d)' \/ (data'[jobid'[d]] = d
                                         /\ reqs'[jobid'[d]] = d)
      <3>1. jobid[c] \in Numbers /\ Excused(c)
        BY <2>0 DEF Named, Excused
      <3> HIDE DEF SpoolInv
      <3> QED
        BY <2>0, <2>1, <3>1, OthersStored
    <2>6. Excused(c)'
      BY <2>0, <2>1 DEF Excused, IsPrinted
    <2>7. WorkersStored'
      BY <2>5, <2>6 DEF WorkersStored
    <2> QED
      BY <1>0, <2>2, <2>3, <2>4, <2>5, <2>7
  <1> QED
    BY <1>1, <1>2, <1>3, <1>4, <1>5 DEF Printer

\* The files, the list and the client threads always agree, also when a scan
\* removes a request it cannot read and when a number is given out again.
THEOREM SpoolInvariant == Spec => []SpoolInv
  <1>1. Init => SpoolInv
    <2> SUFFICES ASSUME Init PROVE SpoolInv
      OBVIOUS
    <2>1. TypeOK
      BY InitType
    <2>2. NumbersGiven
      BY DEF Init, NumbersGiven
    <2>3. RequestsNamed
      BY PrintdAssumption DEF Init, RequestsNamed
    <2>4. JobsNamed /\ OnlyPrintedRemoved
      BY JobParts DEF Init, JobsNamed, OnlyPrintedRemoved
    <2>5. WorkersStored /\ SpoolKeepsAccepted
      BY DEF Init, WorkersStored, SpoolKeepsAccepted
    <2> QED
      BY <2>1, <2>2, <2>3, <2>4, <2>5 DEF SpoolInv
  <1>2. SpoolInv /\ UNCHANGED vars => SpoolInv'
    <2> SUFFICES ASSUME SpoolInv, UNCHANGED vars PROVE SpoolInv'
      OBVIOUS
    <2> USE DEF SpoolInv, vars, spool, files, queue, config, main, thread, outside
    <2>1. TypeOK'
      BY NextType
    <2>2. NumbersGiven' /\ RequestsNamed'
      BY DEF NumbersGiven, RequestsNamed
    <2>3. JobsNamed' /\ OnlyPrintedRemoved'
      BY NamedFrame
    <2>4. WorkersStored' /\ SpoolKeepsAccepted'
      BY StoredFrame
    <2> QED
      BY <2>1, <2>2, <2>3, <2>4
  <1>3. SpoolInv /\ [Next]_vars => SpoolInv'
    BY <1>2, MainSpool, WorkerSpool, PrinterSpool DEF Next
  <1> QED
    BY <1>1, <1>3, PTL DEF Spec

\* Whatever was accepted is in the spool, data and request, until it is
\* printed, however often the daemon ends and wherever it does, unless another
\* client is given the same number or a read() of the request fails at a
\* start: there build_qonstart removes an accepted job.
THEOREM AcceptedIsKept == Spec => []SpoolKeepsAccepted
  BY SpoolInvariant, PTL DEF SpoolInv

-----------------------------------------------------------------------------
(* A job is printed with its own file                                      *)

\* A data file carries the number of the client it comes from, and so does the
\* file without a name that the printer thread has open.
DataNamed ==
    /\ \A n \in Numbers : data[n] \in Clients => jobid[data[n]] = n
    /\ fd # None => ppc = "send" /\ jobid[fd] = jp.id

\* What was printed together has the same number.
PrintedNamed ==
    \A x \in printed : jobid[x[1]] \in Numbers /\ jobid[x[2]] = jobid[x[1]]

\* The clients that got a number from this run of the daemon, and how many
\* numbers were given out after n.
Given  == {c \in Clients : jobid[c] \in Numbers /\ life[c] = ends}
Ago(n) == IF n < nextjob THEN nextjob - 1 - n ELSE nextjob + MaxJob - 1 - n

\* The numbers of this run are the last ones before nextjob, after at most one
\* that was read from the job file and is not positive; so two clients of one
\* run have different numbers.
NumbersUnique ==
    /\ \A c \in Clients : jobid[c] \in Numbers => life[c] <= ends
    /\ phase = "down" => Given = {}
    /\ nextjob <= 0 => Given = {}
    /\ \A c \in Given : jobid[c] > 0 => Ago(jobid[c]) < Cardinality(Given)
    /\ \A c, d \in Clients :
          jobid[c] \in Numbers /\ jobid[c] = jobid[d] /\ life[c] = life[d] => c = d

FileInv == SpoolInv /\ DataNamed /\ PrintedNamed /\ NumbersUnique

\* A step that touches neither the files nor the numbers.
LEMMA FileFrame ==
    ASSUME TypeOK, DataNamed, PrintedNamed, UNCHANGED <<data, fd, jobid, printed>>,
           UNCHANGED <<ppc, jp>> \/ ppc # "send"
    PROVE  DataNamed' /\ PrintedNamed'
  <1>1. PrintedNamed'
    BY DEF PrintedNamed
  <1>2. DataNamed'
    BY DEF DataNamed
  <1> QED
    BY <1>1, <1>2

LEMMA UniqueFrame ==
    ASSUME NumbersUnique, UNCHANGED <<jobid, life, ends, nextjob>>,
           phase' = "down" => phase = "down"
    PROVE  NumbersUnique'
  <1>1. Given' = Given /\ \A n : Ago(n)' = Ago(n)
    BY DEF Given, Ago
  <1> QED
    BY <1>1 DEF NumbersUnique

\* A data file is removed.
LEMMA UnlinkNamed ==
    ASSUME TypeOK, DataNamed, PrintedNamed, NEW n \in Numbers, UnlinkFile(n),
           UNCHANGED <<jobid, printed, ppc, jp>>
    PROVE  DataNamed' /\ PrintedNamed'
  <1>1. PrintedNamed'
    BY DEF PrintedNamed
  <1>2. \A m \in Numbers : data'[m] \in Clients => jobid'[data'[m]] = m
    BY PrintdAssumption DEF UnlinkFile, DataNamed, TypeOK
  <1>3. fd' # None => ppc' = "send" /\ jobid'[fd'] = jp'.id
    <2>1. CASE fd' = fd
      BY <2>1 DEF DataNamed
    <2>2. CASE fd' # fd
      <3>1. ppc = "send" /\ jp.id = n /\ fd = None /\ fd' = data[n]
        BY <2>2 DEF UnlinkFile
      <3>2. data[n] \in Clients
        BY <3>1 DEF TypeOK, Sent
      <3> QED
        BY <3>1, <3>2 DEF DataNamed
    <2> QED
      BY <2>1, <2>2
  <1> QED
    BY <1>1, <1>2, <1>3 DEF DataNamed

\* The process ends: nobody has a number of the next run.
LEMMA EndFile == FileInv /\ ends < MaxEnds /\ End => FileInv'
  <1> SUFFICES ASSUME FileInv, ends < MaxEnds, End PROVE FileInv'
    OBVIOUS
  <1>0. SpoolInv' /\ TypeOK
    BY EndSpool DEF FileInv, SpoolInv
  <1>1. DataNamed' /\ PrintedNamed'
    BY DEF FileInv, DataNamed, PrintedNamed, End
  <1>2. /\ UNCHANGED <<jobid, life>> /\ ends' = ends + 1 /\ ends \in Nat
        /\ \A c \in Clients : life[c] \in Nat
    BY <1>0, PrintdAssumption DEF End, TypeOK
  <1>3. \A c \in Clients : jobid[c] \in Numbers => life[c] <= ends
    BY DEF FileInv, NumbersUnique
  <1>4. Given' = {}
    BY <1>2, <1>3 DEF Given
  <1>5. NumbersUnique'
    BY <1>2, <1>3, <1>4 DEF FileInv, NumbersUnique
  <1> QED
    BY <1>0, <1>1, <1>5 DEF FileInv

LEMMA MainFile ==
    ASSUME FileInv, Start \/ Scan \/ SigHup \/ SigTerm \/ Stop
    PROVE  FileInv'
  <1> USE DEF spool, files, queue, config, main, thread, outside
  <1>0. SpoolInv' /\ TypeOK /\ DataNamed /\ PrintedNamed /\ NumbersUnique
    BY MainSpool DEF FileInv, SpoolInv
  <1>1. CASE Start
    <2>1. DataNamed' /\ PrintedNamed'
      BY <1>0, <1>1, FileFrame DEF Start
    <2>2. Given = {} /\ Given' = Given
      BY <1>0, <1>1 DEF Start, NumbersUnique, Given
    <2>3. NumbersUnique'
      BY <1>0, <1>1, <2>2 DEF Start, NumbersUnique
    <2> QED
      BY <1>0, <2>1, <2>3 DEF FileInv
  <1>2. CASE SigHup \/ SigTerm \/ ScanDone
    <2>1. DataNamed' /\ PrintedNamed'
      BY <1>0, <1>2, FileFrame DEF SigHup, SigTerm, ScanDone
    <2>2. NumbersUnique'
      BY <1>0, <1>2, UniqueFrame DEF SigHup, SigTerm, ScanDone
    <2> QED
      BY <1>0, <2>1, <2>2 DEF FileInv
  <1>3. CASE ScanSignal
    <2>1. DataNamed' /\ PrintedNamed'
      BY <1>0, <1>3, FileFrame DEF ScanSignal, Signal
    <2>2. NumbersUnique'
      BY <1>0, <1>3, UniqueFrame DEF ScanSignal
    <2> QED
      BY <1>0, <2>1, <2>2 DEF FileInv
  <1>4. ASSUME NEW n \in Numbers, ScanEntry(n) \/ ScanSkips(n) PROVE FileInv'
    <2>1. DataNamed' /\ PrintedNamed'
      BY <1>0, <1>4, FileFrame, UnlinkNamed DEF ScanEntry, ScanSkips
    <2>2. NumbersUnique'
      BY <1>0, <1>4, UniqueFrame DEF ScanEntry, ScanSkips
    <2> QED
      BY <1>0, <2>1, <2>2 DEF FileInv
  <1>5. CASE Stop
    BY <1>5, EndFile DEF Stop
  <1> QED
    BY <1>1, <1>2, <1>3, <1>4, <1>5 DEF Scan

\* get_newjobno: with no more clients than numbers, the next number was not
\* given out in this run.
LEMMA NewNumber ==
    ASSUME FileInv, IsFiniteSet(Clients), Cardinality(Clients) <= MaxJob,
           NEW c \in Clients, GetNewjobno(c)
    PROVE  NumbersUnique'
  <1>0. TypeOK /\ NumbersUnique /\ NumbersGiven
    BY DEF FileInv, SpoolInv
  <1>1. /\ jobid \in [Clients -> Numbers \cup {None}]
        /\ life \in [Clients -> 0..MaxEnds]
        /\ nextjob \in Numbers /\ nextjob \in Int /\ nextjob <= MaxJob
        /\ ends \in 0..MaxEnds
        /\ MaxJob \in Nat \ {0} /\ MaxEnds \in Nat
    BY <1>0, PrintdAssumption DEF TypeOK, Numbers
  <1>2. /\ jobid' = [jobid EXCEPT ![c] = nextjob] /\ life' = [life EXCEPT ![c] = ends]
        /\ nextjob' = IF nextjob \in 1 .. (MaxJob - 1) THEN nextjob + 1 ELSE 1
        /\ ends' = ends /\ phase' = phase
    BY DEF GetNewjobno, NextNumber, main
  <1>3. jobid[c] = None /\ phase = "serve"
    BY <1>0 DEF NumbersGiven, GetNewjobno, Step
  <1>4. c \notin Given /\ Given' = Given \cup {c}
    BY <1>1, <1>2, <1>3, NoneIsNoNumber DEF Given
  <1>5. /\ IsFiniteSet(Given) /\ Cardinality(Given) \in Nat
        /\ Cardinality(Given') = Cardinality(Given) + 1
        /\ Cardinality(Given') <= MaxJob
    <2>1. IsFiniteSet(Given) /\ IsFiniteSet(Given') /\ Given' \subseteq Clients
      BY FS_Subset DEF Given
    <2>2. /\ Cardinality(Given) \in Nat /\ Cardinality(Given') \in Nat
          /\ Cardinality(Clients) \in Nat
      BY <2>1, FS_CardinalityType
    <2>3. Cardinality(Given') = Cardinality(Given) + 1
      BY <1>4, <2>1, FS_AddElement
    <2>4. Cardinality(Given') <= Cardinality(Clients)
      BY <2>1, FS_Subset
    <2> QED
      BY <1>1, <2>1, <2>2, <2>3, <2>4
  <1>6. ASSUME NEW d \in Given
        PROVE  /\ jobid'[d] = jobid[d] /\ jobid[d] # nextjob
               /\ jobid[d] > 0 => Ago(jobid[d])' < Cardinality(Given')
    <2>1. /\ d \in Clients /\ d # c /\ jobid[d] \in Numbers /\ nextjob > 0
          /\ jobid[d] > 0 => Ago(jobid[d]) < Cardinality(Given)
      BY <1>0, <1>1, <1>4 DEF Given, NumbersUnique
    <2>2. jobid[d] \in Int /\ jobid[d] <= MaxJob /\ jobid'[d] = jobid[d]
      BY <1>1, <1>2, <2>1 DEF Numbers
    <2>3. jobid[d] # nextjob
      BY <1>1, <1>5, <2>1, <2>2 DEF Ago
    <2>4. jobid[d] > 0 => Ago(jobid[d])' = Ago(jobid[d]) + 1
      BY <1>1, <1>2, <2>1, <2>2, <2>3 DEF Ago
    <2>5. Ago(jobid[d]) \in Int
      BY <1>1, <2>2 DEF Ago
    <2> QED
      BY <1>5, <2>1, <2>2, <2>3, <2>4, <2>5
  <1>7. /\ nextjob > 0 => Ago(jobid[c])' = 0
        /\ jobid'[c] = nextjob /\ life'[c] = ends /\ nextjob' > 0
    BY <1>1, <1>2 DEF Ago
  <1>8. \A d \in Given' : jobid'[d] > 0 => Ago(jobid[d])' < Cardinality(Given')
    BY <1>1, <1>4, <1>5, <1>6, <1>7
  <1>9. \A d \in Clients : jobid'[d] \in Numbers => life'[d] <= ends'
    BY <1>0, <1>1, <1>2 DEF NumbersUnique
  <1>10. ASSUME NEW d \in Clients \ {c}, jobid'[d] = jobid'[c], life'[d] = life'[c]
         PROVE  FALSE
    <2>1. jobid[d] = nextjob /\ life[d] = ends
      BY <1>1, <1>2, <1>10
    <2>2. d \in Given
      BY <1>1, <2>1 DEF Given
    <2> QED
      BY <1>6, <2>1, <2>2
  <1>11. ASSUME NEW d \in Clients \ {c}, NEW e \in Clients \ {c}, jobid'[d] \in Numbers,
                jobid'[d] = jobid'[e], life'[d] = life'[e]
         PROVE  d = e
    BY <1>0, <1>1, <1>2, <1>11 DEF NumbersUnique
  <1>12. \A d, e \in Clients : jobid'[d] \in Numbers /\ jobid'[d] = jobid'[e]
                                 /\ life'[d] = life'[e] => d = e
    BY <1>10, <1>11
  <1> QED
    BY <1>1, <1>2, <1>3, <1>7, <1>8, <1>9, <1>12 DEF NumbersUnique

LEMMA WorkerFile ==
    ASSUME FileInv, IsFiniteSet(Clients), Cardinality(Clients) <= MaxJob,
           NEW c \in Clients, Connect(c) \/ Worker(c) \/ Cancelled(c)
    PROVE  FileInv'
  <1> USE DEF spool, files, queue, config, main, thread, outside, Step
  <1>0. /\ SpoolInv' /\ TypeOK /\ DataNamed /\ PrintedNamed /\ NumbersUnique
        /\ NumbersGiven
    BY WorkerSpool DEF FileInv, SpoolInv
  <1>1. CASE Connect(c) \/ HeaderFails(c) \/ Cancelled(c) \/ Answer(c)
    <2>1. DataNamed' /\ PrintedNamed'
      BY <1>0, <1>1, FileFrame DEF Connect, HeaderFails, Cancelled, Answer
    <2>2. NumbersUnique'
      BY <1>0, <1>1, UniqueFrame DEF Connect, HeaderFails, Cancelled, Answer
    <2> QED
      BY <1>0, <2>1, <2>2 DEF FileInv
  <1>2. CASE GetNewjobno(c)
    <2>1. /\ jobid[c] = None /\ None \notin Numbers
          /\ \A d \in Clients : d # c => jobid'[d] = jobid[d]
          /\ UNCHANGED <<data, fd, ppc, jp, printed>>
      BY <1>0, <1>2, NoneIsNoNumber DEF GetNewjobno, NumbersGiven, TypeOK
    <2>2. \A d \in Clients : jobid[d] \in Numbers => jobid'[d] = jobid[d]
      BY <2>1
    <2>3. PrintedNamed'
      BY <1>0, <2>1, <2>2 DEF PrintedNamed, TypeOK
    <2>4. fd # None => jobid'[fd] = jp.id
      <3>1. fd # None => fd \in Clients /\ jp.id \in Numbers
        BY <1>0, JobParts DEF TypeOK, DataNamed
      <3> QED
        BY <1>0, <2>2, <3>1 DEF DataNamed
    <2>5. DataNamed'
      BY <1>0, <2>1, <2>2, <2>4 DEF DataNamed
    <2> QED
      BY <1>0, <1>2, <2>3, <2>5, NewNumber DEF FileInv
  <1>3. CASE CreatData(c)
    <2>1. jobid[c] \in Numbers
      BY <1>0, <1>3 DEF CreatData, TypeOK
    <2>2. DataNamed' /\ PrintedNamed'
      <3>1. /\ data' = [data EXCEPT ![jobid[c]] = c] \/ UNCHANGED data
            /\ UNCHANGED <<fd, ppc, jp, jobid, printed>>
        BY <1>3 DEF CreatData
      <3>2. \A n \in Numbers : data'[n] = data[n] \/ (n = jobid[c] /\ data'[n] = c)
        BY <1>0, <3>1 DEF TypeOK
      <3> QED
        BY <1>0, <3>1, <3>2 DEF DataNamed, PrintedNamed
    <2>3. NumbersUnique'
      BY <1>0, <1>3, UniqueFrame DEF CreatData
    <2> QED
      BY <1>0, <2>2, <2>3 DEF FileInv
  <1>4. CASE Receive(c) \/ CreatReq(c) \/ WriteReq(c)
    <2>1. jobid[c] \in Numbers
      BY <1>0, <1>4 DEF Receive, CreatReq, WriteReq, TypeOK
    <2>2. DataNamed' /\ PrintedNamed'
      BY <1>0, <1>4, <2>1, FileFrame, UnlinkNamed DEF Receive, CreatReq, WriteReq
    <2>3. NumbersUnique'
      BY <1>0, <1>4, UniqueFrame DEF Receive, CreatReq, WriteReq
    <2> QED
      BY <1>0, <2>2, <2>3 DEF FileInv
  <1>5. CASE AddJob(c)
    <2>1. DataNamed' /\ PrintedNamed'
      BY <1>0, <1>5, FileFrame DEF AddJob, Signal
    <2>2. NumbersUnique'
      BY <1>0, <1>5, UniqueFrame DEF AddJob
    <2> QED
      BY <1>0, <2>1, <2>2 DEF FileInv
  <1> QED
    BY <1>1, <1>2, <1>3, <1>4, <1>5 DEF Worker

LEMMA PrinterFile ==
    ASSUME FileInv, Printer \/ SpuriousWakeup
    PROVE  FileInv'
  <1> USE DEF spool, files, queue, config, main, thread, outside
  <1>0. /\ SpoolInv' /\ TypeOK /\ DataNamed /\ PrintedNamed /\ NumbersUnique
        /\ JobsNamed
    BY PrinterSpool DEF FileInv, SpoolInv
  <1>1. CASE SpuriousWakeup \/ GetJob \/ UpdateJobno \/ CheckConfig \/ OpenData
               \/ UnlinkReq \/ ReplaceJob
    <2>1. DataNamed' /\ PrintedNamed'
      BY <1>0, <1>1, FileFrame DEF SpuriousWakeup, GetJob, UpdateJobno, CheckConfig,
                                   OpenData, UnlinkReq, ReplaceJob
    <2>2. NumbersUnique'
      BY <1>0, <1>1, UniqueFrame DEF SpuriousWakeup, GetJob, UpdateJobno, CheckConfig,
                                   OpenData, UnlinkReq, ReplaceJob
    <2> QED
      BY <1>0, <2>1, <2>2 DEF FileInv
  <1>2. CASE InitPrinter
    <2>1. CASE ends < MaxEnds /\ End
      BY <2>1, EndFile
    <2>2. CASE ~(ends < MaxEnds /\ End)
      <3>1. DataNamed' /\ PrintedNamed'
        BY <1>0, <1>2, <2>2, FileFrame DEF InitPrinter
      <3>2. NumbersUnique'
        BY <1>0, <1>2, <2>2, UniqueFrame DEF InitPrinter
      <3> QED
        BY <1>0, <3>1, <3>2 DEF FileInv
    <2> QED
      BY <2>1, <2>2
  <1>3. CASE SendOk \/ SendFails
    <2>1. jp.id \in Numbers /\ jobid[jp.client] = jp.id /\ Sent \in Clients
      BY <1>0, <1>3, JobParts DEF SendOk, SendFails, TypeOK, JobsNamed, Named
    <2>2. jobid[Sent] = jp.id
      BY <1>0, <2>1 DEF Sent, DataNamed
    <2>3. /\ printed' \subseteq printed \cup {<<jp.client, Sent>>}
          /\ fd' = None /\ UNCHANGED <<data, jobid>>
      BY <1>3 DEF SendOk, SendFails
    <2>4. DataNamed' /\ PrintedNamed'
      BY <1>0, <2>1, <2>2, <2>3 DEF DataNamed, PrintedNamed
    <2>5. NumbersUnique'
      BY <1>0, <1>3, UniqueFrame DEF SendOk, SendFails
    <2> QED
      BY <1>0, <2>4, <2>5 DEF FileInv
  <1>4. CASE UnlinkData
    <2>1. DataNamed' /\ PrintedNamed'
      BY <1>0, <1>4, PrintdAssumption
         DEF UnlinkData, DataNamed, PrintedNamed, TypeOK
    <2>2. NumbersUnique'
      BY <1>0, <1>4, UniqueFrame DEF UnlinkData
    <2> QED
      BY <1>0, <2>1, <2>2 DEF FileInv
  <1> QED
    BY <1>1, <1>2, <1>3, <1>4 DEF Printer

\* A job is printed with the file of its own client, unless the two clients
\* got their number from two runs of the daemon: for any number of clients up
\* to the number of job numbers.
THEOREM PrintedIsOwn ==
    ASSUME IsFiniteSet(Clients), Cardinality(Clients) <= MaxJob
    PROVE  Spec => []PrintsOwnFile
  <1>1. Init /\ SpoolInv => FileInv
    <2> SUFFICES ASSUME Init, SpoolInv PROVE FileInv
      OBVIOUS
    <2>1. DataNamed /\ PrintedNamed
      BY PrintdAssumption DEF Init, DataNamed, PrintedNamed
    <2>2. Given = {} /\ \A c \in Clients : jobid[c] \notin Numbers
      BY NoneIsNoNumber DEF Init, Given
    <2>3. NumbersUnique
      BY <2>2 DEF NumbersUnique
    <2> QED
      BY <2>1, <2>3 DEF FileInv
  <1>2. FileInv /\ SpoolInv' /\ [Next]_vars => FileInv'
    <2> SUFFICES ASSUME FileInv, SpoolInv', [Next]_vars PROVE FileInv'
      OBVIOUS
    <2>1. CASE UNCHANGED vars
      <3> USE DEF vars, spool, files, queue, config, main, thread, outside
      <3>1. DataNamed' /\ PrintedNamed'
        BY <2>1, FileFrame DEF FileInv, SpoolInv
      <3>2. NumbersUnique'
        BY <2>1, UniqueFrame DEF FileInv
      <3> QED
        BY <3>1, <3>2 DEF FileInv
    <2> QED
      BY <2>1, MainFile, WorkerFile, PrinterFile DEF Next
  <1>3. FileInv => PrintsOwnFile
    BY DEF FileInv, SpoolInv, TypeOK, PrintedNamed, NumbersUnique, PrintsOwnFile
  <1> QED
    BY <1>1, <1>2, <1>3, SpoolInvariant, PTL DEF Spec

-----------------------------------------------------------------------------
(* A job is in the daemon once                                             *)

Has(s, c)   == \E i \in 1..Len(s) : s[i].client = c
Distinct(s) == \A i, j \in 1..Len(s) : s[i].client = s[j].client => i = j
OnList(c)   == Has(jobs, c)

\* The list, the printer thread and the client threads hold different jobs,
\* and the scan has still to read the entries whose jobs nobody holds.
HeldOnce ==
    /\ Distinct(jobs)
    /\ \A c \in Clients :
          /\ jp.client = c => ~OnList(c)
          /\ wpc[c] \notin {"signal", "gone"} => ~OnList(c) /\ jp.client # c
          /\ phase # "serve" /\ jobid[c] \in unread => ~OnList(c) /\ jp.client # c
    /\ phase = "down" => jobs = <<>> /\ jp = NoJob /\ unread = {}

\* An accepted job is held by somebody, or will be when its entry is read.
AcceptedHeld ==
    phase # "down" /\ ~dying =>
        \A c \in acked :
            \/ Excused(c) \/ jobid[c] \in lost
            \/ OnList(c) \/ jp.client = c \/ wpc[c] = "addjob"
            \/ phase # "serve" /\ jobid[c] \in unread

QueueInv == SpoolInv /\ HeldOnce /\ AcceptedHeld

\* What the operations on the list do to the jobs that are on it.
LEMMA AppendHeld ==
    ASSUME NEW s \in Seq(Job), NEW x \in Job, NEW t, t = Append(s, x),
           Distinct(s), ~Has(s, x.client)
    PROVE  Distinct(t) /\ \A c : Has(t, c) <=> c = x.client \/ Has(s, c)
  <1>1. /\ Len(t) = Len(s) + 1 /\ Len(s) \in Nat
        /\ \A i \in 1..Len(s) : t[i] = s[i]
        /\ t[Len(s) + 1] = x
    OBVIOUS
  <1>2. \A i \in 1..Len(t) : i = Len(s) + 1 \/ i \in 1..Len(s)
    BY <1>1
  <1>3. Len(s) + 1 \in 1..Len(t) /\ \A i \in 1..Len(s) : i \in 1..Len(t)
    BY <1>1
  <1> QED
    BY <1>1, <1>2, <1>3 DEF Distinct, Has

LEMMA ConsHeld ==
    ASSUME NEW s \in Seq(Job), NEW x \in Job, NEW t, t = <<x>> \o s,
           Distinct(s), ~Has(s, x.client)
    PROVE  Distinct(t) /\ \A c : Has(t, c) <=> c = x.client \/ Has(s, c)
  <1>1. /\ Len(t) = Len(s) + 1 /\ Len(s) \in Nat /\ t[1] = x
        /\ \A i \in 1..Len(s) : i + 1 \in 1..Len(t) /\ t[i + 1] = s[i]
        /\ \A i \in 1..Len(t) : i = 1 \/ (i - 1 \in 1..Len(s) /\ t[i] = s[i - 1])
    OBVIOUS
  <1>2. 1 \in 1..Len(t)
    BY <1>1
  <1>3. ASSUME NEW i \in 1..Len(t), NEW j \in 1..Len(t), t[i].client = t[j].client
        PROVE  i = j
    <2>1. CASE i = 1 \/ j = 1
      BY <1>1, <1>3, <2>1 DEF Has
    <2>2. CASE i # 1 /\ j # 1
      <3>1. i - 1 = j - 1
        BY <1>1, <1>3, <2>2 DEF Distinct
      <3> QED
        BY <3>1
    <2> QED
      BY <2>1, <2>2
  <1> QED
    BY <1>1, <1>2, <1>3 DEF Distinct, Has

LEMMA TailHeld ==
    ASSUME NEW s \in Seq(Job), s # <<>>, NEW t, t = Tail(s), NEW x, x = Head(s),
           Distinct(s)
    PROVE  /\ Distinct(t) /\ ~Has(t, x.client)
           /\ \A c : Has(s, c) <=> c = x.client \/ Has(t, c)
  <1>1. /\ Len(s) = Len(t) + 1 /\ Len(t) \in Nat /\ s[1] = x /\ x \in Job
        /\ \A i \in 1..Len(t) : i + 1 \in 1..Len(s) /\ t[i] = s[i + 1]
        /\ \A i \in 1..Len(s) : i = 1 \/ (i - 1 \in 1..Len(t) /\ s[i] = t[i - 1])
    OBVIOUS
  <1>2. 1 \in 1..Len(s) /\ \A i \in 1..Len(t) : i + 1 # 1
    BY <1>1
  <1>3. ASSUME NEW i \in 1..Len(t), NEW j \in 1..Len(t), t[i].client = t[j].client
        PROVE  i = j
    <2>1. i + 1 = j + 1
      BY <1>1, <1>3 DEF Distinct
    <2> QED
      BY <2>1
  <1>4. \A i \in 1..Len(t) : t[i].client # x.client
    BY <1>1, <1>2 DEF Distinct
  <1> QED
    BY <1>1, <1>2, <1>3, <1>4 DEF Distinct, Has

\* A step that moves no job and lets no client thread give one up.
LEMMA HeldFrame ==
    ASSUME TypeOK, NumbersGiven, HeldOnce, AcceptedHeld,
           UNCHANGED <<jobs, jp, jobid, acked, lost, dropped, unread>>,
           printed \subseteq printed',
           phase' = phase, dying => dying',
           \A c \in Clients : \/ wpc'[c] = wpc[c]
                              \/ /\ wpc'[c] \notin {"new", "signal"}
                                 /\ wpc[c] \notin {"signal", "gone"}
                                 /\ wpc[c] = "addjob" => dying
                              \/ wpc[c] = "signal" /\ wpc'[c] = "gone"
    PROVE  HeldOnce' /\ AcceptedHeld'
  <1>1. \A c \in Clients : Excused(c) => Excused(c)'
    BY DEF Excused, IsPrinted, Shared
  <1>2. \A c : OnList(c)' <=> OnList(c)
    BY DEF OnList
  <1>3. HeldOnce'
    BY <1>2 DEF HeldOnce
  <1>4. AcceptedHeld'
    BY <1>1, <1>2 DEF AcceptedHeld, TypeOK, NumbersGiven
  <1> QED
    BY <1>3, <1>4

\* The process ends: nothing is held.
LEMMA EndQueue == QueueInv /\ ends < MaxEnds /\ End => QueueInv'
  <1> SUFFICES ASSUME QueueInv, ends < MaxEnds, End PROVE QueueInv'
    OBVIOUS
  <1>1. SpoolInv'
    BY EndSpool DEF QueueInv
  <1>2. HeldOnce'
    <2>1. jobs' = <<>> /\ jp' = NoJob /\ unread' = {} /\ NoJob.client \notin Clients
      BY JobParts DEF End
    <2>2. \A c : ~OnList(c)'
      BY <2>1 DEF OnList, Has
    <2> QED
      BY <2>1, <2>2 DEF HeldOnce, Distinct
  <1>3. AcceptedHeld'
    BY DEF AcceptedHeld, End
  <1> QED
    BY <1>1, <1>2, <1>3 DEF QueueInv

LEMMA MainQueue ==
    ASSUME QueueInv, Start \/ Scan \/ SigHup \/ SigTerm \/ Stop
    PROVE  QueueInv'
  <1> USE DEF spool, files, queue, config, main, thread, outside
  <1>0. /\ SpoolInv' /\ TypeOK /\ NumbersGiven /\ RequestsNamed /\ JobsNamed
        /\ SpoolKeepsAccepted /\ HeldOnce /\ AcceptedHeld
        /\ \A c \in acked : c \in Clients /\ jobid[c] \in Numbers
    BY MainSpool DEF QueueInv, SpoolInv, TypeOK, NumbersGiven
  <1>00. ASSUME UNCHANGED <<jobid, printed>>, dropped \subseteq dropped'
         PROVE  \A c \in Clients : Excused(c) => Excused(c)'
    BY <1>00 DEF Excused, IsPrinted, Shared
  <1>1. CASE Start
    <2>1. /\ jobs' = <<>> /\ jp' = NoJob /\ NoJob.client \notin Clients
          /\ UNCHANGED <<jobid, printed, acked, lost, dropped>> /\ phase' = "scan"
          /\ unread' = {n \in Numbers : reqs[n] # None}
      BY <1>0, <1>1, JobParts DEF Start, HeldOnce
    <2>2. \A c : ~OnList(c)'
      BY <2>1 DEF OnList, Has
    <2>3. HeldOnce'
      BY <2>1, <2>2 DEF HeldOnce, Distinct
    <2>4. AcceptedHeld'
      <3>1. \A c \in acked : Excused(c) \/ jobid[c] \in unread'
        BY <1>0, <2>1, PrintdAssumption DEF SpoolKeepsAccepted, Excused
      <3> QED
        BY <1>0, <1>00, <2>1, <3>1 DEF AcceptedHeld
    <2> QED
      BY <1>0, <2>3, <2>4 DEF QueueInv
  <1>2. CASE SigHup \/ SigTerm
    <2>1. HeldOnce' /\ AcceptedHeld'
      BY <1>0, <1>2, HeldFrame DEF SigHup, SigTerm
    <2> QED
      BY <1>0, <2>1 DEF QueueInv
  <1>3. CASE ScanSignal \/ ScanDone
    <2>1. /\ UNCHANGED <<jobs, jp, jobid, printed, acked, lost, dropped, unread,
                         wpc, dying>>
          /\ phase \in {"scan", "scansignal"}
          /\ phase' = "scan" \/ (phase' = "serve" /\ unread = {})
      BY <1>3 DEF ScanSignal, ScanDone
    <2>2. \A c : OnList(c)' <=> OnList(c)
      BY <2>1 DEF OnList
    <2>3. HeldOnce'
      BY <1>0, <2>1, <2>2 DEF HeldOnce
    <2>4. AcceptedHeld'
      BY <1>0, <1>00, <2>1, <2>2 DEF AcceptedHeld
    <2> QED
      BY <1>0, <2>3, <2>4 DEF QueueInv
  <1>4. ASSUME NEW n \in Numbers, ScanSkips(n) PROVE QueueInv'
    <2>1. /\ UNCHANGED <<jobs, jp, jobid, printed, acked, dropped, wpc, dying,
                         phase>>
          /\ phase = "scan" /\ unread' = unread \ {n} /\ lost' = lost \cup {n}
      BY <1>4 DEF ScanSkips
    <2>2. \A c : OnList(c)' <=> OnList(c)
      BY <2>1 DEF OnList
    <2>3. HeldOnce'
      BY <1>0, <2>1, <2>2 DEF HeldOnce
    <2>4. AcceptedHeld'
      BY <1>0, <1>00, <2>1, <2>2 DEF AcceptedHeld
    <2> QED
      BY <1>0, <2>3, <2>4 DEF QueueInv
  <1>5. ASSUME NEW n \in Numbers, ScanEntry(n) PROVE QueueInv'
    <2>1. /\ UNCHANGED <<jp, jobid, printed, acked, wpc, dying, lost>>
          /\ phase = "scan" /\ unread' = unread \ {n} /\ n \in unread
          /\ phase' \in {"scan", "scansignal"}
      BY <1>5 DEF ScanEntry
    <2>2. ASSUME NEW d \in acked, jobid[d] = n PROVE Excused(d) \/ reqs[n] = d
      BY <1>0, <2>2 DEF SpoolKeepsAccepted, Excused
    <2>3. CASE jobs' = jobs /\ dropped' = dropped \cup ({reqs[n]} \cap acked)
      <3>2. \A c : OnList(c)' <=> OnList(c)
        BY <2>3 DEF OnList
      <3>3. HeldOnce'
        BY <1>0, <2>1, <2>3, <3>2 DEF HeldOnce
      <3>4. \A d \in Clients : Excused(d) => Excused(d)'
        BY <1>00, <2>1, <2>3
      <3>5. \A d \in acked : jobid[d] = n => Excused(d)'
        BY <1>0, <2>2, <2>3, <3>4 DEF Excused
      <3>6. AcceptedHeld'
        BY <1>0, <2>1, <3>2, <3>4, <3>5 DEF AcceptedHeld
      <3> QED
        BY <1>0, <3>3, <3>6 DEF QueueInv
    <2>4. CASE reqs[n] \in Clients /\ Append_job(n, reqs[n]) /\ dropped' = dropped
      <3> DEFINE x == [id |-> n, client |-> reqs[n]]
      <3>1. jobs' = Append(jobs, x)
        BY <2>4 DEF Append_job
      <3>2. x \in Job /\ x.client = reqs[n] /\ jobs \in Seq(Job)
        BY <1>0, <2>4, JobType DEF TypeOK
      <3>3. jobid[reqs[n]] = n /\ wpc[reqs[n]] = "gone"
        <4>1. jobid[reqs[n]] = n /\ n # None
          BY <1>0, <2>4, NoneIsNoNumber DEF RequestsNamed
        <4> QED
          BY <1>0, <2>1, <2>4, <4>1 DEF NumbersGiven
      <3>4. ~OnList(reqs[n]) /\ jp.client # reqs[n]
        BY <1>0, <2>1, <2>4, <3>3 DEF HeldOnce
      <3> HIDE DEF x
      <3>5. Distinct(jobs') /\ \A c : OnList(c)' <=> c = reqs[n] \/ OnList(c)
        BY <1>0, <3>1, <3>2, <3>4, AppendHeld DEF OnList, HeldOnce
      <3>6. HeldOnce'
        BY <1>0, <2>1, <3>3, <3>4, <3>5 DEF HeldOnce
      <3>7. AcceptedHeld'
        BY <1>0, <1>00, <2>1, <2>2, <2>4, <3>5 DEF AcceptedHeld
      <3> QED
        BY <1>0, <3>6, <3>7 DEF QueueInv
    <2> QED
      BY <1>5, <2>3, <2>4 DEF ScanEntry
  <1>6. CASE Stop
    BY <1>6, EndQueue DEF Stop
  <1> QED
    BY <1>1, <1>2, <1>3, <1>4, <1>5, <1>6 DEF Scan

LEMMA WorkerQueue ==
    ASSUME QueueInv, NEW c \in Clients, Connect(c) \/ Worker(c) \/ Cancelled(c)
    PROVE  QueueInv'
  <1> USE DEF spool, files, queue, config, main, thread, outside, Step
  <1>0. /\ SpoolInv' /\ TypeOK /\ NumbersGiven /\ HeldOnce /\ AcceptedHeld
        /\ wpc \in [Clients -> WPC] /\ jobid \in [Clients -> Numbers \cup {None}]
        /\ acked \subseteq Clients
    BY WorkerSpool DEF QueueInv, SpoolInv, TypeOK
  <1>1. CASE Connect(c) \/ HeaderFails(c) \/ Cancelled(c)
    <2>1. HeldOnce' /\ AcceptedHeld'
      BY <1>0, <1>1, HeldFrame DEF Connect, HeaderFails, Cancelled
    <2> QED
      BY <1>0, <2>1 DEF QueueInv
  <1>2. CASE CreatData(c) \/ Receive(c) \/ CreatReq(c) \/ WriteReq(c)
    <2>1. HeldOnce' /\ AcceptedHeld'
      BY <1>0, <1>2, HeldFrame DEF CreatData, Receive, CreatReq, WriteReq
    <2> QED
      BY <1>0, <2>1 DEF QueueInv
  <1>3. CASE GetNewjobno(c)
    <2>1. /\ UNCHANGED <<jobs, jp, printed, acked, lost, dropped, unread, phase,
                         dying>>
          /\ jobid[c] = None /\ phase = "serve" /\ c \notin acked
          /\ wpc[c] = "number" /\ wpc' = [wpc EXCEPT ![c] = "creat"]
          /\ \A d \in Clients : d # c => jobid'[d] = jobid[d]
      BY <1>0, <1>3 DEF GetNewjobno, NumbersGiven
    <2>2. \A d : OnList(d)' <=> OnList(d)
      BY <2>1 DEF OnList
    <2>3. HeldOnce'
      BY <1>0, <2>1, <2>2 DEF HeldOnce
    <2>4. \A d \in acked : Excused(d) => Excused(d)'
      <3>1. \A d \in acked : d # c /\ jobid[d] \in Numbers /\ None \notin Numbers
        BY <1>0, <2>1, NoneIsNoNumber DEF NumbersGiven
      <3> QED
        BY <1>0, <2>1, <3>1 DEF Excused, IsPrinted, Shared
    <2>5. AcceptedHeld'
      BY <1>0, <2>1, <2>2, <2>4 DEF AcceptedHeld
    <2> QED
      BY <1>0, <2>3, <2>5 DEF QueueInv
  <1>4. CASE Answer(c)
    <2>1. /\ UNCHANGED <<jobs, jp, printed, jobid, lost, dropped, unread, phase,
                         dying>>
          /\ acked' \subseteq acked \cup {c}
          /\ wpc[c] = "answer" /\ wpc' = [wpc EXCEPT ![c] = "addjob"]
      BY <1>4 DEF Answer
    <2>2. \A d : OnList(d)' <=> OnList(d)
      BY <2>1 DEF OnList
    <2>3. HeldOnce'
      BY <1>0, <2>1, <2>2 DEF HeldOnce
    <2>4. \A d \in Clients : Excused(d) => Excused(d)'
      BY <2>1 DEF Excused, IsPrinted, Shared
    <2>5. AcceptedHeld'
      BY <1>0, <2>1, <2>2, <2>4 DEF AcceptedHeld
    <2> QED
      BY <1>0, <2>3, <2>5 DEF QueueInv
  <1>5. CASE AddJob(c) /\ wpc[c] = "signal"
    <2>1. HeldOnce' /\ AcceptedHeld'
      BY <1>0, <1>5, HeldFrame DEF AddJob
    <2> QED
      BY <1>0, <2>1 DEF QueueInv
  <1>6. CASE AddJob(c) /\ wpc[c] = "addjob"
    <2> DEFINE x == [id |-> jobid[c], client |-> c]
    <2>1. /\ UNCHANGED <<jp, printed, jobid, acked, lost, dropped, unread, phase,
                         dying>>
          /\ wpc' = [wpc EXCEPT ![c] = "signal"] /\ jobs' = Append(jobs, x)
      BY <1>6 DEF AddJob, Append_job
    <2>2. x \in Job /\ x.client = c /\ jobs \in Seq(Job) /\ phase = "serve"
      BY <1>0, <1>6, JobType DEF TypeOK, NumbersGiven
    <2>3. ~OnList(c) /\ jp.client # c
      BY <1>0, <1>6 DEF HeldOnce
    <2> HIDE DEF x
    <2>4. Distinct(jobs') /\ \A d : OnList(d)' <=> d = c \/ OnList(d)
      BY <1>0, <2>1, <2>2, <2>3, AppendHeld DEF OnList, HeldOnce
    <2>5. HeldOnce'
      BY <1>0, <2>1, <2>2, <2>3, <2>4 DEF HeldOnce
    <2>6. \A d \in Clients : Excused(d) => Excused(d)'
      BY <2>1 DEF Excused, IsPrinted, Shared
    <2>7. AcceptedHeld'
      BY <1>0, <2>1, <2>4, <2>6 DEF AcceptedHeld
    <2> QED
      BY <1>0, <2>5, <2>7 DEF QueueInv
  <1> QED
    BY <1>1, <1>2, <1>3, <1>4, <1>5, <1>6 DEF Worker, AddJob

LEMMA PrinterQueue ==
    ASSUME QueueInv, Printer \/ SpuriousWakeup
    PROVE  QueueInv'
  <1> USE DEF spool, files, queue, config, main, thread, outside
  <1>0. /\ SpoolInv' /\ TypeOK /\ NumbersGiven /\ HeldOnce /\ AcceptedHeld
        /\ OnlyPrintedRemoved /\ JobsNamed /\ acked \subseteq Clients
        /\ jobs \in Seq(Job) /\ NoJob.client \notin Clients
        /\ (ppc \notin {"get", "asleep"} => jp \in Job)
        /\ jp \in Job => jp.client \in Clients
        /\ Distinct(jobs)
    BY PrinterSpool, JobParts DEF QueueInv, SpoolInv, TypeOK, HeldOnce
  <1>00. ASSUME UNCHANGED <<jobid, printed>>, dropped \subseteq dropped'
         PROVE  \A c \in Clients : Excused(c) => Excused(c)'
    BY <1>00 DEF Excused, IsPrinted, Shared
  <1>1. CASE UpdateJobno \/ CheckConfig \/ SpuriousWakeup \/ SendOk \/ SendFails
               \/ UnlinkData
    <2>1. /\ UNCHANGED <<jobs, jp, jobid, acked, lost, dropped, unread, phase, dying,
                         wpc>>
          /\ printed \subseteq printed'
      BY <1>1 DEF UpdateJobno, CheckConfig, SpuriousWakeup, SendOk, SendFails,
                  UnlinkData
    <2>2. HeldOnce' /\ AcceptedHeld'
      BY <1>0, <2>1, HeldFrame
    <2> QED
      BY <1>0, <2>2 DEF QueueInv
  <1>2. CASE InitPrinter
    <2>1. CASE ends < MaxEnds /\ End
      BY <2>1, EndQueue
    <2>2. CASE ~(ends < MaxEnds /\ End)
      <3>1. HeldOnce' /\ AcceptedHeld'
        BY <1>0, <1>2, <2>2, HeldFrame DEF InitPrinter
      <3> QED
        BY <1>0, <3>1 DEF QueueInv
    <2> QED
      BY <2>1, <2>2
  <1>3. CASE GetJob
    <2>1. /\ UNCHANGED <<jobid, acked, lost, dropped, unread, phase, dying, wpc,
                         printed>>
          /\ phase # "down"
      BY <1>3 DEF GetJob
    <2>2. CASE jobs = <<>>
      <3>1. HeldOnce' /\ AcceptedHeld'
        BY <1>0, <1>3, <2>1, <2>2, HeldFrame DEF GetJob
      <3> QED
        BY <1>0, <3>1 DEF QueueInv
    <2>3. CASE jobs # <<>>
      <3>1. jp' = Head(jobs) /\ jobs' = Tail(jobs)
        BY <1>3, <2>3 DEF GetJob
      <3>2. /\ Distinct(jobs') /\ ~Has(jobs', jp'.client)
            /\ \A c : Has(jobs, c) <=> c = jp'.client \/ Has(jobs', c)
        BY <1>0, <2>3, <3>1, TailHeld
      <3>3. /\ \A c : OnList(c)' => c # jp'.client
            /\ \A c : OnList(c) <=> c = jp'.client \/ OnList(c)'
        BY <3>2 DEF OnList
      <3>4. HeldOnce'
        BY <1>0, <2>1, <3>2, <3>3 DEF HeldOnce
      <3>5. jp.client \notin Clients
        BY <1>0, <1>3 DEF GetJob, TypeOK
      <3>6. AcceptedHeld'
        BY <1>0, <1>00, <2>1, <3>3, <3>5 DEF AcceptedHeld
      <3> QED
        BY <1>0, <3>4, <3>6 DEF QueueInv
    <2> QED
      BY <2>2, <2>3
  <1>4. CASE OpenData \/ UnlinkReq
    <2>1. /\ UNCHANGED <<jobs, jobid, acked, unread, phase, dying, wpc, printed,
                         dropped>>
          /\ \/ UNCHANGED <<jp, lost>>
             \/ /\ jp' = NoJob /\ jp \in Job /\ lost \subseteq lost'
                /\ jp.id \in lost' \/ IsPrinted(jp.client)
      BY <1>0, <1>4 DEF OpenData, UnlinkReq, OnlyPrintedRemoved
    <2>2. \A c : OnList(c)' <=> OnList(c)
      BY <2>1 DEF OnList
    <2>3. HeldOnce'
      BY <1>0, <2>1, <2>2 DEF HeldOnce
    <2>4. jp' # jp => \A c \in acked : jp.client = c
                        => Excused(c) \/ jobid[c] \in lost'
      BY <1>0, <2>1 DEF JobsNamed, Named, Excused
    <2>5. AcceptedHeld'
      BY <1>0, <1>00, <2>1, <2>2, <2>4 DEF AcceptedHeld
    <2> QED
      BY <1>0, <2>3, <2>5 DEF QueueInv
  <1>5. CASE ReplaceJob
    <2>1. /\ UNCHANGED <<jobid, acked, unread, phase, dying, wpc, printed, lost,
                         dropped>>
          /\ jobs' = <<jp>> \o jobs /\ jp' = NoJob /\ jp \in Job
          /\ phase # "down"
      BY <1>0, <1>5, JobParts DEF ReplaceJob, HeldOnce
    <2>2. ~Has(jobs, jp.client)
      BY <1>0, <2>1 DEF HeldOnce, OnList
    <2>3. Distinct(jobs') /\ \A c : OnList(c)' <=> c = jp.client \/ OnList(c)
      BY <1>0, <2>1, <2>2, ConsHeld DEF OnList
    <2>4. HeldOnce'
      BY <1>0, <2>1, <2>3 DEF HeldOnce
    <2>5. AcceptedHeld'
      BY <1>0, <1>00, <2>1, <2>3 DEF AcceptedHeld
    <2> QED
      BY <1>0, <2>4, <2>5 DEF QueueInv
  <1> QED
    BY <1>1, <1>2, <1>3, <1>4, <1>5 DEF Printer

\* The places of a job, if each of the threads and the list may hold it.
LEMMA PlacesCount ==
    ASSUME SpoolInv, HeldOnce, NEW c \in Clients
    PROVE  /\ Cardinality(Places(c)) <= 1
           /\ OnList(c) \/ jp.client = c \/ wpc[c] = "addjob"
                => Cardinality(Places(c)) = 1
  <1> DEFINE L == {<<"list", i>> : i \in {j \in 1..Len(jobs) : jobs[j].client = c}}
             P == {<<"printer", 0>> : x \in {jp} \cap {y \in {jp} : y.client = c}}
             W == {<<"worker", 0>> : x \in {wpc[c]} \cap {"addjob"}}
  <1>0. Places(c) = L \cup P \cup W
    BY DEF Places
  <1>1. /\ ~OnList(c) => L = {}
        /\ jp.client # c => P = {}
        /\ wpc[c] # "addjob" => W = {}
    BY DEF OnList, Has
  <1>2. /\ jp.client = c => P = {<<"printer", 0>>}
        /\ wpc[c] = "addjob" => W = {<<"worker", 0>>}
    OBVIOUS
  <1>3. OnList(c) => \E i : L = {<<"list", i>>}
    <2>1. SUFFICES ASSUME OnList(c) PROVE \E i : L = {<<"list", i>>}
      OBVIOUS
    <2>2. PICK i \in 1..Len(jobs) : jobs[i].client = c
      BY <2>1 DEF OnList, Has
    <2>3. \A j \in 1..Len(jobs) : jobs[j].client = c <=> j = i
      BY <2>2 DEF HeldOnce, Distinct
    <2>4. L = {<<"list", i>>}
      BY <2>3
    <2> QED
      BY <2>4
  <1>4. /\ OnList(c) => jp.client # c /\ wpc[c] # "addjob"
        /\ jp.client = c => wpc[c] # "addjob"
    BY DEF HeldOnce
  <1> HIDE DEF L, P, W
  <1>5. CASE ~OnList(c) /\ jp.client # c /\ wpc[c] # "addjob"
    <2>1. Places(c) = {}
      BY <1>0, <1>1, <1>5
    <2> QED
      BY <1>5, <2>1, FS_EmptySet
  <1>6. CASE OnList(c) \/ jp.client = c \/ wpc[c] = "addjob"
    <2>1. \E x : Places(c) = {x}
      <3>1. CASE OnList(c)
        BY <1>0, <1>1, <1>3, <1>4, <3>1
      <3>2. CASE jp.client = c /\ ~OnList(c)
        BY <1>0, <1>1, <1>2, <1>4, <3>2
      <3>3. CASE wpc[c] = "addjob" /\ ~OnList(c) /\ jp.client # c
        BY <1>0, <1>1, <1>2, <3>3
      <3> QED
        BY <1>6, <3>1, <3>2, <3>3
    <2>2. Cardinality(Places(c)) = 1
      BY <2>1, FS_Singleton
    <2> QED
      BY <2>2
  <1> QED
    BY <1>5, <1>6

\* No job is ever twice in the daemon; one that was accepted is held by the
\* list or by one of the threads until it is printed, unless a file cannot be
\* opened, the request cannot be read at a start, or another client is given
\* the same number.
THEOREM JobsHeldOnce == Spec => []QueuedExactlyOnce
  <1>1. Init /\ SpoolInv => QueueInv
    <2> SUFFICES ASSUME Init, SpoolInv PROVE QueueInv
      OBVIOUS
    <2>1. jobs = <<>> /\ jp = NoJob /\ unread = {} /\ NoJob.client \notin Clients
      BY JobParts DEF Init
    <2>2. \A c : ~OnList(c)
      BY <2>1 DEF OnList, Has
    <2>3. HeldOnce
      BY <2>1, <2>2 DEF HeldOnce, Distinct
    <2>4. AcceptedHeld
      BY DEF Init, AcceptedHeld
    <2> QED
      BY <2>3, <2>4 DEF QueueInv
  <1>2. QueueInv /\ SpoolInv' /\ [Next]_vars => QueueInv'
    <2> SUFFICES ASSUME QueueInv, SpoolInv', [Next]_vars PROVE QueueInv'
      OBVIOUS
    <2>1. CASE UNCHANGED vars
      <3> USE DEF vars, spool, files, queue, config, main, thread, outside
      <3>1. HeldOnce' /\ AcceptedHeld'
        BY <2>1, HeldFrame DEF QueueInv, SpoolInv
      <3> QED
        BY <3>1 DEF QueueInv
    <2> QED
      BY <2>1, MainQueue, WorkerQueue, PrinterQueue DEF Next
  <1>3. QueueInv => QueuedExactlyOnce
    <2> SUFFICES ASSUME QueueInv PROVE QueuedExactlyOnce
      OBVIOUS
    <2>1. SUFFICES ASSUME NEW c \in Clients, phase = "serve", ~dying, c \in acked,
                          ~IsPrinted(c), ~Shared(c), jobid[c] \notin lost,
                          c \notin dropped
          PROVE Cardinality(Places(c)) = 1
      BY PlacesCount DEF QueueInv, QueuedExactlyOnce
    <2>2. OnList(c) \/ jp.client = c \/ wpc[c] = "addjob"
      BY <2>1 DEF QueueInv, AcceptedHeld, Excused
    <2> QED
      BY <2>2, PlacesCount DEF QueueInv
  <1> QED
    BY <1>1, <1>2, <1>3, SpoolInvariant, PTL DEF Spec
=============================================================================
