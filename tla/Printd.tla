------------------------------- MODULE Printd -------------------------------
(***************************************************************************)
(* The print spooler daemon apue/printer/printd.c: a thread per client     *)
(* that stores its file and its request in the spool directory and puts a  *)
(* job on a list, the thread that sends the jobs to the printer, the       *)
(* thread that takes the signals, and the scan of the spool directory when *)
(* the daemon starts again.  The daemon may end between any two steps, by  *)
(* SIGTERM, by an exit() of its own or by a crash; the files stay.         *)
(*                                                                         *)
(* A client submits one file.  A file is named by the job number and its   *)
(* contents are the client they come from; formats, sizes and messages are *)
(* left out.  The list of client threads is in PrintdWorkers.              *)
(* The Bug operators are operators of the module with a plausible mistake, *)
(* on which its properties are tried.                                      *)
(***************************************************************************)
EXTENDS Integers, Sequences, FiniteSets

CONSTANTS Clients,
          None,         \* no file, no client, no number
          Short,        \* a request file that is not completely written
          MaxJob,       \* the largest job number, INT32_MAX
          Mixed,        \* a job file with digits of two numbers
          MaxEnds       \* bound: how often the daemon may end

ASSUME PrintdAssumption ==
    /\ None \notin Clients /\ Short \notin Clients /\ None # Short
    /\ MaxJob \in Nat \ {0} /\ MaxEnds \in Nat
    /\ {None, Mixed} \cap (-MaxJob - 1)..MaxJob = {} /\ None # Mixed

VARIABLES
    \* Files, which survive the daemon.
    data,      \* DATADIR: the client whose bytes file n holds, or None
    reqs,      \* REQDIR: the client whose request file n holds, Short or None
    jobfile,   \* JOBFILE: the number written there, Mixed, or None if empty
    \* The daemon's variables.
    phase,     \* of main: "down", "scan", "scansignal" or "serve"
    unread,    \* the directory entries build_qonstart has still to read
    nextjob,
    jobs,      \* the list from jobhead to jobtail
    reread,
    stale,     \* printer is not the one the configuration file names
    dying,     \* SIGTERM has come: kill_workers was called
    ppc, jp,   \* the printer thread: where it is, and its job
    fd,        \* the contents of the data file it sends, once that has no name
    wpc,       \* where the thread of each client is
    \* What is seen from outside.
    jobid,     \* the number given to each client, None before
    life,      \* the run of the daemon that gave it
    acked,     \* the clients whose answer, that the job is accepted, was sent
    printed,   \* <<c, d>>: the request of c was printed with the file of d
    lost,      \* the numbers this run of the daemon gave up without a retry
    dropped,   \* the clients whose request could not be read at a start
    ends       \* how often the daemon ended

spool   == <<data, fd>>
files   == <<spool, reqs, jobfile>>
queue   == <<nextjob, jobs>>
config  == <<reread, stale>>
main    == <<phase, unread, dying, ends>>
thread  == <<ppc, jp>>
outside == <<jobid, life, acked, printed, lost, dropped>>
vars == <<files, queue, config, main, thread, wpc, outside>>

Numbers == (-MaxJob - 1)..MaxJob   \* what an int32_t can hold
Job     == [id : Numbers, client : Clients]
NoJob   == [id |-> None, client |-> None]
PPC     == {"get", "asleep", "update", "config", "reload", "open", "send",
            "unlinkdata", "unlinkreq", "replace"}
WPC     == {"new", "number", "creat", "receive", "creatreq", "writereq",
            "answer", "addjob", "signal", "gone"}

\* The spool is empty; the job file is new or has come to its largest number.
Init ==
    /\ data = [n \in Numbers |-> None] /\ reqs = [n \in Numbers |-> None]
    /\ jobfile \in {None, MaxJob}
    /\ reread = FALSE /\ stale = FALSE
    /\ phase = "down" /\ unread = {} /\ dying = FALSE /\ ends = 0
    /\ nextjob = 1 /\ jobs = <<>>
    /\ ppc = "get" /\ jp = NoJob /\ fd = None
    /\ wpc = [c \in Clients |-> "new"]
    /\ jobid = [c \in Clients |-> None] /\ life = [c \in Clients |-> 0]
    /\ acked = {} /\ printed = {} /\ lost = {} /\ dropped = {}

\* unlink() of a data file.  A file that the printer thread has open keeps its
\* contents, but a file created with its name is another one.
UnlinkFile(n) ==
    /\ data' = [data EXCEPT ![n] = None]
    /\ fd' = IF ppc = "send" /\ jp.id = n /\ fd = None THEN data[n] ELSE fd

-----------------------------------------------------------------------------
(* main, signal_thread and the end of the process                          *)

\* init_request, init_printer, the creation of the threads, and opendir().  What
\* atol() makes of the digits of two numbers may be beyond 32 bits: stored in
\* nextjob it is any number, a negative one too.
Start ==
    /\ phase = "down"
    /\ nextjob' \in CASE jobfile = None  -> {1}
                      [] jobfile = Mixed -> Numbers
                      [] OTHER           -> {jobfile}
    /\ stale' = FALSE
    /\ phase' = "scan"
    /\ unread' = {n \in Numbers : reqs[n] # None}
    /\ UNCHANGED <<files, jobs, reread, dying, ends, thread, wpc, outside>>

Append_job(n, c) == jobs' = Append(jobs, [id |-> n, client |-> c])

\* pthread_cond_signal(&jobwait): only the printer thread waits there.
Signal == ppc' = IF ppc = "asleep" THEN "get" ELSE ppc

Bug_ScanRemovesRead(n) ==
    /\ phase = "scan" /\ n \in unread
    /\ unread' = unread \ {n}
    /\ UnlinkFile(n) /\ reqs' = [reqs EXCEPT ![n] = None]
    /\ UNCHANGED <<jobfile, phase, dying, ends, queue, config, thread, wpc,
                   outside>>

\* One round of the loop of build_qonstart: a complete request is put on the
\* list; one that is not complete is removed with its data, and so is any
\* request on which read() fails.
ScanEntry(n) ==
    /\ phase = "scan" /\ n \in unread
    /\ unread' = unread \ {n}
    /\ \/ /\ reqs[n] \in Clients
          /\ Append_job(n, reqs[n])
          /\ phase' = "scansignal"
          /\ UNCHANGED <<spool, reqs, dropped>>
       \/ /\ UnlinkFile(n)
          /\ reqs' = [reqs EXCEPT ![n] = None]
          /\ dropped' = dropped \cup ({reqs[n]} \cap acked)
          /\ UNCHANGED <<jobs, phase>>
    /\ UNCHANGED <<jobfile, nextjob, dying, ends, config, thread, wpc, jobid,
                   life, acked, printed, lost>>

\* The request cannot be opened: it is left for the next start.  (When
\* opendir() fails this happens to all of them.)
ScanSkips(n) ==
    /\ phase = "scan" /\ n \in unread
    /\ unread' = unread \ {n}
    /\ lost' = lost \cup {n}
    /\ UNCHANGED <<files, queue, config, phase, dying, ends, thread, wpc, jobid,
                   life, acked, printed, dropped>>

ScanSignal ==
    /\ phase = "scansignal"
    /\ Signal
    /\ phase' = "scan"
    /\ UNCHANGED <<files, queue, config, unread, dying, ends, jp, wpc, outside>>

ScanDone ==
    /\ phase = "scan" /\ unread = {}
    /\ phase' = "serve"
    /\ UNCHANGED <<files, queue, config, unread, dying, ends, thread, wpc,
                   outside>>

\* The administrator changes the configuration and sends SIGHUP.
SigHup ==
    /\ phase # "down"
    /\ stale' = TRUE /\ reread' = TRUE
    /\ UNCHANGED <<files, queue, main, thread, wpc, outside>>

\* SIGTERM: kill_workers cancels the client threads on the list.
SigTerm ==
    /\ phase # "down" /\ ~dying /\ ends < MaxEnds
    /\ dying' = TRUE
    /\ UNCHANGED <<files, queue, config, phase, unread, ends, thread, wpc,
                   outside>>

\* A cancelled client thread ends at its next cancellation point; between the
\* unlock and the signal in add_job there is none.
Cancelled(c) ==
    /\ dying /\ wpc[c] \notin {"new", "gone", "signal"}
    /\ wpc' = [wpc EXCEPT ![c] = "gone"]
    /\ UNCHANGED <<files, queue, config, main, thread, outside>>

\* The process ends: all threads and all variables are gone.
End ==
    /\ phase' = "down" /\ unread' = {} /\ dying' = FALSE /\ ends' = ends + 1
    /\ nextjob' = 1 /\ jobs' = <<>>
    /\ reread' = FALSE /\ stale' = FALSE
    /\ ppc' = "get" /\ jp' = NoJob /\ fd' = None
    /\ wpc' = [c \in Clients |-> IF wpc[c] = "new" THEN "new" ELSE "gone"]
    /\ lost' = {}
    /\ UNCHANGED <<data, reqs, jobfile, jobid, life, acked, printed, dropped>>

\* exit(0) of signal_thread, or a crash.
Stop == phase # "down" /\ ends < MaxEnds /\ End

-----------------------------------------------------------------------------
(* client_thread                                                           *)

Step(c, from, to) ==
    /\ wpc[c] = from
    /\ wpc' = [wpc EXCEPT ![c] = to]

\* accept() and add_worker.
Connect(c) ==
    /\ phase = "serve"
    /\ Step(c, "new", "number")
    /\ UNCHANGED <<files, queue, config, main, thread, outside>>

\* The header does not arrive within 10 seconds.
HeaderFails(c) ==
    /\ Step(c, "number", "gone")
    /\ UNCHANGED <<files, queue, config, main, thread, outside>>

\* nextjob++ and the test after it: the sum wraps around at INT32_MAX, and
\* what is not positive becomes 1.
NextNumber == IF nextjob \in 1 .. (MaxJob - 1) THEN nextjob + 1 ELSE 1

Bug_GetNewjobnoReadsTwice(c) ==
    /\ wpc[c] = "number"
    /\ \E n \in {nextjob} \cup {jobid[d] : d \in {e \in Clients :
                                                 wpc[e] = "creat"}} :
          jobid' = [jobid EXCEPT ![c] = n]
    /\ nextjob' = NextNumber
    /\ life' = [life EXCEPT ![c] = ends]
    /\ wpc' = [wpc EXCEPT ![c] = "creat"]
    /\ UNCHANGED <<files, jobs, config, main, thread, acked, printed, lost,
                   dropped>>

Bug_GetNewjobnoNoWrap(c) ==
    /\ Step(c, "number", "creat")
    /\ jobid' = [jobid EXCEPT ![c] = nextjob]
    /\ nextjob' = nextjob + 1
    /\ life' = [life EXCEPT ![c] = ends]
    /\ UNCHANGED <<files, jobs, config, main, thread, acked, printed, lost,
                   dropped>>

\* The header has arrived; get_newjobno.
GetNewjobno(c) ==
    /\ Step(c, "number", "creat")
    /\ jobid' = [jobid EXCEPT ![c] = nextjob]
    /\ nextjob' = NextNumber
    /\ life' = [life EXCEPT ![c] = ends]
    /\ UNCHANGED <<files, jobs, config, main, thread, acked, printed, lost,
                   dropped>>

\* creat() of the data file empties a file of that name.
CreatData(c) ==
    /\ \/ Step(c, "creat", "receive") /\ data' = [data EXCEPT ![jobid[c]] = c]
       \/ Step(c, "creat", "gone") /\ UNCHANGED data
    /\ UNCHANGED <<fd, reqs, jobfile, queue, config, main, thread, outside>>

\* The loop that stores the file; a read that fails or times out ends it as
\* the end of the file does, a write that fails removes the file.
Receive(c) ==
    /\ \/ Step(c, "receive", "creatreq") /\ UNCHANGED spool
       \/ Step(c, "receive", "gone") /\ UnlinkFile(jobid[c])
    /\ UNCHANGED <<reqs, jobfile, queue, config, main, thread, outside>>

CreatReq(c) ==
    /\ \/ /\ Step(c, "creatreq", "writereq")
          /\ reqs' = [reqs EXCEPT ![jobid[c]] = Short]
          /\ UNCHANGED spool
       \/ /\ Step(c, "creatreq", "gone")
          /\ UnlinkFile(jobid[c])
          /\ UNCHANGED reqs
    /\ UNCHANGED <<jobfile, queue, config, main, thread, outside>>

Bug_WriteReqUnchecked(c) ==
    /\ Step(c, "writereq", "answer")
    /\ \E r \in {c, Short} : reqs' = [reqs EXCEPT ![jobid[c]] = r]
    /\ UNCHANGED <<spool, jobfile, queue, config, main, thread, outside>>

WriteReq(c) ==
    /\ \/ /\ Step(c, "writereq", "answer")
          /\ reqs' = [reqs EXCEPT ![jobid[c]] = c]
          /\ UNCHANGED spool
       \/ /\ Step(c, "writereq", "gone")
          /\ reqs' = [reqs EXCEPT ![jobid[c]] = None]
          /\ UnlinkFile(jobid[c])
    /\ UNCHANGED <<jobfile, queue, config, main, thread, outside>>

\* The response is written.  Nobody asks whether it arrives: the job is the
\* same if the client is gone.
Answer(c) ==
    /\ Step(c, "answer", "addjob")
    /\ acked' = acked \cup {c}
    /\ UNCHANGED <<files, queue, config, main, thread, jobid, life, printed,
                   lost, dropped>>

Bug_AddJobSignalsFirst(c) ==
    /\ \/ wpc[c] = "addjob" /\ Signal /\ UNCHANGED jobs
          /\ wpc' = [wpc EXCEPT ![c] = "signal"]
       \/ wpc[c] = "signal" /\ Append_job(jobid[c], c) /\ UNCHANGED ppc
          /\ wpc' = [wpc EXCEPT ![c] = "gone"]
    /\ UNCHANGED <<files, nextjob, config, main, jp, outside>>

\* add_job: the job is put on the list with the lock held, the signal is sent
\* without it.
AddJob(c) ==
    /\ \/ /\ Step(c, "addjob", "signal")
          /\ Append_job(jobid[c], c) /\ UNCHANGED ppc
       \/ Step(c, "signal", "gone") /\ Signal /\ UNCHANGED jobs
    /\ UNCHANGED <<files, nextjob, config, main, jp, outside>>

-----------------------------------------------------------------------------
(* printer_thread                                                          *)

Bug_GetJobLeavesIt ==
    /\ ppc = "get"
    /\ IF jobs = <<>> THEN ppc' = "asleep" /\ UNCHANGED <<jobs, jp>>
       ELSE jp' = Head(jobs) /\ ppc' = "update" /\ UNCHANGED jobs
    /\ UNCHANGED <<files, nextjob, config, main, wpc, outside>>

\* The first job is taken off the list, or the thread sleeps on jobwait.
GetJob ==
    /\ ppc = "get" /\ phase # "down"
    /\ IF jobs = <<>> THEN ppc' = "asleep" /\ UNCHANGED <<jobs, jp>>
       ELSE jp' = Head(jobs) /\ jobs' = Tail(jobs) /\ ppc' = "update"
    /\ UNCHANGED <<files, nextjob, config, main, wpc, outside>>

\* pthread_cond_wait may return without a signal.
SpuriousWakeup ==
    /\ ppc = "asleep"
    /\ ppc' = "get"
    /\ UNCHANGED <<files, queue, config, main, jp, wpc, outside>>

\* update_jobno, the only place where the job number is saved.  The digits are
\* written over the old ones and the file is not cut: when the new number is
\* the smaller one, digits of both may be left in it.
UpdateJobno ==
    /\ ppc = "update"
    /\ jobfile' \in IF jobfile = None \/ jobfile \in 1..nextjob THEN {nextjob}
                                                         ELSE {nextjob, Mixed}
    /\ ppc' = "config"
    /\ UNCHANGED <<spool, reqs, queue, config, main, jp, wpc, outside>>

\* reread is looked at, and cleared, with configlock held; the configuration
\* is read after the lock is released.
CheckConfig ==
    /\ ppc = "config"
    /\ ppc' = IF reread THEN "reload" ELSE "open"
    /\ reread' = FALSE
    /\ UNCHANGED <<files, queue, stale, main, jp, wpc, outside>>

Bug_InitPrinterClearsReread ==
    /\ ppc = "reload"
    /\ \/ stale /\ ~reread /\ stale' = FALSE /\ UNCHANGED <<ppc, reread>>
       \/ (stale => reread) /\ reread' = FALSE /\ ppc' = "open"
          /\ UNCHANGED stale
    /\ UNCHANGED <<files, queue, main, jp, wpc, outside>>

\* init_printer, which exits when no printer is configured.
InitPrinter ==
    /\ ppc = "reload"
    /\ \/ /\ stale' = FALSE
          /\ ppc' = "open"
          /\ UNCHANGED <<files, queue, reread, main, jp, wpc, outside>>
       \/ ends < MaxEnds /\ End

\* A job whose data file cannot be opened is forgotten; its request stays.
OpenData ==
    /\ ppc = "open"
    /\ \/ /\ data[jp.id] # None
          /\ ppc' = "send"
          /\ UNCHANGED <<jp, lost>>
       \/ /\ ppc' = "get" /\ jp' = NoJob
          /\ lost' = lost \cup {jp.id}
    /\ UNCHANGED <<files, queue, config, main, wpc, jobid, life, acked, printed,
                   dropped>>

\* What the printer gets: the open file, which may have no name any more.
Sent == IF fd = None THEN data[jp.id] ELSE fd

\* The printer accepts the job and printer_status returns 1.
SendOk ==
    /\ ppc = "send"
    /\ printed' = printed \cup {<<jp.client, Sent>>}
    /\ ppc' = "unlinkdata" /\ fd' = None
    /\ UNCHANGED <<data, reqs, jobfile, queue, config, main, jp, wpc, jobid,
                   life, acked, lost, dropped>>

\* No connection, a failed write, an answer that says no, comes too late or is
\* lost: in the last cases the job may have been printed.
SendFails ==
    /\ ppc = "send"
    /\ printed' \in {printed, printed \cup {<<jp.client, Sent>>}}
    /\ ppc' = "replace" /\ fd' = None
    /\ UNCHANGED <<data, reqs, jobfile, queue, config, main, jp, wpc, jobid,
                   life, acked, lost, dropped>>

UnlinkData ==
    /\ ppc = "unlinkdata"
    /\ data' = [data EXCEPT ![jp.id] = None]
    /\ ppc' = "unlinkreq"
    /\ UNCHANGED <<fd, reqs, jobfile, queue, config, main, jp, wpc, outside>>

UnlinkReq ==
    /\ ppc = "unlinkreq"
    /\ reqs' = [reqs EXCEPT ![jp.id] = None]
    /\ ppc' = "get" /\ jp' = NoJob
    /\ UNCHANGED <<spool, jobfile, queue, config, main, wpc, outside>>

\* replace_job: back to the head of the list; after a minute it is tried again.
ReplaceJob ==
    /\ ppc = "replace"
    /\ jobs' = <<jp>> \o jobs
    /\ ppc' = "get" /\ jp' = NoJob
    /\ UNCHANGED <<files, nextjob, config, main, wpc, outside>>

-----------------------------------------------------------------------------
Scan ==
    \/ ScanSignal \/ ScanDone
    \/ \E n \in Numbers : ScanEntry(n) \/ ScanSkips(n)

Worker(c) ==
    \/ HeaderFails(c) \/ GetNewjobno(c) \/ CreatData(c) \/ Receive(c)
    \/ CreatReq(c) \/ WriteReq(c) \/ Answer(c) \/ AddJob(c)

Printer ==
    \/ GetJob \/ UpdateJobno \/ CheckConfig \/ InitPrinter \/ OpenData
    \/ SendFails \/ SendOk \/ UnlinkData \/ UnlinkReq \/ ReplaceJob

Next ==
    \/ Start \/ Scan \/ SigHup \/ SigTerm \/ Stop
    \/ \E c \in Clients : Connect(c) \/ Worker(c) \/ Cancelled(c)
    \/ Printer \/ SpuriousWakeup

Spec == Init /\ [][Next]_vars

\* A daemon that ended is started again, its threads run, SIGTERM ends in an
\* exit(0), and a printer that is asked again and again accepts a job some day.
FairSpec ==
    /\ Spec
    /\ WF_vars(Start) /\ WF_vars(Scan) /\ WF_vars(dying /\ Stop)
    /\ WF_vars(Printer) /\ SF_vars(SendOk)
    /\ \A c \in Clients : WF_vars(Worker(c))

-----------------------------------------------------------------------------
TypeOK ==
    /\ data \in [Numbers -> Clients \cup {None}]
    /\ reqs \in [Numbers -> Clients \cup {None, Short}]
    /\ fd \in Clients \cup {None}
    /\ ppc = "send" => Sent \in Clients
    /\ jobfile \in Numbers \cup {None, Mixed} /\ nextjob \in Numbers
    /\ reread \in BOOLEAN /\ stale \in BOOLEAN /\ dying \in BOOLEAN
    /\ phase \in {"down", "scan", "scansignal", "serve"}
    /\ unread \subseteq Numbers /\ lost \subseteq Numbers
    /\ ends \in 0..MaxEnds
    /\ jobs \in Seq(Job)
    /\ ppc \in PPC /\ wpc \in [Clients -> WPC]
    /\ IF ppc \in {"get", "asleep"} THEN jp = NoJob ELSE jp \in Job
    /\ jobid \in [Clients -> Numbers \cup {None}]
    /\ life \in [Clients -> 0..MaxEnds]
    /\ \A c \in Clients : wpc[c] \notin {"new", "number", "gone"}
                             => jobid[c] \in Numbers
    /\ acked \subseteq Clients /\ dropped \subseteq Clients
    /\ printed \subseteq Clients \X Clients

\* The printer thread does not sleep through a job, although add_job signals
\* after it released the lock: if a job is there, a signal is on its way.
NoLostWakeup ==
    ppc = "asleep" /\ jobs # <<>> =>
        phase = "scansignal" \/ \E c \in Clients : wpc[c] = "signal"

\* A SIGHUP is never lost, not even one that comes while printer_thread reads
\* the configuration: unless reread is set, the printer in use is the one of
\* the configuration at the last SIGHUP.
PrinterCurrent ==
    phase # "down" /\ ~reread /\ ppc # "reload" => ~stale

IsPrinted(c) == \E d \in Clients : <<c, d>> \in printed

\* Another client has got the same number: it was not saved before the daemon
\* ended, or the numbers have wrapped around.
Shared(c) == \E d \in Clients \ {c} : jobid[d] = jobid[c]

\* A job that was accepted stays in the spool directory, data and request,
\* until it is printed, whenever the daemon ends and however its threads meet,
\* as long as its number is not given out again.  Only one failure takes it
\* from there: a read() of its request that fails at a start.
SpoolKeepsAccepted ==
    \A c \in acked : IsPrinted(c) \/ Shared(c) \/ c \in dropped
                       \/ (data[jobid[c]] = c /\ reqs[jobid[c]] = c)

\* A job is printed with the file of its own client, unless the two clients got
\* their number from two runs of the daemon.  (In one run the numbers differ
\* as long as there are at most MaxJob clients.)
PrintsOwnFile == \A x \in printed : x[1] = x[2] \/ life[x[1]] # life[x[2]]

\* The places in the daemon where the job of client c is.
Places(c) ==
    {<<"list", i>> : i \in {j \in 1..Len(jobs) : jobs[j].client = c}}
      \cup {<<"printer", 0>> : x \in {jp} \cap {y \in {jp} : y.client = c}}
      \cup {<<"worker", 0>> : x \in {wpc[c]} \cap {"addjob"}}

\* No job is ever twice in the daemon, and one that was accepted is there once
\* between the threads until it is printed, through any number of deferrals,
\* unless its data or its request could not be opened or read.
QueuedExactlyOnce ==
    \A c \in Clients :
        /\ Cardinality(Places(c)) <= 1
        /\ phase = "serve" /\ ~dying /\ c \in acked /\ ~IsPrinted(c)
              /\ ~Shared(c) /\ jobid[c] \notin lost /\ c \notin dropped
             => Cardinality(Places(c)) = 1

\* An accepted job is printed in the end, across restarts of the daemon, unless
\* its number is given out again or one of its files cannot be opened or read.
AcceptedIsPrinted ==
    \A c \in Clients :
        c \in acked ~> \/ IsPrinted(c) \/ Shared(c)
                      \/ jobid[c] \in lost \/ c \in dropped
=============================================================================
