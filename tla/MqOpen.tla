------------------------------- MODULE MqOpen -------------------------------
(***************************************************************************)
(* How mymq_open of unpv22e/my_pxmsg_mmap decides who initialises the file *)
(* behind a queue and how the others wait for it: the file is created with *)
(* O_EXCL and with its user-execute bit on; the creator turns the bit off  *)
(* when it is done, and everybody else polls stat() until it is off.       *)
(* my_pxsem_mmap/sem_open.c follows the same protocol.                     *)
(*                                                                         *)
(* Each system call is one step, so the processes interleave between any   *)
(* two of them.  A file removed from its name stays alive for whoever has  *)
(* it open or mapped, so files are told apart by inode; the inode of a     *)
(* file that nobody can reach any longer is used again for a new one.      *)
(* The Bug operators are operators of the module with a plausible mistake, *)
(* on which its properties are tried.                                      *)
(***************************************************************************)
EXTENDS Naturals, FiniteSets

CONSTANTS Procs,       \* the processes that open the queue
          Inodes,      \* the inodes of the file system
          NoFile,      \* no file has the name; no descriptor
          MaxTries,    \* MAX_TRIES: how often stat() is asked
          MayFail,     \* the processes whose system calls may fail
          Mortal,      \* the processes that may die
          MayUnlink    \* whether mymq_unlink is called

ASSUME OpenAssumption ==
    /\ NoFile \notin Inodes
    /\ MaxTries \in Nat \ {0}
    /\ MayFail \subseteq Procs /\ Mortal \subseteq Procs
    /\ MayUnlink \in BOOLEAN

VARIABLES
    path,      \* the inode that pathname leads to, or NoFile
    xbit,      \* the inodes whose user-execute bit is on
    ready,     \* the inodes whose header, lists, mutex and condition
               \* variable are initialised
    pc,        \* where each process is in mymq_open
    oflag,     \* its flags: a subset of {"O_CREAT", "O_EXCL"}
    created,   \* its variable created
    fd,        \* the inode it has open, then mapped
    tries      \* its loop counter i

vars == <<path, xbit, ready, pc, oflag, created, fd, tries>>

PC == {"idle", "again", "init", "chmod", "exists", "stat", "map", "err",
       "opened", "dead"}

Init ==
    /\ path = NoFile /\ xbit = {} /\ ready = {}
    /\ pc = [p \in Procs |-> "idle"]
    /\ oflag = [p \in Procs |-> {}]
    /\ created = [p \in Procs |-> FALSE]
    /\ fd = [p \in Procs |-> NoFile]
    /\ tries = [p \in Procs |-> 0]

Goto(p, l) == pc' = [pc EXCEPT ![p] = l]

\* mymq_open returns: its local variables are gone.
Return(p, l) ==
    /\ Goto(p, l)
    /\ oflag' = [oflag EXCEPT ![p] = {}]
    /\ created' = [created EXCEPT ![p] = FALSE]
    /\ tries' = [tries EXCEPT ![p] = 0]

\* mymq_open is called.  O_EXCL is looked at only together with O_CREAT.
Call(p, flags) ==
    /\ pc[p] = "idle"
    /\ Goto(p, IF "O_CREAT" \in flags THEN "again" ELSE "exists")
    /\ oflag' = [oflag EXCEPT ![p] = flags]
    /\ UNCHANGED <<path, xbit, ready, created, fd, tries>>

\* The inodes that no name and no descriptor leads to.
Unreachable == Inodes \ ({path} \cup {fd[p] : p \in Procs})

Bug_CreateWithoutExcl(p) ==
    /\ pc[p] = "again"
    /\ \E ino \in (IF path = NoFile THEN Unreachable ELSE {path}) :
          /\ path' = ino /\ fd' = [fd EXCEPT ![p] = ino]
          /\ xbit' = xbit \cup {ino}
          /\ ready' = ready \ {ino}
    /\ created' = [created EXCEPT ![p] = TRUE]
    /\ Goto(p, "init")
    /\ UNCHANGED <<oflag, tries>>

\* open(pathname, oflag | O_EXCL | O_RDWR, mode | S_IXUSR) makes the file.
Create(p) ==
    /\ pc[p] = "again" /\ path = NoFile
    /\ \E ino \in Unreachable :
          /\ path' = ino /\ fd' = [fd EXCEPT ![p] = ino]
          /\ xbit' = xbit \cup {ino}
          /\ ready' = ready \ {ino}
    /\ created' = [created EXCEPT ![p] = TRUE]
    /\ Goto(p, "init")
    /\ UNCHANGED <<oflag, tries>>

\* ... or finds that it is there: EEXIST.
CreateExists(p) ==
    /\ pc[p] = "again" /\ path # NoFile
    /\ IF "O_EXCL" \in oflag[p] THEN Return(p, "idle")
       ELSE Goto(p, "exists") /\ UNCHANGED <<oflag, created, tries>>
    /\ UNCHANGED <<path, xbit, ready, fd>>

\* The creator sets the size, maps the file, and initialises the header, the
\* free list, the mutex and the condition variable.
Initialise(p) ==
    /\ pc[p] = "init"
    /\ ready' = ready \cup {fd[p]}
    /\ Goto(p, "chmod")
    /\ UNCHANGED <<path, xbit, oflag, created, fd, tries>>

Bug_FchmodTooEarly(p) ==
    /\ pc[p] \in {"init", "chmod"}
    /\ xbit' = xbit \ {fd[p]}
    /\ Return(p, "opened")
    /\ UNCHANGED <<path, ready, fd>>

\* fchmod(fd, mode): initialisation complete, turn off user-execute bit.
Fchmod(p) ==
    /\ pc[p] = "chmod"
    /\ xbit' = xbit \ {fd[p]}
    /\ Return(p, "opened")
    /\ UNCHANGED <<path, ready, fd>>

\* The attributes are bad, or a system call fails for a reason of its own:
\* the first open() returns at once, all others go to the label err.
CallFails(p) ==
    /\ p \in MayFail
    /\ \/ pc[p] = "again" /\ Return(p, "idle")
       \/ /\ pc[p] \in {"exists", "init", "chmod", "stat", "map"}
          /\ Goto(p, "err")
          /\ UNCHANGED <<oflag, created, tries>>
    /\ UNCHANGED <<path, xbit, ready, fd>>

\* No file has the name (ENOENT): start again if it may be created.
Vanished(p) == Goto(p, IF "O_CREAT" \in oflag[p] THEN "again" ELSE "err")

\* The label exists: open the file.
OpenExisting(p) ==
    /\ pc[p] = "exists"
    /\ \/ path = NoFile /\ Vanished(p) /\ UNCHANGED <<fd, tries>>
       \/ /\ path # NoFile
          /\ fd' = [fd EXCEPT ![p] = path]
          /\ tries' = [tries EXCEPT ![p] = 0]
          /\ Goto(p, "stat")
    /\ UNCHANGED <<path, xbit, ready, oflag, created>>

Bug_StatNeverGivesUp(p) ==
    /\ pc[p] = "stat"
    /\ \/ path = NoFile /\ Vanished(p) /\ fd' = [fd EXCEPT ![p] = NoFile]
       \/ path # NoFile /\ path \notin xbit /\ Goto(p, "map") /\ UNCHANGED fd
       \/ path # NoFile /\ path \in xbit /\ UNCHANGED <<pc, fd>>
    /\ UNCHANGED <<path, xbit, ready, oflag, created, tries>>

Bug_StatTriesOnceMore(p) ==
    /\ pc[p] = "stat" /\ path # NoFile /\ path \in xbit
    /\ tries' = [tries EXCEPT ![p] = tries[p] + 1]
    /\ Goto(p, IF tries[p] = MaxTries THEN "err" ELSE "stat")
    /\ UNCHANGED <<path, xbit, ready, oflag, created, fd>>

Bug_StatIgnoresBit(p) ==
    /\ pc[p] = "stat"
    /\ \/ path = NoFile /\ Vanished(p) /\ fd' = [fd EXCEPT ![p] = NoFile]
       \/ path # NoFile /\ Goto(p, "map") /\ UNCHANGED fd
    /\ UNCHANGED <<path, xbit, ready, oflag, created, tries>>

\* One round of the loop: stat(pathname), which looks at whatever file has
\* the name now.  If the file is gone the descriptor is closed before a new
\* start; if the bit is on, the caller sleeps and tries again, or gives up
\* with ETIMEDOUT.
Stat(p) ==
    /\ pc[p] = "stat"
    /\ \/ /\ path = NoFile
          /\ Vanished(p)
          /\ fd' = IF "O_CREAT" \in oflag[p] THEN [fd EXCEPT ![p] = NoFile]
                                             ELSE fd
          /\ UNCHANGED tries
       \/ /\ path # NoFile /\ path \notin xbit
          /\ Goto(p, "map")
          /\ UNCHANGED <<fd, tries>>
       \/ /\ path # NoFile /\ path \in xbit
          /\ tries' = [tries EXCEPT ![p] = tries[p] + 1]
          /\ Goto(p, IF tries[p] + 1 = MaxTries THEN "err" ELSE "stat")
          /\ UNCHANGED fd
    /\ UNCHANGED <<path, xbit, ready, oflag, created>>

\* mmap of fd and the return of the descriptor.
Map(p) ==
    /\ pc[p] = "map"
    /\ Return(p, "opened")
    /\ UNCHANGED <<path, xbit, ready, fd>>

\* The label err: a creator removes the name, whatever file has it now.
Err(p) ==
    /\ pc[p] = "err"
    /\ path' = IF created[p] THEN NoFile ELSE path
    /\ fd' = [fd EXCEPT ![p] = NoFile]
    /\ Return(p, "idle")
    /\ UNCHANGED <<xbit, ready>>

\* mymq_close.
Close(p) ==
    /\ pc[p] = "opened"
    /\ fd' = [fd EXCEPT ![p] = NoFile]
    /\ Return(p, "idle")
    /\ UNCHANGED <<path, xbit, ready>>

\* mymq_unlink, by anybody.
Unlink ==
    /\ MayUnlink /\ path # NoFile
    /\ path' = NoFile
    /\ UNCHANGED <<xbit, ready, pc, oflag, created, fd, tries>>

\* A process dies anywhere in mymq_open; the file stays as it is.
Die(p) ==
    /\ p \in Mortal /\ pc[p] \notin {"idle", "dead"}
    /\ fd' = [fd EXCEPT ![p] = NoFile]
    /\ Return(p, "dead")
    /\ UNCHANGED <<path, xbit, ready>>

\* The steps mymq_open takes once it was called.
Running(p) ==
    \/ Create(p) \/ CreateExists(p) \/ Initialise(p) \/ Fchmod(p)
    \/ OpenExisting(p) \/ Stat(p) \/ Map(p) \/ Err(p)

Proc(p) ==
    \/ Running(p) \/ CallFails(p) \/ Close(p) \/ Die(p)
    \/ \E flags \in {{}, {"O_CREAT"}, {"O_CREAT", "O_EXCL"}} : Call(p, flags)

Next == Unlink \/ \E p \in Procs : Proc(p)

Spec == Init /\ [][Next]_vars

\* A process that is inside mymq_open keeps running; no call has to fail.
FairSpec == Spec /\ \A p \in Procs : WF_vars(Running(p))

-----------------------------------------------------------------------------
TypeOK ==
    /\ path \in Inodes \cup {NoFile}
    /\ xbit \subseteq Inodes /\ ready \subseteq Inodes
    /\ pc \in [Procs -> PC]
    /\ oflag \in [Procs -> SUBSET {"O_CREAT", "O_EXCL"}]
    /\ created \in [Procs -> BOOLEAN]
    /\ fd \in [Procs -> Inodes \cup {NoFile}]
    /\ tries \in [Procs -> 0..MaxTries]

\* No file has two initialisers, and none is initialised again once its
\* execute bit is off, though many processes may race to create the queue.
OneInitialiser ==
    \A p \in Procs : pc[p] \in {"init", "chmod"} =>
        /\ fd[p] \in xbit
        /\ \A q \in Procs \ {p} : pc[q] \in {"init", "chmod"} => fd[q] # fd[p]

\* A file with a name and its execute bit off is completely initialised: a
\* creator that is slow, failed or died on the way is not mistaken for done.
BitOffMeansReady == path # NoFile /\ path \notin xbit => path \in ready

\* Whoever has opened the queue that the name leads to has an initialised one.
NamedIsReady ==
    \A p \in Procs : pc[p] = "opened" /\ fd[p] = path => fd[p] \in ready

\* Every call of mymq_open returns, unless the queue is removed and created
\* again for ever by others.
OpenReturns ==
    <>[](path = NoFile) \/ <>[](path # NoFile)
      => \A p \in Procs : pc[p] \notin {"idle", "opened", "dead"}
                             ~> pc[p] \in {"idle", "opened", "dead"}

\* Whoever has opened a queue has an initialised one.
OpenedIsReady == \A p \in Procs : pc[p] = "opened" => fd[p] \in ready
=============================================================================
