# Verification of the concurrent programs of this repository

`src/` collects the programs of several books on C, Unix and network
programming. Most of it are short exercises. The parts with logic of their own,
shared state and real concurrency are the implementations of IPC primitives in
`unpv22e/` (a read-write lock, Posix message queues and semaphores built on
mapped files, mutexes and condition variables), the print spooler and the
database library of `apue/`, the reliable UDP client of `unpv12e/rtt`, and the
process and thread pools of `linux_advance_server/`. This directory verifies
the read-write lock, the message queue, the print spooler and the database, and
plans for the others.

## Inventory

| Component | State | Operations | What is hard | What makes it correct |
|---|---|---|---|---|
| `unpv22e/my_rwlock` | `rw_refcount`, two waiting counts, two condition variables, `rw_magic` | rdlock, wrlock, tryrdlock, trywrlock, unlock, init, destroy | woken threads compete with newcomers; one integer encodes readers and writer; `destroy` takes no mutex | exclusion, exact counts, writers first, no lost wakeup, a free lock is taken |
| `unpv22e/my_rwlock_cancel` | the same, and two cleanup handlers | the same | a thread is cancelled in `pthread_cond_wait` and counts as waiting until its handler runs | exact counts; a free lock is taken |
| `unpv22e/my_pxmsg_mmap` | in the mapped file: attributes, two linked lists, `mqh_nwait`, registered pid, one mutex, one condition variable; per process: flags | open, send, receive, notify, setattr, getattr, close, unlink | processes block on one shared condition variable and may die; lists linked through one array; who initialises the file | order, conservation of slots, exact counts, registration, blocked processes wake, one initialiser |
| `unpv22e/my_pxsem_mmap` | count, mutex, condition variable in a mapped file | open, wait, trywait, post, getvalue, close, unlink | signals only when the count was 0; the same open protocol | mutual exclusion by a count; a waiter with a positive count wakes |
| `unpv22e/my_pxsem_fifo`, `my_pxsem_svsem` | bytes in a FIFO; System V semaphore | the same | two creators; removal on timeout | the same abstract semaphore |
| `apue/printer/printd.c` | job list, worker list, spool directory, job number file | client threads, printer thread, signal thread | cancellation of workers, crash and restart, requeueing, numbers saved late | every accepted job stays in the spool and is printed, once in the daemon, with its own file; no signal is missed |
| `apue/db/db.c` | index file with hash chains and free list, data file | open, fetch, store, delete, nextrec | fcntl locks per chain and for the free list; writes in several steps; the scan locks no chain | chains and free list are disjoint; fetch and scan see whole, current records; no deadlock |
| `unpv12e/rtt` | sequence number, timer, retransmission count | `dg_send_recv` | lost, duplicated and late replies; SIGALRM | the reply belongs to the request |
| `linux_advance_server` | pools, pipes, connection maps | process pool, thread pool, springsnail | event ordering, limits | every connection is served by one worker |

The components meet at few places: the queue's functions are called by
processes that share only the mapped file; the message queue's open protocol is
repeated in the semaphore; the read-write lock is used by the test programs.
The spooler's threads share the job list and the worker list, and its runs share
the spool directory; the processes that use a database share only its two files.

## Modules

| Module | Models | Extends |
|---|---|---|
| `RWLock` | what a read-write lock promises (abstract) | |
| `PthreadRwlock` | both versions of the lock; `CancelVersion` chooses | |
| `PthreadRwlock_proofs` | its theorems | `PthreadRwlock` |
| `PrioQueue` | the queue as an ordered sequence of slots (abstract) | |
| `PrioQueue_proofs` | its order and its slots | `PrioQueue` |
| `MqLinks` | the linked lists in the file; implements `PrioQueue` | |
| `MqLinks_proofs` | its theorems, the refinement of `PrioQueue` among them | `MqLinks`, `LinkedLists` |
| `MyMq` | the processes around one queue; its queue takes the steps of `PrioQueue` | `PrioQueue` |
| `MyMq_proofs` | its theorems | `MyMq`, `PrioQueue_proofs` |
| `MqOpen` | `mymq_open` step by step, `mymq_unlink` | |
| `MqOpen_proofs` | its theorems | `MqOpen` |
| `Printd` | the spooler: client threads, printer thread, signals, spool directory, restarts | |
| `Printd_proofs` | its theorems | `Printd` |
| `PrintdWorkers` | the spooler's list of client threads, link by link | |
| `Db` | the database: index and data file, record locks, one step per access | |
| `DbMC` | the instance of `Db` that is checked: its hash function, its lengths, its symmetry | `Db` |
| `Db_proofs` | the theorems of `Db` | `Db`, `LinkedLists` |
| `LinkedLists` | linked lists in an array, and lemmas about them | |

Only `Db` needs a module for model checking, because two of its constants are
functions; the other constants are sets of model values and small numbers, given
in the `.cfg` files. Operators named
`Bug_...` are no part of the specifications: each is an operator of the module
with a plausible mistake, used to see that a property can fail.

### The lock

Every function runs between `pthread_mutex_lock` and `pthread_mutex_unlock` or
`pthread_cond_wait`, so each critical section is one action: `Rdlock` up to the
return or the first wait, `RdlockWoken` one more round of the loop, and so on.
`condreaders` and `condwriters` are the threads asleep on the two condition
variables. A thread that was signalled has left the set but still has to get
the mutex, and anybody may be faster. `SpuriousWakeup` lets a wait end without
a signal. Cancelling takes two steps, as in pthreads: the thread leaves the
condition variable, and later, with the mutex, its handler runs. `destroy` takes
no mutex, so it is four steps, one for each count it reads and one for the end,
and the other threads move in between; a read may also find the count that a
woken waiter has lowered before it waits again (`SeenReaders`, `SeenWriters`).
`still` are the threads that have done nothing since the call of `destroy` began. The lock may be destroyed under a
thread that moves meanwhile, or is still inside `unlock` after it gave the count
back; what happens then is undefined and not followed (`Undefined`), and
`DestroySeesUsers` claims only what the unlocked reads can guarantee. One
`destroy` runs at a time. A thread holds the lock at most once.
Calls that fail change nothing and are left out, as are failures of the pthread
functions themselves.

### The queue

In `PrioQueue` a message is its slot. `prio` is its priority, and the history
variable `older` remembers which messages were queued before it arrived, so that
first-in-first-out within a priority can be stated. `MqLinks` has the pointers: a
slot number stands for the byte offset `mqh_head`, `mqh_free` and `msg_next`
hold, 0 ends a list, and `FindPlace` is the walk of `mymq_send`, a record of `pmsg`
and `index` for each round of its loop. Its lists, which `ListFrom` reads off the
pointers, are the variables of `PrioQueue` in the refinement.
`MyMq` adds the processes. Senders and receivers sleep in one set, `condq`,
because the code has one condition variable for both; a signal picks any
sleeper. `signalled` records who got the notification for its present
registration. Processes die at any point outside the mutex; a receiver that
dies blocked is remembered as `deadrecv`, because it stays in `mqh_nwait`. From
then on the field is not what `mqueue.h:16` calls it, the "#threads blocked in
mq_receive()", and no notification is sent any more (`mq_send.c:35`); nothing in the
code corrects it, so `NwaitExact` is stated for as long as nobody has died there.
Message contents and lengths, `EMSGSIZE` and the other failing calls are left
out. There is one descriptor per process.

### Opening

`MqOpen` makes every system call of `mymq_open` a step. A file is its inode:
unlinking removes the name, the file stays for those who have it open, and an
inode nobody can reach is used again for a new file. `xbit` holds the inodes
whose user-execute bit is on, `ready` those whose header, lists, mutex and
condition variable are set up; the creator's writes in between are one step,
since nobody may look before the bit is off. `CallFails` sends any call of a
process in `MayFail` to the code's error path.

### The spooler

In `Printd` the files `data`, `reqs` and `jobfile` survive the end of the
daemon, the other variables of the daemon do not. A client hands in one file,
and the client's name stands for the file's contents, so that the wrong file in
the right job can be seen. `client_thread` is cut at every system call that
changes a file, and each of them may fail; a failed one takes the code's error
path. `printer_thread` is cut at the locks, at every file it touches, and at the
answer of the printer. A data file that is unlinked while the printer thread has it
open keeps its contents there (`fd`, `UnlinkFile`); `SendFails` includes the answer that is lost after the
printer has taken the job. `End` happens between any two steps: by a crash, by
`exit(0)` after SIGTERM, or by `exit(1)` in `init_printer`. After SIGTERM a client
thread may stop at any cancellation point until `exit`; between the unlock and
the signal in `add_job` there is none. `Start` and the steps named `Scan...` are
`main` up to the loop over `accept`; the printer thread runs next to the scan,
as in the code.

`stale` says that the printer in use is not the one of the configuration
file; SIGHUP is sent after a change of that file. A job number is saved only when
the printer thread takes a job (`UpdateJobno`), so a number can be given out
twice after a crash. What the code promises in that case is nothing, and the
properties say so: `Shared(c)` excuses a client whose number another client also
got. A number is an `int32_t`: `Numbers` is what one can hold, the negative ones
included, with `MaxJob` for `INT32_MAX`. When the new number is smaller than the
old one, `update_jobno` may leave digits of both in the file (`Mixed`); what `atol`
makes of them may be beyond 32 bits, so that `Start` takes any number, a
negative one too, and gives it to the first client. `lost` are the numbers whose
file could not be opened, which the code drops until the next start. `dropped` are
the accepted clients whose request was there but could not be read at a start:
`build_qonstart` removes request and data after any failed `read` (`printd.c:366`),
a complete job as well as half a one, and the job is gone for good. `acked` are
the clients to whom the answer was sent, whether it arrived or not.

`PrintdWorkers` has the cells of the worker list with their two links. A cell
that is reached after it was freed sets `undefined`, after which nothing more is
said.

### The database

In `Db` one step is one access to a file: the read or write of a pointer, of an
index record, or of a data record. (A reader takes an index record in two
reads. A reader of the chain is alone with its writers locked out; the scan may
meet a record that is being used again, but its length does not change, and the
key and the place of the data, all the scan uses, come with the second read and
are written by one `writev`.)
Pointers of the hash table, of the free list and of the records are one function
`ptr`, as for `_db_readptr` and `_db_writeptr`. Records have lengths, since only a
free record of the same lengths is used again. `rd` and `wr` are the locks on the
first byte of every chain pointer and of the free list pointer; the locks for
appending make each append one step. A call begins with its chain lock:
what it does before is local. `map` and `due` are no part of the files: `map` is
what the calls that returned have stored, and `due` what a scan still owes.
`db_nextrec` goes on at the descriptor's offset, which any other call on the
handle moves; in the model a scan is a `db_rewind` and `db_nextrec`s only. No key
is all blanks (`Blank \notin Keys`): `db_store` accepts such a key, but `db_nextrec`
takes its record for a deleted one and skips it, so `ScanIsComplete` does not
speak of it. What a process has in hand is a set of records (`RecordsConserved`), so
a record that two processes took off the free list shows when one of them links it.

## Runs

| Run | Constants | Checks |
|---|---|---|
| `rwlock` | 4 threads, no cancellation | `TypeOK`, `NoLostWakeup`, `WritersPreferred`, `FreeLockIsTaken`, `ImplementsRWLock` |
| `rwlock_cancel` | 4 threads, 3 may be cancelled | `RefcountExact`, `WaitCountsExact`, `DestroySeesUsers` |
| `rwlock_cancel_stuck` | 3 threads, 1 may be cancelled | `FreeLockIsTaken` **fails** |
| `mq_links` | 4 slots, 3 priorities | `NeverDumps`, `LinksConserveSlots`, `ImplementsPrioQueue` |
| `mq_safety` | 3 processes, 1 may die, 2 slots, 2 priorities | `TypeOK`, `CurmsgsExact`, `SlotsConserved`, `PriorityFifo`, `NwaitExact`, `RegistrationExact`, `RegistrationKept` |
| `mq_pair` | 2 processes, 1 may die, 2 slots | `BlockedReceiverWakes`, `BlockedSenderWakes` |
| `mq_lost_wakeup` | 3 processes, 2 slots | `BlockedReceiverWakes` **fails** |
| `mq_open` | 2 processes whose calls may fail, 1 may die, 2 inodes, 2 tries, unlinking | `TypeOK`, `OneInitialiser`, `BitOffMeansReady`, `NamedIsReady`, `OpenReturns` |
| `mq_open_stale` | 2 processes, 1 may fail, no unlinking | `OpenedIsReady` **fails** |
| `printd` | 2 clients, 2 job numbers, the daemon ends once | `TypeOK`, `NoLostWakeup`, `PrinterCurrent`, `SpoolKeepsAccepted`, `PrintsOwnFile`, `QueuedExactlyOnce`, `AcceptedIsPrinted` |
| `printd_workers` | 3 client threads | `KillsAllOutstanding` **fails** |
| `db` | 2 processes, 3 keys on 2 chains, values of 2 lengths, 3 records | `TypeOK`, `ChainsHoldMap`, `RecordsConserved`, `FetchIsRight`, `NextrecIsWhole`, `ScanIsComplete`, `LocksOrdered` |

Run one with `tlc -config rwlock.cfg PthreadRwlock`; `db` is `tlc -config db.cfg DbMC`.

Why the bounds are enough to be interesting: four threads give two waiters of
each kind next to each other, or a holder, a waiter and a newcomer with one to
spare. Four slots with three priorities make the walk stop at the head, in the
middle and at the end, with equals on both sides. Three processes on two slots
let two block on the same side while the third moves on, and let a sender and a
receiver sleep at the same time. Two processes suffice for every race of
`mymq_open`, since a process can fail, start again and be its own third party;
with two inodes there is always one for a new file, and old ones come back.
`MaxTries = 2` stands for `MAX_TRIES`: one failed try, and the last one. Two
clients of the spooler are two jobs on the list, a job and a client between two
of its steps, or two clients with the same number; with two job numbers, and a
job file that may start at the largest, the numbers wrap around; a file with mixed digits starts the
daemon at any number from -3 to 2; one end of the
daemon is one scan of a spool in any state it can be left in. Three records of
the database are a chain of two next to another chain, or a free list of two
records, where the walk has to pass one that does not fit; two writers meet
on one chain and on the free list. No state is cut off by a bound other than these.

### Fairness

* Lock: a thread that has been woken, or whose handler has to run, gets the
  mutex in the end (weak fairness of the `Woken` and `Cleanup` actions), and
  whoever holds the lock releases it (weak fairness of `Unlock`). Nobody is
  forced to ask for the lock, no thread has to be cancelled, and no wakeup has
  to be spurious.
* Queue: a woken process gets `mqh_lock` in the end. Nobody has to call
  anything.
* Opening: a process inside `mymq_open` keeps running; no call has to fail.
* Spooler: the threads of the daemon run, a daemon that ended is started again,
  SIGTERM ends in `exit`, and a printer that is asked again and again accepts the
  job some day (strong fairness of `SendOk`: between two tries the printer
  thread is elsewhere). No client has to come, no signal has to be sent, and
  nothing forces a file to be unreadable or readable.
* Database: only safety is stated, so no fairness.

Deadlock is checked in every run but `printd_workers`, which ends with
`kill_workers`: elsewhere somebody can always make a call or return from one. In
`db` this is the absence of a cycle of record locks: every call takes its chain
first and the free list second, and the scan takes the free list alone. `LocksOrdered`
says so as an invariant, and that no call returns with a lock.

### What the failing runs show

* `rwlock_cancel_stuck`: a writer has the lock, a reader and another writer
  wait. The waiting writer is cancelled. Before its handler runs, the holder
  unlocks: `rw_nwaitwriters` is 1, so it signals the writers' condition
  variable, on which nobody sleeps any longer. The handler then sets the count
  to 0 and wakes nobody. The lock is free and the reader sleeps for ever. The
  counts stay exact all the time, as `rwlock_cancel` shows; they are not enough.
* `mq_lost_wakeup`: `mymq_send` signals only for the message that ends the
  empty state. Two receivers sleep; two messages are sent before the one that
  was woken gets the mutex; the second sleeps on next to a message. The comment
  in the code promises to "wake up anyone blocked". With only two processes
  (`mq_pair`) the signals are enough.
* `mq_open_stale`: a process opens the file and waits for its creator, which
  fails and removes the name. The queue is created anew. The waiting process
  asks `stat` about the name, sees the new file's bit off, and maps the old
  file, which was never initialised. `NamedIsReady` is what remains true.
* `printd_workers`: two client threads add themselves. The second cell points
  to the first, and the first back to it, but `workers` still leads to the
  first. SIGTERM cancels the first only, against the comment "Cancel (kill) all
  outstanding workers". `client_cleanup` does not find the second cell either, so
  it is never freed and its socket stays open.

## Proofs

All theorems are for every value of the constants under the named assumptions
(`RwlockAssumption`, `QueueAssumption`, `LinksAssumption`, `ProcsAssumption`,
`OpenAssumption`, `PrintdAssumption`, `DbAssumption`: finite sets of threads and
processes, at least one slot, one try and one job number, special values outside
their sets, cancellation only with the handlers, and, for the database, any hash
function and any lengths, with the pointers of the hash table at other places of
the index file than the records). Check them with `tlapm <module>_proofs.tla`;
`Db_proofs` takes some minutes, the others seconds to a minute or two. The
invariants `LinksInv`, `SpoolInv`, `FileInv`, `QueueInv` and `DbInv` were checked by TLC
on the instance of the module's run first, `LinksInv` with the lists that `ListFrom`
reads off in place of its two bound sequences.

What a recursive function computes is within reach here in spite of the missing
induction over operators: `NatSetInduction` (in `LinkedLists`) is induction for a
*set* of numbers, derived from the well-foundedness of finite subsets, and a proof
that needs it names the set of numbers for which its claim holds. With it the
recursive functions of `MqLinks` and `Db` are shown to exist and their values are
computed.

* **Lock** (`PthreadRwlock_proofs`). The inductive invariant joins `TypeOK`,
  `RefcountExact` and `WaitCountsExact` with the fact that
  whoever sleeps on a condition variable is at the matching place in the code;
  none is inductive alone, because who may enter depends on the counts. From it
  follow `TypeCorrect`, `RefcountCorrect`, `WaitCountsCorrect`, and, step by step,
  `Refinement` (the lock implements `RWLock`) and `WriterPreference`.
  `DestroySafe` (`DestroySeesUsers`) adds `DestroyInv`: what the counts read so
  far tell of the threads that have stayed where they were (a count of 0, exact or
  lowered by one that is awake, has no holder or sleeper in it; `SeenZero`), which
  a step of another thread does not disturb (`OnlyOneMoves`).
  `WakeupsKept` adds `NoLostWakeup` to the invariant under the assumption that
  nobody can be cancelled; `rwlock_cancel_stuck` shows why it is needed.
* **Ordered queue** (`PrioQueue_proofs`). `OrderedQueue`: slots are conserved
  and the order is by priority, then arrival. The invariant joins
  the two, since writing the priority and the past of one slot must not touch a
  message that stays.
* **Shared queue** (`MyMq_proofs`). Every step of `MyMq` is a step of
  `PrioQueue` or leaves the queue alone (`MqImplementsQueue`), so the order
  and the slots carry over (`MqOrdered`, `MqSlotsCorrect`). The counts and the
  registration are proved with an invariant of their own (`MqTypeCorrect`,
  `MqCurmsgsCorrect`, `MqNwaitCorrect`, `MqRegistrationCorrect`).
  `MqRegistrationKept` is the action property, from the same invariant.
* **Linked lists of the queue** (`MqLinks_proofs`). The invariant `LinksInv` says that
  there are two sequences `q` and `r` of different slots that together are all
  slots, that the links lead from `mqh_head` through `q` and from `mqh_free` through
  `r` and end there, and that `mq_curmsgs` is the length of `q`. `ListIs`: following
  the links finds `q`, so the lists that `MqLinks` reads off are these; `PlaceIs`:
  the walk of `mymq_send` stops at the first message of a lower priority and knows
  the link that leads there. A step then takes the head off one sequence
  (`ChainTail`) and puts it into the other (`ChainInsert`), whichever link has to
  be changed. From this follow `DumpsNever`, `SlotsKept`, and `LinksRefinement`,
  where `Receive` is `Take` and `Send` is `Put` into the slot `mqh_free`.
  `LinksOrdered` carries the order proved in `PrioQueue_proofs` over to the links.
* **Opening** (`MqOpen_proofs`). The invariant adds to `OneInitialiser` and
  `BitOffMeansReady` what a process knows at each label: before `fchmod` its
  file is ready, behind the loop it is ready *if the name still leads to it*.
  `SingleInitialiser`, `BitOffIsReady`, `NamedQueueIsReady`, `OpenTypeCorrect`.
* **Spooler** (`Printd_proofs`). `TypeCorrect` is inductive, with the facts that
  the printer thread has a job and a client thread a number wherever it uses
  them. `PrinterNotMissed` (`NoLostWakeup`) and `HupNotLost` (`PrinterCurrent`)
  follow step by step from it. `AcceptedIsKept` (`SpoolKeepsAccepted`) needs
  `SpoolInv`: an accepted client has a number (`NumbersGiven`); a complete request
  file, a job on the list and the printer thread's job carry the number that
  was given to their client (`RequestsNamed`, `JobsNamed`), so that whatever is
  removed belongs to that client; the printer thread removes files only of a job
  that was printed (`OnlyPrintedRemoved`); and a client thread that has stored
  its file, or its request, finds it there at its next step unless its number is
  shared (`WorkersStored`); and what the scan removes was not accepted, or its
  client is then in `dropped`. No bound is used, in particular not on how often the
  daemon ends. `PrintedIsOwn` (`PrintsOwnFile`) adds that a data file carries the
  number of its client, that what was printed together has the same number, and
  that the numbers of this run of the daemon are the last ones before `nextjob`,
  after at most one that is not positive and came from the job file (`FileInv`); the last needs the hypothesis that there are no more clients than
  job numbers, since otherwise the numbers wrap around within one run.
  `JobsHeldOnce` (`QueuedExactlyOnce`) adds that the list, the printer thread, the
  client threads and the entries the scan has still to read hold different jobs,
  and that an accepted job is with one of them, unless it is excused as above or its
  number is in `lost` (`QueueInv`).
* **Database** (`Db_proofs`). The invariant `DbInv` has six parts, each preserved with
  the help of those before it: types and offsets within the files (`TypeInv`); who
  holds which lock at each place (`LockInv`); the lists (`ListInv`); the data records
  (`DataInv`); what the chains hold against `map` (`ValueInv`); the scan (`ScanInv`).
  The lists are not described by following pointers: `Reach` is the least set that
  contains the first cell and is closed under the successor, so a fact about a
  list is proved by exhibiting a closed set, and a list is one where no two cells,
  the root included, have the same successor. A deletion takes four writes during
  which the record is on two lists or the chain leads into the free list;
  `links` are the pointers as they will be when the deletion under way is done,
  and they form disjoint lists at every moment, while the holder of a lock sees the
  list it has locked in the file itself. A step of a process changes only lists
  whose write lock it has. That `Walk`, cut after `MaxRec` cells, visits the whole
  list (`WalkVisits`) is a pigeonhole argument. The scan is right without a chain
  lock because a key is due only until somebody begins to delete it, and till then its
  record stays where it is, ahead of the scan; and because blanking a record takes
  the free list, which the scan holds between reading the key and the data. `LocksCorrect` adds
  that a read lock is held only by a fetch on its chain or by a scan.

Every invariant, action property and refinement that a passing run checks is stated
by a theorem. Only model-checked are the liveness properties (`FreeLockIsTaken`,
`BlockedReceiverWakes`, `BlockedSenderWakes`, `OpenReturns`, `AcceptedIsPrinted`),
since the prover does not do fairness, and the absence of deadlock as such, which
is about `ENABLED`; of `PrintdWorkers` there is only the counterexample.

## Not modelled, and the plan

Inside the modelled components: failures of the pthread calls, message and file
contents, several descriptors or threads per process, IPP and HTTP between
spooler and printer, `db_open` and `db_close`. Known and left out:

* `pthread_rwlock_destroy.c:14`: a thread between its `rw_magic` test and the
  mutex, or one inside `unlock` that has given the count back, is in no count, and
  `destroy` pulls the mutex away under it. The model lets the lock be destroyed
  then and stops there; `pthread_rwlock_rdlock.c:17`: a second read lock by the
  same thread blocks behind a waiting writer. Both are left to the caller.
* `mq_send.c:25`: a process that dies inside the critical section leaves the
  mutex locked; it is not robust, and nothing in the code recovers. A process
  that dies inside a call of the database leaves the files as they are.
* `mq_open.c:161`: a failing `malloc` closes the descriptor twice;
  `mq_open.c:174`: a failing creator may remove the name of another queue. The
  model has no descriptor numbers, and the second step but no property about it.
* `db.c:117`: `O_TRUNC` empties the files before any lock is taken; `db.c:575`:
  offsets end at 10^7.
* `my_pxsem_svsem/sem_open.c:87`: an opener that times out removes a semaphore
  others may use; `dg_send_recv.c:63`: the alarm starts before `sigsetjmp`.

`PROJECT.json` lists the other hazards with their lines.

In this order:

1. The semaphores: an abstract semaphore, `my_pxsem_mmap` and `my_pxsem_fifo`
   as implementations of it. Property: a waiter with a positive count wakes, and
   with how many waiters it does not.
2. `unpv12e/rtt`: requests and replies over a network that loses and delays.
3. The pools of `linux_advance_server`.

Left out for good: the exercises and examples of the books, wrapper libraries
and vendored headers, none of which keep state that others share.
