--------------------------------- MODULE Db ---------------------------------
(***************************************************************************)
(* The database library apue/db/db.c: an index file with hash chains and a *)
(* free list, a data file, and processes that fetch, store, delete and     *)
(* step through records under fcntl record locks: one byte per hash chain, *)
(* one for the free list.                                                  *)
(*                                                                         *)
(* One step is one access to a file.  A record is named by its place in    *)
(* the index file, so an offset is a number from 1 on and 0 ends a chain;  *)
(* the pointer fields of the hash table, of the free list and of the       *)
(* records are one function, as they are for _db_readptr and _db_writeptr. *)
(* A data record is the pair of key and value that was stored, or Blank.   *)
(* The Bug operators are operators of the module with a plausible mistake, *)
(* on which its properties are tried.                                      *)
(***************************************************************************)
EXTENDS Naturals, FiniteSets

CONSTANTS Procs, Keys, Values, Chains,
          Hash,       \* _db_hash: the chain of each key
          Length,     \* strlen of each key and value
          Free,       \* FREE_OFF, the free list
          Blank,      \* a key or data of spaces
          None,
          MaxRec      \* bound: the records the files may grow to

ASSUME DbAssumption ==
    /\ Hash \in [Keys -> Chains] /\ Length \in [Keys \cup Values -> Nat]
    /\ Free \notin Chains /\ None \notin Keys \cup Values
    /\ Blank \notin Keys /\ Blank \notin [key : Keys, val : Values]
    /\ IsFiniteSet(Procs) /\ MaxRec \in Nat
    /\ (Chains \cup {Free}) \cap (1..MaxRec) = {}   \* places in the index file

VARIABLES
    ptr,       \* the pointer fields
    rec,       \* the index records: key, its length, place and length of data
    dat,       \* the data records
    nidx, ndat,   \* the sizes of the two files
    rd, wr,    \* who holds a read lock, a write lock, on a chain or Free
    pc,        \* where each process is
    db,        \* its DB structure and the arguments of its call
    pos,       \* its offset in the index file, for db_nextrec; 0: not at a record
    map,       \* what the completed calls have stored
    due        \* what db_nextrec has still to return: the keys that were there
               \* at db_rewind and that nobody removed or moved since

vars == <<ptr, rec, dat, nidx, ndat, rd, wr, pc, db, pos, map, due>>
filevars == <<ptr, rec, dat, nidx, ndat>>
scanvars == <<pos, due>>

Slots == 1..MaxRec
Locks == Chains \cup {Free}
Data  == [key : Keys, val : Values]
Writing == {"insert", "replace", "store", "delete"}
Storing == {"insert", "replace", "store"}

PC == {"idle", "find", "readdat", "overwrite", "unlock", "dodelete", "deldat",
       "delidx", "delfree", "delptr", "findfree", "walkfree", "takefree",
       "appenddat", "appendidx", "reusedat", "reuseidx", "link",
       "nextrec", "nextdat", "nextret", "eof"}

\* The DB structure and the arguments: off is the record at hand, ptroff where
\* the pointer to it is, ptrval its own pointer, first the chain's pointer.
DB == [op : Writing \cup {"fetch", "nextrec", "none"}, key : Keys \cup {None},
       val : Values \cup {None}, off : 0..MaxRec, ptroff : Locks \cup Slots,
       ptrval : 0..MaxRec, datoff : 0..MaxRec, first : 0..MaxRec,
       res : Data \cup {Blank, None}]

\* The DB structure between calls.
Idle == [op |-> "none", key |-> None, val |-> None, off |-> 0, ptroff |-> Free,
         ptrval |-> 0, datoff |-> 0, first |-> 0, res |-> None]

Init ==
    /\ ptr = [l \in Locks \cup Slots |-> 0]
    /\ rec = [s \in Slots |-> [key |-> Blank, klen |-> 0, dat |-> 0, dlen |-> 0]]
    /\ dat = [s \in Slots |-> Blank]
    /\ nidx = 0 /\ ndat = 0
    /\ rd = [l \in Locks |-> {}] /\ wr = [l \in Locks |-> {}]
    /\ pc = [p \in Procs |-> "idle"] /\ db = [p \in Procs |-> Idle]
    /\ pos = [p \in Procs |-> 0]
    /\ map = [k \in Keys |-> None]
    /\ due = [p \in Procs |-> {}]

-----------------------------------------------------------------------------
Goto(p, l) == pc' = [pc EXCEPT ![p] = l]
Chain(p) == Hash[db[p].key]

\* fcntl: readw_lock, writew_lock and un_lock.
ReadLock(p, l) ==
    /\ wr[l] = {}
    /\ rd' = [rd EXCEPT ![l] = @ \cup {p}] /\ UNCHANGED wr
WriteLock(p, l) ==
    /\ wr[l] = {} /\ rd[l] = {}
    /\ wr' = [wr EXCEPT ![l] = {p}] /\ UNCHANGED rd
Unlock(p, l) ==
    /\ rd' = [rd EXCEPT ![l] = @ \ {p}]
    /\ wr' = [wr EXCEPT ![l] = @ \ {p}]

Bug_FetchNotLocked(p, op, k, v) ==
    /\ pc[p] = "idle"
    /\ op \in Storing <=> v \in Values
    /\ op \in Storing =>
          nidx + Cardinality({q \in Procs : db[q].op \in Storing}) < MaxRec
    /\ IF op \in Writing THEN WriteLock(p, Hash[k]) ELSE UNCHANGED <<rd, wr>>
    /\ db' = [db EXCEPT ![p] = [Idle EXCEPT !.op = op, !.key = k, !.val = v,
                                 !.ptroff = Hash[k], !.off = ptr[Hash[k]]]]
    /\ Goto(p, "find")
    /\ pos' = [pos EXCEPT ![p] = 0] /\ due' = [due EXCEPT ![p] = {}]
    /\ UNCHANGED <<filevars, map>>

\* db_fetch, db_delete or db_store with one of its three flags is called:
\* _db_find_and_lock locks the chain and reads its first pointer.  (Before it
\* has the lock the call has done nothing.)  The files may still grow by one
\* record for every db_store that has begun.
FindAndLock(p, op, k, v) ==
    /\ pc[p] = "idle"
    /\ op \in Storing <=> v \in Values
    /\ op \in Storing =>
          nidx + Cardinality({q \in Procs : db[q].op \in Storing}) < MaxRec
    /\ IF op \in Writing THEN WriteLock(p, Hash[k]) ELSE ReadLock(p, Hash[k])
    /\ db' = [db EXCEPT ![p] = [Idle EXCEPT !.op = op, !.key = k, !.val = v,
                                 !.ptroff = Hash[k], !.off = ptr[Hash[k]]]]
    /\ Goto(p, "find")
    /\ pos' = [pos EXCEPT ![p] = 0] /\ due' = [due EXCEPT ![p] = {}]
    /\ UNCHANGED <<filevars, map>>

\* The record at off is the one with the key: what each caller does next.
Found(p) ==
    LET s == db[p].off IN
    /\ db' = [db EXCEPT ![p].ptrval = ptr[s], ![p].datoff = rec[s].dat]
    /\ Goto(p, CASE db[p].op = "fetch"  -> "readdat"
                 [] db[p].op = "delete" -> "dodelete"
                 [] db[p].op = "insert" -> "unlock"
                 [] OTHER -> IF Length[db[p].val] = rec[s].dlen THEN "overwrite"
                                                                ELSE "dodelete")

\* The end of the chain is reached; db_store reads the chain's first pointer.
NotFound(p) ==
    /\ db' = [db EXCEPT ![p].first = ptr[Chain(p)]]
    /\ Goto(p, IF db[p].op \in {"insert", "store"} THEN "findfree" ELSE "unlock")

\* One round of the loop of _db_find_and_lock: _db_readidx.
Find(p) ==
    /\ pc[p] = "find"
    /\ \/ db[p].off = 0 /\ NotFound(p)
       \/ db[p].off # 0 /\ rec[db[p].off].key = db[p].key /\ Found(p)
       \/ /\ db[p].off # 0 /\ rec[db[p].off].key # db[p].key
          /\ db' = [db EXCEPT ![p].ptroff = db[p].off, ![p].off = ptr[db[p].off]]
          /\ UNCHANGED pc
    /\ UNCHANGED <<filevars, rd, wr, map, scanvars>>

\* _db_readdat for db_fetch.
FetchData(p) ==
    /\ pc[p] = "readdat"
    /\ db' = [db EXCEPT ![p].res = dat[db[p].datoff]]
    /\ Goto(p, "unlock")
    /\ UNCHANGED <<filevars, rd, wr, map, scanvars>>

\* The data is replaced by data of the same size.
NewData(p) == [key |-> db[p].key, val |-> db[p].val]

Overwrite(p) ==
    /\ pc[p] = "overwrite"
    /\ dat' = [dat EXCEPT ![db[p].datoff] = NewData(p)]
    /\ Goto(p, "unlock")
    /\ UNCHANGED <<ptr, rec, nidx, ndat, rd, wr, db, map, scanvars>>

-----------------------------------------------------------------------------
(* _db_dodelete: five accesses with the free list locked                   *)

DoDelete(p) ==
    /\ pc[p] = "dodelete"
    /\ WriteLock(p, Free)
    /\ due' = [q \in Procs |-> due[q] \ {db[p].key}]
    /\ Goto(p, "deldat")
    /\ UNCHANGED <<filevars, db, map, pos>>

DeleteData(p) ==
    /\ pc[p] = "deldat"
    /\ dat' = [dat EXCEPT ![db[p].datoff] = Blank]
    /\ Goto(p, "delidx")
    /\ UNCHANGED <<ptr, rec, nidx, ndat, rd, wr, db, map, scanvars>>

\* The free list pointer is read and becomes the pointer of the record.
DeleteIdx(p) ==
    /\ pc[p] = "delidx"
    /\ rec' = [rec EXCEPT ![db[p].off].key = Blank]
    /\ ptr' = [ptr EXCEPT ![db[p].off] = ptr[Free]]
    /\ Goto(p, "delfree")
    /\ UNCHANGED <<dat, nidx, ndat, rd, wr, db, map, scanvars>>

DeleteFree(p) ==
    /\ pc[p] = "delfree"
    /\ ptr' = [ptr EXCEPT ![Free] = db[p].off]
    /\ Goto(p, "delptr")
    /\ UNCHANGED <<rec, dat, nidx, ndat, rd, wr, db, map, scanvars>>

Bug_DeletePtrStaleFirst(p) ==
    /\ pc[p] = "delptr"
    /\ ptr' = [ptr EXCEPT ![db[p].ptroff] = db[p].ptrval]
    /\ Unlock(p, Free)
    /\ db' = [db EXCEPT ![p].first = ptr[Chain(p)]]
    /\ Goto(p, IF db[p].op = "delete" THEN "unlock" ELSE "appenddat")
    /\ UNCHANGED <<rec, dat, nidx, ndat, map, scanvars>>

\* The chain is closed over the record and the free list unlocked; db_store
\* reads the chain's first pointer again.
DeletePtr(p) ==
    /\ pc[p] = "delptr"
    /\ ptr' = [ptr EXCEPT ![db[p].ptroff] = db[p].ptrval]
    /\ Unlock(p, Free)
    /\ db' = [db EXCEPT ![p].first = ptr'[Chain(p)]]
    /\ Goto(p, IF db[p].op = "delete" THEN "unlock" ELSE "appenddat")
    /\ UNCHANGED <<rec, dat, nidx, ndat, map, scanvars>>

-----------------------------------------------------------------------------
(* _db_findfree and the writes of db_store                                 *)

Bug_FindFreeNotLocked(p) ==
    /\ pc[p] = "findfree"
    /\ db' = [db EXCEPT ![p].ptroff = Free, ![p].off = ptr[Free]]
    /\ Goto(p, "walkfree")
    /\ UNCHANGED <<filevars, rd, wr, map, scanvars>>

FindFree(p) ==
    /\ pc[p] = "findfree"
    /\ WriteLock(p, Free)
    /\ db' = [db EXCEPT ![p].ptroff = Free, ![p].off = ptr[Free]]
    /\ Goto(p, "walkfree")
    /\ UNCHANGED <<filevars, map, scanvars>>

Fits(p, s) ==
    rec[s].klen = Length[db[p].key] /\ rec[s].dlen = Length[db[p].val]

Bug_WalkFreeKeepsLock(p) ==
    /\ pc[p] = "walkfree"
    /\ LET s == db[p].off IN
       \/ /\ s = 0
          /\ Goto(p, "appenddat") /\ UNCHANGED <<db, rd, wr>>
       \/ /\ s # 0 /\ Fits(p, s)
          /\ db' = [db EXCEPT ![p].ptrval = ptr[s], ![p].datoff = rec[s].dat]
          /\ Goto(p, "takefree") /\ UNCHANGED <<rd, wr>>
       \/ /\ s # 0 /\ ~Fits(p, s)
          /\ db' = [db EXCEPT ![p].ptroff = s, ![p].off = ptr[s]]
          /\ UNCHANGED <<pc, rd, wr>>
    /\ UNCHANGED <<filevars, map, scanvars>>

\* One round of the loop: a record that fits is taken off the list.
WalkFree(p) ==
    /\ pc[p] = "walkfree"
    /\ LET s == db[p].off IN
       \/ /\ s = 0
          /\ Unlock(p, Free) /\ Goto(p, "appenddat") /\ UNCHANGED db
       \/ /\ s # 0 /\ Fits(p, s)
          /\ db' = [db EXCEPT ![p].ptrval = ptr[s], ![p].datoff = rec[s].dat]
          /\ Goto(p, "takefree") /\ UNCHANGED <<rd, wr>>
       \/ /\ s # 0 /\ ~Fits(p, s)
          /\ db' = [db EXCEPT ![p].ptroff = s, ![p].off = ptr[s]]
          /\ UNCHANGED <<pc, rd, wr>>
    /\ UNCHANGED <<filevars, map, scanvars>>

TakeFree(p) ==
    /\ pc[p] = "takefree"
    /\ ptr' = [ptr EXCEPT ![db[p].ptroff] = db[p].ptrval]
    /\ Unlock(p, Free)
    /\ Goto(p, "reusedat")
    /\ UNCHANGED <<rec, dat, nidx, ndat, db, map, scanvars>>

\* _db_writedat and _db_writeidx at the end of the files; the lock taken for it
\* makes lseek and write one step.
AppendData(p) ==
    /\ pc[p] = "appenddat"
    /\ ndat' = ndat + 1
    /\ dat' = [dat EXCEPT ![ndat + 1] = NewData(p)]
    /\ db' = [db EXCEPT ![p].datoff = ndat + 1]
    /\ Goto(p, "appendidx")
    /\ UNCHANGED <<ptr, rec, nidx, rd, wr, map, scanvars>>

\* The index record of db_store: key, chain pointer, and where the data is.
WriteIdx(p, s) ==
    /\ rec' = [rec EXCEPT ![s] = [key |-> db[p].key, klen |-> Length[db[p].key],
                                  dat |-> db[p].datoff, dlen |-> Length[db[p].val]]]
    /\ ptr' = [ptr EXCEPT ![s] = db[p].first]

AppendIdx(p) ==
    /\ pc[p] = "appendidx"
    /\ nidx' = nidx + 1
    /\ WriteIdx(p, nidx + 1)
    /\ db' = [db EXCEPT ![p].off = nidx + 1]
    /\ Goto(p, "link")
    /\ UNCHANGED <<dat, ndat, rd, wr, map, scanvars>>

\* A record from the free list is written again: first the data, then the key.
Reuse(p) ==
    /\ \/ pc[p] = "reusedat" /\ dat' = [dat EXCEPT ![db[p].datoff] = NewData(p)]
          /\ Goto(p, "reuseidx") /\ UNCHANGED <<rec, ptr>>
       \/ pc[p] = "reuseidx" /\ WriteIdx(p, db[p].off) /\ Goto(p, "link")
          /\ UNCHANGED dat
    /\ UNCHANGED <<nidx, ndat, rd, wr, db, map, scanvars>>

\* The new record becomes the first of its chain.
Link(p) ==
    /\ pc[p] = "link"
    /\ ptr' = [ptr EXCEPT ![Chain(p)] = db[p].off]
    /\ Goto(p, "unlock")
    /\ UNCHANGED <<rec, dat, nidx, ndat, rd, wr, db, map, scanvars>>

\* What the call has done to the database, by what it promises.
Outcome(p) ==
    LET k == db[p].key IN
    CASE db[p].op = "delete" -> None
      [] db[p].op = "insert" /\ map[k] = None -> db[p].val
      [] db[p].op = "replace" /\ map[k] # None -> db[p].val
      [] db[p].op = "store" -> db[p].val
      [] OTHER -> map[k]

\* The chain is unlocked and the call returns.
UnlockChain(p) ==
    /\ pc[p] = "unlock"
    /\ Unlock(p, Chain(p))
    /\ map' = [map EXCEPT ![db[p].key] = Outcome(p)]
    /\ db' = [db EXCEPT ![p] = Idle]
    /\ Goto(p, "idle")
    /\ UNCHANGED <<filevars, scanvars>>

-----------------------------------------------------------------------------
(* db_rewind and db_nextrec                                                *)

\* The keys that are in the database and that nobody is about to move.
Settled ==
    {k \in Keys : map[k] # None /\ \A q \in Procs :
                     db[q].op \in Writing => db[q].key # k}

Rewind(p) ==
    /\ pc[p] = "idle"
    /\ pos' = [pos EXCEPT ![p] = 1]
    /\ due' = [due EXCEPT ![p] = Settled]
    /\ UNCHANGED <<filevars, rd, wr, pc, db, map>>

Bug_NextrecNotLocked(p) ==
    /\ pc[p] = "idle" /\ pos[p] # 0
    /\ db' = [db EXCEPT ![p] = [Idle EXCEPT !.op = "nextrec"]]
    /\ Goto(p, "nextrec")
    /\ UNCHANGED <<filevars, rd, wr, map, scanvars>>

\* db_nextrec, called with the offset where db_rewind or the last db_nextrec
\* left it, read locks the free list.
CallNextrec(p) ==
    /\ pc[p] = "idle" /\ pos[p] # 0
    /\ ReadLock(p, Free)
    /\ db' = [db EXCEPT ![p] = [Idle EXCEPT !.op = "nextrec"]]
    /\ Goto(p, "nextrec")
    /\ UNCHANGED <<filevars, map, scanvars>>

Bug_NextrecMovesPastEnd(p) ==
    /\ pc[p] = "nextrec"
    /\ pos' = [pos EXCEPT ![p] = @ + 1]
    /\ IF pos[p] > nidx THEN Goto(p, "eof") /\ UNCHANGED db
       ELSE IF rec[pos[p]].key = Blank THEN UNCHANGED <<pc, db>>
       ELSE /\ db' = [db EXCEPT ![p].key = rec[pos[p]].key,
                                ![p].datoff = rec[pos[p]].dat]
            /\ Goto(p, "nextdat")
    /\ UNCHANGED <<filevars, rd, wr, map, due>>

Bug_NextrecStopsAtBlank(p) ==
    /\ pc[p] = "nextrec"
    /\ IF pos[p] > nidx THEN Goto(p, "eof") /\ UNCHANGED <<db, pos>>
       ELSE /\ pos' = [pos EXCEPT ![p] = @ + 1]
            /\ db' = [db EXCEPT ![p].key = rec[pos[p]].key,
                                ![p].datoff = rec[pos[p]].dat]
            /\ Goto(p, IF rec[pos[p]].key = Blank THEN "eof" ELSE "nextdat")
    /\ UNCHANGED <<filevars, rd, wr, map, due>>

\* One round of its loop: the next index record, or the end of the file.
Nextrec(p) ==
    /\ pc[p] = "nextrec"
    /\ IF pos[p] > nidx THEN Goto(p, "eof") /\ UNCHANGED <<db, pos>>
       ELSE /\ pos' = [pos EXCEPT ![p] = @ + 1]
            /\ IF rec[pos[p]].key = Blank THEN UNCHANGED <<pc, db>>
               ELSE /\ db' = [db EXCEPT ![p].key = rec[pos[p]].key,
                                        ![p].datoff = rec[pos[p]].dat]
                    /\ Goto(p, "nextdat")
    /\ UNCHANGED <<filevars, rd, wr, map, due>>

\* _db_readdat: the record is returned.
NextrecData(p) ==
    /\ pc[p] = "nextdat"
    /\ db' = [db EXCEPT ![p].res = dat[db[p].datoff]]
    /\ due' = [due EXCEPT ![p] = @ \ {db[p].key}]
    /\ Goto(p, "nextret")
    /\ UNCHANGED <<filevars, rd, wr, map, pos>>

\* The free list is unlocked and db_nextrec returns.
NextrecReturn(p) ==
    /\ pc[p] \in {"nextret", "eof"}
    /\ Unlock(p, Free)
    /\ db' = [db EXCEPT ![p] = Idle]
    /\ Goto(p, "idle")
    /\ UNCHANGED <<filevars, map, scanvars>>

-----------------------------------------------------------------------------
Running(p) ==
    \/ Find(p) \/ FetchData(p) \/ Overwrite(p)
    \/ DoDelete(p) \/ DeleteData(p) \/ DeleteIdx(p) \/ DeleteFree(p) \/ DeletePtr(p)
    \/ FindFree(p) \/ WalkFree(p) \/ TakeFree(p)
    \/ AppendData(p) \/ AppendIdx(p) \/ Reuse(p) \/ Link(p) \/ UnlockChain(p)
    \/ Nextrec(p) \/ NextrecData(p) \/ NextrecReturn(p)

Next ==
    \E p \in Procs :
        \/ Running(p) \/ Rewind(p) \/ CallNextrec(p)
        \/ \E op \in Writing \cup {"fetch"}, k \in Keys, v \in Values \cup {None} :
              FindAndLock(p, op, k, v)

Spec == Init /\ [][Next]_vars

-----------------------------------------------------------------------------
\* The records on the chain, or free list, that starts at l, by their distance.
Follow(s) == IF s = 0 THEN 0 ELSE ptr[s]

Walk(l) ==
    LET cell[i \in 0..MaxRec] == IF i = 0 THEN ptr[l] ELSE Follow(cell[i - 1])
    IN  cell

On(l) == LET w == Walk(l) IN {w[i] : i \in 0..MaxRec} \ {0}

TypeOK ==
    /\ ptr \in [Locks \cup Slots -> 0..MaxRec]
    /\ rec \in [Slots -> [key : Keys \cup {Blank}, klen : Nat, dat : 0..MaxRec,
                          dlen : Nat]]
    /\ dat \in [Slots -> Data \cup {Blank}]
    /\ nidx \in 0..MaxRec /\ ndat \in 0..MaxRec
    /\ rd \in [Locks -> SUBSET Procs] /\ wr \in [Locks -> SUBSET Procs]
    /\ pc \in [Procs -> PC] /\ db \in [Procs -> DB]
    /\ map \in [Keys -> Values \cup {None}]
    /\ pos \in [Procs -> 0..MaxRec + 1]
    /\ due \in [Procs -> SUBSET Keys]

\* A chain that nobody is writing holds exactly the records that the completed
\* calls have left: each key of the chain once, with its last value.
ChainsHoldMap ==
    \A h \in {c \in Chains : wr[c] = {}} :
        LET on == On(h) IN
        /\ Walk(h)[MaxRec] = 0
        /\ \A s \in on : rec[s].key \in Keys /\ Hash[rec[s].key] = h
        /\ \A s, t \in on : rec[s].key = rec[t].key => s = t
        /\ {dat[rec[s].dat] : s \in on}
             = {[key |-> k, val |-> map[k]] :
                   k \in {x \in Keys : Hash[x] = h /\ map[x] # None}}

\* The records some db_store has in hand: off the free list, not yet on a chain.
InHand == {db[p].off : p \in {q \in Procs : pc[q] \in {"reusedat", "reuseidx",
                                                       "link"}}}

\* Outside the critical sections of the free list every record of the index
\* file is in exactly one place: on a chain, on the free list or in the hands
\* of one process; no record is lost and none is used twice.
RecordsConserved ==
    wr[Free] = {} =>
        /\ Walk(Free)[MaxRec] = 0
        /\ LET on == [l \in Locks |-> On(l)] IN
           \A s \in 1..nidx : Cardinality({l \in Locks : s \in on[l]})
                                + (IF s \in InHand THEN 1 ELSE 0) = 1
        /\ \A s \in On(Free) : rec[s].key = Blank

\* db_fetch returns what the completed calls have stored under its key.
FetchIsRight ==
    \A p \in Procs : pc[p] = "unlock" /\ db[p].op = "fetch" =>
        db[p].res = IF map[db[p].key] = None THEN None
                    ELSE [key |-> db[p].key, val |-> map[db[p].key]]

\* db_nextrec returns a key together with data that was stored under it, never
\* a record that is half deleted or half written, although it locks no chain.
NextrecIsWhole ==
    \A p \in Procs : pc[p] = "nextret" =>
        db[p].res # Blank /\ db[p].res.key = db[p].key

\* When db_nextrec says that there are no more records, it has returned every
\* key that was there since db_rewind, whatever the others did meanwhile.
ScanIsComplete == \A p \in Procs : pc[p] = "eof" => due[p] = {}

\* Whoever holds a lock is in a call, and whoever holds the free list waits for
\* no other lock: _db_dodelete and _db_findfree take it last and db_nextrec takes
\* it alone, so nobody waits in a circle, and no way out of a call keeps a lock.
LocksOrdered ==
    /\ \A c \in Chains : \A p \in rd[c] \cup wr[c] : pc[p] # "idle"
    /\ \A p \in rd[Free] \cup wr[Free] : pc[p] \notin {"idle", "dodelete", "findfree"}
=============================================================================
