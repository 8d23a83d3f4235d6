----------------------------- MODULE Db_proofs -----------------------------
(***************************************************************************)
(* Proofs about the database library, for any number of processes, keys,   *)
(* chains and records.                                                     *)
(*                                                                         *)
(* The inductive invariant has six parts, each shown to be kept with the   *)
(* help of the ones before it: the types and the bounds of the files; the  *)
(* locks that each place in the code holds; the lists; where the data of   *)
(* the records is; the values that the chains hold; and what a scan with   *)
(* db_nextrec still has ahead of it.                                       *)
(*                                                                         *)
(* _db_dodelete writes three pointers, one after the other, and between    *)
(* them a record is on its chain and on the free list at once.  The lists  *)
(* are therefore described by the links, the pointers as they are when the *)
(* deletion under way is done.  A process that holds a lock on a list      *)
(* finds the links of that list in the file, and a step of a process that  *)
(* has not write locked a list leaves it alone: this is how the facts of   *)
(* one call survive the steps of the others.                               *)
(***************************************************************************)
EXTENDS Db, LinkedLists

\* _db_dodelete has written the index record and not yet all of the pointers.
Closing(p) == pc[p] \in {"delfree", "delptr"}

\* The pointers as they will be when the deletion under way, if any, is done.
links ==
    IF \E p \in Procs : Closing(p)
    THEN LET p == CHOOSE q \in Procs : Closing(q)
         IN  [ptr EXCEPT ![Free] = db[p].off, ![db[p].ptroff] = db[p].ptrval]
    ELSE ptr

\* The records on list l.
List(l) == Reach(links, Slots, links[l])

\* The records of the index file.
Records == 1..nidx

-----------------------------------------------------------------------------
(* Types, operations and bounds                                            *)

\* Where a call may be, by its operation.
MayDelete  == {"dodelete", "deldat", "delidx", "delfree", "delptr"}
MayAppend  == {"appenddat", "appendidx", "link"}
MayReuse   == {"findfree", "walkfree", "takefree", "reusedat", "reuseidx"}
MayScan    == {"nextrec", "nextdat", "nextret", "eof"}

\* Which operations reach which place of the code, with which arguments.
OpsOK(p) ==
    LET o == db[p].op IN
    /\ pc[p] \in PC
    /\ pc[p] = "idle" <=> o = "none"
    /\ pc[p] \in MayScan <=> o = "nextrec"
    /\ pc[p] \in MayScan => pos[p] # 0
    /\ pc[p] = "readdat" => o = "fetch"
    /\ pc[p] = "overwrite" => o \in {"replace", "store"}
    /\ pc[p] \in MayDelete => o \in {"delete", "replace", "store"}
    /\ pc[p] \in MayAppend => o \in Storing
    /\ pc[p] \in MayReuse => o \in {"insert", "store"}
    /\ o \in Writing \cup {"fetch"} => db[p].key \in Keys
    /\ o \in Storing => db[p].val \in Values

\* The calls of db_store that may still append, and those that have appended the
\* data and not yet the index record.
Pending == {p \in Procs : db[p].op \in Storing /\ pc[p] \notin {"link", "unlock"}}
Appending == {p \in Procs : pc[p] = "appendidx"}

\* There is room for all of them, and a data record for every index record.
BoundsOK ==
    /\ nidx + Cardinality(Pending) <= MaxRec
    /\ ndat = nidx + Cardinality(Appending)

\* Pointers and data offsets lie within the files.
FilePlaces ==
    /\ \A x \in Locks \cup Slots : ptr[x] <= nidx
    /\ \A s \in Records : rec[s].dat \in 1..ndat

\* Where off, or datoff, is the place of a record.
AtRecord == MayDelete \cup {"readdat", "overwrite", "takefree", "reusedat", "reuseidx",
                            "link"}
AtData == {"readdat", "overwrite", "dodelete", "deldat", "takefree", "appendidx",
           "reusedat", "reuseidx", "nextdat"}

\* The offsets of a call lie within the files.
CallPlaces(p) ==
    /\ db[p].off <= nidx /\ db[p].ptrval <= nidx /\ db[p].first <= nidx
    /\ pc[p] \in AtRecord => db[p].off # 0
    /\ pc[p] \in AtData => db[p].datoff \in 1..ndat

\* All offsets lie within the files.
PlacesOK == FilePlaces /\ \A p \in Procs : CallPlaces(p)

\* The types, the bounds and the places of calls.
TypeInv == /\ TypeOK /\ BoundsOK /\ PlacesOK
           /\ \A p \in Procs : OpsOK(p)

-----------------------------------------------------------------------------
(* Locks                                                                   *)

\* Where the free list is write locked.
HoldsFree == {"deldat", "delidx", "delfree", "delptr", "walkfree", "takefree"}

\* One writer and no reader beside it.
Exclusive == \A l \in Locks : \A p \in wr[l] : wr[l] = {p} /\ rd[l] = {}

\* The locks of a call.
LocksOK(p) ==
    /\ db[p].op \in Writing => p \in wr[Chain(p)]
    /\ db[p].op = "fetch" => p \in rd[Chain(p)]
    /\ pc[p] \in HoldsFree => p \in wr[Free]
    /\ pc[p] \in MayScan => p \in rd[Free]
    /\ \A l \in Locks : p \in wr[l] => \/ db[p].op \in Writing /\ l = Chain(p)
                                       \/ pc[p] \in HoldsFree /\ l = Free

\* The locks.
LockInv == Exclusive /\ \A p \in Procs : LocksOK(p)

-----------------------------------------------------------------------------
(* The lists                                                               *)

\* The links form a list for each chain and for the free list; no record is on two.
ListsOK ==
    /\ \A l \in Locks : IsList(links, Slots, l) /\ List(l) \subseteq Records
    /\ \A l, m \in Locks : l # m => List(l) \cap List(m) = {}

\* db_store has its record in hand: off the free list, not yet on the chain.
Holding(p) == pc[p] \in {"reusedat", "reuseidx", "link"}

\* A record in hand is on no list and in one hand; no record is lost.
HandsOK ==
    /\ \A p \in Procs : Holding(p) => \A l \in Locks : db[p].off \notin List(l)
    /\ \A p, q \in Procs : Holding(p) /\ Holding(q) /\ db[p].off = db[q].off => p = q
    /\ \A s \in Records : \/ \E l \in Locks : s \in List(l)
                          \/ \E p \in Procs : Holding(p) /\ db[p].off = s

\* The free list holds blank records, a chain records of its keys, each key once.
KeysOK ==
    /\ \A s \in List(Free) : rec[s].key = Blank
    /\ \A c \in Chains : \A s \in List(c) :
          rec[s].key \in Keys /\ Hash[rec[s].key] = c
    /\ \A c \in Chains : \A s, t \in List(c) : rec[s].key = rec[t].key => s = t

\* No record of the chain has key k.
Absent(k) == \A s \in List(Hash[k]) : rec[s].key # k

\* The record at hand, and the cell of list l that points to it.
At(p, l) ==
    db[p].ptroff \in {l} \cup List(l) /\ links[db[p].ptroff] = db[p].off

\* _db_find_and_lock has not gone past the record of the key.
Searching(p) ==
    At(p, Chain(p)) /\ \A s \in List(Chain(p)) :
        rec[s].key = db[p].key => s \in Reach(links, Slots, db[p].off)

\* The record at hand has been read: its pointer and its data offset are known.
Hit(p, l) ==
    /\ At(p, l) /\ db[p].off # 0
    /\ db[p].ptrval = links[db[p].off] /\ db[p].datoff = rec[db[p].off].dat

\* Where the record of the key has been read, where the chain has none, and where
\* first is the first pointer of the chain.
Known == {"readdat", "overwrite", "dodelete", "deldat", "delidx"}
Without == {"delfree", "delptr"} \cup MayReuse \cup MayAppend
First == MayReuse \cup {"appenddat", "appendidx"}

\* What a call knows of its chain.
ChainFacts(p) ==
    /\ pc[p] = "find" => Searching(p)
    /\ pc[p] \in Known => Hit(p, Chain(p)) /\ rec[db[p].off].key = db[p].key
    /\ Closing(p) => db[p].ptroff \in {Chain(p)} \cup List(Chain(p))
    /\ pc[p] \in Without => Absent(db[p].key)
    /\ pc[p] \in First => db[p].first = links[Chain(p)]
    /\ pc[p] = "link" => /\ links[db[p].off] = links[Chain(p)]
                         /\ rec[db[p].off].key = db[p].key

\* What a call knows of the free list.
FreeFacts(p) ==
    /\ pc[p] = "walkfree" => At(p, Free)
    /\ pc[p] = "takefree" => Hit(p, Free)
    /\ pc[p] = "delptr" => ptr[Free] = db[p].off

\* The lists, and what the calls know of them.
ListInv == /\ ListsOK /\ HandsOK /\ KeysOK
           /\ \A p \in Procs : ChainFacts(p) /\ FreeFacts(p)

-----------------------------------------------------------------------------
(* The data                                                                *)

\* No two records have their data in the same place.
PlacesApart ==
    /\ \A s, t \in Records : rec[s].dat = rec[t].dat => s = t
    /\ \A p \in Appending : \A s \in Records : rec[s].dat # db[p].datoff
    /\ \A p, q \in Appending : db[p].datoff = db[q].datoff => p = q

\* The data of a record is already blank and its key is not.
Half(s) == \E p \in Procs : pc[p] = "delidx" /\ db[p].off = s

\* A record with a key has data of this key.
Whole ==
    \A s \in Records : rec[s].key \in Keys /\ ~Half(s) =>
        dat[rec[s].dat] \in Data /\ dat[rec[s].dat].key = rec[s].key

\* What db_store knows of the record in its hand.
HandFacts(p) ==
    /\ pc[p] \in {"reusedat", "reuseidx"} =>
          rec[db[p].off].key = Blank /\ rec[db[p].off].dat = db[p].datoff
    /\ pc[p] = "link" => dat[rec[db[p].off].dat] = NewData(p)
    /\ pc[p] \in {"reuseidx", "appendidx"} => dat[db[p].datoff] = NewData(p)

\* What db_nextrec has read belongs to one record.
NextFacts(p) ==
    pc[p] = "nextdat" =>
        /\ db[p].key \in Keys
        /\ \E s \in Records : rec[s].key = db[p].key /\ rec[s].dat = db[p].datoff

\* The data of the records, and what the calls know of it.
DataInv == /\ PlacesApart /\ Whole
           /\ \A p \in Procs : HandFacts(p) /\ NextFacts(p)

-----------------------------------------------------------------------------
(* The values                                                              *)

\* The chain of key k holds value v for it; None: it holds no record of it.
Holds(k, v) ==
    /\ \A s \in List(Hash[k]) : rec[s].key = k =>
          v # None /\ dat[rec[s].dat] = [key |-> k, val |-> v]
    /\ v # None => \E s \in List(Hash[k]) : rec[s].key = k

\* Where a writer may have changed the value of its key, until it returns.
Changed == {"delidx", "delfree", "delptr", "unlock"} \cup MayAppend

\* Some writer may have changed the value of key k and has not returned.
Changing(k) ==
    \E p \in Procs : db[p].op \in Writing /\ db[p].key = k /\ pc[p] \in Changed

\* What a call knows of the value of its key.
CallFacts(p) ==
    /\ pc[p] = "find" => db[p].res = None
    /\ pc[p] = "unlock" /\ db[p].op \in Writing => Holds(db[p].key, Outcome(p))
    /\ pc[p] = "unlock" /\ db[p].op = "fetch" =>
          db[p].res = IF map[db[p].key] = None THEN None
                      ELSE [key |-> db[p].key, val |-> map[db[p].key]]
    /\ pc[p] \in MayReuse => map[db[p].key] = None
    /\ pc[p] \in MayDelete \cup {"overwrite"} => map[db[p].key] # None
    /\ pc[p] \in MayAppend =>
          /\ db[p].op = "insert" => map[db[p].key] = None
          /\ db[p].op = "replace" => map[db[p].key] # None

\* A key that nobody is changing has the value of the last call that has returned.
ValueInv ==
    /\ \A k \in Keys : ~Changing(k) => Holds(k, map[k])
    /\ \A p \in Procs : CallFacts(p)

-----------------------------------------------------------------------------
(* db_nextrec                                                              *)

\* db_nextrec will come to a record with key k, or has just read it.
Ahead(p, k) ==
    \/ pc[p] = "nextdat" /\ db[p].key = k
    \/ \E s \in Records : pos[p] <= s /\ rec[s].key = k

\* What is due to a scan is ahead of it, no deletion is under way for it, and what
\* db_nextrec returns is whole.
ScanInv ==
    /\ \A p \in Procs :
          /\ pos[p] = 0 => due[p] = {}
          /\ \A k \in due[p] : Ahead(p, k)
          /\ pc[p] \in {"deldat", "delidx"} => \A q \in Procs : db[p].key \notin due[q]
          /\ pc[p] = "eof" => due[p] = {}
          /\ pc[p] = "nextret" => db[p].res \in Data /\ db[p].res.key = db[p].key

\* The inductive invariant.
DbInv == TypeInv /\ LockInv /\ ListInv /\ DataInv /\ ValueInv /\ ScanInv

-----------------------------------------------------------------------------
(* One step of process p                                                   *)

Step(p) ==
    \/ Running(p) \/ Rewind(p) \/ CallNextrec(p)
    \/ \E op \in Writing \cup {"fetch"}, k \in Keys, v \in Values \cup {None} :
          FindAndLock(p, op, k, v)

\* The next-state relation is a step of one process.
LEMMA NextIsStep == Next <=> \E p \in Procs : Step(p)
  BY DEF Next, Step

\* A step of one process leaves the state of the others alone.
LEMMA OthersStay ==
    ASSUME TypeOK, NEW p \in Procs, Step(p), NEW q \in Procs, q # p
    PROVE  pc'[q] = pc[q] /\ db'[q] = db[q] /\ pos'[q] = pos[q]
  <1> USE DEF TypeOK, Goto, filevars, scanvars
  <1>1. CASE Running(p)
    <2>1. CASE Find(p)
      BY <2>1 DEF Find, Found, NotFound
    <2>2. CASE FetchData(p) \/ Overwrite(p) \/ DoDelete(p) \/ DeleteData(p)
      BY <2>2 DEF FetchData, Overwrite, DoDelete, DeleteData
    <2>3. CASE DeleteIdx(p) \/ DeleteFree(p) \/ DeletePtr(p)
      BY <2>3 DEF DeleteIdx, DeleteFree, DeletePtr
    <2>4. CASE FindFree(p) \/ WalkFree(p) \/ TakeFree(p)
      BY <2>4 DEF FindFree, WalkFree, TakeFree
    <2>5. CASE AppendData(p) \/ AppendIdx(p) \/ Reuse(p) \/ Link(p) \/ UnlockChain(p)
      BY <2>5 DEF AppendData, AppendIdx, Reuse, Link, UnlockChain
    <2>6. CASE Nextrec(p)
      BY <2>6 DEF Nextrec
    <2>7. CASE NextrecData(p) \/ NextrecReturn(p)
      BY <2>7 DEF NextrecData, NextrecReturn
    <2> QED
      BY <1>1, <2>1, <2>2, <2>3, <2>4, <2>5, <2>6, <2>7 DEF Running
  <1>2. CASE Rewind(p) \/ CallNextrec(p)
    BY <1>2 DEF Rewind, CallNextrec
  <1>3. CASE \E op \in Writing \cup {"fetch"}, k \in Keys, v \in Values \cup {None} :
                FindAndLock(p, op, k, v)
    BY <1>3 DEF FindAndLock
  <1> QED
    BY <1>1, <1>2, <1>3 DEF Step

\* The steps within a call, and what they leave of the call's arguments.
Acting(p) ==
    \/ Find(p) \/ FetchData(p) \/ Overwrite(p)
    \/ DoDelete(p) \/ DeleteData(p) \/ DeleteIdx(p) \/ DeleteFree(p) \/ DeletePtr(p)
    \/ FindFree(p) \/ WalkFree(p) \/ TakeFree(p)
    \/ AppendData(p) \/ AppendIdx(p) \/ Reuse(p) \/ Link(p)

\* A step within a call leaves the operation and the arguments of the call.
LEMMA ArgumentsStay ==
    ASSUME TypeOK, NEW p \in Procs, Acting(p) \/ NextrecData(p) \/ Rewind(p)
    PROVE  /\ db'[p].op = db[p].op /\ db'[p].key = db[p].key
           /\ db'[p].val = db[p].val
           /\ ~Rewind(p) => pos'[p] = pos[p]
  <1> USE DEF TypeOK, Goto, filevars, scanvars
  <1>1. db[p] \in DB
    OBVIOUS
  <1>2. CASE Find(p)
    BY <1>1, <1>2 DEF Find, Found, NotFound, DB
  <1>3. CASE FetchData(p) \/ Overwrite(p) \/ DoDelete(p) \/ DeleteData(p)
    BY <1>1, <1>3 DEF FetchData, Overwrite, DoDelete, DeleteData, DB
  <1>4. CASE DeleteIdx(p) \/ DeleteFree(p) \/ DeletePtr(p)
    BY <1>1, <1>4 DEF DeleteIdx, DeleteFree, DeletePtr, DB
  <1>5. CASE FindFree(p) \/ WalkFree(p) \/ TakeFree(p)
    BY <1>1, <1>5 DEF FindFree, WalkFree, TakeFree, DB
  <1>6. CASE AppendData(p) \/ AppendIdx(p) \/ Reuse(p) \/ Link(p)
    BY <1>1, <1>6 DEF AppendData, AppendIdx, Reuse, Link, DB
  <1>7. CASE NextrecData(p) \/ Rewind(p)
    BY <1>1, <1>7 DEF NextrecData, Rewind, DB
  <1> QED
    BY <1>2, <1>3, <1>4, <1>5, <1>6, <1>7 DEF Acting

\* Each place of a call is reached by the operations it belongs to only.
LEMMA OpsStep ==
    ASSUME TypeInv, NEW p \in Procs, Step(p)
    PROVE  \A q \in Procs : OpsOK(q)'
  <1> SUFFICES OpsOK(p)'
    BY OthersStay DEF TypeInv, OpsOK, TypeOK
  <1>1. TypeOK /\ OpsOK(p)
    BY DEF TypeInv
  <1>2. db[p] \in DB /\ pc \in [Procs -> PC]
    BY <1>1 DEF TypeOK
  <1>3. db[p].op \in Writing \cup {"fetch", "nextrec", "none"}
    BY <1>2 DEF DB
  <1>4. CASE Acting(p) \/ NextrecData(p) \/ Rewind(p)
    <2>1. /\ db'[p].op = db[p].op /\ db'[p].key = db[p].key
          /\ db'[p].val = db[p].val
          /\ ~Rewind(p) => pos'[p] = pos[p]
      BY <1>1, <1>4, ArgumentsStay
    <2> USE <1>1, <1>2, <1>3, <2>1 DEF Goto, OpsOK, PC, MayDelete, MayAppend, MayReuse,
                                      MayScan, Writing, Storing
    <2>2. CASE Find(p)
      BY <2>2 DEF Find, Found, NotFound
    <2>3. CASE FetchData(p) \/ Overwrite(p) \/ DoDelete(p) \/ DeleteData(p)
      BY <2>3 DEF FetchData, Overwrite, DoDelete, DeleteData
    <2>4. CASE DeleteIdx(p) \/ DeleteFree(p) \/ DeletePtr(p)
      BY <2>4 DEF DeleteIdx, DeleteFree, DeletePtr
    <2>5. CASE FindFree(p) \/ WalkFree(p) \/ TakeFree(p)
      BY <2>5 DEF FindFree, WalkFree, TakeFree
    <2>6. CASE AppendData(p) \/ AppendIdx(p) \/ Reuse(p) \/ Link(p)
      BY <2>6 DEF AppendData, AppendIdx, Reuse, Link
    <2>7. CASE NextrecData(p)
      BY <2>7 DEF NextrecData
    <2>8. CASE Rewind(p)
      BY <2>8 DEF Rewind
    <2> QED
      BY <1>4, <2>2, <2>3, <2>4, <2>5, <2>6, <2>7, <2>8 DEF Acting
  <1> USE <1>1, <1>2, <1>3 DEF Goto, OpsOK, PC, MayDelete, MayAppend, MayReuse,
                               MayScan, Writing, Storing, scanvars, TypeOK
  <1>5. CASE UnlockChain(p) \/ NextrecReturn(p)
    BY <1>5 DEF UnlockChain, NextrecReturn, Idle
  <1>6. CASE Nextrec(p)
    BY <1>6 DEF Nextrec, DB
  <1>7. CASE CallNextrec(p)
    BY <1>7 DEF CallNextrec, Idle
  <1>8. ASSUME NEW op \in Writing \cup {"fetch"}, NEW k \in Keys,
                NEW v \in Values \cup {None}, FindAndLock(p, op, k, v)
         PROVE  OpsOK(p)'
    BY <1>8 DEF FindAndLock, Idle
  <1> QED
    BY <1>4, <1>5, <1>6, <1>7, <1>8 DEF Step, Running, Acting

\* The room that db_store needs is kept for it until it has appended.
LEMMA BoundsStep ==
    ASSUME TypeInv, NEW p \in Procs, Step(p), \A q \in Procs : OpsOK(q)'
    PROVE  BoundsOK'
  <1> USE DEF TypeInv, BoundsOK
  <1>1. IsFiniteSet(Pending) /\ IsFiniteSet(Appending)
    BY FS_Subset, DbAssumption DEF Pending, Appending
  <1>2. Cardinality(Pending) \in Nat /\ Cardinality(Appending) \in Nat
    BY <1>1, FS_CardinalityType
  <1>3. nidx \in Nat /\ ndat \in Nat /\ MaxRec \in Nat
    BY DbAssumption DEF TypeOK
  <1>4. \A q \in Procs : q # p => pc'[q] = pc[q] /\ db'[q] = db[q]
    BY OthersStay
  <1>5. CASE AppendData(p)
    <2>1. Pending' = Pending
      BY <1>4, <1>5, ArgumentsStay DEF Pending, Acting, AppendData, Goto, TypeOK
    <2>2. Appending' = Appending \cup {p} /\ p \notin Appending
      BY <1>4, <1>5 DEF Appending, AppendData, Goto, TypeOK
    <2>3. Cardinality(Appending') = Cardinality(Appending) + 1
      BY <1>1, <2>2, FS_AddElement
    <2> QED
      BY <1>2, <1>3, <1>5, <2>1, <2>3 DEF AppendData
  <1>6. CASE AppendIdx(p)
    <2>1. Pending' = Pending \ {p} /\ p \in Pending
      BY <1>4, <1>6, ArgumentsStay
         DEF Pending, Acting, AppendIdx, Goto, TypeOK, OpsOK, MayAppend
    <2>2. Appending' = Appending \ {p} /\ p \in Appending
      BY <1>4, <1>6 DEF Appending, AppendIdx, Goto, TypeOK
    <2>3. /\ Cardinality(Pending') = Cardinality(Pending) - 1
          /\ Cardinality(Appending') = Cardinality(Appending) - 1
      BY <1>1, <2>1, <2>2, FS_RemoveElement
    <2> QED
      BY <1>2, <1>3, <1>6, <2>3 DEF AppendIdx
  <1>7. ASSUME NEW op \in Writing \cup {"fetch"}, NEW k \in Keys,
                NEW v \in Values \cup {None}, FindAndLock(p, op, k, v)
        PROVE  BoundsOK'
    <2>1. Appending' = Appending /\ nidx' = nidx /\ ndat' = ndat
      BY <1>4, <1>7 DEF Appending, FindAndLock, Goto, TypeOK, filevars
    <2>2. CASE op \notin Storing
      <3>1. Pending' = Pending
        BY <1>4, <1>7, <2>2 DEF Pending, FindAndLock, Goto, TypeOK, OpsOK, Idle, Storing
      <3> QED
        BY <2>1, <3>1
    <2>3. CASE op \in Storing
      <3> DEFINE Open == {q \in Procs : db[q].op \in Storing}
      <3>1. Pending' \subseteq Open \cup {p}
        BY <1>4 DEF Pending
      <3>2. IsFiniteSet(Open) /\ Cardinality(Open) \in Nat
        BY DbAssumption, FS_Subset, FS_CardinalityType
      <3>3. IsFiniteSet(Open \cup {p}) /\ Cardinality(Open \cup {p}) = Cardinality(Open) + 1
        <4>1. p \notin Open
          BY <1>7 DEF FindAndLock, OpsOK, Storing
        <4> HIDE DEF Open
        <4> QED
          BY <3>2, <4>1, FS_AddElement
      <3>4. nidx + Cardinality(Open) < MaxRec
        BY <1>7, <2>3 DEF FindAndLock
      <3>5. Cardinality(Pending') <= Cardinality(Open \cup {p}) /\ IsFiniteSet(Pending')
        BY <3>1, <3>3, FS_Subset
      <3>6. Cardinality(Pending') \in Nat /\ Cardinality(Open \cup {p}) \in Nat
        BY <3>3, <3>5, FS_CardinalityType
      <3> HIDE DEF Open
      <3> QED
        BY <1>2, <1>3, <2>1, <3>2, <3>3, <3>4, <3>5, <3>6
    <2> QED
      BY <2>2, <2>3
  <1>8. ASSUME ~AppendData(p), ~AppendIdx(p),
               ~\E op \in Writing \cup {"fetch"}, k \in Keys, v \in Values \cup {None} :
                   FindAndLock(p, op, k, v)
        PROVE  BoundsOK'
    <2>1. Pending' \subseteq Pending /\ Appending' = Appending /\ nidx' = nidx /\ ndat' = ndat
      <3> SUFFICES /\ (p \in Pending' => p \in Pending)
                   /\ (p \in Appending' <=> p \in Appending)
                   /\ nidx' = nidx /\ ndat' = ndat
        BY <1>4 DEF Pending, Appending
      <3>1. CASE Acting(p)
        <4>1. db'[p].op = db[p].op
          BY <3>1, ArgumentsStay
        <4> USE <4>1 DEF Pending, Appending, Goto, TypeOK, filevars
        <4>2. CASE Find(p)
          BY <4>2 DEF Find, Found, NotFound
        <4>3. CASE FetchData(p) \/ Overwrite(p) \/ DoDelete(p) \/ DeleteData(p)
          BY <4>3 DEF FetchData, Overwrite, DoDelete, DeleteData
        <4>4. CASE DeleteIdx(p) \/ DeleteFree(p) \/ DeletePtr(p)
          BY <4>4 DEF DeleteIdx, DeleteFree, DeletePtr
        <4>5. CASE FindFree(p) \/ WalkFree(p) \/ TakeFree(p)
          BY <4>5 DEF FindFree, WalkFree, TakeFree
        <4>6. CASE Reuse(p) \/ Link(p)
          BY <4>6 DEF Reuse, Link
        <4> QED
          BY <1>8, <3>1, <4>2, <4>3, <4>4, <4>5, <4>6 DEF Acting
      <3> USE DEF Pending, Appending, Goto, TypeOK, filevars, OpsOK, Storing, MayScan, DB
      <3>2. CASE Nextrec(p)
        BY <3>2 DEF Nextrec
      <3>3. CASE NextrecData(p) \/ Rewind(p)
        BY <3>3 DEF NextrecData, Rewind
      <3>4. CASE UnlockChain(p) \/ NextrecReturn(p) \/ CallNextrec(p)
        BY <3>4 DEF UnlockChain, NextrecReturn, CallNextrec, Idle
      <3> QED
        BY <1>8, <3>1, <3>2, <3>3, <3>4 DEF Step, Running, Acting
    <2>2. Cardinality(Pending') <= Cardinality(Pending) /\ IsFiniteSet(Pending')
      BY <1>1, <2>1, FS_Subset
    <2>3. Cardinality(Pending') \in Nat
      BY <2>2, FS_CardinalityType
    <2> QED
      BY <1>2, <1>3, <2>1, <2>2, <2>3
  <1> QED
    BY <1>5, <1>6, <1>7, <1>8

\* A process that is about to append finds room.
LEMMA Room ==
    ASSUME TypeInv, NEW p \in Procs
    PROVE  /\ pc[p] \in {"appenddat", "appendidx"} => nidx + 1 \in Slots
           /\ pc[p] = "appenddat" => ndat + 1 \in Slots
           /\ nidx <= ndat
  <1> USE DEF TypeInv, BoundsOK, Slots
  <1>1. IsFiniteSet(Pending) /\ IsFiniteSet(Appending) /\ Appending \subseteq Pending
    BY FS_Subset, DbAssumption DEF Pending, Appending, OpsOK, MayAppend
  <1>2. Cardinality(Pending) \in Nat /\ Cardinality(Appending) \in Nat
    BY <1>1, FS_CardinalityType
  <1>3. nidx \in Nat /\ ndat \in Nat /\ MaxRec \in Nat
    BY DbAssumption DEF TypeOK
  <1>4. CASE pc[p] \in {"appenddat", "appendidx"}
    <2>1. p \in Pending
      BY <1>4 DEF Pending, OpsOK, MayAppend
    <2>2. Cardinality(Pending \ {p}) = Cardinality(Pending) - 1
      BY <1>1, <2>1, FS_RemoveElement
    <2>3. Cardinality(Pending \ {p}) \in Nat
      BY <1>1, FS_RemoveElement, FS_CardinalityType
    <2>4. CASE pc[p] = "appenddat"
      <3>1. Appending \subseteq Pending \ {p} /\ IsFiniteSet(Pending \ {p})
        BY <1>1, <2>4, FS_RemoveElement DEF Appending
      <3>2. Cardinality(Appending) <= Cardinality(Pending \ {p})
        BY <3>1, FS_Subset
      <3> QED
        BY <1>2, <1>3, <2>2, <2>3, <3>2
    <2> QED
      BY <1>2, <1>3, <1>4, <2>2, <2>3, <2>4
  <1> QED
    BY <1>2, <1>3, <1>4

\* The types of the files after a step.
LEMMA FilesStep ==
    ASSUME TypeInv, NEW p \in Procs, Step(p)
    PROVE  /\ ptr' \in [Locks \cup Slots -> 0..MaxRec]
           /\ rec' \in [Slots -> [key : Keys \cup {Blank}, klen : Nat, dat : 0..MaxRec,
                                  dlen : Nat]]
           /\ dat' \in [Slots -> Data \cup {Blank}]
           /\ nidx' \in 0..MaxRec /\ ndat' \in 0..MaxRec
  <1>1. /\ ptr \in [Locks \cup Slots -> 0..MaxRec]
        /\ rec \in [Slots -> [key : Keys \cup {Blank}, klen : Nat, dat : 0..MaxRec,
                              dlen : Nat]]
        /\ dat \in [Slots -> Data \cup {Blank}]
        /\ nidx \in 0..MaxRec /\ ndat \in 0..MaxRec /\ MaxRec \in Nat
    BY DbAssumption DEF TypeInv, TypeOK
  <1>2. /\ db[p].off \in 0..MaxRec /\ db[p].ptrval \in 0..MaxRec
        /\ db[p].first \in 0..MaxRec /\ db[p].datoff \in 0..MaxRec
    BY DEF TypeInv, TypeOK, DB
  <1>3. /\ pc[p] \in {"appenddat", "appendidx"} => nidx + 1 \in Slots
        /\ pc[p] = "appenddat" => ndat + 1 \in Slots
    BY Room
  <1>4. pc[p] \in MayAppend \cup MayReuse \cup {"overwrite"} =>
          /\ NewData(p) \in Data
          /\ db[p].key \in Keys
          /\ Length[db[p].key] \in Nat /\ Length[db[p].val] \in Nat
    BY DbAssumption DEF TypeInv, OpsOK, NewData, Data, Storing, Writing
  <1> USE <1>1, <1>2 DEF filevars
  <1>5. CASE Overwrite(p) \/ DeleteData(p)
    BY <1>4, <1>5 DEF Overwrite, DeleteData
  <1>6. CASE DeleteIdx(p)
    <2>1. ptr[Free] \in 0..MaxRec
      BY DEF Locks
    <2>2. rec' \in [Slots -> [key : Keys \cup {Blank}, klen : Nat, dat : 0..MaxRec,
                              dlen : Nat]]
      BY <1>6 DEF DeleteIdx
    <2> QED
      BY <1>6, <2>1, <2>2 DEF DeleteIdx
  <1>7. CASE DeleteFree(p) \/ DeletePtr(p) \/ TakeFree(p) \/ Link(p)
    BY <1>7 DEF DeleteFree, DeletePtr, TakeFree, Link
  <1>8. CASE AppendData(p)
    <2>1. ndat + 1 \in 0..MaxRec
      BY <1>3, <1>8 DEF AppendData, Slots
    <2> QED
      BY <1>4, <1>8, <2>1 DEF AppendData, MayAppend
  <1>9. CASE AppendIdx(p)
    <2>1. nidx + 1 \in 0..MaxRec
      BY <1>3, <1>9 DEF AppendIdx, Slots
    <2> QED
      BY <1>4, <1>9, <2>1 DEF AppendIdx, WriteIdx, MayAppend
  <1>10. CASE Reuse(p)
    BY <1>4, <1>10 DEF Reuse, WriteIdx, MayReuse
  <1>11. ASSUME UNCHANGED filevars
         PROVE  /\ ptr' \in [Locks \cup Slots -> 0..MaxRec]
                /\ rec' \in [Slots -> [key : Keys \cup {Blank}, klen : Nat,
                                       dat : 0..MaxRec, dlen : Nat]]
                /\ dat' \in [Slots -> Data \cup {Blank}]
                /\ nidx' \in 0..MaxRec /\ ndat' \in 0..MaxRec
    BY <1>11
  <1>12. CASE Find(p) \/ FetchData(p) \/ DoDelete(p) \/ FindFree(p) \/ WalkFree(p)
               \/ UnlockChain(p)
    BY <1>11, <1>12 DEF Find, FetchData, DoDelete, FindFree, WalkFree, UnlockChain
  <1>13. CASE Nextrec(p) \/ NextrecData(p) \/ NextrecReturn(p) \/ Rewind(p) \/ CallNextrec(p)
    BY <1>11, <1>13 DEF Nextrec, NextrecData, NextrecReturn, Rewind, CallNextrec
  <1>14. CASE \E op \in Writing \cup {"fetch"}, k \in Keys, v \in Values \cup {None} :
                 FindAndLock(p, op, k, v)
    BY <1>11, <1>14 DEF FindAndLock
  <1> QED
    BY <1>5, <1>6, <1>7, <1>8, <1>9, <1>10, <1>12, <1>13, <1>14 DEF Step, Running

\* The types of the DB structures after a step.
LEMMA DescriptorStep ==
    ASSUME TypeInv, NEW p \in Procs, Step(p)
    PROVE  db' \in [Procs -> DB]
  <1>1. /\ ptr \in [Locks \cup Slots -> 0..MaxRec]
        /\ rec \in [Slots -> [key : Keys \cup {Blank}, klen : Nat, dat : 0..MaxRec,
                              dlen : Nat]]
        /\ dat \in [Slots -> Data \cup {Blank}]
        /\ nidx \in 0..MaxRec /\ ndat \in 0..MaxRec /\ MaxRec \in Nat
        /\ pos[p] \in 0..MaxRec + 1
    BY DbAssumption DEF TypeInv, TypeOK
  <1>2. db \in [Procs -> DB] /\ db[p] \in DB
    BY DEF TypeInv, TypeOK
  <1>3. /\ db[p].off \in 0..MaxRec /\ db[p].datoff \in 0..MaxRec
        /\ db[p].off # 0 => db[p].off \in Slots
        /\ pc[p] \in {"readdat", "nextdat"} => db[p].datoff \in Slots
    BY <1>1, <1>2 DEF DB, Slots, TypeInv, PlacesOK, CallPlaces, AtData
  <1>4. /\ pc[p] = "appenddat" => ndat + 1 \in Slots
        /\ pc[p] = "appendidx" => nidx + 1 \in Slots
    BY Room
  <1>5. \A l \in Locks : ptr[l] \in 0..MaxRec
    BY <1>1
  <1>6. \A s \in Slots : ptr[s] \in 0..MaxRec /\ rec[s].dat \in 0..MaxRec
    BY <1>1
  <1>7. pc[p] \in {"find", "delptr"} => Chain(p) \in Locks
    BY DbAssumption, <1>2 DEF TypeInv, OpsOK, MayScan, MayDelete, Chain, Locks, DB, Writing
  <1>8. Idle \in DB /\ Free \in Locks /\ \A k \in Keys : Hash[k] \in Locks
    BY DbAssumption DEF Idle, DB, Locks
  <1>9. ASSUME NEW d \in DB, db' = [db EXCEPT ![p] = d]
        PROVE  db' \in [Procs -> DB]
    BY <1>2, <1>9
  <1>10. CASE Find(p)
    <2>1. CASE NotFound(p)
      BY <2>1, <1>2, <1>5, <1>7, <1>10 DEF NotFound, Find, DB
    <2>2. CASE Found(p) /\ db[p].off # 0
      BY <2>2, <1>2, <1>3, <1>6 DEF Found, DB
    <2>3. CASE db' = [db EXCEPT ![p].ptroff = db[p].off, ![p].off = ptr[db[p].off]]
               /\ db[p].off # 0
      BY <2>3, <1>2, <1>3, <1>6 DEF DB
    <2> QED
      BY <1>10, <2>1, <2>2, <2>3 DEF Find
  <1>11. CASE FetchData(p) \/ NextrecData(p)
    <2>1. dat[db[p].datoff] \in Data \cup {Blank, None}
      BY <1>1, <1>3, <1>11 DEF FetchData, NextrecData
    <2> QED
      BY <1>2, <1>11, <2>1 DEF FetchData, NextrecData, DB
  <1>12. CASE DeletePtr(p)
    <2>1. ptr'[Chain(p)] \in 0..MaxRec
      BY <1>7, <1>12, FilesStep DEF DeletePtr
    <2> QED
      BY <1>2, <1>12, <2>1 DEF DeletePtr, DB
  <1>13. CASE FindFree(p)
    BY <1>2, <1>5, <1>8, <1>13 DEF FindFree, DB
  <1>14. CASE WalkFree(p)
    <2>1. CASE db[p].off = 0 /\ db' = db
      BY <2>1, <1>2
    <2>2. CASE db[p].off # 0 /\
               db' = [db EXCEPT ![p].ptrval = ptr[db[p].off], ![p].datoff = rec[db[p].off].dat]
      BY <2>2, <1>2, <1>3, <1>6 DEF DB
    <2>3. CASE db' = [db EXCEPT ![p].ptroff = db[p].off, ![p].off = ptr[db[p].off]]
               /\ db[p].off # 0
      BY <2>3, <1>2, <1>3, <1>6 DEF DB
    <2> QED
      BY <1>14, <2>1, <2>2, <2>3 DEF WalkFree
  <1>15. CASE AppendData(p)
    <2>1. ndat + 1 \in 0..MaxRec
      BY <1>1, <1>4, <1>15 DEF AppendData, Slots
    <2> QED
      BY <1>2, <1>15, <2>1 DEF AppendData, DB
  <1>16. CASE AppendIdx(p)
    <2>1. nidx + 1 \in 0..MaxRec
      BY <1>1, <1>4, <1>16 DEF AppendIdx, Slots
    <2> QED
      BY <1>2, <1>16, <2>1 DEF AppendIdx, DB
  <1>17. CASE UnlockChain(p) \/ NextrecReturn(p)
    BY <1>8, <1>9, <1>17 DEF UnlockChain, NextrecReturn
  <1>18. CASE CallNextrec(p)
    BY <1>2, <1>8, <1>18 DEF CallNextrec, DB
  <1>19. CASE Nextrec(p)
    <2>1. CASE db' = db
      BY <2>1, <1>2
    <2>2. CASE /\ pos[p] <= nidx /\ rec[pos[p]].key # Blank
               /\ db' = [db EXCEPT ![p].key = rec[pos[p]].key, ![p].datoff = rec[pos[p]].dat]
      <3>1. pos[p] \in Slots
        BY <1>1, <1>19, <2>2 DEF Nextrec, TypeInv, OpsOK, MayScan, Slots
      <3>2. rec[pos[p]].key \in Keys /\ rec[pos[p]].dat \in 0..MaxRec
        BY <1>1, <2>2, <3>1
      <3> QED
        BY <1>2, <2>2, <3>2 DEF DB
    <2> QED
      BY <1>1, <1>19, <2>1, <2>2 DEF Nextrec
  <1>20. ASSUME NEW op \in Writing \cup {"fetch"}, NEW k \in Keys,
                NEW v \in Values \cup {None}, FindAndLock(p, op, k, v)
         PROVE  db' \in [Procs -> DB]
    <2>1. [Idle EXCEPT !.op = op, !.key = k, !.val = v,
                       !.ptroff = Hash[k], !.off = ptr[Hash[k]]] \in DB
      BY <1>5, <1>8 DEF DB
    <2> QED
      BY <1>9, <1>20, <2>1 DEF FindAndLock
  <1>21. CASE db' = db
    BY <1>2, <1>21
  <1> QED
    BY <1>10, <1>11, <1>12, <1>13, <1>14, <1>15, <1>16, <1>17, <1>18, <1>19, <1>20, <1>21
       DEF Step, Running, Overwrite, DoDelete, DeleteData, DeleteIdx, DeleteFree, TakeFree,
           Reuse, Link, Rewind

\* The types of all variables after a step.
LEMMA TypeOKStep ==
    ASSUME TypeInv, NEW p \in Procs, Step(p)
    PROVE  TypeOK'
  <1>1. TypeOK /\ OpsOK(p) /\ Chain(p) = Hash[db[p].key] /\ db[p] \in DB
    BY DEF TypeInv, TypeOK, Chain
  <1>2. rd' \in [Locks -> SUBSET Procs] /\ wr' \in [Locks -> SUBSET Procs]
    <2> USE <1>1 DEF TypeOK
    <2>1. CASE UNCHANGED <<rd, wr>>
      BY <2>1
    <2>2. ASSUME NEW l \in Locks, ReadLock(p, l) \/ WriteLock(p, l) \/ Unlock(p, l)
          PROVE  rd' \in [Locks -> SUBSET Procs] /\ wr' \in [Locks -> SUBSET Procs]
      BY <2>2 DEF ReadLock, WriteLock, Unlock
    <2>3. CASE DoDelete(p) \/ FindFree(p) \/ DeletePtr(p) \/ TakeFree(p) \/ CallNextrec(p)
               \/ NextrecReturn(p) \/ WalkFree(p)
      BY <2>1, <2>2, <2>3 DEF DoDelete, FindFree, DeletePtr, TakeFree, CallNextrec,
                              NextrecReturn, WalkFree, Locks
    <2>4. CASE UnlockChain(p)
      <3>1. Chain(p) \in Locks
        BY DbAssumption, <2>4 DEF UnlockChain, OpsOK, MayScan, Locks, DB
      <3> QED
        BY <2>2, <2>4, <3>1 DEF UnlockChain
    <2>5. ASSUME NEW op \in Writing \cup {"fetch"}, NEW k \in Keys,
                 NEW v \in Values \cup {None}, FindAndLock(p, op, k, v)
          PROVE  rd' \in [Locks -> SUBSET Procs] /\ wr' \in [Locks -> SUBSET Procs]
      BY <2>2, <2>5, DbAssumption DEF FindAndLock, Locks
    <2> QED
      BY <2>1, <2>3, <2>4, <2>5
         DEF Step, Running, Find, FetchData, Overwrite, DeleteData, DeleteIdx, DeleteFree,
             AppendData, AppendIdx, Reuse, Link, Nextrec, NextrecData, Rewind
  <1>3. pc' \in [Procs -> PC]
    <2>1. \A q \in Procs : pc'[q] \in PC
      BY OpsStep DEF OpsOK
    <2>2. pc' = pc \/ \E l : pc' = [pc EXCEPT ![p] = l]
      BY DEF Step, Running, Find, Found, NotFound, FetchData, Overwrite, DoDelete,
             DeleteData, DeleteIdx, DeleteFree, DeletePtr, FindFree, WalkFree, TakeFree,
             AppendData, AppendIdx, Reuse, Link, UnlockChain, Nextrec, NextrecData,
             NextrecReturn, Rewind, CallNextrec, FindAndLock, Goto
    <2> QED
      BY <1>1, <2>1, <2>2 DEF TypeOK
  <1>4. map' \in [Keys -> Values \cup {None}]
    <2>1. CASE UnlockChain(p)
      <3>1. db[p].op \in Storing => db[p].val \in Values
        BY <1>1 DEF OpsOK
      <3>2. Outcome(p) \in Values \cup {None} \/ Outcome(p) = map[db[p].key]
        BY <3>1 DEF Outcome, Storing
      <3> QED
        BY <1>1, <2>1, <3>2 DEF UnlockChain, TypeOK
    <2>2. CASE map' = map
      BY <1>1, <2>2 DEF TypeOK
    <2> QED
      BY <2>1, <2>2
         DEF Step, Running, Find, FetchData, Overwrite, DoDelete,
             DeleteData, DeleteIdx, DeleteFree, DeletePtr, FindFree, WalkFree, TakeFree,
             AppendData, AppendIdx, Reuse, Link, Nextrec, NextrecData,
             NextrecReturn, Rewind, CallNextrec, FindAndLock
  <1>5. pos' \in [Procs -> 0..MaxRec + 1] /\ due' \in [Procs -> SUBSET Keys]
    <2> USE <1>1, DbAssumption DEF TypeOK, scanvars
    <2>1. CASE UNCHANGED scanvars
      BY <2>1
    <2>2. CASE DoDelete(p)
      BY <2>2 DEF DoDelete
    <2>3. CASE Nextrec(p)
      BY <2>3 DEF Nextrec
    <2>4. CASE NextrecData(p)
      BY <2>4 DEF NextrecData
    <2>5. CASE Rewind(p)
      BY <2>5 DEF Rewind, Settled
    <2>6. ASSUME NEW op \in Writing \cup {"fetch"}, NEW k \in Keys,
                 NEW v \in Values \cup {None}, FindAndLock(p, op, k, v)
          PROVE  pos' \in [Procs -> 0..MaxRec + 1] /\ due' \in [Procs -> SUBSET Keys]
      BY <2>6 DEF FindAndLock
    <2> QED
      BY <2>1, <2>2, <2>3, <2>4, <2>5, <2>6
         DEF Step, Running, Find, FetchData, Overwrite, DeleteData, DeleteIdx, DeleteFree,
             DeletePtr, FindFree, WalkFree, TakeFree, AppendData, AppendIdx, Reuse, Link,
             UnlockChain, NextrecReturn, CallNextrec
  <1> QED
    BY <1>2, <1>3, <1>4, <1>5, FilesStep, DescriptorStep DEF TypeOK

\* The files never shrink, and a record keeps the place of its data.
LEMMA FilesGrow ==
    ASSUME TypeInv, NEW p \in Procs, Step(p)
    PROVE  nidx' \in Nat /\ ndat' \in Nat /\ nidx <= nidx' /\ ndat <= ndat'
  <1>1. nidx \in Nat /\ ndat \in Nat
    BY DEF TypeInv, TypeOK
  <1>2. CASE AppendData(p) \/ AppendIdx(p)
    BY <1>1, <1>2 DEF AppendData, AppendIdx
  <1>3. CASE nidx' = nidx /\ ndat' = ndat
    BY <1>1, <1>3
  <1> QED
    BY <1>2, <1>3
       DEF Step, Running, Find, FetchData, Overwrite, DoDelete,
           DeleteData, DeleteIdx, DeleteFree, DeletePtr, FindFree, WalkFree, TakeFree,
           Reuse, Link, UnlockChain, Nextrec, NextrecData,
           NextrecReturn, Rewind, CallNextrec, FindAndLock, filevars

\* The offsets in the files stay within the files.
LEMMA FilePlacesStep ==
    ASSUME TypeInv, NEW p \in Procs, Step(p)
    PROVE  FilePlaces'
  <1>1. /\ ptr \in [Locks \cup Slots -> 0..MaxRec]
        /\ rec \in [Slots -> [key : Keys \cup {Blank}, klen : Nat, dat : 0..MaxRec,
                              dlen : Nat]]
        /\ nidx \in 0..MaxRec /\ ndat \in 0..MaxRec /\ MaxRec \in Nat
        /\ nidx' \in Nat /\ ndat' \in Nat /\ nidx <= nidx' /\ ndat <= ndat'
    BY DbAssumption, FilesGrow DEF TypeInv, TypeOK
  <1>2. FilePlaces /\ CallPlaces(p)
    BY DEF TypeInv, PlacesOK
  <1>3. /\ db[p].off \in 0..nidx /\ db[p].ptrval \in 0..nidx /\ db[p].first \in 0..nidx
        /\ ptr[Free] \in 0..nidx
    BY <1>1, <1>2 DEF TypeInv, TypeOK, DB, CallPlaces, FilePlaces, Locks
  <1>4. Records \subseteq Slots
    BY <1>1 DEF Records, Slots
  <1> USE <1>1, <1>2, <1>3 DEF FilePlaces, Records, filevars
  <1>5. CASE DeleteIdx(p)
    BY <1>4, <1>5 DEF DeleteIdx
  <1>6. CASE DeleteFree(p) \/ DeletePtr(p) \/ TakeFree(p) \/ Link(p)
    BY <1>6 DEF DeleteFree, DeletePtr, TakeFree, Link
  <1>7. CASE AppendIdx(p)
    <2>1. nidx + 1 \in Slots /\ db[p].datoff \in 1..ndat
      BY <1>7, Room DEF AppendIdx, CallPlaces, AtData
    <2>2. nidx' = nidx + 1 /\ ndat' = ndat
      BY <1>7 DEF AppendIdx
    <2>3. \A s \in Records' : s = nidx + 1 \/ s \in Records
      BY <2>2
    <2>4. /\ rec'[nidx + 1].dat = db[p].datoff
          /\ \A s \in Records : rec'[s] = rec[s]
      BY <1>4, <1>7, <2>1 DEF AppendIdx, WriteIdx
    <2>5. \A x \in Locks \cup Slots : ptr'[x] \in 0..nidx
      BY <1>7 DEF AppendIdx, WriteIdx
    <2> QED
      BY <2>1, <2>2, <2>3, <2>4, <2>5
  <1>8. CASE Reuse(p)
    <2>1. CASE UNCHANGED <<rec, ptr>>
      BY <1>8, <2>1 DEF Reuse
    <2>2. CASE pc[p] = "reuseidx" /\ WriteIdx(p, db[p].off)
      <3>1. db[p].datoff \in 1..ndat
        BY <2>2 DEF CallPlaces, AtData
      <3>2. \A x \in Locks \cup Slots : ptr'[x] \in 0..nidx
        BY <2>2 DEF WriteIdx
      <3>3. \A s \in Records : rec'[s].dat \in 1..ndat
        BY <1>4, <2>2, <3>1 DEF WriteIdx
      <3> QED
        BY <1>8, <3>2, <3>3 DEF Reuse
    <2> QED
      BY <1>8, <2>1, <2>2 DEF Reuse
  <1>9. CASE UNCHANGED <<ptr, rec, nidx>>
    BY <1>9
  <1> QED
    BY <1>5, <1>6, <1>7, <1>8, <1>9
       DEF Step, Running, Find, FetchData, Overwrite, DoDelete, DeleteData, FindFree,
           WalkFree, AppendData, UnlockChain, Nextrec, NextrecData,
           NextrecReturn, Rewind, CallNextrec, FindAndLock

\* The offsets in the DB structures stay within the files.
LEMMA CallPlacesStep ==
    ASSUME TypeInv, NEW p \in Procs, Step(p)
    PROVE  \A q \in Procs : CallPlaces(q)'
  <1>1. nidx \in Nat /\ ndat \in Nat /\ nidx' \in Nat /\ ndat' \in Nat
        /\ nidx <= nidx' /\ ndat <= ndat'
    BY FilesGrow DEF TypeInv, TypeOK
  <1>2. \A q \in Procs : /\ CallPlaces(q)
                         /\ db[q].off \in Nat /\ db[q].ptrval \in Nat /\ db[q].first \in Nat
    BY DbAssumption DEF TypeInv, TypeOK, PlacesOK, DB
  <1> SUFFICES CallPlaces(p)'
    BY <1>1, <1>2, OthersStay DEF CallPlaces, TypeInv
  <1>3. TypeOK /\ OpsOK(p) /\ db[p] \in DB /\ pc[p] \in PC
    BY DEF TypeInv, TypeOK
  <1>4. /\ \A s \in Slots : ptr[s] \in 0..nidx
        /\ \A l \in Locks : ptr[l] \in 0..nidx /\ ptr'[l] \in 0..nidx'
        /\ \A s \in Records : rec[s].dat \in 1..ndat
    <2>1. FilePlaces /\ FilePlaces' /\ TypeOK'
      BY FilePlacesStep, TypeOKStep DEF TypeInv, PlacesOK
    <2> QED
      BY <1>1, <1>3, <2>1 DEF FilePlaces, TypeOK
  <1>5. db[p].off # 0 => db[p].off \in Slots /\ db[p].off \in Records
    BY <1>1, <1>2, <1>3 DEF CallPlaces, Slots, DB, Records
  <1>6. pc[p] \in {"find", "delptr"} => Chain(p) \in Locks
    BY DbAssumption, <1>3 DEF OpsOK, MayScan, MayDelete, Chain, Locks, DB
  <1> USE <1>1, <1>2, <1>3 DEF CallPlaces, AtRecord, AtData, MayDelete, Goto, filevars
  <1>10. CASE Find(p)
    <2>1. CASE NotFound(p) /\ nidx' = nidx
      BY <2>1, <1>4, <1>6, <1>10 DEF NotFound, Find, DB, TypeOK
    <2>2. CASE Found(p) /\ db[p].off # 0 /\ nidx' = nidx
      BY <2>2, <1>4, <1>5 DEF Found, DB, TypeOK
    <2>3. CASE db' = [db EXCEPT ![p].ptroff = db[p].off, ![p].off = ptr[db[p].off]]
               /\ db[p].off # 0 /\ pc[p] = "find" /\ pc' = pc
      BY <2>3, <1>4, <1>5 DEF DB, TypeOK
    <2> QED
      BY <1>10, <2>1, <2>2, <2>3 DEF Find
  <1>11. CASE FetchData(p) \/ NextrecData(p)
    <2>1. /\ db'[p].off = db[p].off /\ db'[p].ptrval = db[p].ptrval
          /\ db'[p].first = db[p].first /\ db'[p].datoff = db[p].datoff
          /\ pc'[p] \in {"unlock", "nextret"}
      BY <1>11 DEF FetchData, NextrecData, DB, TypeOK
    <2> QED
      BY <2>1
  <1>12. CASE Overwrite(p) \/ DoDelete(p) \/ DeleteData(p) \/ DeleteIdx(p) \/ DeleteFree(p)
    BY <1>12 DEF Overwrite, DoDelete, DeleteData, DeleteIdx, DeleteFree, TypeOK
  <1>13. CASE TakeFree(p) \/ Reuse(p) \/ Link(p)
    BY <1>13 DEF TakeFree, Reuse, Link, TypeOK
  <1>14. CASE DeletePtr(p)
    BY <1>4, <1>6, <1>14 DEF DeletePtr, DB, TypeOK
  <1>15. CASE FindFree(p)
    BY <1>4, <1>15 DEF FindFree, DB, Locks, TypeOK
  <1>16. CASE WalkFree(p)
    <2>1. CASE db[p].off = 0 /\ db' = db /\ pc'[p] = "appenddat"
      BY <2>1
    <2>2. CASE db[p].off # 0 /\ pc'[p] = "takefree" /\ nidx' = nidx /\
               db' = [db EXCEPT ![p].ptrval = ptr[db[p].off], ![p].datoff = rec[db[p].off].dat]
      BY <2>2, <1>4, <1>5 DEF DB, TypeOK
    <2>3. CASE db' = [db EXCEPT ![p].ptroff = db[p].off, ![p].off = ptr[db[p].off]]
               /\ db[p].off # 0 /\ pc' = pc /\ pc[p] = "walkfree"
      BY <2>3, <1>4, <1>5 DEF DB, TypeOK
    <2> QED
      BY <1>16, <2>1, <2>2, <2>3 DEF WalkFree, TypeOK
  <1>17. CASE AppendData(p)
    BY <1>17 DEF AppendData, DB, TypeOK
  <1>18. CASE AppendIdx(p)
    BY <1>18 DEF AppendIdx, DB, TypeOK
  <1>19. CASE UnlockChain(p) \/ NextrecReturn(p) \/ CallNextrec(p)
    <2>1. /\ db'[p].off = 0 /\ db'[p].ptrval = 0 /\ db'[p].first = 0
          /\ pc'[p] \in {"idle", "nextrec"}
      BY <1>19 DEF UnlockChain, NextrecReturn, CallNextrec, Idle, TypeOK
    <2> QED
      BY <2>1
  <1>20. CASE Nextrec(p)
    <2>1. CASE db' = db /\ pc'[p] \in {"nextrec", "eof"}
      BY <2>1
    <2>2. CASE /\ pos[p] <= nidx /\ pc'[p] = "nextdat"
               /\ db' = [db EXCEPT ![p].key = rec[pos[p]].key, ![p].datoff = rec[pos[p]].dat]
      <3>1. pos[p] \in Records
        BY <1>20, <2>2 DEF Nextrec, OpsOK, MayScan, Records, TypeOK
      <3> QED
        BY <1>4, <2>2, <3>1 DEF DB, TypeOK
    <2> QED
      BY <1>20, <2>1, <2>2 DEF Nextrec, TypeOK
  <1>21. CASE Rewind(p)
    BY <1>21 DEF Rewind
  <1>22. ASSUME NEW op \in Writing \cup {"fetch"}, NEW k \in Keys,
                NEW v \in Values \cup {None}, FindAndLock(p, op, k, v)
         PROVE  CallPlaces(p)'
    BY <1>4, <1>22, DbAssumption DEF FindAndLock, Idle, Locks, TypeOK
  <1> QED
    BY <1>10, <1>11, <1>12, <1>13, <1>14, <1>15, <1>16, <1>17, <1>18, <1>19, <1>20, <1>21,
       <1>22 DEF Step, Running

\* Types and places are an invariant by themselves.
LEMMA TypeInvStep ==
    ASSUME TypeInv, NEW p \in Procs, Step(p)
    PROVE  TypeInv'
  BY OpsStep, BoundsStep, TypeOKStep, FilePlacesStep, CallPlacesStep DEF TypeInv, PlacesOK

-----------------------------------------------------------------------------
(* The locks                                                               *)

\* The chain of a call is one of the locks.
LEMMA ChainIsLock ==
    ASSUME TypeInv, NEW p \in Procs, db[p].op \in Writing \cup {"fetch"}
    PROVE  db[p].key \in Keys /\ Chain(p) \in Chains /\ Chain(p) \in Locks /\ Chain(p) # Free
  BY DbAssumption DEF TypeInv, OpsOK, Chain, Locks

\* What a step may do to the locks.
LEMMA LockSteps ==
    ASSUME TypeInv, LockInv, NEW p \in Procs, Step(p)
    PROVE  \/ UNCHANGED <<rd, wr>>
           \/ \E l \in Locks : ReadLock(p, l) \/ WriteLock(p, l) \/ Unlock(p, l)
  <1>1. CASE DoDelete(p) \/ FindFree(p) \/ DeletePtr(p) \/ TakeFree(p) \/ CallNextrec(p)
               \/ NextrecReturn(p) \/ WalkFree(p)
    BY <1>1 DEF DoDelete, FindFree, DeletePtr, TakeFree, CallNextrec, NextrecReturn,
                WalkFree, Locks
  <1>2. CASE UnlockChain(p)
    <2>1. db[p].op \in Writing \cup {"fetch"}
      BY <1>2 DEF UnlockChain, TypeInv, TypeOK, DB, OpsOK, MayScan
    <2> QED
      BY <1>2, <2>1, ChainIsLock DEF UnlockChain
  <1>3. ASSUME NEW op \in Writing \cup {"fetch"}, NEW k \in Keys,
               NEW v \in Values \cup {None}, FindAndLock(p, op, k, v)
        PROVE  \E l \in Locks : ReadLock(p, l) \/ WriteLock(p, l) \/ Unlock(p, l)
    BY <1>3, DbAssumption DEF FindAndLock, Locks
  <1> QED
    BY <1>1, <1>2, <1>3
       DEF Step, Running, Find, FetchData, Overwrite, DeleteData, DeleteIdx, DeleteFree,
           AppendData, AppendIdx, Reuse, Link, Nextrec, NextrecData, Rewind

\* fcntl gives a write lock to one process and to no reader beside it.
LEMMA ExclusiveStep ==
    ASSUME TypeInv, LockInv, NEW p \in Procs, Step(p)
    PROVE  /\ Exclusive'
           /\ \A l \in Locks, q \in Procs : q # p =>
                 (q \in wr'[l] <=> q \in wr[l]) /\ (q \in rd'[l] <=> q \in rd[l])
  <1>1. rd \in [Locks -> SUBSET Procs] /\ wr \in [Locks -> SUBSET Procs]
    BY DEF TypeInv, TypeOK
  <1>2. Exclusive
    BY DEF LockInv
  <1>3. CASE UNCHANGED <<rd, wr>>
    BY <1>2, <1>3 DEF Exclusive
  <1>4. ASSUME NEW l \in Locks, ReadLock(p, l) \/ WriteLock(p, l) \/ Unlock(p, l)
        PROVE  /\ Exclusive'
               /\ \A m \in Locks, q \in Procs : q # p =>
                     (q \in wr'[m] <=> q \in wr[m]) /\ (q \in rd'[m] <=> q \in rd[m])
    <2>1. CASE ReadLock(p, l)
      BY <1>1, <1>2, <2>1 DEF ReadLock, Exclusive
    <2>2. CASE WriteLock(p, l)
      BY <1>1, <1>2, <2>2 DEF WriteLock, Exclusive
    <2>3. CASE Unlock(p, l)
      BY <1>1, <1>2, <2>3 DEF Unlock, Exclusive
    <2> QED
      BY <1>4, <2>1, <2>2, <2>3
  <1> QED
    BY <1>3, <1>4, LockSteps

\* A call has the locks that its place in the code asks for, and no others.
LEMMA LockInvStep ==
    ASSUME TypeInv, LockInv, NEW p \in Procs, Step(p)
    PROVE  LockInv'
  <1>1. ASSUME NEW q \in Procs, q # p
        PROVE  LocksOK(q)'
    <2>1. pc'[q] = pc[q] /\ db'[q] = db[q]
      BY <1>1, OthersStay DEF TypeInv
    <2>2. db[q].op \in Writing \cup {"fetch"} => Chain(q) \in Locks
      BY ChainIsLock
    <2>3. LocksOK(q) /\ Free \in Locks
      BY DEF LockInv, Locks
    <2> QED
      BY <1>1, <2>1, <2>2, <2>3, ExclusiveStep DEF LocksOK, Chain
  <1> SUFFICES LocksOK(p)'
    BY <1>1, ExclusiveStep DEF LockInv
  <1>2. TypeOK /\ OpsOK(p) /\ LocksOK(p) /\ Free \in Locks /\ db[p] \in DB /\ pc[p] \in PC
    BY DEF TypeInv, TypeOK, LockInv, Locks
  <1>3. rd \in [Locks -> SUBSET Procs] /\ wr \in [Locks -> SUBSET Procs]
    BY DEF TypeInv, TypeOK
  <1>4. db[p].op \in Writing \cup {"fetch"} => Chain(p) \in Locks /\ Chain(p) # Free
    BY ChainIsLock
  <1>5. db[p].op \in Writing \cup {"fetch", "nextrec", "none"}
    BY <1>2 DEF DB
  <1>6. CASE Acting(p) \/ NextrecData(p) \/ Rewind(p)
    <2>1. db'[p].op = db[p].op /\ db'[p].key = db[p].key
      BY <1>2, <1>6, ArgumentsStay
    <2>2. pc \in [Procs -> PC]
      BY <1>2 DEF TypeOK
    <2> USE <1>2, <1>3, <1>4, <1>5, <2>1, <2>2 DEF LocksOK, Chain, HoldsFree, MayScan, Goto
    <2>3. CASE Find(p)
      BY <2>3 DEF Find, Found, NotFound
    <2>4. CASE FetchData(p) \/ Overwrite(p) \/ DeleteData(p) \/ NextrecData(p) \/ Rewind(p)
      BY <2>4 DEF FetchData, Overwrite, DeleteData, NextrecData, Rewind
    <2>5. CASE DeleteIdx(p) \/ DeleteFree(p) \/ AppendData(p) \/ AppendIdx(p) \/ Reuse(p)
               \/ Link(p)
      BY <2>5 DEF DeleteIdx, DeleteFree, AppendData, AppendIdx, Reuse, Link
    <2>6. CASE DoDelete(p)
      BY <2>6 DEF DoDelete, WriteLock
    <2>7. CASE FindFree(p)
      BY <2>7 DEF FindFree, WriteLock
    <2>8. CASE DeletePtr(p) \/ TakeFree(p)
      BY <2>8 DEF DeletePtr, TakeFree, Unlock, OpsOK, MayDelete, MayReuse, Writing
    <2>9. CASE WalkFree(p)
      BY <2>9 DEF WalkFree, Unlock, OpsOK, MayReuse, Writing
    <2> QED
      BY <1>6, <2>3, <2>4, <2>5, <2>6, <2>7, <2>8, <2>9 DEF Acting
  <1>7. CASE Nextrec(p)
    BY <1>2, <1>3, <1>5, <1>7 DEF Nextrec, TypeOK, LocksOK, Chain, HoldsFree, MayScan, Goto, DB,
                                  OpsOK, Writing
  <1>8. CASE UnlockChain(p)
    <2>1. db'[p].op = "none" /\ pc'[p] = "idle"
      BY <1>2, <1>8 DEF UnlockChain, TypeOK, Idle, Goto
    <2>2. \A l \in Locks : p \notin wr'[l]
      BY <1>2, <1>3, <1>4, <1>8 DEF UnlockChain, Unlock, LocksOK, HoldsFree
    <2> QED
      BY <2>1, <2>2 DEF LocksOK, Writing, HoldsFree, MayScan
  <1>9. CASE NextrecReturn(p)
    <2>1. db'[p].op = "none" /\ pc'[p] = "idle"
      BY <1>2, <1>9 DEF NextrecReturn, TypeOK, Idle, Goto
    <2>2. \A l \in Locks : p \notin wr'[l]
      BY <1>2, <1>3, <1>4, <1>9 DEF NextrecReturn, Unlock, LocksOK, HoldsFree, OpsOK,
                                    MayScan, Writing
    <2> QED
      BY <2>1, <2>2 DEF LocksOK, Writing, HoldsFree, MayScan
  <1>10. CASE CallNextrec(p)
    <2>1. db'[p].op = "nextrec" /\ pc'[p] = "nextrec"
      BY <1>2, <1>10 DEF CallNextrec, TypeOK, Idle, Goto
    <2>2. p \in rd'[Free] /\ \A l \in Locks : p \notin wr'[l]
      BY <1>2, <1>3, <1>10 DEF CallNextrec, ReadLock, LocksOK, HoldsFree, OpsOK, Writing
    <2> QED
      BY <2>1, <2>2 DEF LocksOK, Writing, HoldsFree
  <1>11. ASSUME NEW op \in Writing \cup {"fetch"}, NEW k \in Keys,
                NEW v \in Values \cup {None}, FindAndLock(p, op, k, v)
         PROVE  LocksOK(p)'
    <2>1. db'[p].op = op /\ db'[p].key = k /\ pc'[p] = "find" /\ Hash[k] \in Locks
      BY <1>2, <1>11, DbAssumption DEF FindAndLock, TypeOK, Idle, Goto, Locks
    <2>2. \A l \in Locks : p \notin wr[l]
      BY <1>2, <1>3, <1>11 DEF FindAndLock, LocksOK, HoldsFree, OpsOK, Writing
    <2>3. CASE op \in Writing
      <3>1. p \in wr'[Hash[k]] /\ \A l \in Locks : p \in wr'[l] => l = Hash[k]
        BY <1>3, <1>11, <2>1, <2>2, <2>3 DEF FindAndLock, WriteLock
      <3> QED
        BY <2>1, <2>3, <3>1 DEF LocksOK, Chain, HoldsFree, MayScan, Writing
    <2>4. CASE op = "fetch"
      <3>1. p \in rd'[Hash[k]] /\ \A l \in Locks : p \notin wr'[l]
        BY <1>3, <1>11, <2>1, <2>2, <2>4 DEF FindAndLock, ReadLock, Writing
      <3> QED
        BY <2>1, <2>4, <3>1 DEF LocksOK, Chain, HoldsFree, MayScan, Writing
    <2> QED
      BY <2>3, <2>4
  <1> QED
    BY <1>6, <1>7, <1>8, <1>9, <1>10, <1>11 DEF Step, Running, Acting

-----------------------------------------------------------------------------
(* The pointers, and what each step makes of them                          *)

\* Only one process at a time closes a chain over a record.
LEMMA ClosingAlone ==
    ASSUME TypeInv, LockInv, NEW p \in Procs, Closing(p)
    PROVE  /\ p \in wr[Free] /\ \A q \in Procs : q \in wr[Free] => q = p
           /\ \A q \in Procs : Closing(q) => q = p
           /\ links = [ptr EXCEPT ![Free] = db[p].off, ![db[p].ptroff] = db[p].ptrval]
  <1>1. \A q \in Procs : Closing(q) => q \in wr[Free]
    BY DEF Closing, LockInv, LocksOK, HoldsFree
  <1>2. \A q \in Procs : q \in wr[Free] => q = p
    BY <1>1 DEF LockInv, Exclusive, Locks
  <1>3. (CHOOSE q \in Procs : Closing(q)) = p
    BY <1>1, <1>2
  <1> QED
    BY <1>1, <1>2, <1>3 DEF links

\* With no deletion under way the links are the pointers in the file.
LEMMA NoneClosing ==
    ASSUME \A q \in Procs : ~Closing(q)
    PROVE  links = ptr
  BY DEF links

\* The same after a step.
LEMMA ClosingAfter ==
    ASSUME TypeInv, LockInv, NEW p \in Procs, Step(p),
           NEW q \in Procs, Closing(q)'
    PROVE  /\ \A r \in Procs : Closing(r)' => r = q
           /\ links' = [ptr' EXCEPT ![Free] = db'[q].off, ![db'[q].ptroff] = db'[q].ptrval]
  <1>1. LockInv'
    BY LockInvStep
  <1>2. \A r \in Procs : Closing(r)' => r \in wr'[Free]
    BY <1>1 DEF Closing, LockInv, LocksOK, HoldsFree
  <1>3. \A r \in Procs : r \in wr'[Free] => r = q
    BY <1>1, <1>2 DEF LockInv, Exclusive, Locks
  <1>4. (CHOOSE r \in Procs : Closing(r)') = q
    BY <1>2, <1>3
  <1> QED
    BY <1>2, <1>3, <1>4 DEF links

\* The same after a step.
LEMMA NoneClosingAfter ==
    ASSUME \A q \in Procs : ~Closing(q)'
    PROVE  links' = ptr'
  BY DEF links

\* Who has the free list locked and is not closing sees the pointers as they are.
LEMMA FreeHolderSees ==
    ASSUME TypeInv, LockInv, NEW p \in Procs, p \in wr[Free] \/ p \in rd[Free], ~Closing(p)
    PROVE  links = ptr /\ \A q \in Procs : ~Closing(q)
  <1>1. \A q \in Procs : ~Closing(q)
    BY ClosingAlone DEF LockInv, Exclusive, Locks
  <1> QED
    BY <1>1, NoneClosing

\* The links lead to records of the index file.
LEMMA LinksType ==
    ASSUME TypeInv, LockInv
    PROVE  /\ links \in [Locks \cup Slots -> 0..nidx]
           /\ links \in [Locks \cup Slots -> 0..MaxRec]
           /\ Closed(links, Slots) /\ IsFiniteSet(Slots) /\ 0 \notin Slots
           /\ \A l \in Locks : l \notin Slots /\ (links[l] = 0 \/ links[l] \in Slots)
           /\ Records \subseteq Slots
  <1>1. /\ ptr \in [Locks \cup Slots -> 0..nidx] /\ nidx \in 0..MaxRec /\ MaxRec \in Nat
    BY DbAssumption DEF TypeInv, TypeOK, PlacesOK, FilePlaces
  <1>2. \A p \in Procs : db[p].off \in 0..nidx /\ db[p].ptrval \in 0..nidx
    BY <1>1 DEF TypeInv, TypeOK, PlacesOK, CallPlaces, DB
  <1>3. links \in [Locks \cup Slots -> 0..nidx]
    <2>1. CASE \E p \in Procs : Closing(p)
      <3>1. PICK p \in Procs : Closing(p)
        BY <2>1
      <3> QED
        BY <1>1, <1>2, <3>1, ClosingAlone
    <2> QED
      BY <1>1, <2>1, NoneClosing
  <1>4. links \in [Locks \cup Slots -> 0..MaxRec]
    BY <1>1, <1>3
  <1>5. IsFiniteSet(Slots)
    <2>1. 1 \in Int /\ MaxRec \in Int
      BY <1>1
    <2> QED
      BY <2>1, FS_Interval DEF Slots
  <1>6. \A l \in Locks : l \notin Slots
    BY DbAssumption DEF Locks, Slots
  <1> QED
    BY <1>1, <1>3, <1>4, <1>5, <1>6 DEF Closed, Slots, Records

\* A pointer written where no closing process will write.
LEMMA LinksWrite ==
    ASSUME TypeInv, LockInv, NEW p \in Procs, Step(p), ~Closing(p), ~Closing(p)',
           NEW x \in Locks \cup Slots, NEW v, ptr' = [ptr EXCEPT ![x] = v],
           \A q \in Procs : Closing(q) => x # Free /\ x # db[q].ptroff
    PROVE  links' = [links EXCEPT ![x] = v]
  <1>1. \A q \in Procs : q # p => (Closing(q)' <=> Closing(q)) /\ db'[q] = db[q]
    BY OthersStay DEF TypeInv, Closing
  <1>2. ptr \in [Locks \cup Slots -> 0..MaxRec]
    BY DEF TypeInv, TypeOK
  <1>3. CASE \E q \in Procs : Closing(q)
    <2>1. PICK q \in Procs : Closing(q)
      BY <1>3
    <2>2. q # p /\ Closing(q)' /\ db'[q] = db[q]
      BY <1>1, <2>1
    <2>3. /\ links = [ptr EXCEPT ![Free] = db[q].off, ![db[q].ptroff] = db[q].ptrval]
          /\ links' = [ptr' EXCEPT ![Free] = db[q].off, ![db[q].ptroff] = db[q].ptrval]
      BY <2>1, <2>2, ClosingAlone, ClosingAfter
    <2> QED
      BY <1>2, <2>1, <2>3
  <1>4. CASE \A q \in Procs : ~Closing(q)
    BY <1>1, <1>4, NoneClosing, NoneClosingAfter
  <1> QED
    BY <1>3, <1>4

\* A step that writes no pointer, and is not part of a deletion, leaves the links.
LEMMA LinksStay ==
    ASSUME TypeInv, LockInv, NEW p \in Procs, Step(p), ~Closing(p), ~Closing(p)', ptr' = ptr
    PROVE  links' = links
  <1>1. \A q \in Procs : q # p => (Closing(q)' <=> Closing(q)) /\ db'[q] = db[q]
    BY OthersStay DEF TypeInv, Closing
  <1>3. CASE \E q \in Procs : Closing(q)
    <2>1. PICK q \in Procs : Closing(q)
      BY <1>3
    <2>2. q # p /\ Closing(q)' /\ db'[q] = db[q]
      BY <1>1, <2>1
    <2> QED
      BY <2>1, <2>2, ClosingAlone, ClosingAfter
  <1>4. CASE \A q \in Procs : ~Closing(q)
    BY <1>1, <1>4, NoneClosing, NoneClosingAfter
  <1> QED
    BY <1>3, <1>4

-----------------------------------------------------------------------------
(* The lists, and what each step makes of them                             *)

\* A list as a step of another process must leave it.
Kept(l) ==
    /\ links'[l] = links[l] /\ List(l)' = List(l)
    /\ \A s \in List(l) : links'[s] = links[s] /\ rec'[s] = rec[s]

\* A list holds the successors of its records, and its own head is no record.
LEMMA ListBasics ==
    ASSUME TypeInv, LockInv, NEW l \in Locks
    PROVE  /\ links[l] = 0 \/ links[l] \in List(l)
           /\ Closed(links, List(l)) /\ List(l) \subseteq Slots /\ l \notin List(l)
           /\ \A x \in {l} \cup List(l) : links[x] = 0 \/ links[x] \in List(l)
  <1>1. /\ Closed(links, Slots) /\ (links[l] = 0 \/ links[l] \in Slots) /\ l \notin Slots
    BY LinksType
  <1>2. /\ links[l] = 0 \/ links[l] \in List(l)
        /\ Closed(links, List(l)) /\ List(l) \subseteq Slots
    BY <1>1, ReachClosed DEF List
  <1> QED
    BY <1>1, <1>2 DEF Closed

\* Pointers that agree on a list make the same list.
LEMMA ListKept ==
    ASSUME TypeInv, LockInv, NEW l \in Locks, IsList(links, Slots, l),
           links'[l] = links[l], \A s \in List(l) : links'[s] = links[s]
    PROVE  List(l)' = List(l) /\ IsList(links, Slots, l)'
  <1>1. /\ Closed(links, Slots) /\ (links[l] = 0 \/ links[l] \in Slots)
    BY LinksType
  <1>2. /\ Reach(links', Slots, links'[l]) = Reach(links, Slots, links[l])
        /\ IsList(links', Slots, l)
    BY <1>1, ListFrame DEF List
  <1> QED
    BY <1>2 DEF List, Slots, IsList, Reach, Closed

\* The write of the index record in _db_dodelete moves the record from its chain to
\* the free list; the two writes that follow only make the file say so.
LEMMA DeleteIdxLists ==
    ASSUME TypeInv, LockInv, ListInv, NEW p \in Procs, DeleteIdx(p), Step(p)
    PROVE  /\ Chain(p) \in Chains /\ Chain(p) # Free
           /\ db[p].off \in List(Chain(p)) /\ db[p].off # db[p].ptroff
           /\ db[p].ptroff \in {Chain(p)} \cup List(Chain(p))
           /\ \A x \in Locks \cup Slots : x \notin {db[p].off, Free, db[p].ptroff} =>
                 links'[x] = links[x]
           /\ \A l \in Locks : l = Chain(p) => List(l)' = List(l) \ {db[p].off}
           /\ List(Free)' = List(Free) \cup {db[p].off}
           /\ \A l \in Locks : IsList(links, Slots, l)'
           /\ \A l \in Locks : l # Free /\ l # Chain(p) => Kept(l)
  <1> DEFINE c == Chain(p)
             o == db[p].off
             x == db[p].ptroff
             v == db[p].ptrval
             g1 == [links EXCEPT ![x] = v]
             g2 == [links EXCEPT ![o] = links[Free], ![x] = v]
  <1>1. pc[p] = "delidx" /\ OpsOK(p) /\ TypeOK
    BY DEF DeleteIdx, TypeInv
  <1>2. c \in Chains /\ c \in Locks /\ c # Free /\ Free \in Locks
    BY <1>1, ChainIsLock DEF OpsOK, MayDelete, Writing, Locks
  <1>3. /\ x \in {c} \cup List(c) /\ links[x] = o /\ o # 0 /\ v = links[o]
    BY <1>1 DEF ListInv, ChainFacts, Known, Hit, At
  <1>4. links = ptr /\ \A q \in Procs : ~Closing(q)
    BY <1>1, FreeHolderSees DEF LockInv, LocksOK, HoldsFree, Closing
  <1>5. links' = [ptr' EXCEPT ![Free] = o, ![x] = v]
    <2>1. Closing(p)' /\ db' = db
      BY <1>1 DEF DeleteIdx, Goto, Closing, TypeOK
    <2> QED
      BY <2>1, ClosingAfter
  <1>6. ptr' = [ptr EXCEPT ![o] = ptr[Free]] /\ rec' = [rec EXCEPT ![o].key = Blank]
    BY DEF DeleteIdx
  <1>7. /\ links \in [Locks \cup Slots -> 0..MaxRec]
        /\ Closed(links, Slots) /\ IsFiniteSet(Slots) /\ 0 \notin Slots
        /\ \A l \in Locks : l \notin Slots /\ (links[l] = 0 \/ links[l] \in Slots)
    BY LinksType
  <1>8. \A l \in Locks : IsList(links, Slots, l) /\ List(l) \subseteq Slots
    BY ListBasics DEF ListInv, ListsOK
  <1>9. o \in List(c) /\ o \in Slots /\ x \in Locks \cup Slots
    BY <1>2, <1>3, <1>8, ListBasics
  <1> HIDE DEF c, o, x, v
  <1>10. /\ Reach(g1, Slots, g1[c]) = List(c) \ {o}
         /\ IsList(g1, Slots, c) /\ x # o
    <2>1. g1[x] = links[o] /\ \A u \in {c} \cup Slots : u # x => g1[u] = links[u]
      BY <1>2, <1>3, <1>7, <1>9
    <2>2. /\ c \notin Slots /\ (links[c] = 0 \/ links[c] \in Slots)
          /\ x \in {c} \cup Reach(links, Slots, links[c])
      BY <1>2, <1>3, <1>7 DEF List
    <2>3. IsList(links, Slots, c) /\ o = links[x] /\ o # 0 /\ List(c) = Reach(links, Slots, links[c])
      BY <1>2, <1>3, <1>8 DEF List
    <2> HIDE DEF g1
    <2>4. /\ Reach(g1, Slots, g1[c]) = Reach(links, Slots, links[c]) \ {o}
          /\ IsList(g1, Slots, c) /\ x # o
      BY <1>7, <2>1, <2>2, <2>3, ListRemove
    <2> QED
      BY <2>3, <2>4
  <1>11. /\ \A l, m \in Locks : l # m => List(l) \cap List(m) = {}
    BY DEF ListInv, ListsOK
  <1>12. /\ \A y \in Locks \cup Slots : y \notin {o, Free, x} => links'[y] = links[y]
         /\ links'[Free] = o /\ links'[x] = v /\ links'[o] = links[Free]
    <2>1. x # Free
      BY <1>2, <1>3, <1>7, <1>8
    <2>2. o # Free
      BY <1>2, <1>7, <1>9
    <2> QED
      BY <1>2, <1>4, <1>5, <1>6, <1>7, <1>9, <1>10, <2>1, <2>2
  <1>13. \A l \in Locks : l = c => List(l)' = List(l) \ {o} /\ IsList(links, Slots, l)'
    <2>1. /\ g1[c] = 0 \/ g1[c] \in Slots
          /\ Closed(g1, Slots)
      BY <1>2, <1>3, <1>7, <1>9 DEF Closed
    <2>2. /\ links'[c] = g1[c]
          /\ \A s \in List(c) \ {o} : links'[s] = g1[s]
      BY <1>2, <1>3, <1>7, <1>8, <1>9, <1>10, <1>12
    <2> HIDE DEF g1
    <2>3. Reach(links', Slots, links'[c]) = List(c) \ {o} /\ IsList(links', Slots, c)
      BY <1>10, <2>1, <2>2, ListFrame
    <2> QED
      BY <2>3 DEF List, IsList, Slots, Reach, Closed
  <1>14. List(Free)' = List(Free) \cup {o} /\ IsList(links, Slots, Free)'
    <2>1. o \notin List(Free) /\ x \notin List(Free) /\ x # Free /\ o # Free
      BY <1>2, <1>3, <1>7, <1>8, <1>9, <1>11
    <2>2. /\ g2[Free] = links[Free] /\ \A s \in List(Free) : g2[s] = links[s]
          /\ g2[o] = g2[Free]
      BY <1>2, <1>7, <1>8, <1>9, <1>10, <2>1
    <2>3. /\ Closed(g2, Slots) /\ (g2[Free] = 0 \/ g2[Free] \in Slots)
      BY <1>2, <1>3, <1>7, <1>9, <1>10, <2>1 DEF Closed
    <2>4. links'[Free] = o /\ \A u \in Slots : links'[u] = g2[u]
      BY <1>2, <1>7, <1>9, <1>10, <1>12, <2>1
    <2> HIDE DEF g2
    <2>5. Reach(g2, Slots, g2[Free]) = List(Free) /\ IsList(g2, Slots, Free)
      BY <1>2, <1>7, <1>8, <2>2, ListFrame DEF List
    <2>6. /\ Reach(links', Slots, links'[Free]) = {o} \cup List(Free)
          /\ IsList(links', Slots, Free)
      BY <1>2, <1>7, <1>9, <2>1, <2>2, <2>3, <2>4, <2>5, ListPrepend
    <2> QED
      BY <2>6 DEF List, IsList, Slots, Reach, Closed
  <1>15. ASSUME NEW l \in Locks, l # Free, l # c
         PROVE  Kept(l) /\ IsList(links, Slots, l)'
    <2>1. o \notin List(l) /\ x \notin List(l) /\ l # x /\ l # o /\ Free \notin List(l)
      BY <1>2, <1>3, <1>7, <1>8, <1>9, <1>11, <1>15
    <2>2. links'[l] = links[l] /\ \A s \in List(l) : links'[s] = links[s]
      BY <1>8, <1>12, <1>15, <2>1
    <2>3. \A s \in List(l) : rec'[s] = rec[s]
      BY <1>1, <1>6, <1>8, <2>1 DEF TypeOK
    <2> QED
      BY <1>8, <2>2, <2>3, ListKept DEF Kept
  <1> QED
    BY <1>2, <1>3, <1>9, <1>10, <1>12, <1>13, <1>14, <1>15 DEF c, o, x

\* _db_findfree takes a record off the free list.
LEMMA TakeFreeLists ==
    ASSUME TypeInv, LockInv, ListInv, NEW p \in Procs, TakeFree(p), Step(p)
    PROVE  /\ db[p].off \in List(Free) /\ db[p].off # db[p].ptroff
           /\ db[p].ptroff \in {Free} \cup List(Free)
           /\ \A x \in Locks \cup Slots : x # db[p].ptroff => links'[x] = links[x]
           /\ List(Free)' = List(Free) \ {db[p].off}
           /\ \A l \in Locks : IsList(links, Slots, l)'
           /\ \A l \in Locks : l # Free => Kept(l)
  <1> DEFINE o == db[p].off
             x == db[p].ptroff
             v == db[p].ptrval
  <1>1. pc[p] = "takefree" /\ TypeOK /\ Free \in Locks
    BY DEF TakeFree, TypeInv, Locks
  <1>2. x \in {Free} \cup List(Free) /\ links[x] = o /\ o # 0 /\ v = links[o]
    BY <1>1 DEF ListInv, FreeFacts, Hit, At
  <1>3. links = ptr /\ \A q \in Procs : ~Closing(q)
    BY <1>1, FreeHolderSees DEF LockInv, LocksOK, HoldsFree, Closing
  <1>4. ~Closing(p) /\ ~Closing(p)'
    BY <1>1 DEF TakeFree, Goto, Closing, TypeOK
  <1>5. /\ links \in [Locks \cup Slots -> 0..MaxRec]
        /\ Closed(links, Slots) /\ IsFiniteSet(Slots) /\ 0 \notin Slots
        /\ \A l \in Locks : l \notin Slots /\ (links[l] = 0 \/ links[l] \in Slots)
    BY LinksType
  <1>6. \A l \in Locks : IsList(links, Slots, l) /\ List(l) \subseteq Slots
    BY ListBasics DEF ListInv, ListsOK
  <1>7. o \in List(Free) /\ x \in Locks \cup Slots
    BY <1>1, <1>2, <1>6, ListBasics
  <1>8. links' = [links EXCEPT ![x] = v]
    BY <1>3, <1>4, <1>7, LinksWrite DEF TakeFree
  <1>9. \A l, m \in Locks : l # m => List(l) \cap List(m) = {}
    BY DEF ListInv, ListsOK
  <1> HIDE DEF o, x, v
  <1>10. /\ Reach(links', Slots, links'[Free]) = List(Free) \ {o}
         /\ IsList(links', Slots, Free) /\ x # o
    <2> DEFINE g == [links EXCEPT ![x] = v]
               r == Free
    <2>1. g[x] = links[o] /\ \A u \in {r} \cup Slots : u # x => g[u] = links[u]
      BY <1>1, <1>2, <1>5, <1>7
    <2>2. /\ r \notin Slots /\ (links[r] = 0 \/ links[r] \in Slots)
          /\ x \in {r} \cup Reach(links, Slots, links[r])
          /\ List(r) = Reach(links, Slots, links[r])
      BY <1>1, <1>2, <1>5 DEF List
    <2>3. IsList(links, Slots, r) /\ o = links[x] /\ o # 0
      BY <1>1, <1>2, <1>6
    <2>4. Closed(links, Slots) /\ IsFiniteSet(Slots) /\ 0 \notin Slots
      BY <1>5
    <2> HIDE DEF g, r
    <2>5. /\ Reach(g, Slots, g[r]) = Reach(links, Slots, links[r]) \ {o}
          /\ IsList(g, Slots, r) /\ x # o
      BY <2>1, <2>2, <2>3, <2>4, ListRemove
    <2> QED
      BY <1>8, <2>2, <2>5 DEF g, r
  <1>11. List(Free)' = List(Free) \ {o} /\ IsList(links, Slots, Free)'
    BY <1>10 DEF List, IsList, Slots, Reach, Closed
  <1>12. ASSUME NEW l \in Locks, l # Free
         PROVE  Kept(l) /\ IsList(links, Slots, l)'
    <2>1. x \notin List(l) /\ l # x
      BY <1>1, <1>2, <1>5, <1>6, <1>9, <1>12
    <2>2. links'[l] = links[l] /\ \A s \in List(l) : links'[s] = links[s]
      BY <1>5, <1>6, <1>8, <1>12, <2>1
    <2>3. \A s \in List(l) : rec'[s] = rec[s]
      BY DEF TakeFree
    <2> QED
      BY <1>6, <2>2, <2>3, ListKept DEF Kept
  <1> QED
    BY <1>2, <1>5, <1>7, <1>8, <1>10, <1>11, <1>12 DEF o, x

\* The writes of the index record of db_store: to a record on no list.
LEMMA WriteIdxLists ==
    ASSUME TypeInv, LockInv, ListInv, NEW p \in Procs, Step(p),
           pc[p] \in {"appendidx", "reuseidx"}, pc'[p] = "link",
           NEW s \in Slots, WriteIdx(p, s), \A l \in Locks : s \notin List(l)
    PROVE  /\ links' = [links EXCEPT ![s] = db[p].first]
           /\ \A l \in Locks : Kept(l) /\ IsList(links, Slots, l)'
  <1>1. ~Closing(p) /\ ~Closing(p)' /\ s \in Locks \cup Slots
    BY DEF Closing
  <1>2. \A q \in Procs : Closing(q) => s # Free /\ s # db[q].ptroff
    <2> SUFFICES ASSUME NEW q \in Procs, Closing(q)
                 PROVE  s # Free /\ s # db[q].ptroff
      OBVIOUS
    <2>1. db[q].ptroff \in {Chain(q)} \cup List(Chain(q)) /\ Chain(q) \in Locks
      BY ChainIsLock DEF ListInv, ChainFacts, Closing, TypeInv, OpsOK, MayDelete, Writing
    <2> QED
      BY <2>1, LinksType DEF Locks
  <1>3. links' = [links EXCEPT ![s] = db[p].first]
    BY <1>1, <1>2, LinksWrite DEF WriteIdx
  <1>4. \A l \in Locks : IsList(links, Slots, l) /\ List(l) \subseteq Slots
    BY ListBasics DEF ListInv, ListsOK
  <1>5. ASSUME NEW l \in Locks
        PROVE  Kept(l) /\ IsList(links, Slots, l)'
    <2>1. l # s /\ s \notin List(l)
      BY LinksType
    <2>2. links'[l] = links[l] /\ \A t \in List(l) : links'[t] = links[t]
      BY <1>3, <1>4, <2>1, LinksType
    <2>3. \A t \in List(l) : rec'[t] = rec[t]
      BY <1>4, <2>1 DEF WriteIdx, TypeInv, TypeOK
    <2> QED
      BY <1>4, <2>2, <2>3, ListKept DEF Kept
  <1> QED
    BY <1>3, <1>5

\* The last write of db_store puts its record in front of the chain.
LEMMA LinkLists ==
    ASSUME TypeInv, LockInv, ListInv, NEW p \in Procs, Link(p), Step(p)
    PROVE  /\ Chain(p) \in Chains /\ db[p].off \in Slots
           /\ \A x \in Locks \cup Slots : x # Chain(p) => links'[x] = links[x]
           /\ \A l \in Locks : l = Chain(p) => List(l)' = List(l) \cup {db[p].off}
           /\ \A l \in Locks : IsList(links, Slots, l)'
           /\ \A l \in Locks : l # Chain(p) => Kept(l)
  <1> DEFINE o == db[p].off
             c == Chain(p)
  <1>1. pc[p] = "link" /\ TypeOK /\ OpsOK(p)
    BY DEF Link, TypeInv
  <1>2. c \in Chains /\ c \in Locks /\ c # Free /\ Free \in Locks
    BY <1>1, ChainIsLock DEF OpsOK, MayAppend, Storing, Writing, Locks
  <1>3. links[o] = links[c] /\ \A l \in Locks : o \notin List(l)
    BY <1>1 DEF ListInv, ChainFacts, HandsOK, Holding
  <1>4. o \in Slots
    BY <1>1 DEF TypeInv, TypeOK, DB, PlacesOK, CallPlaces, AtRecord, Slots
  <1>5. /\ links \in [Locks \cup Slots -> 0..MaxRec]
        /\ Closed(links, Slots) /\ IsFiniteSet(Slots) /\ 0 \notin Slots
        /\ \A l \in Locks : l \notin Slots /\ (links[l] = 0 \/ links[l] \in Slots)
    BY LinksType
  <1>6. \A l \in Locks : IsList(links, Slots, l) /\ List(l) \subseteq Slots
    BY ListBasics DEF ListInv, ListsOK
  <1>7. ~Closing(p) /\ ~Closing(p)'
    BY <1>1 DEF Link, Goto, Closing, TypeOK
  <1>8. \A q \in Procs : Closing(q) => c # Free /\ c # db[q].ptroff
    <2> SUFFICES ASSUME NEW q \in Procs, Closing(q)
                 PROVE  c # db[q].ptroff
      BY <1>2
    <2>1. db[q].op \in Writing /\ Chain(q) \in Locks
      BY ChainIsLock DEF Closing, TypeInv, OpsOK, MayDelete, Writing
    <2>2. db[q].ptroff \in {Chain(q)} \cup List(Chain(q))
      BY DEF ListInv, ChainFacts
    <2>3. q \in wr[Chain(q)] /\ p \in wr[c] /\ p # q
      BY <1>1, <1>7, <2>1 DEF LockInv, LocksOK, OpsOK, MayAppend, Storing, Writing
    <2>4. Chain(q) # c
      BY <1>2, <2>3 DEF LockInv, Exclusive
    <2> QED
      BY <1>2, <1>5, <1>6, <2>1, <2>2, <2>4
  <1>9. links' = [links EXCEPT ![c] = o]
    BY <1>2, <1>7, <1>8, LinksWrite DEF Link
  <1> HIDE DEF o, c
  <1>10. Reach(links', Slots, links'[c]) = {o} \cup List(c) /\ IsList(links', Slots, c)
    <2>1. links'[c] = o /\ \A u \in Slots : links'[u] = links[u]
      BY <1>2, <1>5, <1>9
    <2>2. /\ c \notin Slots /\ (links[c] = 0 \/ links[c] \in Slots)
          /\ List(c) = Reach(links, Slots, links[c])
          /\ o \notin Reach(links, Slots, links[c]) /\ IsList(links, Slots, c)
      BY <1>2, <1>3, <1>5, <1>6 DEF List
    <2> QED
      BY <1>3, <1>4, <1>5, <2>1, <2>2, ListPrepend
  <1>11. \A l \in Locks : l = c => List(l)' = List(l) \cup {o} /\ IsList(links, Slots, l)'
    BY <1>10 DEF List, IsList, Slots, Reach, Closed
  <1>12. ASSUME NEW l \in Locks, l # c
         PROVE  Kept(l) /\ IsList(links, Slots, l)'
    <2>1. links'[l] = links[l] /\ \A s \in List(l) : links'[s] = links[s]
      BY <1>2, <1>5, <1>6, <1>9, <1>12
    <2>2. \A s \in List(l) : rec'[s] = rec[s]
      BY DEF Link
    <2> QED
      BY <1>6, <2>1, <2>2, ListKept DEF Kept
  <1> QED
    BY <1>2, <1>4, <1>5, <1>9, <1>11, <1>12 DEF o, c

\* The steps that change a list or an index record.
Writes(p) ==
    \/ DeleteIdx(p) \/ TakeFree(p) \/ AppendIdx(p) \/ Link(p)
    \/ (Reuse(p) /\ pc[p] = "reuseidx")

\* All the others change neither; the two writes that end a deletion have no
\* effect on the pointers as they will be.
LEMMA OtherStepsLists ==
    ASSUME TypeInv, LockInv, ListInv, NEW p \in Procs, Step(p), ~Writes(p)
    PROVE  /\ links' = links /\ rec' = rec /\ nidx' = nidx
           /\ \A l \in Locks : Kept(l) /\ IsList(links, Slots, l)'
  <1>1. TypeOK /\ ptr \in [Locks \cup Slots -> 0..MaxRec] /\ pc \in [Procs -> PC]
    BY DEF TypeInv, TypeOK
  <1>2. rec' = rec /\ nidx' = nidx
    BY DEF Step, Running, Writes, Find, FetchData, Overwrite, DoDelete, DeleteData,
           DeleteFree, DeletePtr, FindFree, WalkFree, AppendData, Reuse, UnlockChain,
           Nextrec, NextrecData, NextrecReturn, Rewind, CallNextrec, FindAndLock, filevars
  <1>3. links' = links
    <2>1. CASE DeleteFree(p)
      <3>1. pc[p] = "delfree" /\ pc'[p] = "delptr" /\ db' = db
            /\ ptr' = [ptr EXCEPT ![Free] = db[p].off]
        BY <1>1, <2>1 DEF DeleteFree, Goto
      <3>2. /\ links = [ptr EXCEPT ![Free] = db[p].off, ![db[p].ptroff] = db[p].ptrval]
            /\ links' = [ptr' EXCEPT ![Free] = db[p].off, ![db[p].ptroff] = db[p].ptrval]
        BY <3>1, ClosingAlone, ClosingAfter DEF Closing
      <3> QED
        BY <1>1, <3>1, <3>2
    <2>2. CASE DeletePtr(p)
      <3>1. pc[p] = "delptr" /\ pc'[p] \in {"unlock", "appenddat"}
            /\ ptr' = [ptr EXCEPT ![db[p].ptroff] = db[p].ptrval]
        BY <1>1, <2>2 DEF DeletePtr, Goto
      <3>2. /\ links = [ptr EXCEPT ![Free] = db[p].off, ![db[p].ptroff] = db[p].ptrval]
            /\ \A q \in Procs : Closing(q) => q = p
        BY <3>1, ClosingAlone DEF Closing
      <3>3. \A q \in Procs : ~Closing(q)'
        BY <3>1, <3>2, OthersStay DEF Closing, TypeInv
      <3>4. ptr[Free] = db[p].off
        BY <3>1 DEF ListInv, FreeFacts
      <3> QED
        BY <1>1, <3>1, <3>2, <3>3, <3>4, NoneClosingAfter
    <2>3. CASE ~DeleteFree(p) /\ ~DeletePtr(p)
      <3>1. ptr' = ptr
        BY <2>3
           DEF Step, Running, Writes, Find, FetchData, Overwrite, DoDelete, DeleteData,
               FindFree, WalkFree, AppendData, Reuse, UnlockChain, Nextrec, NextrecData,
               NextrecReturn, Rewind, CallNextrec, FindAndLock, filevars
      <3>2. ~Closing(p) /\ ~Closing(p)'
        <4> USE <1>1 DEF Closing, Goto
        <4>1. CASE Find(p)
          BY <4>1 DEF Find, Found, NotFound
        <4>2. CASE FetchData(p) \/ Overwrite(p) \/ DoDelete(p) \/ DeleteData(p)
                   \/ FindFree(p) \/ WalkFree(p) \/ AppendData(p) \/ Reuse(p)
          BY <4>2 DEF FetchData, Overwrite, DoDelete, DeleteData, FindFree, WalkFree,
                      AppendData, Reuse
        <4>3. CASE UnlockChain(p) \/ Nextrec(p) \/ NextrecData(p) \/ NextrecReturn(p)
                   \/ Rewind(p) \/ CallNextrec(p)
          BY <4>3 DEF UnlockChain, Nextrec, NextrecData, NextrecReturn, Rewind, CallNextrec
        <4>4. CASE \E op \in Writing \cup {"fetch"}, k \in Keys, v \in Values \cup {None} :
                       FindAndLock(p, op, k, v)
          BY <4>4 DEF FindAndLock
        <4> QED
          BY <2>3, <4>1, <4>2, <4>3, <4>4 DEF Step, Running, Writes
      <3> QED
        BY <3>1, <3>2, LinksStay
    <2> QED
      BY <2>1, <2>2, <2>3
  <1>4. \A l \in Locks : IsList(links, Slots, l)
    BY DEF ListInv, ListsOK
  <1> QED
    BY <1>2, <1>3, <1>4, ListKept DEF Kept

\* The record that an index record is written to is on no list.
LEMMA WrittenRecord ==
    ASSUME TypeInv, LockInv, ListInv, NEW p \in Procs
    PROVE  /\ AppendIdx(p) => /\ nidx + 1 \in Slots /\ nidx + 1 \notin Records
                              /\ \A l \in Locks : nidx + 1 \notin List(l)
           /\ Holding(p) => /\ db[p].off \in Slots /\ db[p].off \in Records
                            /\ \A l \in Locks : db[p].off \notin List(l)
  <1>1. nidx \in Nat /\ nidx \in 0..MaxRec /\ MaxRec \in Nat
    BY DbAssumption DEF TypeInv, TypeOK
  <1>2. CASE AppendIdx(p)
    <2>1. nidx + 1 \in Slots /\ nidx + 1 \notin Records /\ ~Holding(p)
      BY <1>1, <1>2, Room DEF AppendIdx, Records, Holding
    <2>2. \A l \in Locks : List(l) \subseteq Records
      BY DEF ListInv, ListsOK
    <2> QED
      BY <2>1, <2>2
  <1>3. CASE Holding(p)
    <2>1. db[p].off # 0 /\ db[p].off <= nidx /\ db[p].off \in 0..MaxRec
      BY <1>3 DEF Holding, TypeInv, TypeOK, DB, PlacesOK, CallPlaces, AtRecord
    <2>2. db[p].off \in Slots /\ db[p].off \in Records /\ ~AppendIdx(p)
      BY <1>1, <1>3, <2>1 DEF Slots, Records, AppendIdx, Holding
    <2> QED
      BY <1>3, <2>2 DEF ListInv, HandsOK
  <1> QED
    BY <1>2, <1>3 DEF AppendIdx, Holding

\* A step of p leaves alone every list that p has not locked for writing.
LEMMA UnlockedListsKept ==
    ASSUME TypeInv, LockInv, ListInv, NEW p \in Procs, Step(p)
    PROVE  \A l \in Locks : IsList(links, Slots, l)' /\ (p \notin wr[l] => Kept(l))
  <1>1. OpsOK(p) /\ LocksOK(p) /\ TypeOK
    BY DEF TypeInv, LockInv
  <1>2. CASE DeleteIdx(p)
    <2>1. p \in wr[Free] /\ p \in wr[Chain(p)]
      BY <1>1, <1>2 DEF DeleteIdx, OpsOK, LocksOK, HoldsFree, MayDelete, Writing
    <2> SUFFICES ASSUME NEW l \in Locks
                 PROVE  IsList(links, Slots, l)' /\ (p \notin wr[l] => Kept(l))
      OBVIOUS
    <2> QED
      BY <1>2, <2>1, DeleteIdxLists
  <1>3. CASE TakeFree(p)
    <2>1. p \in wr[Free]
      BY <1>1, <1>3 DEF TakeFree, LocksOK, HoldsFree
    <2> SUFFICES ASSUME NEW l \in Locks
                 PROVE  IsList(links, Slots, l)' /\ (p \notin wr[l] => Kept(l))
      OBVIOUS
    <2> QED
      BY <1>3, <2>1, TakeFreeLists
  <1>4. CASE AppendIdx(p)
    <2>1. pc[p] = "appendidx" /\ pc'[p] = "link" /\ WriteIdx(p, nidx + 1)
      BY <1>1, <1>4 DEF AppendIdx, Goto, TypeOK
    <2> QED
      BY <1>4, <2>1, WriteIdxLists, WrittenRecord
  <1>5. CASE Reuse(p) /\ pc[p] = "reuseidx"
    <2>1. pc'[p] = "link" /\ WriteIdx(p, db[p].off) /\ Holding(p)
      BY <1>1, <1>5 DEF Reuse, Goto, TypeOK, Holding
    <2> QED
      BY <1>5, <2>1, WriteIdxLists, WrittenRecord
  <1>6. CASE Link(p)
    <2>1. p \in wr[Chain(p)]
      BY <1>1, <1>6 DEF Link, OpsOK, LocksOK, MayAppend, Storing, Writing
    <2> SUFFICES ASSUME NEW l \in Locks
                 PROVE  IsList(links, Slots, l)' /\ (p \notin wr[l] => Kept(l))
      OBVIOUS
    <2> QED
      BY <1>6, <2>1, LinkLists
  <1> QED
    BY <1>2, <1>3, <1>4, <1>5, <1>6, OtherStepsLists DEF Writes

\* ... and the record that another process has in hand.
LEMMA HandsKept ==
    ASSUME TypeInv, LockInv, ListInv, NEW p \in Procs, Step(p),
           NEW q \in Procs, q # p, Holding(q)
    PROVE  links'[db[q].off] = links[db[q].off] /\ rec'[db[q].off] = rec[db[q].off]
  <1> DEFINE o == db[q].off
  <1>1. o \in Slots /\ o \in Records /\ \A l \in Locks : o \notin List(l)
    BY WrittenRecord
  <1>2. /\ rec \in [Slots -> [key : Keys \cup {Blank}, klen : Nat, dat : 0..MaxRec, dlen : Nat]]
        /\ links \in [Locks \cup Slots -> 0..MaxRec] /\ TypeOK /\ Free \in Locks
        /\ \A l \in Locks : l \notin Slots
    BY LinksType DEF TypeInv, TypeOK, Locks
  <1> HIDE DEF o
  <1>3. CASE DeleteIdx(p)
    <2>1. Chain(p) \in Locks
      BY <1>3, DeleteIdxLists DEF Locks
    <2>2. o # db[p].off /\ o # Free /\ o # db[p].ptroff
      BY <1>1, <1>2, <1>3, <2>1, DeleteIdxLists
    <2> QED
      BY <1>1, <1>2, <1>3, <2>2, DeleteIdxLists DEF DeleteIdx, o
  <1>4. CASE TakeFree(p)
    <2>1. o # db[p].ptroff
      BY <1>1, <1>2, <1>4, TakeFreeLists
    <2> QED
      BY <1>1, <1>2, <1>4, <2>1, TakeFreeLists DEF TakeFree, o
  <1>5. CASE AppendIdx(p)
    <2>1. pc[p] = "appendidx" /\ pc'[p] = "link" /\ WriteIdx(p, nidx + 1)
      BY <1>2, <1>5 DEF AppendIdx, Goto, TypeOK
    <2>2. nidx + 1 \in Slots /\ nidx + 1 # o /\ \A l \in Locks : nidx + 1 \notin List(l)
      BY <1>1, <1>5, WrittenRecord
    <2>3. links' = [links EXCEPT ![nidx + 1] = db[p].first]
      BY <2>1, <2>2, WriteIdxLists
    <2> QED
      BY <1>1, <1>2, <2>1, <2>2, <2>3 DEF WriteIdx, o
  <1>6. CASE Reuse(p) /\ pc[p] = "reuseidx"
    <2>1. pc'[p] = "link" /\ WriteIdx(p, db[p].off) /\ Holding(p)
      BY <1>2, <1>6 DEF Reuse, Goto, TypeOK, Holding
    <2>2. db[p].off \in Slots /\ \A l \in Locks : db[p].off \notin List(l)
      BY <2>1, WrittenRecord
    <2>3. db[p].off # o
      BY <2>1 DEF ListInv, HandsOK, o
    <2>4. links' = [links EXCEPT ![db[p].off] = db[p].first]
      BY <1>6, <2>1, <2>2, WriteIdxLists
    <2> QED
      BY <1>1, <1>2, <2>1, <2>2, <2>3, <2>4 DEF WriteIdx, o
  <1>7. CASE Link(p)
    <2>1. Chain(p) \in Locks
      BY <1>7, LinkLists DEF Locks
    <2> QED
      BY <1>1, <1>2, <1>7, <2>1, LinkLists DEF Link, o
  <1> QED
    BY <1>3, <1>4, <1>5, <1>6, <1>7, OtherStepsLists DEF Writes, o

\* The lists stay apart, and every record is on one of them or in the hands of one
\* call.
LEMMA StructureStep ==
    ASSUME TypeInv, LockInv, ListInv, NEW p \in Procs, Step(p)
    PROVE  ListsOK' /\ HandsOK' /\ KeysOK'
  <1>1. /\ ListsOK /\ HandsOK /\ KeysOK /\ TypeOK /\ Free \in Locks /\ Chains \subseteq Locks
        /\ Free \notin Chains
    BY DbAssumption DEF ListInv, TypeInv, Locks
  <1>2. \A q \in Procs : q # p => (Holding(q)' <=> Holding(q)) /\ db'[q] = db[q]
    BY OthersStay DEF TypeInv, Holding
  <1>3. \A l \in Locks : IsList(links, Slots, l)'
    BY UnlockedListsKept
  <1>4. /\ rec \in [Slots -> [key : Keys \cup {Blank}, klen : Nat, dat : 0..MaxRec, dlen : Nat]]
        /\ pc \in [Procs -> PC] /\ db \in [Procs -> DB] /\ Records \subseteq Slots
        /\ \A l \in Locks : List(l) \subseteq Slots
    BY LinksType, ListBasics DEF TypeInv, TypeOK
  <1>5. CASE DeleteIdx(p)
    <2> DEFINE o == db[p].off
               c == Chain(p)
    <2>1. /\ c \in Chains /\ o \in List(c) /\ rec' = [rec EXCEPT ![o].key = Blank]
          /\ Records' = Records
          /\ ~Holding(p) /\ ~Holding(p)'
      BY <1>4, <1>5, DeleteIdxLists DEF DeleteIdx, Holding, Goto, Records
    <2>2. /\ List(Free)' = List(Free) \cup {o}
          /\ \A l \in Locks : l = c => List(l)' = List(l) \ {o}
          /\ \A l \in Locks : l # Free /\ l # c => List(l)' = List(l)
      BY <1>5, DeleteIdxLists DEF Kept
    <2> HIDE DEF o, c
    <2>3. ListsOK'
      BY <1>1, <1>3, <2>1, <2>2 DEF ListsOK
    <2>4. HandsOK'
      BY <1>1, <1>2, <2>1, <2>2 DEF HandsOK
    <2>5. \A s \in Slots : rec'[s].key = IF s = o THEN Blank ELSE rec[s].key
      BY <1>4, <2>1
    <2>6. KeysOK'
      BY <1>1, <1>4, <2>1, <2>2, <2>5 DEF KeysOK, ListsOK
    <2> QED
      BY <2>3, <2>4, <2>6
  <1>6. CASE TakeFree(p)
    <2> DEFINE o == db[p].off
    <2>1. /\ o \in List(Free) /\ rec' = rec /\ Records' = Records
          /\ ~Holding(p) /\ Holding(p)' /\ db'[p].off = o
      BY <1>4, <1>6, TakeFreeLists DEF TakeFree, Holding, Goto, Records
    <2>2. /\ List(Free)' = List(Free) \ {o}
          /\ \A l \in Locks : l # Free => List(l)' = List(l)
      BY <1>6, TakeFreeLists DEF Kept
    <2> HIDE DEF o
    <2>3. ListsOK'
      BY <1>1, <1>3, <2>1, <2>2 DEF ListsOK
    <2>4. HandsOK'
      <3>1. \A q \in Procs : Holding(q)' => \A l \in Locks : db'[q].off \notin List(l)'
        BY <1>1, <1>2, <2>1, <2>2 DEF HandsOK, ListsOK
      <3>2. \A q, r \in Procs : Holding(q)' /\ Holding(r)' /\ db'[q].off = db'[r].off => q = r
        BY <1>1, <1>2, <2>1, <2>2 DEF HandsOK
      <3>3. \A s \in Records : \/ \E l \in Locks : s \in List(l)'
                               \/ \E q \in Procs : Holding(q)' /\ db'[q].off = s
        BY <1>1, <1>2, <2>1, <2>2 DEF HandsOK
      <3> QED
        BY <2>1, <3>1, <3>2, <3>3 DEF HandsOK
    <2>5. KeysOK'
      BY <1>1, <2>1, <2>2 DEF KeysOK
    <2> QED
      BY <2>3, <2>4, <2>5
  <1>7. CASE AppendIdx(p)
    <2> DEFINE o == nidx + 1
    <2>1. pc[p] = "appendidx" /\ pc'[p] = "link" /\ WriteIdx(p, o)
          /\ ~Holding(p) /\ Holding(p)' /\ db'[p].off = o
      BY <1>1, <1>4, <1>7 DEF AppendIdx, Goto, TypeOK, Holding, DB
    <2>2. o \in Slots /\ o \notin Records /\ \A l \in Locks : o \notin List(l)
      BY <1>7, WrittenRecord
    <2>3. \A l \in Locks : List(l)' = List(l)
      BY <2>1, <2>2, WriteIdxLists DEF Kept
    <2>4. Records' = Records \cup {o}
      <3>1. nidx' = nidx + 1 /\ nidx \in Nat
        BY <1>1, <1>7 DEF AppendIdx, TypeOK
      <3> QED
        BY <3>1 DEF Records
    <2>5. \A q \in Procs : Holding(q) => db[q].off \in Records
      BY WrittenRecord
    <2> HIDE DEF o
    <2>6. \A s \in Slots : s # o => rec'[s] = rec[s]
      BY <1>4, <2>1 DEF WriteIdx
    <2>7. ListsOK'
      BY <1>1, <1>3, <2>3, <2>4 DEF ListsOK
    <2>8. HandsOK'
      <3>1. \A q \in Procs : Holding(q)' => \A l \in Locks : db'[q].off \notin List(l)'
        BY <1>1, <1>2, <2>1, <2>2, <2>3 DEF HandsOK
      <3>2. \A q, r \in Procs : Holding(q)' /\ Holding(r)' /\ db'[q].off = db'[r].off => q = r
        BY <1>1, <1>2, <2>1, <2>2, <2>5 DEF HandsOK
      <3>3. \A s \in Records' : \/ \E l \in Locks : s \in List(l)'
                               \/ \E q \in Procs : Holding(q)' /\ db'[q].off = s
        BY <1>1, <1>2, <2>1, <2>3, <2>4 DEF HandsOK
      <3> QED
        BY <3>1, <3>2, <3>3 DEF HandsOK
    <2>9. KeysOK'
      BY <1>1, <1>4, <2>2, <2>3, <2>6 DEF KeysOK
    <2> QED
      BY <2>7, <2>8, <2>9
  <1>8. CASE Reuse(p) /\ pc[p] = "reuseidx"
    <2> DEFINE o == db[p].off
    <2>1. /\ pc'[p] = "link" /\ WriteIdx(p, o) /\ Holding(p) /\ Holding(p)'
          /\ db' = db /\ Records' = Records
      BY <1>1, <1>4, <1>8 DEF Reuse, Goto, TypeOK, Holding, Records
    <2>2. o \in Slots /\ \A l \in Locks : o \notin List(l)
      BY <2>1, WrittenRecord
    <2>3. \A l \in Locks : List(l)' = List(l)
      BY <1>8, <2>1, <2>2, WriteIdxLists DEF Kept
    <2>4. \A q \in Procs : Holding(q)' <=> Holding(q)
      BY <1>2, <2>1
    <2> HIDE DEF o
    <2>5. \A s \in Slots : s # o => rec'[s] = rec[s]
      BY <1>4, <2>1 DEF WriteIdx
    <2>6. ListsOK' /\ HandsOK'
      BY <1>1, <1>3, <2>1, <2>3, <2>4 DEF ListsOK, HandsOK
    <2>7. KeysOK'
      BY <1>1, <1>4, <2>2, <2>3, <2>5 DEF KeysOK
    <2> QED
      BY <2>6, <2>7
  <1>9. CASE Link(p)
    <2> DEFINE o == db[p].off
               c == Chain(p)
    <2>1. /\ c \in Chains /\ rec' = rec /\ Records' = Records
          /\ Holding(p) /\ ~Holding(p)' /\ o \in Records
          /\ \A l \in Locks : o \notin List(l)
      BY <1>4, <1>9, LinkLists, WrittenRecord DEF Link, Holding, Goto, Records
    <2>2. /\ \A l \in Locks : l = c => List(l)' = List(l) \cup {o}
          /\ \A l \in Locks : l # c => List(l)' = List(l)
      BY <1>9, LinkLists DEF Kept
    <2>3. /\ rec[o].key = db[p].key /\ Hash[db[p].key] = c /\ db[p].key \in Keys
          /\ \A s \in List(c) : rec[s].key # db[p].key
      <3>1. pc[p] = "link" /\ db[p].op \in Writing \cup {"fetch"} /\ ChainFacts(p)
        BY <1>9 DEF Link, TypeInv, OpsOK, MayAppend, Storing, Writing, ListInv
      <3> QED
        BY <3>1, ChainIsLock DEF ChainFacts, Chain, Without, MayAppend, Absent
    <2>4. \A q \in Procs : Holding(q) /\ q # p => db[q].off # o
      BY <1>1, <2>1 DEF HandsOK
    <2> HIDE DEF o, c
    <2>5. ListsOK'
      BY <1>1, <1>3, <2>1, <2>2 DEF ListsOK
    <2>6. HandsOK'
      <3>1. \A q \in Procs : Holding(q)' => \A l \in Locks : db'[q].off \notin List(l)'
        BY <1>1, <1>2, <2>1, <2>2, <2>4 DEF HandsOK
      <3>2. \A q, r \in Procs : Holding(q)' /\ Holding(r)' /\ db'[q].off = db'[r].off => q = r
        BY <1>1, <1>2, <2>1 DEF HandsOK
      <3>3. ASSUME NEW s \in Records
            PROVE  \/ \E l \in Locks : s \in List(l)'
                   \/ \E q \in Procs : Holding(q)' /\ db'[q].off = s
        <4>1. CASE s = o
          BY <1>1, <2>1, <2>2, <4>1
        <4>2. CASE \E l \in Locks : s \in List(l)
          BY <1>1, <2>1, <2>2, <4>2
        <4>3. CASE s # o /\ \E q \in Procs : Holding(q) /\ db[q].off = s
          BY <1>2, <4>3 DEF o
        <4> QED
          BY <1>1, <4>1, <4>2, <4>3 DEF HandsOK
      <3> QED
        BY <2>1, <3>1, <3>2, <3>3 DEF HandsOK
    <2>7. KeysOK'
      BY <1>1, <2>1, <2>2, <2>3 DEF KeysOK
    <2> QED
      BY <2>5, <2>6, <2>7
  <1>10. CASE ~Writes(p)
    <2>1. rec' = rec /\ Records' = Records /\ \A l \in Locks : List(l)' = List(l)
      BY <1>10, OtherStepsLists DEF Kept, Records
    <2>2. \A q \in Procs : (Holding(q)' <=> Holding(q)) /\ (Holding(q) => db'[q].off = db[q].off)
      <3> SUFFICES (Holding(p)' <=> Holding(p)) /\ (Holding(p) => db'[p].off = db[p].off)
        BY <1>2
      <3> USE <1>4, <1>10 DEF Holding, Goto
      <3>1. CASE Find(p)
        BY <3>1 DEF Find, Found, NotFound
      <3>2. CASE FetchData(p) \/ Overwrite(p) \/ DoDelete(p) \/ DeleteData(p) \/ DeleteFree(p)
                 \/ DeletePtr(p) \/ FindFree(p) \/ WalkFree(p) \/ AppendData(p)
        BY <3>2 DEF FetchData, Overwrite, DoDelete, DeleteData, DeleteFree, DeletePtr,
                    FindFree, WalkFree, AppendData
      <3>3. CASE Reuse(p)
        BY <3>3 DEF Reuse, Writes
      <3>4. CASE UnlockChain(p) \/ Nextrec(p) \/ NextrecData(p) \/ NextrecReturn(p)
                 \/ Rewind(p) \/ CallNextrec(p)
        BY <3>4 DEF UnlockChain, Nextrec, NextrecData, NextrecReturn, Rewind, CallNextrec
      <3>5. CASE \E op \in Writing \cup {"fetch"}, k \in Keys, v \in Values \cup {None} :
                     FindAndLock(p, op, k, v)
        BY <3>5 DEF FindAndLock
      <3> QED
        BY <3>1, <3>2, <3>3, <3>4, <3>5 DEF Step, Running, Writes
    <2> QED
      BY <1>1, <1>3, <2>1, <2>2 DEF ListsOK, HandsOK, KeysOK
  <1> QED
    BY <1>5, <1>6, <1>7, <1>8, <1>9, <1>10 DEF Writes

-----------------------------------------------------------------------------
(* What a call knows of the lists it has locked                            *)

\* A list that is kept is kept from each of its records on.
LEMMA KeptReach ==
    ASSUME TypeInv, LockInv, NEW l \in Locks, Kept(l), NEW x, x = 0 \/ x \in List(l)
    PROVE  Reach(links', Slots, x) = Reach(links, Slots, x)
  <1>1. /\ Closed(links, Slots) /\ (links[l] = 0 \/ links[l] \in Slots)
    BY LinksType
  <1>2. Reach(links, Slots, x) \subseteq List(l) /\ (x = 0 \/ x \in Slots)
    BY <1>1, ReachPart, ListBasics DEF List
  <1> QED
    BY <1>1, <1>2, ReachFrame DEF Kept

\* On a chain that no closing process works on the pointers are what they seem.
LEMMA ChainSeen ==
    ASSUME TypeInv, LockInv, ListInv, NEW c \in Chains,
           \A q \in Procs : Closing(q) => Chain(q) # c
    PROVE  \A x \in {c} \cup List(c) : ptr[x] = links[x]
  <1>1. CASE \E q \in Procs : Closing(q)
    <2>1. PICK q \in Procs : Closing(q)
      BY <1>1
    <2>2. links = [ptr EXCEPT ![Free] = db[q].off, ![db[q].ptroff] = db[q].ptrval]
      BY <2>1, ClosingAlone
    <2>3. db[q].ptroff \in {Chain(q)} \cup List(Chain(q)) /\ Chain(q) \in Locks
      BY <2>1, ChainIsLock DEF ListInv, ChainFacts, Closing, TypeInv, OpsOK, MayDelete, Writing
    <2>4. c \in Locks /\ c # Free /\ Chain(q) # c
      BY <2>1, DbAssumption DEF Locks
    <2>5. List(c) \cap List(Chain(q)) = {} /\ List(c) \subseteq Slots
          /\ List(Chain(q)) \subseteq Slots
      BY <2>3, <2>4, ListBasics DEF ListInv, ListsOK
    <2>6. c \notin Slots /\ Free \notin Slots /\ Chain(q) \notin Slots
      BY <2>3, <2>4, LinksType DEF Locks
    <2>7. \A x \in {c} \cup List(c) : x # Free /\ x # db[q].ptroff
      BY <2>3, <2>4, <2>5, <2>6
    <2>8. ptr \in [Locks \cup Slots -> 0..MaxRec] /\ {c} \cup List(c) \subseteq Locks \cup Slots
      BY <2>4, <2>5 DEF TypeInv, TypeOK
    <2> QED
      BY <2>2, <2>7, <2>8
  <1> QED
    BY <1>1, NoneClosing

\* A process that has a lock on a chain reads the links of that chain in the file.
LEMMA HolderSeesChain ==
    ASSUME TypeInv, LockInv, ListInv, NEW p \in Procs, ~Closing(p),
           db[p].op \in Writing \cup {"fetch"}
    PROVE  \A x \in {Chain(p)} \cup List(Chain(p)) : ptr[x] = links[x]
  <1>1. Chain(p) \in Chains /\ Chain(p) \in Locks
    BY ChainIsLock
  <1>2. p \in wr[Chain(p)] \/ p \in rd[Chain(p)]
    BY DEF LockInv, LocksOK
  <1>3. ASSUME NEW q \in Procs, Closing(q) PROVE Chain(q) # Chain(p)
    <2>1. q \in wr[Chain(q)] /\ q # p
      BY <1>3 DEF LockInv, LocksOK, TypeInv, OpsOK, Closing, MayDelete, Writing
    <2> QED
      BY <1>1, <1>2, <2>1 DEF LockInv, Exclusive
  <1> QED
    BY <1>1, <1>3, ChainSeen

\* What a call knows of its chain is not disturbed by a step of another process.
LEMMA ChainFactsOthers ==
    ASSUME TypeInv, LockInv, ListInv, NEW p \in Procs, Step(p), NEW q \in Procs, q # p
    PROVE  ChainFacts(q)'
  <1>1. /\ pc'[q] = pc[q] /\ db'[q] = db[q] /\ ChainFacts(q) /\ OpsOK(q) /\ LocksOK(q)
        /\ Chain(q)' = Chain(q)
    BY OthersStay DEF TypeInv, LockInv, ListInv, Chain
  <1>2. CASE db[q].op \notin Writing \cup {"fetch"}
    BY <1>1, <1>2
       DEF ChainFacts, OpsOK, TypeInv, TypeOK, DB, MayScan, Known, Without, MayReuse,
           MayAppend, Closing, First
  <1>3. CASE db[q].op \in Writing \cup {"fetch"}
    <2>1. PICK c \in Locks : c = Chain(q) /\ c = Hash[db[q].key]
      BY <1>3, ChainIsLock DEF Chain
    <2>2. p \notin wr[c]
      BY <1>1, <1>3, <2>1 DEF LocksOK, LockInv, Exclusive
    <2>3. Kept(c)
      BY <2>2, UnlockedListsKept
    <2>4. \A x : x = 0 \/ x \in List(c) => Reach(links', Slots, x) = Reach(links, Slots, x)
      BY <2>3, KeptReach
    <2>5. \A x \in {c} \cup List(c) : links[x] = 0 \/ links[x] \in List(c)
      BY ListBasics
    <2>6. Holding(q) => links'[db[q].off] = links[db[q].off] /\ rec'[db[q].off] = rec[db[q].off]
      BY HandsKept
    <2>7. /\ links'[c] = links[c] /\ List(c)' = List(c)
          /\ \A s \in List(c) : links'[s] = links[s] /\ rec'[s] = rec[s]
      BY <2>3 DEF Kept
    <2>8. At(q, c) => At(q, c)' /\ (db[q].off = 0 \/ db[q].off \in List(c))
      BY <1>1, <2>5, <2>7 DEF At
    <2>9. Searching(q) => Searching(q)'
      <3> SUFFICES ASSUME Searching(q) PROVE Searching(q)'
        OBVIOUS
      <3>1. /\ At(q, c) /\ At(q, c)' /\ (db[q].off = 0 \/ db[q].off \in List(c))
            /\ \A s \in List(c) : rec[s].key = db[q].key => s \in Reach(links, Slots, db[q].off)
        BY <2>1, <2>8 DEF Searching
      <3>2. Reach(links, Slots, db[q].off)' = Reach(links, Slots, db[q].off)
        <4>1. Reach(links', Slots, db[q].off) = Reach(links, Slots, db[q].off)
          BY <2>4, <3>1
        <4> QED
          BY <1>1, <4>1 DEF Slots, Reach, Closed
      <3>3. \A s \in List(c) : rec'[s].key = db[q].key =>
                s \in Reach(links, Slots, db[q].off)'
        BY <2>7, <3>1, <3>2
      <3> QED
        BY <1>1, <2>1, <2>7, <3>1, <3>3 DEF Searching, At
    <2>10. Hit(q, c) /\ rec[db[q].off].key = db[q].key =>
              Hit(q, c)' /\ rec'[db[q].off].key = db[q].key
      BY <1>1, <2>7, <2>8 DEF Hit
    <2>11. Absent(db[q].key) => Absent(db[q].key)'
      BY <1>1, <2>1, <2>7 DEF Absent
    <2>12. Closing(q)' <=> Closing(q)
      BY <1>1 DEF Closing
    <2>13. pc[q] \in Known => Hit(q, Chain(q))' /\ rec'[db'[q].off].key = db'[q].key
      BY <1>1, <2>1, <2>10 DEF ChainFacts, Hit, At
    <2>14. Closing(q) => db'[q].ptroff \in ({Chain(q)} \cup List(Chain(q)))'
      BY <1>1, <2>1, <2>7 DEF ChainFacts
    <2>15. pc[q] \in Without => Absent(db[q].key)'
      BY <1>1, <2>11 DEF ChainFacts
    <2>16. pc[q] \in First => db'[q].first = links'[Chain(q)']
      BY <1>1, <2>1, <2>7 DEF ChainFacts
    <2>17. pc[q] = "link" => /\ links'[db'[q].off] = links'[Chain(q)']
                             /\ rec'[db'[q].off].key = db'[q].key
      BY <1>1, <2>1, <2>6, <2>7 DEF ChainFacts, Holding
    <2> QED
      BY <1>1, <2>9, <2>12, <2>13, <2>14, <2>15, <2>16, <2>17 DEF ChainFacts
  <1> QED
    BY <1>2, <1>3

\* What a call knows of the free list is not disturbed by another process.
LEMMA FreeFactsOthers ==
    ASSUME TypeInv, LockInv, ListInv, NEW p \in Procs, Step(p), NEW q \in Procs, q # p
    PROVE  FreeFacts(q)'
  <1>1. /\ pc'[q] = pc[q] /\ db'[q] = db[q] /\ FreeFacts(q) /\ LocksOK(q) /\ TypeOK
        /\ Free \in Locks
    BY OthersStay DEF TypeInv, LockInv, ListInv, Locks
  <1>2. CASE pc[q] \notin HoldsFree
    BY <1>1, <1>2 DEF FreeFacts, HoldsFree
  <1>3. CASE pc[q] \in HoldsFree
    <2>1. p \notin wr[Free]
      BY <1>1, <1>3 DEF LocksOK, LockInv, Exclusive
    <2>2. /\ links'[Free] = links[Free] /\ List(Free)' = List(Free)
          /\ \A s \in List(Free) : links'[s] = links[s] /\ rec'[s] = rec[s]
      BY <1>1, <2>1, UnlockedListsKept DEF Kept
    <2>3. \A x \in {Free} \cup List(Free) : links[x] = 0 \/ links[x] \in List(Free)
      BY <1>1, ListBasics
    <2>4. ptr'[Free] = ptr[Free]
      <3>1. pc[p] \notin HoldsFree
        BY <2>1 DEF LockInv, LocksOK
      <3>2. ~DeleteIdx(p) /\ ~DeleteFree(p) /\ ~DeletePtr(p) /\ ~TakeFree(p)
        BY <3>1 DEF HoldsFree, DeleteIdx, DeleteFree, DeletePtr, TakeFree
      <3>3. /\ nidx + 1 \in Slots \/ ~AppendIdx(p)
            /\ db[p].off \in Slots \/ ~Holding(p)
            /\ Free \notin Slots
        BY <1>1, WrittenRecord, LinksType
      <3>4. ptr \in [Locks \cup Slots -> 0..MaxRec]
        BY <1>1 DEF TypeOK
      <3>5. CASE AppendIdx(p)
        BY <1>1, <3>3, <3>4, <3>5 DEF AppendIdx, WriteIdx
      <3>6. CASE Reuse(p)
        BY <1>1, <3>3, <3>4, <3>6 DEF Reuse, WriteIdx, Holding
      <3>7. CASE Link(p)
        <4>1. Chain(p) # Free
          BY <3>7, ChainIsLock DEF Link, TypeInv, OpsOK, MayAppend, Storing, Writing
        <4> QED
          BY <1>1, <3>4, <3>7, <4>1 DEF Link
      <3>8. CASE ptr' = ptr
        BY <3>8
      <3> QED
        BY <3>2, <3>5, <3>6, <3>7, <3>8
           DEF Step, Running, Find, FetchData, Overwrite, DoDelete, DeleteData,
               FindFree, WalkFree, AppendData, UnlockChain, Nextrec, NextrecData,
               NextrecReturn, Rewind, CallNextrec, FindAndLock, filevars
    <2>5. At(q, Free) => At(q, Free)' /\ (db[q].off = 0 \/ db[q].off \in List(Free))
      BY <1>1, <2>2, <2>3 DEF At
    <2>6. Hit(q, Free) => Hit(q, Free)'
      BY <1>1, <2>2, <2>5 DEF Hit
    <2> QED
      BY <1>1, <2>4, <2>5, <2>6 DEF FreeFacts
  <1> QED
    BY <1>2, <1>3

\* The facts that hold of the process that takes the step.
LEMMA FactsOfWriters ==
    ASSUME TypeInv, LockInv, ListInv, NEW p \in Procs, Step(p), Writes(p)
    PROVE  ChainFacts(p)' /\ FreeFacts(p)'
  <1>1. /\ TypeOK /\ OpsOK(p) /\ LocksOK(p) /\ ChainFacts(p) /\ FreeFacts(p) /\ Free \in Locks
        /\ KeysOK /\ ListsOK
        /\ pc \in [Procs -> PC] /\ db \in [Procs -> DB]
        /\ rec \in [Slots -> [key : Keys \cup {Blank}, klen : Nat, dat : 0..MaxRec, dlen : Nat]]
    BY DEF TypeInv, TypeOK, LockInv, ListInv, Locks
  <1>2. db[p].op \in Writing \cup {"fetch"}
    BY <1>1 DEF Writes, DeleteIdx, TakeFree, AppendIdx, Link, Reuse, OpsOK, MayDelete,
                MayAppend, MayReuse, Storing, Writing
  <1>3. PICK c \in Locks : c = Chain(p) /\ c = Hash[db[p].key] /\ c \in Chains /\ c # Free
    BY <1>2, ChainIsLock DEF Chain
  <1>4. List(c) \subseteq Slots
    BY ListBasics
  <1>5. db'[p].op = db[p].op /\ db'[p].key = db[p].key /\ Chain(p)' = c
    BY <1>1, <1>3, ArgumentsStay DEF Writes, Acting, Chain
  <1>6. CASE DeleteIdx(p)
    <2> DEFINE o == db[p].off
    <2>1. /\ pc[p] = "delidx" /\ pc'[p] = "delfree" /\ db' = db
          /\ rec' = [rec EXCEPT ![o].key = Blank]
      BY <1>1, <1>6 DEF DeleteIdx, Goto
    <2>2. /\ o \in List(c) /\ o # db[p].ptroff /\ db[p].ptroff \in {c} \cup List(c)
          /\ List(c)' = List(c) \ {o}
      BY <1>3, <1>6, DeleteIdxLists
    <2>3. rec[o].key = db[p].key
      BY <1>1, <2>1 DEF ChainFacts, Known
    <2>4. \A s \in List(c) \ {o} : rec'[s].key # db[p].key
      BY <1>1, <1>3, <1>4, <2>1, <2>2, <2>3 DEF KeysOK
    <2>5. Absent(db[p].key)' /\ db'[p].ptroff \in ({Chain(p)} \cup List(Chain(p)))'
      BY <1>3, <1>5, <2>1, <2>2, <2>4 DEF Absent
    <2> QED
      BY <2>1, <2>5 DEF ChainFacts, FreeFacts, Known, First, MayReuse
  <1>7. CASE TakeFree(p)
    <2>1. /\ pc[p] = "takefree" /\ pc'[p] = "reusedat" /\ db' = db
      BY <1>1, <1>7 DEF TakeFree, Goto
    <2>2. Kept(c)
      BY <1>3, <1>7, TakeFreeLists
    <2>3. Absent(db[p].key) /\ db[p].first = links[c]
      BY <1>1, <1>3, <2>1 DEF ChainFacts, Without, First, MayReuse
    <2>4. Absent(db[p].key)' /\ db'[p].first = links'[Chain(p)']
      BY <1>3, <1>5, <2>1, <2>2, <2>3 DEF Absent, Kept
    <2> QED
      BY <2>1, <2>4 DEF ChainFacts, FreeFacts, Known, First, MayReuse, Closing
  <1>8. ASSUME NEW s \in Slots, WriteIdx(p, s), pc[p] \in {"appendidx", "reuseidx"},
               pc'[p] = "link", db'[p].off = s, \A l \in Locks : s \notin List(l)
        PROVE  ChainFacts(p)' /\ FreeFacts(p)'
    <2>1. Kept(c) /\ links' = [links EXCEPT ![s] = db[p].first]
      BY <1>8, WriteIdxLists
    <2>2. Absent(db[p].key) /\ db[p].first = links[c]
      BY <1>1, <1>3, <1>8 DEF ChainFacts, Without, First, MayReuse, MayAppend
    <2>3. links'[s] = links'[c]
      BY <2>1, <2>2, LinksType DEF Kept
    <2>4. rec'[s].key = db[p].key
      BY <1>1, <1>8 DEF WriteIdx
    <2>5. Absent(db[p].key)'
      BY <1>3, <1>5, <2>1, <2>2 DEF Absent, Kept
    <2> QED
      BY <1>5, <1>8, <2>3, <2>4, <2>5 DEF ChainFacts, FreeFacts, Known, First, MayReuse, Closing
  <1>9. CASE AppendIdx(p)
    <2>1. pc[p] = "appendidx" /\ pc'[p] = "link" /\ WriteIdx(p, nidx + 1)
          /\ db'[p].off = nidx + 1
      BY <1>1, <1>9 DEF AppendIdx, Goto, DB
    <2> QED
      BY <1>8, <1>9, <2>1, WrittenRecord
  <1>10. CASE Reuse(p) /\ pc[p] = "reuseidx"
    <2>1. pc'[p] = "link" /\ WriteIdx(p, db[p].off) /\ Holding(p) /\ db'[p].off = db[p].off
      BY <1>1, <1>10 DEF Reuse, Goto, Holding
    <2> QED
      BY <1>8, <1>10, <2>1, WrittenRecord
  <1>11. CASE Link(p)
    <2>1. pc'[p] = "unlock"
      BY <1>1, <1>11 DEF Link, Goto
    <2> QED
      BY <2>1 DEF ChainFacts, FreeFacts, Known, Without, First, MayReuse, MayAppend, Closing
  <1> QED
    BY <1>6, <1>7, <1>9, <1>10, <1>11 DEF Writes

\* What a step that writes no pointer lets its process know of the lists.
LEMMA FactsOfReaders ==
    ASSUME TypeInv, LockInv, ListInv, NEW p \in Procs, Step(p), ~Writes(p)
    PROVE  ChainFacts(p)' /\ FreeFacts(p)'
  <1>1. /\ TypeOK /\ OpsOK(p) /\ LocksOK(p) /\ ChainFacts(p) /\ FreeFacts(p) /\ Free \in Locks
        /\ pc \in [Procs -> PC] /\ db \in [Procs -> DB] /\ db[p] \in DB
    BY DEF TypeInv, TypeOK, LockInv, ListInv, Locks
  <1>2. /\ links' = links /\ rec' = rec
        /\ \A l \in Locks : List(l)' = List(l)
        /\ \A x : Reach(links, Slots, x)' = Reach(links', Slots, x)
    BY OtherStepsLists DEF Kept, Slots, Reach, Closed
  <1> USE DEF Goto
  <1>3. ASSUME pc'[p] \in {"idle", "unlock", "nextrec", "nextdat", "nextret", "eof"}
        PROVE  ChainFacts(p)' /\ FreeFacts(p)'
    BY <1>3 DEF ChainFacts, FreeFacts, Known, Without, First, MayReuse, MayAppend, Closing
  <1>4. CASE \/ FetchData(p) \/ Overwrite(p) \/ UnlockChain(p) \/ Nextrec(p) \/ NextrecData(p)
             \/ NextrecReturn(p) \/ Rewind(p) \/ CallNextrec(p)
    BY <1>1, <1>3, <1>4 DEF FetchData, Overwrite, UnlockChain, Nextrec, NextrecData,
                            NextrecReturn, Rewind, CallNextrec
  <1>5. ASSUME NEW op \in Writing \cup {"fetch"}, NEW k \in Keys,
               NEW v \in Values \cup {None}, FindAndLock(p, op, k, v)
        PROVE  ChainFacts(p)' /\ FreeFacts(p)'
    <2>1. PICK c \in Locks : c = Hash[k] /\ c \in Chains
      BY DbAssumption DEF Locks
    <2>2. /\ pc'[p] = "find" /\ db'[p].key = k /\ db'[p].ptroff = c /\ db'[p].off = ptr[c]
          /\ Chain(p)' = c
      BY <1>1, <1>5, <2>1 DEF FindAndLock, Idle, Chain
    <2>3. wr[c] = {}
      BY <1>5, <2>1 DEF FindAndLock, ReadLock, WriteLock
    <2>4. ASSUME NEW q \in Procs, Closing(q) PROVE Chain(q) # c
      <3>1. q \in wr[Chain(q)]
        BY <2>4 DEF LockInv, LocksOK, TypeInv, OpsOK, Closing, MayDelete, Writing
      <3> QED
        BY <2>3, <3>1
    <2>5. ptr[c] = links[c]
      BY <2>1, <2>4, ChainSeen
    <2>6. List(c)' = Reach(links, Slots, db[p].off)'
      BY <1>2, <2>2, <2>5 DEF List
    <2>7. Searching(p)'
      BY <1>2, <2>2, <2>5, <2>6 DEF Searching, At
    <2> QED
      BY <2>2, <2>7 DEF ChainFacts, FreeFacts, Known, Without, First, MayReuse, MayAppend, Closing
  <1>6. CASE Acting(p)
    <2>1. /\ db'[p].op = db[p].op /\ db'[p].key = db[p].key /\ Chain(p)' = Chain(p)
          /\ db'[p].val = db[p].val
      BY <1>1, <1>6, ArgumentsStay DEF Chain
    <2>2. db[p].op \in Writing \cup {"fetch"}
      BY <1>1, <1>6 DEF Acting, OpsOK, DB, MayScan, Find, FetchData, Overwrite, DoDelete,
                        DeleteData, DeleteIdx, DeleteFree, DeletePtr, FindFree, WalkFree,
                        TakeFree, AppendData, AppendIdx, Reuse, Link
    <2>3. PICK c \in Locks : c = Chain(p) /\ c = Hash[db[p].key] /\ c \in Chains /\ c # Free
      BY <2>2, ChainIsLock DEF Chain
    <2>4. ~Closing(p) => \A x \in {c} \cup List(c) : ptr[x] = links[x]
      BY <2>2, <2>3, HolderSeesChain
    <2>5. \A x \in {c} \cup List(c) : links[x] = 0 \/ links[x] \in List(c)
      BY ListBasics
    <2>6. List(c)' = List(c) /\ List(Free)' = List(Free)
      BY <1>1, <1>2
    <2>7. Absent(db[p].key) => Absent(db[p].key)'
      BY <1>2, <2>1, <2>3, <2>6 DEF Absent
    <2>8. CASE Find(p)
      <3>1. /\ pc[p] = "find" /\ ~Closing(p) /\ At(p, c)
            /\ \A s \in List(c) : rec[s].key = db[p].key => s \in Reach(links, Slots, db[p].off)
        BY <1>1, <2>3, <2>8 DEF Find, Closing, ChainFacts, Searching
      <3>2. CASE db[p].off = 0 /\ NotFound(p)
        <4>1. Absent(db[p].key)
          BY <2>3, <3>1, <3>2, ReachNothing DEF Absent
        <4>2. db'[p].first = links[c]
          BY <1>1, <2>3, <2>4, <3>1, <3>2 DEF NotFound, DB
        <4>3. pc'[p] \in {"findfree", "unlock"}
          BY <1>1, <3>2 DEF NotFound
        <4> QED
          BY <1>2, <1>3, <2>1, <2>3, <2>7, <4>1, <4>2, <4>3
             DEF ChainFacts, FreeFacts, Known, Closing
      <3>3. CASE db[p].off # 0 /\ rec[db[p].off].key = db[p].key /\ Found(p)
        <4>1. db[p].off \in List(c) /\ db[p].ptroff \in {c} \cup List(c)
              /\ links[db[p].ptroff] = db[p].off
          BY <2>5, <3>1, <3>3 DEF At
        <4>2. /\ db'[p].off = db[p].off /\ db'[p].ptroff = db[p].ptroff
              /\ db'[p].ptrval = links[db[p].off] /\ db'[p].datoff = rec[db[p].off].dat
          BY <1>1, <2>4, <3>1, <3>3, <4>1 DEF Found, DB
        <4>3. pc'[p] \in {"readdat", "dodelete", "unlock", "overwrite"}
          BY <1>1, <3>3 DEF Found
        <4>4. Hit(p, Chain(p))' /\ rec'[db'[p].off].key = db'[p].key
          BY <1>2, <2>1, <2>3, <2>6, <3>3, <4>1, <4>2 DEF Hit, At
        <4> QED
          BY <4>3, <4>4 DEF ChainFacts, FreeFacts, Without, First, MayReuse, MayAppend, Closing
      <3>4. CASE /\ db[p].off # 0 /\ rec[db[p].off].key # db[p].key /\ pc' = pc
                 /\ db' = [db EXCEPT ![p].ptroff = db[p].off, ![p].off = ptr[db[p].off]]
        <4>1. db[p].off \in List(c)
          BY <2>5, <3>1, <3>4 DEF At
        <4>2. db'[p].ptroff = db[p].off /\ db'[p].off = links[db[p].off]
          BY <1>1, <2>4, <3>1, <3>4, <4>1 DEF DB
        <4>3. Reach(links, Slots, db[p].off)
                = {db[p].off} \cup Reach(links, Slots, links[db[p].off])
          <5>1. Closed(links, Slots) /\ 0 \notin Slots /\ db[p].off \in Slots
            BY <4>1, LinksType, ListBasics
          <5> QED
            BY <5>1, ReachStep
        <4>4. Reach(links, Slots, db[p].off)' = Reach(links, Slots, links[db[p].off])
          BY <1>2, <4>2
        <4>5. \A s \in List(c) : rec[s].key = db[p].key => s \in Reach(links, Slots, db[p].off)'
          BY <3>1, <3>4, <4>3, <4>4
        <4>6. Searching(p)'
          BY <1>2, <2>1, <2>3, <2>6, <4>1, <4>2, <4>5 DEF Searching, At
        <4> QED
          BY <3>1, <3>4, <4>6
             DEF ChainFacts, FreeFacts, Known, Without, First, MayReuse, MayAppend, Closing
      <3> QED
        BY <2>8, <3>2, <3>3, <3>4 DEF Find
    <2>9. CASE DoDelete(p) \/ DeleteData(p)
      <3>1. pc[p] \in {"dodelete", "deldat"} /\ pc'[p] \in {"deldat", "delidx"} /\ db' = db
        BY <1>1, <2>9 DEF DoDelete, DeleteData
      <3>2. Hit(p, c) /\ rec[db[p].off].key = db[p].key
        BY <1>1, <2>3, <3>1 DEF ChainFacts, Known
      <3>3. Hit(p, Chain(p))' /\ rec'[db'[p].off].key = db'[p].key
        BY <1>2, <2>1, <2>3, <2>6, <3>1, <3>2 DEF Hit, At
      <3> QED
        BY <3>1, <3>3 DEF ChainFacts, FreeFacts, Without, First, MayReuse, MayAppend, Closing
    <2>10. CASE DeleteFree(p)
      <3>1. /\ pc[p] = "delfree" /\ pc'[p] = "delptr" /\ db' = db
            /\ ptr' = [ptr EXCEPT ![Free] = db[p].off]
        BY <1>1, <2>10 DEF DeleteFree
      <3>2. ptr'[Free] = db[p].off
        BY <1>1, <3>1 DEF TypeOK
      <3>3. db[p].ptroff \in {c} \cup List(c) /\ Absent(db[p].key)
        BY <1>1, <2>3, <3>1 DEF ChainFacts, Closing, Without
      <3> QED
        BY <2>1, <2>3, <2>6, <2>7, <3>1, <3>2, <3>3
           DEF ChainFacts, FreeFacts, Known, First, MayReuse
    <2>11. CASE DeletePtr(p)
      <3>1. /\ pc[p] = "delptr" /\ pc'[p] \in {"unlock", "appenddat"}
            /\ db'[p].first = ptr'[c]
        BY <1>1, <2>3, <2>11 DEF DeletePtr, DB
      <3>2. \A q \in Procs : Closing(q) => q = p
        BY <3>1, ClosingAlone DEF Closing
      <3>3. \A q \in Procs : ~Closing(q)'
        BY <3>1, <3>2, OthersStay DEF Closing, TypeInv
      <3>4. db'[p].first = links'[Chain(p)']
        BY <2>1, <2>3, <3>1, <3>3, NoneClosingAfter
      <3>5. Absent(db[p].key)
        BY <1>1, <3>1 DEF ChainFacts, Without
      <3> QED
        BY <1>3, <2>1, <2>7, <3>1, <3>4, <3>5
           DEF ChainFacts, FreeFacts, Known, First, MayReuse, Closing
    <2>12. CASE FindFree(p)
      <3>1. /\ pc[p] = "findfree" /\ pc'[p] = "walkfree" /\ wr[Free] = {}
            /\ db'[p].ptroff = Free /\ db'[p].off = ptr[Free] /\ db'[p].first = db[p].first
        BY <1>1, <2>12 DEF FindFree, WriteLock, DB
      <3>2. \A q \in Procs : ~Closing(q)
        BY <3>1, ClosingAlone
      <3>3. At(p, Free)'
        BY <1>2, <3>1, <3>2, NoneClosing DEF At
      <3>4. Absent(db[p].key) /\ db[p].first = links[c]
        BY <1>1, <2>3, <3>1 DEF ChainFacts, Without, First, MayReuse
      <3> QED
        BY <1>2, <2>1, <2>3, <2>7, <3>1, <3>3, <3>4 DEF ChainFacts, FreeFacts, Known, Closing
    <2>13. CASE WalkFree(p)
      <3>1. pc[p] = "walkfree" /\ At(p, Free) /\ Absent(db[p].key) /\ db[p].first = links[c]
        BY <1>1, <2>3, <2>13 DEF WalkFree, ChainFacts, FreeFacts, Without, First, MayReuse
      <3>2. links = ptr
        BY <1>1, <3>1, FreeHolderSees DEF LocksOK, HoldsFree, Closing
      <3>3. \A x \in {Free} \cup List(Free) : links[x] = 0 \/ links[x] \in List(Free)
        BY <1>1, ListBasics
      <3>4. db'[p].first = db[p].first
        BY <1>1, <2>13 DEF WalkFree, DB
      <3>5. pc'[p] \in {"appenddat", "takefree", "walkfree"}
        BY <1>1, <2>13 DEF WalkFree
      <3>6. ChainFacts(p)'
        BY <1>2, <2>1, <2>3, <2>7, <3>1, <3>4, <3>5 DEF ChainFacts, Known, Closing
      <3>7. CASE db[p].off = 0 /\ pc'[p] = "appenddat"
        BY <3>6, <3>7 DEF FreeFacts
      <3>8. CASE /\ db[p].off # 0 /\ pc'[p] = "takefree"
                 /\ db' = [db EXCEPT ![p].ptrval = ptr[db[p].off], ![p].datoff = rec[db[p].off].dat]
        <4>1. /\ db'[p].off = db[p].off /\ db'[p].ptroff = db[p].ptroff
              /\ db'[p].ptrval = links[db[p].off] /\ db'[p].datoff = rec[db[p].off].dat
          BY <1>1, <3>2, <3>8 DEF DB
        <4>2. Hit(p, Free)'
          BY <1>2, <2>6, <3>1, <3>8, <4>1 DEF Hit, At
        <4> QED
          BY <3>6, <3>8, <4>2 DEF FreeFacts
      <3>9. CASE /\ db[p].off # 0 /\ pc' = pc
                 /\ db' = [db EXCEPT ![p].ptroff = db[p].off, ![p].off = ptr[db[p].off]]
        <4>1. db'[p].ptroff = db[p].off /\ db'[p].off = links[db[p].off]
          BY <1>1, <3>2, <3>9 DEF DB
        <4>2. db[p].off \in List(Free)
          BY <3>1, <3>3, <3>9 DEF At
        <4>3. At(p, Free)'
          BY <1>2, <2>6, <4>1, <4>2 DEF At
        <4> QED
          BY <3>1, <3>6, <3>9, <4>3 DEF FreeFacts
      <3> QED
        BY <1>1, <2>13, <3>7, <3>8, <3>9 DEF WalkFree
    <2>14. CASE AppendData(p)
      <3>1. pc[p] = "appenddat" /\ pc'[p] = "appendidx" /\ db'[p].first = db[p].first
        BY <1>1, <2>14 DEF AppendData, DB
      <3>2. Absent(db[p].key) /\ db[p].first = links[c]
        BY <1>1, <2>3, <3>1 DEF ChainFacts, Without, First, MayAppend
      <3> QED
        BY <1>2, <2>1, <2>3, <2>7, <3>1, <3>2 DEF ChainFacts, FreeFacts, Known, Closing
    <2>15. CASE Reuse(p)
      <3>1. pc[p] = "reusedat" /\ pc'[p] = "reuseidx" /\ db' = db
        BY <1>1, <2>15 DEF Reuse, Writes
      <3>2. Absent(db[p].key) /\ db[p].first = links[c]
        BY <1>1, <2>3, <3>1 DEF ChainFacts, Without, First, MayReuse
      <3> QED
        BY <1>2, <2>1, <2>3, <2>7, <3>1, <3>2 DEF ChainFacts, FreeFacts, Known, Closing
    <2> QED
      BY <1>4, <1>6, <2>8, <2>9, <2>10, <2>11, <2>12, <2>13, <2>14, <2>15 DEF Acting, Writes
  <1> QED
    BY <1>4, <1>5, <1>6 DEF Step, Running, Acting

\* The part of the invariant about the lists.
LEMMA ListInvStep ==
    ASSUME TypeInv, LockInv, ListInv, NEW p \in Procs, Step(p)
    PROVE  ListInv'
  <1>1. \A q \in Procs : ChainFacts(q)' /\ FreeFacts(q)'
    BY ChainFactsOthers, FreeFactsOthers, FactsOfWriters, FactsOfReaders
  <1> QED
    BY <1>1, StructureStep DEF ListInv

-----------------------------------------------------------------------------
(* The data                                                                *)

\* The record whose data a process is about to write.
LEMMA DataAtHand ==
    ASSUME TypeInv, LockInv, ListInv, DataInv, NEW p \in Procs
    PROVE  /\ pc[p] \in Known => /\ db[p].off \in Records /\ rec[db[p].off].dat = db[p].datoff
                                 /\ rec[db[p].off].key = db[p].key
                                 /\ db[p].off \in List(Chain(p)) /\ Chain(p) \in Locks
           /\ pc[p] = "reusedat" => /\ db[p].off \in Records /\ Holding(p)
                                    /\ rec[db[p].off].dat = db[p].datoff
                                    /\ rec[db[p].off].key = Blank
  <1>1. CASE pc[p] \in Known
    <2>1. Chain(p) \in Locks
      BY <1>1, ChainIsLock DEF Known, TypeInv, OpsOK, MayDelete, Writing
    <2>2. Hit(p, Chain(p)) /\ rec[db[p].off].key = db[p].key
      BY <1>1 DEF ListInv, ChainFacts
    <2>3. db[p].off \in List(Chain(p))
      BY <2>1, <2>2, ListBasics DEF Hit, At
    <2>4. db[p].off \in Records
      BY <2>1, <2>3 DEF ListInv, ListsOK
    <2> QED
      BY <1>1, <2>1, <2>2, <2>3, <2>4 DEF Hit, Known
  <1>2. CASE pc[p] = "reusedat"
    BY <1>2, WrittenRecord DEF Holding, DataInv, HandFacts, Known
  <1> QED
    BY <1>1, <1>2

\* The data that a step writes.
LEMMA DataWritten ==
    ASSUME TypeInv, NEW p \in Procs, Step(p)
    PROVE  /\ \A d \in 1..ndat : dat'[d] = dat[d] \/ d = db[p].datoff
           /\ pc[p] \notin {"overwrite", "deldat", "reusedat"} =>
                \A d \in 1..ndat : dat'[d] = dat[d]
           /\ pc[p] \in {"overwrite", "reusedat"} => dat'[db[p].datoff] = NewData(p)
           /\ pc[p] = "appenddat" => dat'[ndat + 1] = NewData(p)
  <1>1. /\ dat \in [Slots -> Data \cup {Blank}] /\ ndat \in 0..MaxRec /\ ndat \in Nat
        /\ MaxRec \in Nat
    BY DbAssumption DEF TypeInv, TypeOK
  <1>2. 1..ndat \subseteq Slots /\ ndat + 1 \notin 1..ndat
    BY <1>1 DEF Slots
  <1>3. pc[p] \in {"overwrite", "deldat", "reusedat"} => db[p].datoff \in 1..ndat
    BY DEF TypeInv, PlacesOK, CallPlaces, AtData
  <1>4. CASE Overwrite(p) \/ DeleteData(p)
    BY <1>1, <1>2, <1>3, <1>4 DEF Overwrite, DeleteData
  <1>5. CASE AppendData(p)
    <2>1. ndat + 1 \in Slots
      BY <1>5, Room DEF AppendData
    <2> QED
      BY <1>1, <1>2, <1>5, <2>1 DEF AppendData
  <1>6. CASE Reuse(p)
    BY <1>1, <1>2, <1>3, <1>6 DEF Reuse
  <1>7. CASE dat' = dat /\ pc[p] \notin {"overwrite", "reusedat", "appenddat"}
    BY <1>7
  <1> QED
    BY <1>4, <1>5, <1>6, <1>7
       DEF Step, Running, Find, FetchData, DoDelete, DeleteIdx, DeleteFree, DeletePtr,
           FindFree, WalkFree, TakeFree, AppendIdx, Link, UnlockChain, Nextrec, NextrecData,
           NextrecReturn, Rewind, CallNextrec, FindAndLock, filevars

\* The index record that a step writes.
LEMMA RecordsWritten ==
    ASSUME TypeInv, LockInv, ListInv, DataInv, NEW p \in Procs, Step(p)
    PROVE  /\ ~AppendIdx(p) => Records' = Records
           /\ AppendIdx(p) => Records' = Records \cup {nidx + 1} /\ nidx + 1 \notin Records
           /\ \A s \in Records : rec'[s].dat = rec[s].dat
           /\ \A s \in Records : \/ rec'[s].key = rec[s].key
                                 \/ DeleteIdx(p) /\ s = db[p].off /\ rec'[s].key = Blank
                                 \/ pc[p] = "reuseidx" /\ s = db[p].off /\ rec[s].key = Blank
                                    /\ rec'[s].key = db[p].key
           /\ AppendIdx(p) => /\ rec'[nidx + 1].dat = db[p].datoff
                              /\ rec'[nidx + 1].key = db[p].key
           /\ pc[p] = "reuseidx" => rec'[db[p].off].key = db[p].key
  <1>1. /\ rec \in [Slots -> [key : Keys \cup {Blank}, klen : Nat, dat : 0..MaxRec, dlen : Nat]]
        /\ nidx \in Nat /\ Records \subseteq Slots
    BY LinksType DEF TypeInv, TypeOK
  <1>2. CASE DeleteIdx(p)
    BY <1>1, <1>2 DEF DeleteIdx, Records, AppendIdx
  <1>3. CASE AppendIdx(p)
    <2>1. nidx + 1 \in Slots /\ nidx + 1 \notin Records
      BY <1>3, WrittenRecord
    <2>2. Records' = Records \cup {nidx + 1}
      <3>1. nidx' = nidx + 1
        BY <1>3 DEF AppendIdx
      <3> QED
        BY <1>1, <3>1 DEF Records
    <2>3. /\ \A s \in Records : rec'[s] = rec[s]
          /\ rec'[nidx + 1].dat = db[p].datoff /\ rec'[nidx + 1].key = db[p].key
          /\ pc[p] # "reuseidx"
      BY <1>1, <1>3, <2>1 DEF AppendIdx, WriteIdx
    <2> QED
      BY <1>3, <2>1, <2>2, <2>3
  <1>4. CASE Reuse(p) /\ pc[p] = "reuseidx"
    <2>1. /\ rec[db[p].off].key = Blank /\ rec[db[p].off].dat = db[p].datoff
          /\ db[p].off \in Slots
      BY <1>4, WrittenRecord DEF DataInv, HandFacts, Holding
    <2>2. /\ WriteIdx(p, db[p].off) /\ nidx' = nidx /\ ~AppendIdx(p)
      BY <1>4 DEF Reuse, AppendIdx
    <2>3. /\ \A s \in Records : s # db[p].off => rec'[s] = rec[s]
          /\ rec'[db[p].off].dat = db[p].datoff /\ rec'[db[p].off].key = db[p].key
      BY <1>1, <2>1, <2>2 DEF WriteIdx
    <2> QED
      BY <1>4, <2>1, <2>2, <2>3 DEF Records
  <1>5. CASE ~AppendIdx(p) /\ rec' = rec /\ nidx' = nidx /\ pc[p] # "reuseidx"
    BY <1>5 DEF Records
  <1> QED
    BY <1>2, <1>3, <1>4, <1>5
       DEF Step, Running, Find, FetchData, Overwrite, DoDelete, DeleteData, DeleteFree,
           DeletePtr, FindFree, WalkFree, TakeFree, AppendData, Reuse, Link, UnlockChain,
           Nextrec, NextrecData, NextrecReturn, Rewind, CallNextrec, FindAndLock, filevars

\* No two records come to have their data in the same place.
LEMMA PlacesApartStep ==
    ASSUME TypeInv, LockInv, ListInv, DataInv, NEW p \in Procs, Step(p)
    PROVE  PlacesApart'
  <1>1. /\ \A s, t \in Records : rec[s].dat = rec[t].dat => s = t
        /\ \A q \in Appending : \A s \in Records : rec[s].dat # db[q].datoff
        /\ \A q, r \in Appending : db[q].datoff = db[r].datoff => q = r
    BY DEF DataInv, PlacesApart
  <1>2. \A q \in Procs : q # p => pc'[q] = pc[q] /\ db'[q] = db[q]
    BY OthersStay DEF TypeInv
  <1>3. \A s \in Records : rec'[s].dat = rec[s].dat
    BY RecordsWritten
  <1>4. pc \in [Procs -> PC] /\ db \in [Procs -> DB] /\ ndat \in Nat
    BY DEF TypeInv, TypeOK
  <1>5. CASE AppendData(p)
    <2>1. /\ Appending' = Appending \cup {p} /\ db'[p].datoff = ndat + 1
          /\ p \notin Appending
      BY <1>2, <1>4, <1>5 DEF AppendData, Appending, Goto, DB
    <2>2. Records' = Records
      BY <1>5, RecordsWritten DEF AppendData, AppendIdx
    <2>3. /\ \A s \in Records : rec[s].dat # ndat + 1
          /\ \A q \in Appending : db[q].datoff # ndat + 1
      BY <1>4 DEF TypeInv, PlacesOK, FilePlaces, CallPlaces, AtData, Appending
    <2> QED
      BY <1>1, <1>2, <1>3, <2>1, <2>2, <2>3 DEF PlacesApart, Appending
  <1>6. CASE AppendIdx(p)
    <2>1. /\ Appending' = Appending \ {p} /\ p \in Appending
      BY <1>2, <1>4, <1>6 DEF AppendIdx, Appending, Goto
    <2>2. /\ Records' = Records \cup {nidx + 1} /\ rec'[nidx + 1].dat = db[p].datoff
      BY <1>6, RecordsWritten
    <2>3. \A q \in Appending' : db'[q].datoff = db[q].datoff /\ q # p /\ q \in Appending
      BY <1>2, <2>1 DEF Appending
    <2> QED
      BY <1>1, <1>3, <2>1, <2>2, <2>3 DEF PlacesApart
  <1>7. CASE ~AppendData(p) /\ ~AppendIdx(p)
    <2>1. Appending' = Appending /\ p \notin Appending
      <3> SUFFICES pc[p] # "appendidx" /\ pc'[p] # "appendidx"
        BY <1>2 DEF Appending
      <3> USE <1>4 DEF Goto
      <3>1. CASE Find(p)
        BY <3>1 DEF Find, Found, NotFound
      <3>2. CASE FetchData(p) \/ Overwrite(p) \/ DoDelete(p) \/ DeleteData(p) \/ DeleteFree(p)
                 \/ DeletePtr(p) \/ FindFree(p) \/ WalkFree(p) \/ DeleteIdx(p) \/ TakeFree(p)
        BY <3>2 DEF FetchData, Overwrite, DoDelete, DeleteData, DeleteFree, DeletePtr,
                    FindFree, WalkFree, DeleteIdx, TakeFree
      <3>3. CASE Reuse(p) \/ Link(p)
        BY <3>3 DEF Reuse, Link
      <3>4. CASE UnlockChain(p) \/ Nextrec(p) \/ NextrecData(p) \/ NextrecReturn(p)
                 \/ Rewind(p) \/ CallNextrec(p)
        BY <3>4 DEF UnlockChain, Nextrec, NextrecData, NextrecReturn, Rewind, CallNextrec
      <3>5. CASE \E op \in Writing \cup {"fetch"}, k \in Keys, v \in Values \cup {None} :
                     FindAndLock(p, op, k, v)
        BY <3>5 DEF FindAndLock
      <3> QED
        BY <1>7, <3>1, <3>2, <3>3, <3>4, <3>5 DEF Step, Running
    <2>2. Records' = Records
      BY <1>7, RecordsWritten
    <2>3. \A q \in Appending : db'[q].datoff = db[q].datoff
      BY <1>2, <2>1 DEF Appending
    <2> QED
      BY <1>1, <1>3, <2>1, <2>2, <2>3 DEF PlacesApart
  <1> QED
    BY <1>5, <1>6, <1>7

\* A record with a key has data of this key, except inside a deletion.
LEMMA WholeStep ==
    ASSUME TypeInv, LockInv, ListInv, DataInv, NEW p \in Procs, Step(p)
    PROVE  Whole'
  <1>1. /\ Whole /\ HandFacts(p) /\ OpsOK(p)
        /\ \A s, t \in Records : rec[s].dat = rec[t].dat => s = t
        /\ Blank \notin Keys
    BY DbAssumption DEF DataInv, PlacesApart, TypeInv
  <1>2. \A q \in Procs : q # p => pc'[q] = pc[q] /\ db'[q] = db[q]
    BY OthersStay DEF TypeInv
  <1>3. pc \in [Procs -> PC] /\ db \in [Procs -> DB]
    BY DEF TypeInv, TypeOK
  <1>4. pc[p] \in MayAppend \cup MayReuse \cup {"overwrite"} =>
          NewData(p) \in Data /\ NewData(p).key = db[p].key /\ db[p].key \in Keys
    BY <1>1 DEF OpsOK, NewData, Data, Storing, Writing
  <1>5. \A s \in Records : rec[s].dat \in 1..ndat /\ rec'[s].dat = rec[s].dat
    BY RecordsWritten DEF TypeInv, PlacesOK, FilePlaces
  <1> SUFFICES ASSUME NEW s \in Records', rec'[s].key \in Keys, ~Half(s)'
               PROVE  dat'[rec'[s].dat] \in Data /\ dat'[rec'[s].dat].key = rec'[s].key
    BY DEF Whole
  <1>6. CASE AppendIdx(p) /\ s = nidx + 1
    <2>1. /\ rec'[s].dat = db[p].datoff /\ rec'[s].key = db[p].key /\ pc[p] = "appendidx"
          /\ dat' = dat
      BY <1>6, RecordsWritten DEF AppendIdx
    <2>2. dat[db[p].datoff] = NewData(p)
      BY <1>1, <2>1 DEF HandFacts
    <2> QED
      BY <1>4, <2>1, <2>2 DEF MayAppend
  <1>7. CASE s \in Records /\ pc[p] = "reuseidx" /\ s = db[p].off
    <2>1. /\ rec'[s].dat = db[p].datoff /\ rec'[s].key = db[p].key
          /\ dat'[db[p].datoff] = dat[db[p].datoff]
      BY <1>1, <1>5, <1>7, RecordsWritten, DataWritten DEF HandFacts
    <2>2. dat[db[p].datoff] = NewData(p)
      BY <1>1, <1>7 DEF HandFacts
    <2> QED
      BY <1>4, <1>7, <2>1, <2>2 DEF MayReuse
  <1>8. CASE s \in Records /\ ~(pc[p] = "reuseidx" /\ s = db[p].off)
    <2>1. rec'[s].key = rec[s].key
      BY <1>1, <1>8, RecordsWritten
    <2>2. CASE pc[p] = "deldat" /\ s = db[p].off
      <3>1. DeleteData(p)
        BY <2>2 DEF Step, Running, Find, FetchData, Overwrite, DoDelete, DeleteIdx, DeleteFree,
                    DeletePtr, FindFree, WalkFree, TakeFree, AppendData, AppendIdx, Reuse, Link,
                    UnlockChain, Nextrec, NextrecData, NextrecReturn, Rewind, CallNextrec,
                    FindAndLock
      <3>2. pc'[p] = "delidx" /\ db'[p].off = s
        BY <1>3, <2>2, <3>1 DEF DeleteData, Goto
      <3> QED
        BY <3>2 DEF Half
    <2>3. CASE pc[p] = "overwrite" /\ s = db[p].off
      <3>1. rec[s].dat = db[p].datoff /\ rec[s].key = db[p].key
        BY <2>3, DataAtHand DEF Known
      <3>2. dat'[rec[s].dat] = NewData(p)
        BY <2>3, <3>1, DataWritten
      <3> QED
        BY <1>4, <1>5, <1>8, <2>1, <2>3, <3>1, <3>2
    <2>4. CASE ~(pc[p] \in {"deldat", "overwrite"} /\ s = db[p].off)
      <3>1. ~Half(s)
        <4>1. ~(pc[p] = "delidx" /\ db[p].off = s)
          <5> SUFFICES ASSUME pc[p] = "delidx", db[p].off = s PROVE FALSE
            OBVIOUS
          <5>1. DeleteIdx(p)
            BY DEF Step, Running, Find, FetchData, Overwrite, DoDelete, DeleteData, DeleteFree,
                    DeletePtr, FindFree, WalkFree, TakeFree, AppendData, AppendIdx, Reuse, Link,
                    UnlockChain, Nextrec, NextrecData, NextrecReturn, Rewind, CallNextrec,
                    FindAndLock
          <5>2. rec'[s].key = Blank
            BY <1>8, <5>1, LinksType DEF DeleteIdx, TypeInv, TypeOK
          <5> QED
            BY <1>1, <5>2
        <4> QED
          BY <1>2, <4>1 DEF Half
      <3>2. dat'[rec[s].dat] = dat[rec[s].dat]
        <4>1. CASE pc[p] \in {"overwrite", "deldat"}
          <5>1. db[p].off \in Records /\ rec[db[p].off].dat = db[p].datoff
            BY <4>1, DataAtHand DEF Known
          <5>2. rec[s].dat # db[p].datoff
            BY <1>1, <1>8, <2>4, <4>1, <5>1
          <5> QED
            BY <1>5, <1>8, <5>2, DataWritten
        <4>2. CASE pc[p] = "reusedat"
          <5>1. db[p].off \in Records /\ rec[db[p].off].dat = db[p].datoff
                /\ rec[db[p].off].key = Blank
            BY <4>2, DataAtHand
          <5>2. rec[s].dat # db[p].datoff
            BY <1>1, <1>8, <2>1, <5>1
          <5> QED
            BY <1>5, <1>8, <5>2, DataWritten
        <4>3. CASE pc[p] \notin {"overwrite", "deldat", "reusedat"}
          BY <1>5, <1>8, <4>3, DataWritten
        <4> QED
          BY <4>1, <4>2, <4>3
      <3> QED
        BY <1>1, <1>5, <1>8, <2>1, <3>1, <3>2 DEF Whole
    <2> QED
      BY <2>2, <2>3, <2>4
  <1> QED
    BY <1>6, <1>7, <1>8, RecordsWritten

\* A step leaves alone the data of every record but the one it writes.
LEMMA DataKept ==
    ASSUME TypeInv, LockInv, ListInv, DataInv, NEW p \in Procs, Step(p),
           NEW s \in Records,
           pc[p] \in {"overwrite", "deldat", "reusedat"} => s # db[p].off
    PROVE  dat'[rec[s].dat] = dat[rec[s].dat]
  <1>1. rec[s].dat \in 1..ndat
    BY DEF TypeInv, PlacesOK, FilePlaces
  <1>2. CASE pc[p] \in {"overwrite", "deldat", "reusedat"}
    <2>1. db[p].off \in Records /\ rec[db[p].off].dat = db[p].datoff
      BY <1>2, DataAtHand DEF Known
    <2>2. rec[s].dat # db[p].datoff
      BY <1>2, <2>1 DEF DataInv, PlacesApart
    <2> QED
      BY <1>1, <2>2, DataWritten
  <1> QED
    BY <1>1, <1>2, DataWritten

\* The record in the hands of a call is not disturbed by another process.
LEMMA HandFactsOthers ==
    ASSUME TypeInv, LockInv, ListInv, DataInv, NEW p \in Procs, Step(p), NEW q \in Procs, q # p
    PROVE  HandFacts(q)' /\ NextFacts(q)'
  <1>1. /\ pc'[q] = pc[q] /\ db'[q] = db[q] /\ HandFacts(q) /\ NextFacts(q)
        /\ NewData(q)' = NewData(q)
    BY OthersStay DEF TypeInv, DataInv, NewData
  <1>2. CASE Holding(q)
    <2>1. db[q].off \in Records /\ \A l \in Locks : db[q].off \notin List(l)
      BY <1>2, WrittenRecord
    <2>2. pc[p] \in {"overwrite", "deldat", "reusedat"} => db[q].off # db[p].off
      <3>1. CASE pc[p] \in {"overwrite", "deldat"}
        <4>1. db[p].off \in List(Chain(p)) /\ Chain(p) \in Locks
          BY <3>1, DataAtHand DEF Known
        <4> QED
          BY <2>1, <4>1
      <3>2. CASE pc[p] = "reusedat"
        BY <1>2, <3>2 DEF Holding, ListInv, HandsOK
      <3> QED
        BY <3>1, <3>2
    <2>3. dat'[rec[db[q].off].dat] = dat[rec[db[q].off].dat]
      BY <2>1, <2>2, DataKept
    <2>4. rec'[db[q].off] = rec[db[q].off]
      BY <1>2, HandsKept
    <2>5. pc[q] = "reuseidx" => db[q].datoff = rec[db[q].off].dat
      BY <1>1 DEF HandFacts
    <2> QED
      BY <1>1, <1>2, <2>3, <2>4, <2>5 DEF HandFacts, NextFacts, Holding
  <1>3. CASE pc[q] = "appendidx"
    <2>1. db[q].datoff \in 1..ndat /\ \A s \in Records : rec[s].dat # db[q].datoff
      BY <1>3 DEF TypeInv, PlacesOK, CallPlaces, AtData, DataInv, PlacesApart, Appending
    <2>2. pc[p] \in {"overwrite", "deldat", "reusedat"} => db[q].datoff # db[p].datoff
      BY <2>1, DataAtHand DEF Known
    <2>3. dat'[db[q].datoff] = dat[db[q].datoff]
      BY <2>1, <2>2, DataWritten
    <2> QED
      BY <1>1, <1>3, <2>3 DEF HandFacts, NextFacts
  <1>4. CASE pc[q] = "nextdat"
    <2>1. PICK s \in Records : rec[s].key = db[q].key /\ rec[s].dat = db[q].datoff
      BY <1>1, <1>4 DEF NextFacts
    <2>2. db[q].key \in Keys /\ Blank \notin Keys
      BY <1>1, <1>4, DbAssumption DEF NextFacts
    <2>3. ~DeleteIdx(p)
      BY <1>4 DEF DeleteIdx, LockInv, LocksOK, Exclusive, HoldsFree, MayScan, Locks
    <2>4. rec'[s].key = rec[s].key /\ rec'[s].dat = rec[s].dat /\ s \in Records'
      BY <2>1, <2>2, <2>3, RecordsWritten
    <2> QED
      BY <1>1, <1>4, <2>1, <2>2, <2>4 DEF HandFacts, NextFacts
  <1> QED
    BY <1>1, <1>2, <1>3, <1>4 DEF HandFacts, NextFacts, Holding

\* What the writes of db_store leave in its record.
LEMMA HandFactsSelf ==
    ASSUME TypeInv, LockInv, ListInv, DataInv, NEW p \in Procs, Step(p)
    PROVE  HandFacts(p)' /\ NextFacts(p)'
  <1>1. /\ HandFacts(p) /\ NextFacts(p) /\ Free \in Locks
        /\ pc \in [Procs -> PC] /\ db \in [Procs -> DB] /\ db[p] \in DB
        /\ rec \in [Slots -> [key : Keys \cup {Blank}, klen : Nat, dat : 0..MaxRec, dlen : Nat]]
        /\ Records \subseteq Slots /\ OpsOK(p)
    BY LinksType DEF DataInv, TypeInv, TypeOK, Locks
  <1> USE <1>1 DEF Goto
  <1>2. ASSUME pc'[p] \notin {"reusedat", "reuseidx", "appendidx", "link", "nextdat"}
        PROVE  HandFacts(p)' /\ NextFacts(p)'
    BY <1>2 DEF HandFacts, NextFacts
  <1>3. CASE TakeFree(p)
    <2>1. pc[p] = "takefree" /\ pc'[p] = "reusedat" /\ db' = db /\ rec' = rec
      BY <1>3 DEF TakeFree
    <2>2. db[p].off \in List(Free) /\ db[p].datoff = rec[db[p].off].dat
      BY <1>3, <2>1, TakeFreeLists DEF ListInv, FreeFacts, Hit
    <2>3. rec[db[p].off].key = Blank
      BY <2>2 DEF ListInv, KeysOK
    <2> QED
      BY <2>1, <2>2, <2>3 DEF HandFacts, NextFacts
  <1>4. CASE AppendData(p)
    <2>1. /\ pc[p] = "appenddat" /\ pc'[p] = "appendidx" /\ db'[p].datoff = ndat + 1
          /\ NewData(p)' = NewData(p)
      BY <1>4 DEF AppendData, DB, NewData
    <2> QED
      BY <2>1, DataWritten DEF HandFacts, NextFacts
  <1>5. CASE AppendIdx(p)
    <2>1. /\ pc[p] = "appendidx" /\ pc'[p] = "link" /\ db'[p].off = nidx + 1
          /\ NewData(p)' = NewData(p) /\ dat' = dat
      BY <1>5 DEF AppendIdx, DB, NewData
    <2>2. rec'[nidx + 1].dat = db[p].datoff
      BY <1>5, RecordsWritten
    <2> QED
      BY <2>1, <2>2 DEF HandFacts, NextFacts
  <1>6. CASE Reuse(p)
    <2>1. db' = db /\ NewData(p)' = NewData(p)
      BY <1>6 DEF Reuse, NewData
    <2>2. CASE pc[p] = "reusedat"
      <3>1. pc'[p] = "reuseidx" /\ rec' = rec
        BY <1>6, <2>2 DEF Reuse
      <3> QED
        BY <2>1, <2>2, <3>1, DataWritten DEF HandFacts, NextFacts
    <2>3. CASE pc[p] = "reuseidx"
      <3>1. pc'[p] = "link" /\ dat' = dat
        BY <1>6, <2>3 DEF Reuse
      <3>2. db[p].off \in Records
        BY <2>3, WrittenRecord DEF Holding
      <3>3. rec'[db[p].off].dat = db[p].datoff
        BY <2>3, <3>2, RecordsWritten DEF HandFacts
      <3> QED
        BY <2>1, <2>3, <3>1, <3>3 DEF HandFacts, NextFacts
    <2> QED
      BY <1>6, <2>2, <2>3 DEF Reuse
  <1>7. CASE Nextrec(p)
    <2>1. CASE pc'[p] # "nextdat"
      <3>1. pc'[p] \in {"eof", "nextrec"}
        BY <1>7, <2>1 DEF Nextrec
      <3> QED
        BY <1>2, <3>1
    <2>2. CASE pc'[p] = "nextdat"
      <3>1. /\ ~(pos[p] > nidx) /\ rec[pos[p]].key # Blank
            /\ db' = [db EXCEPT ![p].key = rec[pos[p]].key, ![p].datoff = rec[pos[p]].dat]
            /\ rec' = rec /\ Records' = Records
        BY <1>7, <2>2 DEF Nextrec, filevars, Records
      <3>2. pos[p] \in Records
        BY <1>7, <3>1 DEF Nextrec, Records, OpsOK, MayScan, TypeInv, TypeOK
      <3>3. db'[p].key = rec[pos[p]].key /\ db'[p].datoff = rec[pos[p]].dat
        BY <3>1 DEF DB
      <3>4. rec[pos[p]].key \in Keys
        BY <3>1, <3>2
      <3> QED
        BY <2>2, <3>1, <3>2, <3>3, <3>4 DEF HandFacts, NextFacts
    <2> QED
      BY <2>1, <2>2
  <1>8. CASE Find(p)
    BY <1>2, <1>8 DEF Find, Found, NotFound
  <1>9. CASE FetchData(p) \/ Overwrite(p) \/ DoDelete(p) \/ DeleteData(p) \/ DeleteFree(p)
             \/ DeletePtr(p) \/ FindFree(p) \/ WalkFree(p) \/ DeleteIdx(p) \/ Link(p)
    BY <1>2, <1>9 DEF FetchData, Overwrite, DoDelete, DeleteData, DeleteFree, DeletePtr,
                FindFree, WalkFree, DeleteIdx, Link
  <1>10. CASE UnlockChain(p) \/ NextrecData(p) \/ NextrecReturn(p) \/ CallNextrec(p) \/ Rewind(p)
    BY <1>2, <1>10 DEF UnlockChain, NextrecData, NextrecReturn, CallNextrec, Rewind
  <1>11. CASE \E op \in Writing \cup {"fetch"}, k \in Keys, v \in Values \cup {None} :
                 FindAndLock(p, op, k, v)
    BY <1>2, <1>11 DEF FindAndLock
  <1> QED
    BY <1>3, <1>4, <1>5, <1>6, <1>7, <1>8, <1>9, <1>10, <1>11 DEF Step, Running

\* The part of the invariant about the data.
LEMMA DataInvStep ==
    ASSUME TypeInv, LockInv, ListInv, DataInv, NEW p \in Procs, Step(p)
    PROVE  DataInv'
  BY PlacesApartStep, WholeStep, HandFactsOthers, HandFactsSelf DEF DataInv

-----------------------------------------------------------------------------
(* The values                                                              *)

\* The steps that change what the chain holds of key k.
Touches(p, k) ==
    /\ db[p].op \in Writing /\ db[p].key = k
    /\ pc[p] \in {"overwrite", "deldat", "delidx", "link"}

\* Every other step keeps the records of the key and their data.
LEMMA KeyKept ==
    ASSUME TypeInv, LockInv, ListInv, DataInv, NEW p \in Procs, Step(p),
           NEW k \in Keys, ~Touches(p, k), NEW c \in Chains, c = Hash[k]
    PROVE  /\ \A s \in List(c)' : rec'[s].key = k => s \in List(c) /\ rec[s].key = k
           /\ \A s \in List(c) : rec[s].key = k =>
                 /\ s \in List(c)' /\ rec'[s].key = k
                 /\ dat'[rec'[s].dat] = dat[rec[s].dat]
  <1>1. c \in Locks /\ c # Free /\ Blank \notin Keys
    BY DbAssumption DEF Locks
  <1>2. List(c) \subseteq Records /\ List(c) \subseteq Slots
    BY <1>1, ListBasics DEF ListInv, ListsOK
  <1>3. ASSUME NEW s \in List(c), rec[s].key = k
        PROVE  rec'[s].dat = rec[s].dat /\ dat'[rec[s].dat] = dat[rec[s].dat]
    <2>1. ASSUME pc[p] \in {"overwrite", "deldat", "reusedat"} PROVE s # db[p].off
      <3>1. CASE pc[p] \in {"overwrite", "deldat"}
        <4>1. rec[db[p].off].key = db[p].key
          BY <3>1, DataAtHand DEF Known
        <4>2. db[p].op \in Writing
          BY <3>1 DEF TypeInv, OpsOK, MayDelete, Writing
        <4> QED
          BY <1>3, <3>1, <4>1, <4>2 DEF Touches
      <3>2. CASE pc[p] = "reusedat"
        BY <1>1, <1>3, <3>2, DataAtHand
      <3> QED
        BY <2>1, <3>1, <3>2
    <2> QED
      BY <1>2, <1>3, <2>1, DataKept, RecordsWritten
  <1>4. /\ \A s \in List(c)' : rec'[s].key = k => s \in List(c) /\ rec[s].key = k
        /\ \A s \in List(c) : rec[s].key = k => s \in List(c)' /\ rec'[s].key = k
    <2>1. CASE Kept(c)
      BY <2>1 DEF Kept
    <2>2. CASE DeleteIdx(p) /\ c = Chain(p)
      <3>1. List(c)' = List(c) \ {db[p].off}
        BY <1>1, <2>2, DeleteIdxLists
      <3>2. \A s \in Slots : s # db[p].off => rec'[s] = rec[s]
        BY <2>2 DEF DeleteIdx, TypeInv, TypeOK
      <3>3. rec[db[p].off].key = db[p].key /\ db[p].key # k
        BY <2>2, DataAtHand DEF DeleteIdx, Known, Touches, TypeInv, OpsOK, MayDelete, Writing
      <3> QED
        BY <1>2, <3>1, <3>2, <3>3
    <2>3. CASE Link(p) /\ c = Chain(p)
      <3>1. List(c)' = List(c) \cup {db[p].off} /\ rec' = rec
        BY <1>1, <2>3, LinkLists DEF Link
      <3>2. rec[db[p].off].key = db[p].key /\ db[p].key # k
        BY <2>3 DEF Link, ListInv, ChainFacts, Touches, TypeInv, OpsOK, MayAppend, Storing, Writing
      <3> QED
        BY <3>1, <3>2
    <2>4. CASE ~Writes(p) \/ TakeFree(p)
      BY <1>1, <2>1, <2>4, OtherStepsLists, TakeFreeLists
    <2>5. CASE AppendIdx(p)
      <3>1. pc[p] = "appendidx" /\ pc'[p] = "link" /\ WriteIdx(p, nidx + 1)
        BY <2>5 DEF AppendIdx, Goto, TypeInv, TypeOK
      <3> QED
        BY <1>1, <2>1, <2>5, <3>1, WriteIdxLists, WrittenRecord
    <2>6. CASE Reuse(p) /\ pc[p] = "reuseidx"
      <3>1. pc'[p] = "link" /\ WriteIdx(p, db[p].off) /\ Holding(p)
        BY <2>6 DEF Reuse, Goto, TypeInv, TypeOK, Holding
      <3> QED
        BY <1>1, <2>1, <2>6, <3>1, WriteIdxLists, WrittenRecord
    <2>7. CASE DeleteIdx(p) /\ c # Chain(p)
      BY <1>1, <2>1, <2>7, DeleteIdxLists
    <2>8. CASE Link(p) /\ c # Chain(p)
      BY <1>1, <2>1, <2>8, LinkLists
    <2> QED
      BY <2>2, <2>3, <2>4, <2>5, <2>6, <2>7, <2>8 DEF Writes
  <1> QED
    BY <1>3, <1>4

\* Every other step keeps the value of the key.
LEMMA HoldsKept ==
    ASSUME TypeInv, LockInv, ListInv, DataInv, NEW p \in Procs, Step(p),
           NEW k \in Keys, ~Touches(p, k), NEW v, Holds(k, v)
    PROVE  Holds(k, v)'
  <1>1. PICK c \in Chains : c = Hash[k]
    BY DbAssumption
  <1>2. /\ \A s \in List(c)' : rec'[s].key = k => s \in List(c) /\ rec[s].key = k
        /\ \A s \in List(c) : rec[s].key = k =>
                 /\ s \in List(c)' /\ rec'[s].key = k
                 /\ dat'[rec'[s].dat] = dat[rec[s].dat]
    BY <1>1, KeyKept
  <1>3. /\ \A s \in List(c) : rec[s].key = k =>
              v # None /\ dat[rec[s].dat] = [key |-> k, val |-> v]
        /\ v # None => \E s \in List(c) : rec[s].key = k
    BY <1>1 DEF Holds
  <1>4. /\ \A s \in List(c)' : rec'[s].key = k =>
              v # None /\ dat'[rec'[s].dat] = [key |-> k, val |-> v]
        /\ v # None => \E s \in List(c)' : rec'[s].key = k
    BY <1>2, <1>3
  <1> QED
    BY <1>1, <1>4 DEF Holds

\* No two calls change the same key, and none changes what another one fetches.
LEMMA KeyAlone ==
    ASSUME TypeInv, LockInv, NEW p \in Procs, NEW q \in Procs, p # q,
           db[p].op \in Writing, db[q].op \in Writing \cup {"fetch"}
    PROVE  db[p].key # db[q].key
  <1>1. Chain(p) \in Locks /\ Chain(q) \in Locks
    BY ChainIsLock
  <1>2. p \in wr[Chain(p)] /\ (q \in wr[Chain(q)] \/ q \in rd[Chain(q)])
    BY DEF LockInv, LocksOK
  <1>3. Chain(p) # Chain(q)
    BY <1>1, <1>2 DEF LockInv, Exclusive
  <1> QED
    BY <1>3 DEF Chain

\* What a step does to the values of the completed calls.
LEMMA MapStep ==
    ASSUME TypeInv, NEW p \in Procs, Step(p)
    PROVE  /\ ~UnlockChain(p) => map' = map
           /\ UnlockChain(p) => /\ db[p].key \in Keys /\ map'[db[p].key] = Outcome(p)
                                /\ \A k \in Keys : k # db[p].key => map'[k] = map[k]
                                /\ db[p].op \in Writing \cup {"fetch"}
           /\ db[p].op \notin Writing => \A k \in Keys : map'[k] = map[k]
  <1>1. map \in [Keys -> Values \cup {None}] /\ OpsOK(p) /\ db[p] \in DB
    BY DEF TypeInv, TypeOK
  <1>2. CASE UnlockChain(p)
    <2>1. db[p].op \in Writing \cup {"fetch"} /\ db[p].key \in Keys
      BY <1>1, <1>2 DEF UnlockChain, OpsOK, MayScan, DB
    <2>2. db[p].op \notin Writing => Outcome(p) = map[db[p].key]
      BY <2>1 DEF Outcome, Writing
    <2> QED
      BY <1>1, <1>2, <2>1, <2>2 DEF UnlockChain
  <1>3. CASE ~UnlockChain(p)
    <2>1. map' = map
      BY <1>3 DEF Step, Running, Find, FetchData, Overwrite, DoDelete, DeleteData, DeleteIdx,
             DeleteFree, DeletePtr, FindFree, WalkFree, TakeFree, AppendData, AppendIdx, Reuse,
             Link, Nextrec, NextrecData, NextrecReturn, Rewind, CallNextrec, FindAndLock
    <2> QED
      BY <1>3, <2>1
  <1> QED
    BY <1>2, <1>3

\* A key that p works on, and that p has not changed yet, has its last value.
LEMMA KeySettled ==
    ASSUME TypeInv, LockInv, ValueInv, NEW p \in Procs,
           db[p].op \in Writing \cup {"fetch"}, pc[p] \notin Changed
    PROVE  db[p].key \in Keys /\ Holds(db[p].key, map[db[p].key])
  <1>1. db[p].key \in Keys
    BY DEF TypeInv, OpsOK
  <1>2. ~Changing(db[p].key)
    <2> SUFFICES ASSUME NEW q \in Procs, db[q].op \in Writing, db[q].key = db[p].key,
                        pc[q] \in Changed
                 PROVE  FALSE
      BY DEF Changing
    <2>1. q # p
      OBVIOUS
    <2> QED
      BY <2>1, KeyAlone
  <1> QED
    BY <1>1, <1>2 DEF ValueInv

\* What a call knows of the values is not disturbed by a step of another one.
LEMMA CallFactsOthers ==
    ASSUME TypeInv, LockInv, ListInv, DataInv, ValueInv, NEW p \in Procs, Step(p),
           NEW q \in Procs, q # p
    PROVE  CallFacts(q)'
  <1>1. pc'[q] = pc[q] /\ db'[q] = db[q]
    BY OthersStay DEF TypeInv
  <1>2. CallFacts(q)
    BY DEF ValueInv
  <1>3. CASE db[q].op \notin Writing \cup {"fetch"}
    <2>1. pc[q] \in MayScan \cup {"idle"}
      BY <1>3 DEF TypeInv, OpsOK, TypeOK, DB
    <2> QED
      BY <1>1, <2>1 DEF CallFacts, MayScan, MayReuse, MayDelete, MayAppend
  <1>4. CASE db[q].op \in Writing \cup {"fetch"}
    <2>1. PICK k \in Keys : k = db[q].key
      BY <1>4 DEF TypeInv, OpsOK
    <2>2. db[p].op \in Writing => db[p].key # k
      BY <1>4, <2>1, KeyAlone
    <2>3. map'[k] = map[k]
      BY <2>2, MapStep
    <2>4. ~Touches(p, k)
      BY <2>2 DEF Touches
    <2>5. PICK v : v = Outcome(q)
      OBVIOUS
    <2>6. Outcome(q)' = v
      BY <1>1, <2>1, <2>3, <2>5 DEF Outcome
    <2>7. Holds(k, v) => Holds(k, v)'
      BY <2>4, HoldsKept
    <2>8. pc'[q] = "unlock" /\ db'[q].op \in Writing => Holds(db[q].key, Outcome(q))'
      BY <1>1, <1>2, <2>1, <2>5, <2>6, <2>7 DEF CallFacts
    <2> QED
      BY <1>1, <1>2, <2>1, <2>3, <2>8 DEF CallFacts
  <1> QED
    BY <1>3, <1>4

\* The end of _db_find_and_lock: the value of the key tells how it ended.
LEMMA FindEnds ==
    ASSUME TypeInv, LockInv, ListInv, ValueInv, NEW p \in Procs, Find(p)
    PROVE  /\ db[p].off = 0 => map[db[p].key] = None
           /\ db[p].off # 0 /\ rec[db[p].off].key = db[p].key => map[db[p].key] # None
  <1>1. pc[p] = "find" /\ db[p].op \in Writing \cup {"fetch"}
    BY DEF Find, TypeInv, OpsOK, TypeOK, DB, MayScan
  <1>2. db[p].key \in Keys /\ Holds(db[p].key, map[db[p].key])
    BY <1>1, KeySettled DEF Changed, MayAppend
  <1>3. Chain(p) \in Locks
    BY <1>1, ChainIsLock
  <1>4. Searching(p)
    BY <1>1 DEF ListInv, ChainFacts
  <1>5. Reach(links, Slots, 0) = {}
    BY ReachNothing
  <1>6. CASE db[p].off = 0
    <2>1. \A s \in List(Chain(p)) : rec[s].key # db[p].key
      BY <1>4, <1>5, <1>6 DEF Searching
    <2> QED
      BY <1>2, <1>6, <2>1 DEF Holds, Chain
  <1>7. CASE db[p].off # 0 /\ rec[db[p].off].key = db[p].key
    <2>1. db[p].off \in List(Chain(p))
      BY <1>3, <1>4, <1>7, ListBasics DEF Searching, At
    <2> QED
      BY <1>2, <1>7, <2>1 DEF Holds, Chain
  <1> QED
    BY <1>6, <1>7

\* What the calls that end without a change know of the key.
LEMMA CallFactsFind ==
    ASSUME TypeInv, LockInv, ListInv, DataInv, ValueInv, NEW p \in Procs, Step(p), Find(p)
    PROVE  CallFacts(p)'
  <1>1. pc[p] = "find" /\ db[p].op \in Writing \cup {"fetch"} /\ map' = map
    BY DEF Find, TypeInv, OpsOK, TypeOK, DB, MayScan
  <1>2. PICK k \in Keys : k = db[p].key /\ Holds(k, map[k])
    BY <1>1, KeySettled DEF Changed, MayAppend
  <1>3. db'[p].op = db[p].op /\ db'[p].key = k /\ db'[p].val = db[p].val
    BY <1>2, ArgumentsStay DEF Acting, TypeInv
  <1>4. db'[p].res = None
    <2>1. db[p].res = None
      BY <1>1 DEF ValueInv, CallFacts
    <2>2. db \in [Procs -> DB]
      BY DEF TypeInv, TypeOK
    <2>3. db'[p].res = db[p].res
      BY <2>2 DEF Find, Found, NotFound, DB
    <2> QED
      BY <2>1, <2>3
  <1>5. PICK v : v = map[k]
    OBVIOUS
  <1>6. Holds(k, v)'
    BY <1>1, <1>2, <1>5, HoldsKept DEF Touches
  <1>7. pc \in [Procs -> PC]
    BY DEF TypeInv, TypeOK
  <1>8. CASE db[p].off = 0
    <2>1. map[k] = None
      BY <1>2, <1>8, FindEnds
    <2>2. pc'[p] \in {"findfree", "unlock"} /\ (pc'[p] = "unlock" => db[p].op \notin {"insert", "store"})
      BY <1>7, <1>8 DEF Find, NotFound, Goto
    <2>3. pc'[p] = "unlock" /\ db'[p].op \in Writing => Outcome(p)' = v
      BY <1>1, <1>3, <1>5, <2>1, <2>2 DEF Outcome, Writing
    <2>4. pc'[p] = "unlock" /\ db'[p].op \in Writing => Holds(db[p].key, Outcome(p))'
      BY <1>3, <1>6, <2>3
    <2> QED
      BY <1>1, <1>3, <1>4, <2>1, <2>2, <2>4 DEF CallFacts, MayReuse, MayDelete, MayAppend
  <1>9. CASE db[p].off # 0 /\ rec[db[p].off].key = db[p].key
    <2>1. map[k] # None
      BY <1>2, <1>9, FindEnds
    <2>2. /\ pc'[p] \in {"readdat", "dodelete", "unlock", "overwrite"}
          /\ pc'[p] = "unlock" => db[p].op = "insert"
      BY <1>1, <1>7, <1>9 DEF Find, Found, Goto
    <2>3. pc'[p] = "unlock" => Outcome(p)' = v
      BY <1>1, <1>3, <1>5, <2>1, <2>2 DEF Outcome, Writing
    <2>4. pc'[p] = "unlock" => Holds(db[p].key, Outcome(p))'
      BY <1>3, <1>6, <2>3
    <2> QED
      BY <1>1, <1>3, <1>4, <2>1, <2>2, <2>4 DEF CallFacts, MayReuse, MayDelete, MayAppend
  <1>10. CASE db[p].off # 0 /\ rec[db[p].off].key # db[p].key
    <2>1. pc'[p] = "find"
      BY <1>1, <1>10 DEF Find
    <2> QED
      BY <1>4, <2>1 DEF CallFacts, MayReuse, MayDelete, MayAppend
  <1> QED
    BY <1>8, <1>9, <1>10

\* The steps after which a key has the value that the call promises.
LEMMA CallFactsDone ==
    ASSUME TypeInv, LockInv, ListInv, DataInv, ValueInv, NEW p \in Procs, Step(p),
           Overwrite(p) \/ Link(p) \/ DeletePtr(p), pc'[p] = "unlock"
    PROVE  CallFacts(p)'
  <1>1. db[p].op \in Writing /\ pc[p] \in {"overwrite", "link", "delptr"} /\ map' = map
    BY DEF Overwrite, Link, DeletePtr, TypeInv, OpsOK, MayDelete, MayAppend, Storing, Writing
  <1>2. PICK k \in Keys : k = db[p].key
    BY <1>1 DEF TypeInv, OpsOK
  <1>3. PICK c \in Chains : c = Hash[k] /\ c \in Locks /\ c = Chain(p)
    BY <1>2, DbAssumption DEF Locks, Chain
  <1>4. db'[p].op = db[p].op /\ db'[p].key = k /\ db'[p].val = db[p].val
    BY <1>2, ArgumentsStay DEF Acting, TypeInv
  <1>5. PICK v : v = Outcome(p)'
    OBVIOUS
  <1>6. CallFacts(p) /\ ChainFacts(p) /\ HandFacts(p) /\ OpsOK(p)
    BY DEF ValueInv, ListInv, DataInv, TypeInv
  <1>7. List(c) \subseteq Records
    BY <1>3 DEF ListInv, ListsOK
  <1>8. SUFFICES Holds(k, v)'
    BY <1>1, <1>4, <1>5 DEF CallFacts, MayReuse, MayDelete, MayAppend, Writing
  <1>9. CASE DeletePtr(p)
    <2>1. db[p].op = "delete"
      BY <1>9 DEF DeletePtr, Goto, TypeInv, TypeOK
    <2>2. v = None
      BY <1>4, <1>5, <2>1 DEF Outcome
    <2>3. Absent(k)
      BY <1>2, <1>6, <1>9 DEF DeletePtr, ChainFacts, Without
    <2>4. Holds(k, v)
      BY <2>2, <2>3 DEF Holds, Absent
    <2> QED
      BY <1>9, <2>4, HoldsKept DEF DeletePtr, Touches
  <1>10. CASE Overwrite(p)
    <2>1. pc[p] = "overwrite" /\ db[p].op \in {"replace", "store"} /\ map[k] # None
      BY <1>2, <1>6, <1>10 DEF Overwrite, OpsOK, CallFacts
    <2>2. v = db[p].val /\ db[p].val \in Values /\ v # None
      BY <1>1, <1>4, <1>5, <1>6, <2>1, DbAssumption DEF Outcome, OpsOK, Storing
    <2>3. ~Writes(p)
      BY <2>1 DEF Writes, DeleteIdx, TakeFree, AppendIdx, Reuse, Link
    <2>4. rec' = rec /\ List(c)' = List(c)
      BY <1>3, <2>3, OtherStepsLists DEF Kept
    <2>5. /\ db[p].off \in List(c) /\ rec[db[p].off].key = k
          /\ rec[db[p].off].dat = db[p].datoff
      BY <1>2, <1>3, <2>1, DataAtHand DEF Known
    <2>6. dat'[db[p].datoff] = [key |-> k, val |-> v]
      BY <1>2, <2>1, <2>2, DataWritten DEF NewData
    <2>7. \A s \in List(c) : rec[s].key = k => s = db[p].off
      BY <1>3, <2>5 DEF ListInv, KeysOK
    <2>8. /\ \A s \in List(c)' : rec'[s].key = k =>
                v # None /\ dat'[rec'[s].dat] = [key |-> k, val |-> v]
          /\ \E s \in List(c)' : rec'[s].key = k
      BY <2>2, <2>4, <2>5, <2>6, <2>7
    <2> QED
      BY <1>3, <2>8 DEF Holds
  <1>11. CASE Link(p)
    <2>1. pc[p] = "link" /\ db[p].op \in Storing /\ rec' = rec /\ dat' = dat
      BY <1>6, <1>11 DEF Link, OpsOK, MayAppend
    <2>2. /\ db[p].op = "insert" => map[k] = None
          /\ db[p].op = "replace" => map[k] # None
      BY <1>2, <1>6, <2>1 DEF CallFacts, MayAppend
    <2>3. v = db[p].val /\ v # None
      BY <1>1, <1>4, <1>5, <1>6, <2>1, <2>2, DbAssumption DEF Outcome, OpsOK, Storing
    <2>4. List(c)' = List(c) \cup {db[p].off}
      BY <1>3, <1>11, LinkLists
    <2>5. Absent(k) /\ rec[db[p].off].key = k
      BY <1>2, <1>6, <2>1 DEF ChainFacts, Without, MayAppend
    <2>6. dat[rec[db[p].off].dat] = [key |-> k, val |-> v]
      BY <1>2, <1>6, <2>1, <2>3 DEF HandFacts, NewData
    <2>7. /\ \A s \in List(c)' : rec'[s].key = k =>
                v # None /\ dat'[rec'[s].dat] = [key |-> k, val |-> v]
          /\ \E s \in List(c)' : rec'[s].key = k
      BY <1>3, <2>1, <2>3, <2>4, <2>5, <2>6 DEF Absent
    <2> QED
      BY <1>3, <2>7 DEF Holds
  <1> QED
    BY <1>9, <1>10, <1>11

\* The other steps of a call.
LEMMA CallFactsSelf ==
    ASSUME TypeInv, LockInv, ListInv, DataInv, ValueInv, NEW p \in Procs, Step(p)
    PROVE  CallFacts(p)'
  <1>1. /\ pc \in [Procs -> PC] /\ db \in [Procs -> DB] /\ db[p] \in DB
        /\ OpsOK(p) /\ CallFacts(p) /\ ChainFacts(p)
    BY DEF TypeInv, TypeOK, ValueInv, ListInv
  <1>2. CASE Find(p)
    BY <1>2, CallFactsFind
  <1>3. CASE FetchData(p)
    <2>1. pc[p] = "readdat" /\ db[p].op = "fetch" /\ map' = map
      BY <1>1, <1>3 DEF FetchData, OpsOK
    <2>2. db[p].key \in Keys /\ Holds(db[p].key, map[db[p].key])
      BY <2>1, KeySettled DEF Changed, MayAppend
    <2>3. /\ db[p].off \in List(Hash[db[p].key]) /\ rec[db[p].off].key = db[p].key
          /\ rec[db[p].off].dat = db[p].datoff
      BY <2>1, DataAtHand DEF Known, Chain
    <2>4. map[db[p].key] # None /\ dat[db[p].datoff] = [key |-> db[p].key, val |-> map[db[p].key]]
      BY <2>2, <2>3 DEF Holds
    <2>5. db'[p].op = db[p].op /\ db'[p].key = db[p].key
      BY <1>3, ArgumentsStay DEF Acting, TypeInv
    <2>6. pc'[p] = "unlock" /\ db'[p].res = dat[db[p].datoff]
      BY <1>1, <1>3 DEF FetchData, Goto, DB
    <2> QED
      BY <2>1, <2>4, <2>5, <2>6 DEF CallFacts, MayReuse, MayDelete, MayAppend, Writing
  <1>4. CASE Overwrite(p) \/ Link(p)
    <2>1. pc'[p] = "unlock"
      BY <1>1, <1>4 DEF Overwrite, Link, Goto
    <2> QED
      BY <1>4, <2>1, CallFactsDone
  <1>5. CASE DeletePtr(p)
    <2>1. pc[p] = "delptr" /\ map' = map /\ pc'[p] \in {"unlock", "appenddat"}
      BY <1>1, <1>5 DEF DeletePtr, Goto
    <2>2. CASE pc'[p] = "appenddat"
      <3>1. db'[p].op = db[p].op /\ db'[p].key = db[p].key
        BY <1>5, ArgumentsStay DEF Acting, TypeInv
      <3> QED
        BY <1>1, <2>1, <2>2, <3>1 DEF CallFacts, OpsOK, MayReuse, MayDelete, MayAppend
    <2> QED
      BY <1>5, <2>1, <2>2, CallFactsDone
  <1>6. CASE DoDelete(p) \/ DeleteData(p) \/ DeleteIdx(p) \/ DeleteFree(p)
    <2>1. pc[p] \in MayDelete /\ pc'[p] \in MayDelete /\ map' = map
      BY <1>1, <1>6 DEF DoDelete, DeleteData, DeleteIdx, DeleteFree, Goto, MayDelete
    <2>2. db'[p].key = db[p].key
      BY <1>6, ArgumentsStay DEF Acting, TypeInv
    <2> QED
      BY <1>1, <2>1, <2>2 DEF CallFacts, MayReuse, MayDelete, MayAppend
  <1>7. CASE FindFree(p) \/ WalkFree(p) \/ TakeFree(p) \/ Reuse(p)
    <2>1. pc[p] \in MayReuse /\ pc'[p] \in MayReuse \cup {"appenddat", "link"} /\ map' = map
      BY <1>1, <1>7 DEF FindFree, WalkFree, TakeFree, Reuse, Goto, MayReuse
    <2>2. db'[p].op = db[p].op /\ db'[p].key = db[p].key
      BY <1>7, ArgumentsStay DEF Acting, TypeInv
    <2> QED
      BY <1>1, <2>1, <2>2 DEF CallFacts, OpsOK, MayReuse, MayDelete, MayAppend
  <1>8. CASE AppendData(p) \/ AppendIdx(p)
    <2>1. pc[p] \in MayAppend /\ pc'[p] \in MayAppend /\ map' = map
      BY <1>1, <1>8 DEF AppendData, AppendIdx, Goto, MayAppend
    <2>2. db'[p].op = db[p].op /\ db'[p].key = db[p].key
      BY <1>8, ArgumentsStay DEF Acting, TypeInv
    <2> QED
      BY <1>1, <2>1, <2>2 DEF CallFacts, OpsOK, MayReuse, MayDelete, MayAppend
  <1>9. CASE UnlockChain(p) \/ NextrecReturn(p) \/ Rewind(p) \/ Nextrec(p) \/ NextrecData(p)
             \/ CallNextrec(p)
    <2>1. pc'[p] \in {"idle", "nextrec", "nextdat", "nextret", "eof"}
      BY <1>1, <1>9 DEF UnlockChain, NextrecReturn, Rewind, Nextrec, NextrecData, CallNextrec, Goto
    <2> QED
      BY <2>1 DEF CallFacts, MayReuse, MayDelete, MayAppend
  <1>10. ASSUME NEW op \in Writing \cup {"fetch"}, NEW k \in Keys,
                NEW v \in Values \cup {None}, FindAndLock(p, op, k, v)
         PROVE  CallFacts(p)'
    <2>1. pc'[p] = "find" /\ db'[p].res = None
      BY <1>1, <1>10 DEF FindAndLock, Goto, Idle
    <2> QED
      BY <2>1 DEF CallFacts, MayReuse, MayDelete, MayAppend
  <1> QED
    BY <1>2, <1>3, <1>4, <1>5, <1>6, <1>7, <1>8, <1>9, <1>10 DEF Step, Running

\* A key that nobody is changing has its last value: a step that changes the
\* records of a key stays in Changed until the call has returned.
LEMMA ChangedUntilReturn ==
    ASSUME TypeInv, NEW p \in Procs, Step(p), db[p].op \in Writing,
           pc[p] \in Changed \cup {"overwrite", "deldat"}, ~UnlockChain(p)
    PROVE  db'[p].op = db[p].op /\ db'[p].key = db[p].key /\ pc'[p] \in Changed
  <1>1. pc \in [Procs -> PC]
    BY DEF TypeInv, TypeOK
  <1>2. pc[p] \in {"delidx", "delfree", "delptr", "unlock", "appenddat", "appendidx", "link",
                   "overwrite", "deldat"}
    BY DEF Changed, MayAppend
  <1>3. \/ Overwrite(p) \/ DeleteData(p) \/ DeleteIdx(p) \/ DeleteFree(p) \/ DeletePtr(p)
        \/ AppendData(p) \/ AppendIdx(p) \/ Link(p)
    BY <1>2 DEF Step, Running, Find, FetchData, DoDelete, FindFree, WalkFree, TakeFree, Reuse,
                UnlockChain, Nextrec, NextrecData, NextrecReturn, Rewind, CallNextrec,
                FindAndLock
  <1>4. db'[p].op = db[p].op /\ db'[p].key = db[p].key
    BY <1>3, ArgumentsStay DEF Acting, TypeInv
  <1>5. pc'[p] \in Changed
    BY <1>1, <1>3 DEF Overwrite, DeleteData, DeleteIdx, DeleteFree, DeletePtr, AppendData,
                      AppendIdx, Link, Goto, Changed, MayAppend
  <1> QED
    BY <1>4, <1>5

\* The part of the invariant about the values.
LEMMA ValueInvStep ==
    ASSUME TypeInv, LockInv, ListInv, DataInv, ValueInv, NEW p \in Procs, Step(p)
    PROVE  ValueInv'
  <1>1. \A q \in Procs : CallFacts(q)'
    BY CallFactsOthers, CallFactsSelf
  <1>2. ASSUME NEW k \in Keys, ~Changing(k)'
        PROVE  Holds(k, map[k])'
    <2>1. ASSUME NEW q \in Procs, db[q].op \in Writing, db[q].key = k, pc[q] \in Changed
          PROVE  q = p /\ UnlockChain(p)
      <3>1. q = p
        <4>1. q # p => pc'[q] = pc[q] /\ db'[q] = db[q]
          BY OthersStay DEF TypeInv
        <4> QED
          BY <1>2, <2>1, <4>1 DEF Changing
      <3> QED
        BY <1>2, <2>1, <3>1, ChangedUntilReturn DEF Changing
    <2>2. ~Touches(p, k)
      <3> SUFFICES ASSUME Touches(p, k) PROVE FALSE
        OBVIOUS
      <3>1. ~UnlockChain(p)
        BY DEF Touches, UnlockChain
      <3> QED
        BY <1>2, <3>1, ChangedUntilReturn DEF Touches, Changing, Changed, MayAppend
    <2>3. PICK v : v = map'[k]
      OBVIOUS
    <2>4. Holds(k, v)
      <3>1. CASE Changing(k)
        <4>1. UnlockChain(p) /\ db[p].op \in Writing /\ db[p].key = k
          BY <2>1, <3>1 DEF Changing
        <4>2. pc[p] = "unlock" /\ v = Outcome(p)
          BY <2>3, <4>1, MapStep DEF UnlockChain
        <4> QED
          BY <4>1, <4>2 DEF ValueInv, CallFacts
      <3>2. CASE ~Changing(k)
        <4>1. Holds(k, map[k])
          BY <3>2 DEF ValueInv
        <4>2. UnlockChain(p) /\ db[p].op \in Writing => db[p].key # k
          BY <3>2 DEF UnlockChain, Changing, Changed
        <4>3. map'[k] = map[k]
          BY <4>2, MapStep
        <4> QED
          BY <2>3, <4>1, <4>3
      <3> QED
        BY <3>1, <3>2
    <2>5. Holds(k, v)'
      BY <2>2, <2>4, HoldsKept
    <2> QED
      BY <2>3, <2>5
  <1> QED
    BY <1>1, <1>2 DEF ValueInv

-----------------------------------------------------------------------------
(* db_nextrec                                                              *)

\* What is still due, and the offset, after a step.
LEMMA DueStep ==
    ASSUME TypeInv, NEW p \in Procs, Step(p)
    PROVE  /\ \A q \in Procs : q # p => due'[q] \subseteq due[q]
           /\ ~Rewind(p) => due'[p] \subseteq due[p]
           /\ Rewind(p) => due'[p] = Settled /\ pos'[p] = 1
           /\ DoDelete(p) => \A q \in Procs : db[p].key \notin due'[q]
           /\ NextrecData(p) => db[p].key \notin due'[p]
           /\ \/ pos'[p] = pos[p]
              \/ pos'[p] = 0 /\ due'[p] = {}
              \/ Rewind(p)
              \/ Nextrec(p) /\ pos'[p] = pos[p] + 1 /\ pos[p] <= nidx
  <1> USE DEF TypeInv, TypeOK, scanvars, Goto
  <1>1. pos[p] \in Nat /\ nidx \in Nat
    BY DbAssumption
  <1>2. CASE Rewind(p)
    <2>1. Settled \subseteq Keys
      BY DEF Settled
    <2>2. pc[p] = "idle"
      BY <1>2 DEF Rewind
    <2> QED
      BY <1>2, <2>2 DEF Rewind, DoDelete, NextrecData
  <1>3. CASE DoDelete(p)
    BY <1>3 DEF DoDelete, Rewind, NextrecData
  <1>4. CASE NextrecData(p)
    BY <1>4 DEF NextrecData, DoDelete, Rewind
  <1>5. CASE Nextrec(p)
    <2>1. pc[p] = "nextrec" /\ due' = due
      BY <1>5 DEF Nextrec
    <2>2. \A q \in Procs : due'[q] = due[q]
      BY <2>1
    <2>3. pos' = pos \/ (pos'[p] = pos[p] + 1 /\ pos[p] <= nidx)
      BY <1>1, <1>5 DEF Nextrec
    <2> QED
      BY <1>5, <2>1, <2>2, <2>3 DEF DoDelete, Rewind, NextrecData
  <1>6. ASSUME NEW op \in Writing \cup {"fetch"}, NEW k \in Keys,
               NEW v \in Values \cup {None}, FindAndLock(p, op, k, v)
        PROVE  /\ pc[p] = "idle" /\ pos'[p] = 0 /\ due'[p] = {}
               /\ \A q \in Procs : q # p => due'[q] = due[q]
               /\ pc'[p] = "find"
    BY <1>6 DEF FindAndLock
  <1>7. ASSUME NEW op \in Writing \cup {"fetch"}, NEW k \in Keys,
               NEW v \in Values \cup {None}, FindAndLock(p, op, k, v)
        PROVE  ~Rewind(p) /\ ~DoDelete(p) /\ ~NextrecData(p)
    BY <1>6, <1>7 DEF Rewind, DoDelete, NextrecData
  <1>8. ASSUME ~Rewind(p), ~DoDelete(p), ~NextrecData(p), ~Nextrec(p),
               ~\E op \in Writing \cup {"fetch"}, k \in Keys, v \in Values \cup {None} :
                   FindAndLock(p, op, k, v)
        PROVE  pos' = pos /\ due' = due
    BY <1>8 DEF Step, Running, Find, FetchData, Overwrite, DeleteData, DeleteIdx,
           DeleteFree, DeletePtr, FindFree, WalkFree, TakeFree, AppendData, AppendIdx, Reuse,
           Link, UnlockChain, NextrecReturn, CallNextrec
  <1> HIDE DEF TypeInv, TypeOK, scanvars, Goto
  <1> QED
    BY <1>2, <1>3, <1>4, <1>5, <1>6, <1>7, <1>8

\* A key that nobody is about to move and that is in the database has a record.
LEMMA SettledHasRecord ==
    ASSUME TypeInv, ListInv, ValueInv, NEW k \in Settled
    PROVE  k \in Keys /\ \E s \in Records : rec[s].key = k
  <1>1. k \in Keys /\ map[k] # None /\ ~Changing(k)
    BY DEF Settled, Changing
  <1>2. Holds(k, map[k])
    BY <1>1 DEF ValueInv
  <1>3. \E s \in List(Hash[k]) : rec[s].key = k
    BY <1>1, <1>2 DEF Holds
  <1>4. List(Hash[k]) \subseteq Records
    BY <1>1, DbAssumption DEF ListInv, ListsOK, Locks
  <1> QED
    BY <1>1, <1>3, <1>4

\* What is due is still ahead: the records that are ahead stay where they are.
LEMMA AheadStep ==
    ASSUME TypeInv, LockInv, ListInv, DataInv, ValueInv, ScanInv, NEW p \in Procs, Step(p),
           NEW q \in Procs, NEW k \in due'[q]
    PROVE  Ahead(q, k)'
  <1>1. nidx \in Nat /\ pos[q] \in Nat /\ due[q] \in SUBSET Keys
    BY DbAssumption DEF TypeInv, TypeOK
  <1>2. CASE Rewind(p) /\ q = p
    <2>1. k \in Settled /\ pos'[q] = 1
      BY <1>2, DueStep
    <2>2. PICK s \in Records : rec[s].key = k
      BY <2>1, SettledHasRecord
    <2>3. rec' = rec /\ Records' = Records
      BY <1>2 DEF Rewind, filevars, Records
    <2>4. s \in Nat /\ 1 <= s
      BY <1>1 DEF Records
    <2> QED
      BY <2>1, <2>2, <2>3, <2>4 DEF Ahead
  <1>3. CASE ~(Rewind(p) /\ q = p)
    <2>1. k \in due[q] /\ k \in Keys /\ k # Blank
      BY <1>1, <1>3, DueStep, DbAssumption
    <2>2. Ahead(q, k)
      BY <2>1 DEF ScanInv
    <2>3. CASE pc[q] = "nextdat" /\ db[q].key = k
      <3>1. q # p
        <4> SUFFICES ASSUME q = p PROVE FALSE
          OBVIOUS
        <4>1. NextrecData(p)
          BY <2>3 DEF Step, Running, Find, FetchData, Overwrite, DoDelete, DeleteData, DeleteIdx,
             DeleteFree, DeletePtr, FindFree, WalkFree, TakeFree, AppendData, AppendIdx, Reuse,
             Link, UnlockChain, Nextrec, NextrecReturn, Rewind, CallNextrec, FindAndLock
        <4> QED
          BY <2>3, <4>1, DueStep
      <3> QED
        BY <2>3, <3>1, OthersStay DEF Ahead, TypeInv
    <2>4. ASSUME NEW s \in Records, pos[q] <= s, rec[s].key = k
          PROVE  Ahead(q, k)'
      <3>1. s \in Records' /\ s \in Nat
        <4>1. s \in Nat
          BY <1>1 DEF Records
        <4> QED
          BY <4>1, RecordsWritten
      <3>2. rec'[s].key = k
        <4>1. CASE DeleteIdx(p) /\ s = db[p].off
          <5>1. pc[p] = "delidx" /\ rec[db[p].off].key = db[p].key
            BY <4>1, DataAtHand DEF DeleteIdx, Known
          <5> QED
            BY <2>1, <2>4, <4>1, <5>1 DEF ScanInv
        <4> QED
          BY <2>1, <2>4, <4>1, RecordsWritten
      <3>3. CASE pos'[q] = pos[q]
        BY <2>4, <3>1, <3>2, <3>3 DEF Ahead
      <3>4. CASE q = p /\ Nextrec(p) /\ pos'[p] = pos[p] + 1 /\ pos[p] <= nidx
        <4>1. CASE s = pos[p]
          <5>1. pc'[p] = "nextdat" /\ db'[p].key = k
            <6>1. db \in [Procs -> DB] /\ pc \in [Procs -> PC]
              BY DEF TypeInv, TypeOK
            <6> QED
              BY <1>1, <2>1, <2>4, <3>4, <4>1, <6>1 DEF Nextrec, Goto, DB
          <5> QED
            BY <3>4, <5>1 DEF Ahead
        <4>2. CASE s # pos[p]
          <5>1. pos'[q] <= s
            BY <1>1, <2>4, <3>1, <3>4, <4>2
          <5> QED
            BY <3>1, <3>2, <5>1 DEF Ahead
        <4> QED
          BY <4>1, <4>2
      <3> QED
        BY <1>3, <3>3, <3>4, DueStep, OthersStay DEF TypeInv
    <2> QED
      BY <2>2, <2>3, <2>4 DEF Ahead
  <1> QED
    BY <1>2, <1>3

\* The part of the invariant about db_nextrec.
LEMMA ScanInvStep ==
    ASSUME TypeInv, LockInv, ListInv, DataInv, ValueInv, ScanInv, NEW p \in Procs, Step(p)
    PROVE  ScanInv'
  <1>1. /\ nidx \in Nat /\ pos \in [Procs -> 0..MaxRec + 1] /\ MaxRec \in Nat
        /\ pc \in [Procs -> PC] /\ db \in [Procs -> DB]
        /\ due \in [Procs -> SUBSET Keys]
    BY DbAssumption DEF TypeInv, TypeOK
  <1>2. \A q \in Procs : q # p => pc'[q] = pc[q] /\ db'[q] = db[q] /\ pos'[q] = pos[q]
    BY OthersStay DEF TypeInv
  <1>3. \A q \in Procs : pos'[q] = 0 => due'[q] = {}
    <2>1. ASSUME NEW q \in Procs, q # p, pos'[q] = 0 PROVE due'[q] = {}
      BY <1>2, <2>1, DueStep DEF ScanInv
    <2>2. ASSUME pos'[p] = 0 PROVE due'[p] = {}
      <3>1. pos[p] + 1 # 0 /\ 1 # 0
        BY <1>1
      <3> QED
        BY <2>2, <3>1, DueStep DEF ScanInv
    <2> QED
      BY <2>1, <2>2
  <1>4. \A q \in Procs : \A k \in due'[q] : Ahead(q, k)'
    BY AheadStep
  <1>5. ASSUME NEW r \in Procs, pc'[r] \in {"deldat", "delidx"}, NEW q \in Procs
        PROVE  db'[r].key \notin due'[q]
    <2>1. CASE r # p
      <3>1. pc[r] \in {"deldat", "delidx"} /\ db'[r].key = db[r].key
        BY <1>2, <1>5, <2>1
      <3>2. db[r].key \notin due[q]
        BY <3>1 DEF ScanInv
      <3>3. db[r].op \in Writing
        BY <3>1 DEF TypeInv, OpsOK, MayDelete, Writing
      <3>4. db[r].key \notin Settled
        BY <3>3 DEF Settled
      <3> QED
        BY <3>1, <3>2, <3>4, DueStep
    <2>2. CASE r = p
      <3>1. DoDelete(p) \/ DeleteData(p)
        BY <1>1, <1>5, <2>2 DEF Step, Running, Find, Found, NotFound, FetchData, Overwrite,
           DeleteIdx, DeleteFree, DeletePtr, FindFree, WalkFree, TakeFree, AppendData,
           AppendIdx, Reuse, Link, UnlockChain, Nextrec, NextrecData, NextrecReturn,
           Rewind, CallNextrec, FindAndLock, Goto
      <3>2. db'[p].key = db[p].key
        BY <3>1, ArgumentsStay DEF Acting, TypeInv
      <3>3. CASE DoDelete(p)
        BY <2>2, <3>2, <3>3, DueStep
      <3>4. CASE DeleteData(p)
        BY <2>2, <3>2, <3>4 DEF DeleteData, scanvars, ScanInv
      <3> QED
        BY <3>1, <3>3, <3>4
    <2> QED
      BY <2>1, <2>2
  <1>6. ASSUME NEW q \in Procs, pc'[q] = "eof" PROVE due'[q] = {}
    <2>1. CASE q # p
      BY <1>2, <1>6, <2>1, DueStep DEF ScanInv
    <2>2. CASE q = p
      <3>1. Nextrec(p)
        BY <1>1, <1>6, <2>2 DEF Step, Running, Find, Found, NotFound, FetchData, Overwrite,
           DoDelete, DeleteData, DeleteIdx, DeleteFree, DeletePtr, FindFree, WalkFree, TakeFree,
           AppendData, AppendIdx, Reuse, Link, UnlockChain, NextrecData, NextrecReturn,
           Rewind, CallNextrec, FindAndLock, Goto
      <3>2. pc[p] = "nextrec" /\ due' = due /\ pos[p] > nidx
        BY <1>1, <1>6, <2>2, <3>1 DEF Nextrec, Goto
      <3>3. \A s \in Records : ~(pos[p] <= s)
        BY <1>1, <3>2 DEF Records
      <3>4. \A k \in due[p] : Ahead(p, k)
        BY DEF ScanInv
      <3> QED
        BY <2>2, <3>2, <3>3, <3>4 DEF Ahead
    <2> QED
      BY <2>1, <2>2
  <1>7. ASSUME NEW q \in Procs, pc'[q] = "nextret"
        PROVE  db'[q].res \in Data /\ db'[q].res.key = db'[q].key
    <2>1. CASE q # p
      BY <1>2, <1>7, <2>1 DEF ScanInv
    <2>2. CASE q = p
      <3>1. NextrecData(p)
        BY <1>1, <1>7, <2>2 DEF Step, Running, Find, Found, NotFound, FetchData, Overwrite,
           DoDelete, DeleteData, DeleteIdx, DeleteFree, DeletePtr, FindFree, WalkFree, TakeFree,
           AppendData, AppendIdx, Reuse, Link, UnlockChain, Nextrec, NextrecReturn,
           Rewind, CallNextrec, FindAndLock, Goto
      <3>2. pc[p] = "nextdat" /\ db'[p].res = dat[db[p].datoff] /\ db'[p].key = db[p].key
        BY <1>1, <3>1 DEF NextrecData, DB
      <3>3. PICK s \in Records : rec[s].key = db[p].key /\ rec[s].dat = db[p].datoff
        BY <3>2 DEF DataInv, NextFacts
      <3>4. db[p].key \in Keys /\ p \in rd[Free]
        BY <3>2 DEF DataInv, NextFacts, LockInv, LocksOK, MayScan
      <3>5. ~Half(s)
        <4> SUFFICES ASSUME NEW r \in Procs, pc[r] = "delidx" PROVE FALSE
          BY DEF Half
        <4>1. r \in wr[Free]
          BY DEF LockInv, LocksOK, HoldsFree
        <4> QED
          BY <3>4, <4>1 DEF LockInv, Exclusive, Locks
      <3> QED
        BY <2>2, <3>2, <3>3, <3>4, <3>5 DEF DataInv, Whole
    <2> QED
      BY <2>1, <2>2
  <1> QED
    BY <1>3, <1>4, <1>5, <1>6, <1>7 DEF ScanInv

-----------------------------------------------------------------------------
(* The inductive invariant                                                 *)

\* The empty database satisfies the invariant.
LEMMA InitInv == Init => DbInv
  <1> SUFFICES ASSUME Init PROVE DbInv
    OBVIOUS
  <1>1. MaxRec \in Nat /\ Free \in Locks
    BY DbAssumption DEF Locks
  <1>2. Pending = {} /\ Appending = {} /\ Records = {}
    BY DEF Init, Idle, Pending, Appending, Storing, Records
  <1>3. TypeOK
    <2>1. Idle \in DB
      BY <1>1 DEF Idle, DB
    <2> QED
      BY <1>1, <2>1 DEF Init, TypeOK, PC
  <1>4. BoundsOK
    BY <1>1, <1>2, FS_EmptySet DEF BoundsOK, Init
  <1>5. PlacesOK
    <2>1. FilePlaces
      BY <1>2 DEF Init, FilePlaces
    <2>2. \A p \in Procs : CallPlaces(p)
      BY DEF Init, CallPlaces, Idle, AtRecord, AtData, MayDelete
    <2> QED
      BY <2>1, <2>2 DEF PlacesOK
  <1>6. \A p \in Procs : OpsOK(p)
    BY DEF Init, Idle, OpsOK, PC, MayScan, MayDelete, MayAppend, MayReuse, Writing, Storing
  <1>7. LockInv
    BY DEF Init, Idle, LockInv, Exclusive, LocksOK, HoldsFree, MayScan, Writing
  <1>8. links = ptr /\ \A l \in Locks : links[l] = 0 /\ List(l) = {}
    <2>1. links = ptr
      BY NoneClosing DEF Init, Closing
    <2>2. \A l \in Locks : links[l] = 0
      BY <2>1 DEF Init
    <2> QED
      BY <2>1, <2>2, ReachNothing DEF List
  <1>9. ListInv
    <2>1. ListsOK
      BY <1>8 DEF ListsOK, IsList, List
    <2>2. HandsOK
      BY <1>2, <1>8 DEF HandsOK, Holding, Init
    <2>3. KeysOK
      BY <1>1, <1>8 DEF KeysOK, Locks
    <2>4. \A p \in Procs : ChainFacts(p) /\ FreeFacts(p)
      BY DEF Init, ChainFacts, FreeFacts, Known, Without, First, Closing, MayReuse, MayAppend
    <2> QED
      BY <2>1, <2>2, <2>3, <2>4 DEF ListInv
  <1>10. DataInv
    <2>1. \A p \in Procs : HandFacts(p) /\ NextFacts(p)
      BY DEF Init, HandFacts, NextFacts
    <2> QED
      BY <1>2, <2>1 DEF DataInv, PlacesApart, Whole
  <1>11. ValueInv
    <2>1. \A p \in Procs : CallFacts(p)
      BY DEF Init, CallFacts, MayReuse, MayDelete, MayAppend
    <2>2. \A k \in Keys : Hash[k] \in Locks /\ map[k] = None
      BY DbAssumption DEF Locks, Init
    <2>3. \A k \in Keys : Holds(k, map[k])
      BY <1>8, <2>2 DEF Holds
    <2> QED
      BY <2>1, <2>3 DEF ValueInv
  <1>12. ScanInv
    BY DEF Init, ScanInv
  <1> QED
    BY <1>3, <1>4, <1>5, <1>6, <1>7, <1>9, <1>10, <1>11, <1>12 DEF DbInv, TypeInv

\* A step that changes nothing changes no part of the invariant.
LEMMA StutterInv == DbInv /\ UNCHANGED vars => DbInv'
  <1> SUFFICES ASSUME DbInv, UNCHANGED vars PROVE DbInv'
    OBVIOUS
  <1> USE DEF vars
  <1>1. TypeInv'
    BY DEF DbInv, TypeInv, TypeOK, BoundsOK, PlacesOK, FilePlaces, CallPlaces, OpsOK,
           Pending, Appending, Records
  <1>2. LockInv'
    BY DEF DbInv, LockInv, Exclusive, LocksOK, Chain
  <1>3. links' = links
    BY DEF links, Closing
  <1>4. \A l : List(l)' = List(l)
    BY <1>3 DEF List
  <1>5. \A p : Chain(p)' = Chain(p)
    BY DEF Chain
  <1>6. ListInv'
    <2>1. ListsOK' /\ HandsOK' /\ KeysOK'
      BY <1>3, <1>4 DEF DbInv, ListInv, ListsOK, HandsOK, KeysOK, Records, Holding
    <2>2. \A p \in Procs : ChainFacts(p)' /\ FreeFacts(p)'
      BY <1>3, <1>4, <1>5 DEF DbInv, ListInv, ChainFacts, FreeFacts, Searching, At, Hit, Absent,
                              Closing
    <2> QED
      BY <2>1, <2>2 DEF ListInv
  <1>7. DataInv'
    BY DEF DbInv, DataInv, PlacesApart, Whole, Half, HandFacts, NextFacts, NewData, Appending,
           Records
  <1>8. ValueInv'
    <2>1. \A k, v : Holds(k, v)' <=> Holds(k, v)
      BY <1>4 DEF Holds
    <2>2. \A p : Outcome(p)' = Outcome(p)
      BY DEF Outcome
    <2> QED
      BY <2>1, <2>2 DEF DbInv, ValueInv, Changing, CallFacts
  <1>9. ScanInv'
    BY DEF DbInv, ScanInv, Ahead, Records
  <1> QED
    BY <1>1, <1>2, <1>6, <1>7, <1>8, <1>9 DEF DbInv

\* The invariant is inductive.
THEOREM DbInvariant == Spec => []DbInv
  <1>1. Init => DbInv
    BY InitInv
  <1>2. DbInv /\ [Next]_vars => DbInv'
    <2>1. ASSUME DbInv, NEW p \in Procs, Step(p) PROVE DbInv'
      BY <2>1, TypeInvStep, LockInvStep, ListInvStep, DataInvStep, ValueInvStep, ScanInvStep
         DEF DbInv
    <2> QED
      BY <2>1, NextIsStep, StutterInv
  <1> QED
    BY <1>1, <1>2, PTL DEF Spec

-----------------------------------------------------------------------------
(* The theorems                                                            *)

\* Where nobody is closing a list, following the pointers finds the list.
LEMMA WalkIsList ==
    ASSUME TypeInv, LockInv, ListInv, NEW l \in Locks,
           \A x \in {l} \cup List(l) : ptr[x] = links[x]
    PROVE  Walk(l)[MaxRec] = 0 /\ On(l) = List(l)
  <1>1. /\ MaxRec \in Nat /\ Slots = 1..MaxRec /\ l \notin Slots
        /\ Closed(links, Slots) /\ (links[l] = 0 \/ links[l] \in Slots)
        /\ IsList(links, Slots, l)
    BY LinksType, DbAssumption DEF Slots, ListInv, ListsOK
  <1>2. Closed(ptr, Slots) /\ (ptr[l] = 0 \/ ptr[l] \in Slots)
    <2>1. \A x \in Locks \cup Slots : ptr[x] \in 0..MaxRec
      BY DEF TypeInv, TypeOK
    <2> QED
      BY <1>1, <2>1 DEF Closed
  <1>3. Reach(ptr, Slots, ptr[l]) = List(l) /\ IsList(ptr, Slots, l)
    <2>1. ptr[l] = links[l] /\ \A s \in Reach(links, Slots, links[l]) : ptr[s] = links[s]
      BY DEF List
    <2> HIDE DEF links
    <2> QED
      BY <1>1, <2>1, ListFrame DEF List
  <1> DEFINE Cells(w) == w = [i \in 0..MaxRec |-> IF i = 0 THEN ptr[l] ELSE Follow(w[i - 1])]
             w == Walk(l)
  <1>4. \E v : Cells(v)
    <2>1. PICK v : IsWalk(v, ptr, MaxRec, ptr[l])
      BY <1>1, WalkExists
    <2>2. \A i \in 0..MaxRec : v[i] = IF i = 0 THEN ptr[l] ELSE Follow(v[i - 1])
      <3> SUFFICES ASSUME NEW i \in 0..MaxRec, i # 0 PROVE v[i] = Follow(v[i - 1])
        BY <2>1 DEF IsWalk
      <3>1. i - 1 \in 0..MaxRec /\ i - 1 # MaxRec /\ (i - 1) + 1 = i
        BY <1>1
      <3> QED
        BY <2>1, <3>1 DEF IsWalk, Follow
    <2>3. v = [i \in 0..MaxRec |-> v[i]]
      BY <2>1 DEF IsWalk
    <2> QED
      BY <2>2, <2>3
  <1>5. Cells(w)
    <2>1. w = CHOOSE v : Cells(v)
      BY DEF Walk
    <2> HIDE DEF Cells, w
    <2> QED
      BY <1>4, <2>1
  <1>6. On(l) = Visited(w, MaxRec)
    BY DEF On, Visited
  <1> HIDE DEF w
  <1>7. IsWalk(w, ptr, MaxRec, ptr[l])
    <2>1. ASSUME NEW i \in 0..MaxRec, i # MaxRec PROVE w[i + 1] = Follow(w[i])
      <3>1. i + 1 \in 0..MaxRec /\ i + 1 # 0 /\ (i + 1) - 1 = i
        BY <1>1, <2>1
      <3> QED
        BY <1>5, <3>1
    <2>2. w[0] = ptr[l] /\ w = [i \in 0..MaxRec |-> w[i]]
      BY <1>1, <1>5
    <2> QED
      BY <2>1, <2>2 DEF IsWalk, Follow
  <1>8. w[MaxRec] = 0 /\ Visited(w, MaxRec) = Reach(ptr, Slots, ptr[l])
    <2>1. /\ Closed(ptr, 1..MaxRec) /\ IsList(ptr, 1..MaxRec, l)
          /\ l \notin 1..MaxRec /\ (ptr[l] = 0 \/ ptr[l] \in 1..MaxRec)
      BY <1>1, <1>2, <1>3
    <2>2. w[MaxRec] = 0 /\ Visited(w, MaxRec) = Reach(ptr, 1..MaxRec, ptr[l])
      BY <1>1, <1>7, <2>1, WalkVisits
    <2> QED
      BY <1>1, <2>2
  <1> QED
    BY <1>3, <1>6, <1>8 DEF w

\* A key whose chain nobody is writing is not being changed.
LEMMA UnwrittenChain ==
    ASSUME TypeInv, LockInv, ValueInv, NEW k \in Keys, wr[Hash[k]] = {}
    PROVE  Holds(k, map[k])
  <1>1. ~Changing(k)
    BY DEF Changing, LockInv, LocksOK, Chain
  <1> QED
    BY <1>1 DEF ValueInv

\* What the invariant says of a chain that nobody is writing.
LEMMA InvChains == DbInv => ChainsHoldMap
  <1> SUFFICES ASSUME DbInv, NEW h \in Chains, wr[h] = {}
               PROVE  /\ Walk(h)[MaxRec] = 0
                      /\ \A s \in On(h) : rec[s].key \in Keys /\ Hash[rec[s].key] = h
                      /\ \A s, t \in On(h) : rec[s].key = rec[t].key => s = t
                      /\ {dat[rec[s].dat] : s \in On(h)}
                           = {[key |-> k, val |-> map[k]] :
                                 k \in {x \in Keys : Hash[x] = h /\ map[x] # None}}
    BY DEF ChainsHoldMap
  <1> USE DEF DbInv
  <1>1. h \in Locks
    BY DEF Locks
  <1>2. \A q \in Procs : Closing(q) => Chain(q) # h
    BY DEF Closing, LockInv, LocksOK, TypeInv, OpsOK, MayDelete, Writing
  <1>3. Walk(h)[MaxRec] = 0 /\ On(h) = List(h)
    BY <1>1, <1>2, ChainSeen, WalkIsList
  <1>4. /\ \A s \in List(h) : rec[s].key \in Keys /\ Hash[rec[s].key] = h
        /\ \A s, t \in List(h) : rec[s].key = rec[t].key => s = t
    BY DEF ListInv, KeysOK
  <1>5. \A k \in Keys : Hash[k] = h => Holds(k, map[k])
    BY UnwrittenChain
  <1>6. \A s \in List(h) : /\ map[rec[s].key] # None
                           /\ dat[rec[s].dat] = [key |-> rec[s].key, val |-> map[rec[s].key]]
    BY <1>4, <1>5 DEF Holds
  <1>7. \A k \in Keys : Hash[k] = h /\ map[k] # None =>
           \E s \in List(h) : rec[s].key = k
    BY <1>5 DEF Holds
  <1>8. {dat[rec[s].dat] : s \in List(h)}
           = {[key |-> k, val |-> map[k]] :
                 k \in {x \in Keys : Hash[x] = h /\ map[x] # None}}
    <2> DEFINE A == {dat[rec[s].dat] : s \in List(h)}
               B == {[key |-> k, val |-> map[k]] :
                        k \in {x \in Keys : Hash[x] = h /\ map[x] # None}}
    <2>1. ASSUME NEW d \in A PROVE d \in B
      <3>1. PICK s \in List(h) : d = dat[rec[s].dat]
        OBVIOUS
      <3>2. PICK k \in Keys : k = rec[s].key
        BY <1>4
      <3>3. Hash[k] = h /\ map[k] # None /\ d = [key |-> k, val |-> map[k]]
        BY <1>4, <1>6, <3>1, <3>2
      <3> QED
        BY <3>3
    <2>2. ASSUME NEW d \in B PROVE d \in A
      <3>1. PICK k \in Keys : Hash[k] = h /\ map[k] # None /\ d = [key |-> k, val |-> map[k]]
        OBVIOUS
      <3>2. PICK s \in List(h) : rec[s].key = k
        BY <1>7, <3>1
      <3>3. dat[rec[s].dat] = d
        BY <1>6, <3>1, <3>2
      <3> QED
        BY <3>3
    <2> HIDE DEF A, B
    <2>3. A = B
      BY <2>1, <2>2
    <2> QED
      BY <2>3 DEF A, B
  <1> HIDE DEF DbInv
  <1> QED
    BY <1>3, <1>4, <1>8

\* What the invariant says of the records when the free list is not locked.
LEMMA InvRecords == DbInv => RecordsConserved
  <1> SUFFICES ASSUME DbInv, wr[Free] = {} PROVE RecordsConserved
    BY DEF RecordsConserved
  <1> USE DEF DbInv
  <1>1. \A q \in Procs : ~Closing(q)
    BY DEF Closing, LockInv, LocksOK, HoldsFree
  <1>2. links = ptr
    BY <1>1, NoneClosing
  <1>3. \A l \in Locks : Walk(l)[MaxRec] = 0 /\ On(l) = List(l)
    BY <1>2, WalkIsList
  <1>4. Free \in Locks
    BY DEF Locks
  <1>5. \A s \in On(Free) : rec[s].key = Blank
    BY <1>3, <1>4 DEF ListInv, KeysOK
  <1> DEFINE on == [l \in Locks |-> On(l)]
  <1>6. ASSUME NEW s \in 1..nidx
        PROVE  Cardinality({l \in Locks : s \in on[l]}) + (IF s \in InHand THEN 1 ELSE 0) = 1
    <2> DEFINE T == {l \in Locks : s \in on[l]}
    <2>1. T = {l \in Locks : s \in List(l)}
      BY <1>3
    <2>2. s \in InHand <=> \E q \in Procs : Holding(q) /\ db[q].off = s
      BY DEF InHand, Holding
    <2>3. s \in Records
      BY DEF Records
    <2> HIDE DEF T
    <2>4. CASE \E q \in Procs : Holding(q) /\ db[q].off = s
      <3>1. T = {}
        BY <2>1, <2>4 DEF ListInv, HandsOK
      <3>2. Cardinality(T) = 0
        BY <3>1, FS_EmptySet
      <3> QED
        BY <2>2, <2>4, <3>2 DEF T
    <2>5. CASE ~\E q \in Procs : Holding(q) /\ db[q].off = s
      <3>1. PICK l \in Locks : s \in List(l)
        BY <2>3, <2>5 DEF ListInv, HandsOK
      <3>2. \A m \in Locks : s \in List(m) => m = l
        BY <3>1 DEF ListInv, ListsOK
      <3>3. T = {l}
        BY <2>1, <3>1, <3>2
      <3>4. Cardinality(T) = 1
        BY <3>3, FS_Singleton
      <3> QED
        BY <2>2, <2>5, <3>4 DEF T
    <2> QED
      BY <2>4, <2>5
  <1> HIDE DEF DbInv
  <1> QED
    BY <1>3, <1>4, <1>5, <1>6 DEF RecordsConserved

\* The types of the files, the locks and the DB structures: no write of the
\* library goes past the records that the files have room for, and no offset
\* it reads back from a file lies outside of the file.
THEOREM TypeCorrect == Spec => []TypeOK
  <1>1. DbInv => TypeOK
    BY DEF DbInv, TypeInv
  <1> QED
    BY <1>1, DbInvariant, PTL

\* A chain that no process has write locked holds each key of the database
\* that hashes to it once, with its last value, and nothing else, whatever
\* db_store and db_delete did before and do on other chains meanwhile.
THEOREM ChainsCorrect == Spec => []ChainsHoldMap
  BY InvChains, DbInvariant, PTL

\* While nobody holds the write lock of the free list, every record of the
\* index file is on exactly one hash chain, on the free list, or in the hands
\* of one db_store: _db_dodelete and _db_findfree lose none and share none.
THEOREM RecordsCorrect == Spec => []RecordsConserved
  BY InvRecords, DbInvariant, PTL

\* db_fetch returns the last value stored under its key, or no value when there
\* is none, with other processes writing to other keys of the same files.
THEOREM FetchCorrect == Spec => []FetchIsRight
  <1>1. DbInv => FetchIsRight
    BY DEF DbInv, ValueInv, CallFacts, FetchIsRight
  <1> QED
    BY <1>1, DbInvariant, PTL

\* db_nextrec returns a key with data that was stored under that key, although
\* it has locked no chain and the record may be in the middle of a change.
THEOREM NextrecCorrect == Spec => []NextrecIsWhole
  <1>1. DbInv => NextrecIsWhole
    <2> SUFFICES ASSUME DbInv, NEW p \in Procs, pc[p] = "nextret"
                 PROVE  db[p].res # Blank /\ db[p].res.key = db[p].key
      BY DEF NextrecIsWhole
    <2>1. db[p].res \in Data /\ db[p].res.key = db[p].key
      BY DEF DbInv, ScanInv
    <2> QED
      BY <2>1, DbAssumption DEF Data
  <1> QED
    BY <1>1, DbInvariant, PTL

\* A scan by db_rewind and db_nextrec that has come to the end of the file has
\* returned every key that was in the database all the while.
THEOREM ScanCorrect == Spec => []ScanIsComplete
  <1>1. DbInv => ScanIsComplete
    BY DEF DbInv, ScanInv, ScanIsComplete
  <1> QED
    BY <1>1, DbInvariant, PTL

-----------------------------------------------------------------------------
(* The order of the locks                                                  *)

\* Whoever has a read lock is fetching on that chain or scanning.
ReadsOK(p) ==
    \A l \in Locks : p \in rd[l] => \/ db[p].op = "fetch" /\ l = Chain(p)
                                    \/ pc[p] \in MayScan /\ l = Free

\* db_fetch and db_nextrec release the one lock they take.
LEMMA ReadsStep ==
    ASSUME TypeInv, LockInv, NEW p \in Procs, Step(p), \A q \in Procs : ReadsOK(q)
    PROVE  \A q \in Procs : ReadsOK(q)'
  <1>1. ASSUME NEW q \in Procs, q # p
        PROVE  ReadsOK(q)'
    <2>1. pc'[q] = pc[q] /\ db'[q] = db[q]
      BY <1>1, OthersStay DEF TypeInv
    <2> QED
      BY <1>1, <2>1, ExclusiveStep DEF ReadsOK, Chain
  <1> SUFFICES ReadsOK(p)'
    BY <1>1
  <1>2. TypeOK /\ OpsOK(p) /\ ReadsOK(p) /\ Free \in Locks /\ db[p] \in DB /\ pc[p] \in PC
    BY DEF TypeInv, TypeOK, Locks
  <1>3. rd \in [Locks -> SUBSET Procs] /\ wr \in [Locks -> SUBSET Procs]
    BY DEF TypeInv, TypeOK
  <1>4. db[p].op \in Writing \cup {"fetch"} => Chain(p) \in Locks /\ Chain(p) # Free
    BY ChainIsLock
  <1>5. CASE Acting(p) \/ NextrecData(p) \/ Rewind(p)
    <2>1. db'[p].op = db[p].op /\ db'[p].key = db[p].key
      BY <1>2, <1>5, ArgumentsStay
    <2>2. \A l \in Locks : rd'[l] \subseteq rd[l]
      BY <1>2, <1>3, <1>5
         DEF Acting, Find, FetchData, Overwrite, DoDelete, DeleteData, DeleteIdx, DeleteFree,
             DeletePtr, FindFree, WalkFree, TakeFree, AppendData, AppendIdx, Reuse, Link,
             NextrecData, Rewind, WriteLock, Unlock
    <2>3. pc[p] \in MayScan => pc'[p] \in MayScan
      BY <1>2, <1>5
         DEF Acting, Find, FetchData, Overwrite, DoDelete, DeleteData, DeleteIdx, DeleteFree,
             DeletePtr, FindFree, WalkFree, TakeFree, AppendData, AppendIdx, Reuse, Link,
             NextrecData, Rewind, MayScan, Goto, TypeOK
    <2> QED
      BY <1>2, <2>1, <2>2, <2>3 DEF ReadsOK, Chain
  <1>6. CASE Nextrec(p)
    <2>1. pc'[p] \in MayScan /\ db'[p].op = db[p].op /\ rd' = rd /\ db[p].op = "nextrec"
      BY <1>2, <1>6 DEF Nextrec, TypeOK, MayScan, Goto, DB, OpsOK
    <2> QED
      BY <1>2, <2>1 DEF ReadsOK
  <1>7. CASE UnlockChain(p)
    <2>1. \A l \in Locks : p \notin rd'[l]
      BY <1>2, <1>3, <1>4, <1>7 DEF UnlockChain, Unlock, ReadsOK, MayScan
    <2> QED
      BY <2>1 DEF ReadsOK
  <1>8. CASE NextrecReturn(p)
    <2>1. \A l \in Locks : p \notin rd'[l]
      BY <1>2, <1>3, <1>8 DEF NextrecReturn, Unlock, ReadsOK, MayScan, OpsOK
    <2> QED
      BY <2>1 DEF ReadsOK
  <1>9. CASE CallNextrec(p)
    <2>1. \A l \in Locks : p \notin rd[l]
      BY <1>2, <1>9 DEF CallNextrec, ReadsOK, MayScan, OpsOK
    <2>2. pc'[p] \in MayScan /\ \A l \in Locks : p \in rd'[l] => l = Free
      BY <1>2, <1>3, <1>9, <2>1 DEF CallNextrec, ReadLock, TypeOK, MayScan, Goto
    <2> QED
      BY <2>2 DEF ReadsOK
  <1>10. ASSUME NEW op \in Writing \cup {"fetch"}, NEW k \in Keys,
                NEW v \in Values \cup {None}, FindAndLock(p, op, k, v)
         PROVE  ReadsOK(p)'
    <2>1. \A l \in Locks : p \notin rd[l]
      BY <1>2, <1>10 DEF FindAndLock, ReadsOK, MayScan, OpsOK
    <2>2. db'[p].op = op /\ db'[p].key = k /\ Hash[k] \in Locks
      BY <1>2, <1>10, DbAssumption DEF FindAndLock, TypeOK, Idle, Locks
    <2>3. \A l \in Locks : p \in rd'[l] => op \notin Writing /\ l = Hash[k]
      BY <1>3, <1>10, <2>1, <2>2 DEF FindAndLock, ReadLock, WriteLock
    <2> QED
      BY <2>2, <2>3 DEF ReadsOK, Chain
  <1> QED
    BY <1>5, <1>6, <1>7, <1>8, <1>9, <1>10 DEF Step, Running, Acting

\* No process waits for a chain while it holds the free list, and none keeps a
\* lock when its call returns.
THEOREM LocksCorrect == Spec => []LocksOrdered
  <1> DEFINE Reads == \A p \in Procs : ReadsOK(p)
  <1>1. Init => Reads
    BY DEF Init, ReadsOK
  <1>2. DbInv /\ Reads /\ [Next]_vars => Reads'
    <2>1. ASSUME DbInv, Reads, NEW p \in Procs, Step(p) PROVE Reads'
      BY <2>1, ReadsStep DEF DbInv
    <2>2. ASSUME Reads, UNCHANGED vars PROVE Reads'
      BY <2>2 DEF vars, ReadsOK, Chain
    <2> QED
      BY <2>1, <2>2, NextIsStep
  <1>3. DbInv /\ Reads => LocksOrdered
    <2> SUFFICES ASSUME DbInv, Reads PROVE LocksOrdered
      OBVIOUS
    <2>1. ASSUME NEW l \in Locks, NEW p \in Procs, p \in rd[l] \cup wr[l]
          PROVE  IF l = Free THEN pc[p] \notin {"idle", "dodelete", "findfree"}
                             ELSE pc[p] # "idle"
      <3>1. OpsOK(p) /\ LocksOK(p) /\ ReadsOK(p)
        BY DEF DbInv, TypeInv, LockInv
      <3>2. db[p].op \in Writing \cup {"fetch"} => Chain(p) # Free
        BY ChainIsLock DEF DbInv
      <3>3. CASE p \in rd[l]
        BY <3>1, <3>2, <3>3 DEF ReadsOK, OpsOK, MayScan
      <3>4. CASE p \in wr[l]
        BY <3>1, <3>2, <3>4 DEF LocksOK, OpsOK, HoldsFree, Writing
      <3> QED
        BY <2>1, <3>3, <3>4
    <2>2. \A l \in Locks : rd[l] \cup wr[l] \subseteq Procs
      BY DEF DbInv, TypeInv, TypeOK
    <2> QED
      BY <2>1, <2>2, DbAssumption DEF LocksOrdered, Locks
  <1> HIDE DEF Reads
  <1> QED
    BY <1>1, <1>2, <1>3, DbInvariant, PTL DEF Spec
=============================================================================
