-------------------------------- MODULE RDB --------------------------------
(***************************************************************************)
(* URDB: a constant database file (UCDB) with a journal over it.  The      *)
(* journal is a file mapped by every process: a header (off, sync,         *)
(* nrecord, hashtab) followed by nodes and records allocated at off.  A    *)
(* slot of hashtab is the root of a binary search tree of nodes; a node    *)
(* points to the records that hold its key and its data.                   *)
(*                                                                         *)
(* Offsets count allocations: a node and a record take one unit each, the  *)
(* first offset after the header is 1, and 0 is the null offset.  The      *)
(* words that another process, or a process started after a crash, can see *)
(* are written in the order of the code, each by a step of its own, but    *)
(* for three groups: the words of a node that is cleared, the two counters *)
(* and the table of a reset.  A death inside one of those is left out.     *)
(***************************************************************************)
EXTENDS Integers, FiniteSets

CONSTANTS
    Procs,        \* the processes that share the database
    Keys, Data,
    NoData,       \* no entry
    Torn,         \* bytes that are no datum: the size does not match the record
    NoOp, NoProc,
    Slots,        \* the slots of hashtab
    Hash,         \* [Keys -> Slots], khash % CACHE_HASHTAB_LEN
    GoLeft,       \* pairs <<k, n>> where k is searched left of a node with key n
    Size,         \* [Data -> Nat \ {0}], the sizes of the data
    InitCdb,      \* the constant databases the program may start with
    Requests,     \* the operations the callers may request
    JournalSize,  \* the size of the journal file when it is opened
    Full,         \* what may happen when the journal file is full
    CrashOps,     \* the kinds of operations during which a process may die
    MaxOff,       \* bound: the last offset
    MaxFault,     \* bound: processes that die and reorganizations that fail
    ReorgFaults   \* what may go wrong in reorganize()

INSERT  == "RDB_INSERT"
REPLACE == "RDB_REPLACE"

Offsets == 1 .. MaxOff
NOT_FOUND == -1

\* key.dptr, key.dsize (only zero or not matters), data.dptr and data.dsize.
Words == {"kptr", "ksz", "dptr", "dsz"}

\* The places that hold the offset of a node.
Links == ({"tab"} \X Slots) \cup ({"left", "right"} \X Offsets)

NoLink == <<"none", 0>>

\* The entries of an empty database.
NoEntries == [k \in Keys |-> NoData]

Kinds == {"store", "remove", "fetch", "substitute",
          "begin", "commit", "abort", "reorganize", "print", "sorted"}

ASSUME RDBAssumption ==
    /\ MaxOff \in Nat \ {0} /\ MaxFault \in Nat /\ JournalSize \in Nat
    /\ Hash \in [Keys -> Slots]
    /\ GoLeft \subseteq Keys \X Keys
    /\ Size \in [Data -> Nat \ {0}]
    /\ InitCdb \subseteq [Keys -> Data \cup {NoData}]
    /\ Full \subseteq {"ftruncate", "reorganize", "fail"}
    /\ CrashOps \subseteq Kinds /\ ReorgFaults \subseteq {"creat", "rename"}
    /\ \A o \in Requests :
         /\ o.kind \in Kinds
         /\ o.kind \in {"store", "remove", "fetch", "substitute"} => o.key \in Keys
         /\ o.kind \in {"store", "substitute"} => o.data \in Data
         /\ o.kind = "substitute" => o.key2 \in Keys
    /\ NoData \notin Data /\ Torn \notin Data \cup {NoData}
    /\ NoOp \notin Requests /\ NoProc \notin Procs

VARIABLES
    \* the journal file, shared
    off, sync, nrecord,
    link,      \* [Links -> offset of a node or 0]
    node,      \* the other words of the nodes
    recs,      \* the records: key and data
    fsize,     \* the size of the file
    \* the constant database file, and the mappings of the processes and of
    \* the parent they are forked from
    cdbFile, cdb, parentCdb,
    \* the lock: the semaphore and ULock::locked
    sem, locked,
    \* the processes
    op, pc,
    stage,     \* which key of the operation is searched, or entry inserted
    pnode, cur,      \* URDB::pnode and URDB::node
    pnode1, cur1,    \* the locals pnode1 and node1 of substitute()
    exist,     \* the local exist of store(), n != 0 in the sorted visits
    jrec,      \* the offset of the record written by logJournal()
    result, ret,
    st,        \* journal.st_size of the process
    txn,       \* between beginTransaction() and commit or abort
    faults,
    snap       \* history: the entries when the lock was last taken

journal == <<off, sync, nrecord, link, node, recs, fsize>>
files   == <<cdbFile, cdb, parentCdb>>
lockV   == <<sem, locked>>
find    == <<pnode, cur>>
saved1  == <<pnode1, cur1>>
call    == <<op, ret, txn, snap>>
vars == <<off, sync, nrecord, link, node, recs, fsize, cdbFile, cdb, parentCdb, sem, locked, op, pc,
          stage, pnode, cur, pnode1, cur1, exist, jrec, result, ret, st, txn, faults, snap>>

-----------------------------------------------------------------------------
(* Reading the database.                                                    *)

Code(c) == <<"code", c>>
NoResult == <<"none", 0>>

NodeKey(n) == recs[node[n].kptr].key

Side(k, n) == IF <<k, NodeKey(n)>> \in GoLeft THEN "left" ELSE "right"

\* The bytes data.dptr, data.dsize of a node.
NodeData(n) ==
    LET d == recs[node[n].dptr].data IN
    IF d # NoData /\ Size[d] = node[n].dsz THEN d ELSE Torn

\* What htLookup() would find: the node of a key, or 0.
Walk(k) ==
    LET walk[n \in 0 .. MaxOff] ==
          IF n = 0 THEN 0
          ELSE IF node[n].ksz = 0 THEN 0
          ELSE IF NodeKey(n) = k THEN n
          ELSE walk[link[<<Side(k, n), n>>]]
    IN walk[link[<<"tab", Hash[k]>>]]

\* The nodes that call() visits.
Nodes ==
    LET sub[n \in 0 .. MaxOff] ==
          IF n = 0 THEN {}
          ELSE {n} \cup sub[link[<<"left", n>>]] \cup sub[link[<<"right", n>>]]
    IN UNION {sub[link[<<"tab", s>>]] : s \in Slots}

\* The entries as a process with the constant database c reads them.
View(c) ==
    [k \in Keys |-> LET n == Walk(k) IN
       IF n = 0 THEN c[k]
       ELSE IF node[n].dptr = 0 THEN NoData ELSE NodeData(n)]

CdbCount(c) == Cardinality({k \in Keys : c[k] # NoData})

-----------------------------------------------------------------------------
(* Local helpers of the steps.                                              *)

Goto(p, l) == pc' = [pc EXCEPT ![p] = l]

\* The operation is over with the return code c: unlock() is next.
Finish(p, r) == result' = [result EXCEPT ![p] = r] /\ Goto(p, "unlock")

\* The process is between lock() and unlock() of an operation.
Active(p) == pc[p] \notin {"idle", "lock"}

SearchKey(p) == IF stage[p] = "key2" THEN op[p].key2 ELSE op[p].key

StartFind(p, k, s) ==
    /\ stage' = [stage EXCEPT ![p] = s]
    /\ pnode' = [pnode EXCEPT ![p] = <<"tab", Hash[k]>>]
    /\ Goto(p, "find")

\* isDeleted() also repairs the size word of a node left by a crash.
Deleted(n)  == node[n].dptr = 0
Repaired(n) == IF Deleted(n) THEN [node EXCEPT ![n]["dsz"] = NOT_FOUND] ELSE node

\* The records logJournal() appends, and the units the operation may need.
NumRecs(p) == IF op[p].kind = "substitute" THEN 2 ELSE 1
Need(p) ==
    IF op[p].kind = "substitute" THEN 4
    ELSE IF op[p].kind \in {"store", "remove"} THEN 2 ELSE 0

\* Mutant: no room is kept for the nodes to come.
WantedNoSlack(p) == (off - 1) + NumRecs(p)

\* The size writev() wants the journal file to have.
Wanted(p) == (off - 1) + NumRecs(p) + 2

\* htInsert() marks the entry deleted.
Deleting(p) == op[p].kind = "remove" \/ stage[p] = "old"

Init ==
    /\ off = 1 /\ sync = 0 /\ nrecord = 0
    /\ link = [l \in Links |-> 0]
    /\ node = [n \in Offsets |-> [w \in Words |-> 0]]
    /\ recs = [n \in Offsets |-> [key |-> NoData, data |-> NoData]]
    /\ fsize = JournalSize
    /\ cdbFile \in InitCdb
    /\ cdb = [p \in Procs |-> cdbFile]
    /\ parentCdb = cdbFile
    /\ sem = 1
    /\ locked = [p \in Procs |-> 0]
    /\ op = [p \in Procs |-> NoOp]
    /\ pc = [p \in Procs |-> "idle"]
    /\ stage = [p \in Procs |-> "key"]
    /\ pnode = [p \in Procs |-> NoLink]
    /\ pnode1 = pnode
    /\ cur = [p \in Procs |-> 0]
    /\ cur1 = cur
    /\ exist = [p \in Procs |-> FALSE]
    /\ jrec = [p \in Procs |-> 0]
    /\ result = [p \in Procs |-> Code(0)]
    /\ ret = [p \in Procs |-> NoResult]
    /\ st = [p \in Procs |-> JournalSize]
    /\ txn = [p \in Procs |-> FALSE]
    /\ faults = 0
    /\ snap = NoEntries

-----------------------------------------------------------------------------
(* A caller requests an operation (the commands of URDBClientImage).  The   *)
(* server dispatches them in any order; callers are assumed to commit or    *)
(* abort only what they have begun, and not to reorganize meanwhile.        *)
Call(p, o) ==
    /\ pc[p] = "idle"
    /\ o.kind \in {"commit", "abort"} => txn[p]
    /\ o.kind \in {"begin", "reorganize"} => ~txn[p]
    /\ op' = [op EXCEPT ![p] = o]
    /\ exist' = [exist EXCEPT ![p] = CdbCount(cdb[p]) + nrecord # 0]
    /\ ret' = [ret EXCEPT ![p] = NoResult]
    /\ Goto(p, "lock")
    /\ UNCHANGED <<journal, files, lockV, stage, find, saved1, jrec, result, st, txn, faults, snap>>

\* Only the first lock() of a process waits for the semaphore.  A wait that
\* fails, after which the caller goes on without it, is left to Lock.
CanLock(p) == locked[p] > 0 \/ sem = 1

(* lock(): the process takes the semaphore unless it has it already.  The   *)
(* operation starts; commit and abort run under the lock of begin.          *)
Lock(p) ==
    /\ pc[p] = "lock"
    /\ CanLock(p)
    /\ off + Need(p) <= MaxOff + 1
    /\ sem' = 0
    /\ locked' = IF op[p].kind \in {"commit", "abort"} THEN locked
                 ELSE [locked EXCEPT ![p] = @ + 1]
    /\ snap' = View(cdbFile)
    /\ IF op[p].kind \in {"store", "remove", "fetch", "substitute"}
         THEN StartFind(p, op[p].key, "key")
         ELSE /\ Goto(p, IF op[p].kind \in {"begin", "reorganize"} THEN "reorg"
                         ELSE IF op[p].kind = "abort" THEN "reset1"
                         ELSE IF op[p].kind = "commit" THEN "sync" ELSE "print")
              /\ UNCHANGED <<stage, pnode>>
    /\ UNCHANGED <<journal, files, op, cur, saved1, exist, jrec, result, ret, st, txn, faults>>

\* Mutants: smaller keys are searched right too; the pointer is not advanced.
NextLinkRight(p, n) == <<"right", n>>
NextLinkStays(p, n) == pnode[p]

\* The pointer that the search follows below a node.
NextLink(p, n) == <<Side(SearchKey(p), n), n>>

(* One turn of the loop of htLookup(): the node is not the one searched.    *)
FindStep(p) ==
    /\ pc[p] = "find"
    /\ LET n == link[pnode[p]] IN
         /\ n # 0
         /\ node[n].ksz # 0
         /\ NodeKey(n) # SearchKey(p)
         /\ cur' = [cur EXCEPT ![p] = n]
         /\ pnode' = [pnode EXCEPT ![p] = NextLink(p, n)]
    /\ UNCHANGED <<journal, files, lockV, call, pc, stage, saved1, exist, jrec, result, st, faults>>

(* The node is the one searched.                                            *)
FindHit(p) ==
    /\ pc[p] = "find"
    /\ LET n == link[pnode[p]] IN
         /\ n # 0
         /\ node[n].ksz # 0
         /\ NodeKey(n) = SearchKey(p)
         /\ cur' = [cur EXCEPT ![p] = n]
    /\ Goto(p, "hit")
    /\ UNCHANGED <<journal, files, lockV, call, stage, pnode, saved1, exist, jrec, result, st, faults>>

(* The end of the path; a node without key, left by a crash, is unlinked.   *)
FindMiss(p) ==
    /\ pc[p] = "find"
    /\ LET n == link[pnode[p]] IN n # 0 => node[n].ksz = 0
    /\ link' = [link EXCEPT ![pnode[p]] = 0]
    /\ cur' = [cur EXCEPT ![p] = 0]
    /\ Goto(p, "miss")
    /\ UNCHANGED <<off, sync, nrecord, node, recs, fsize, files, lockV, call, stage, pnode, saved1,
                   exist, jrec, result, st, faults>>

-----------------------------------------------------------------------------
\* Mutant: a deleted entry is looked for in the constant database.
FetchedAnyway(p) ==
    IF pc[p] = "miss" \/ Deleted(cur[p]) THEN cdb[p][op[p].key] ELSE NodeData(cur[p])

\* What fetch() finds: a deleted entry hides the one of the constant database.
Fetched(p) ==
    IF pc[p] = "miss" THEN cdb[p][op[p].key]
    ELSE IF Deleted(cur[p]) THEN NoData ELSE NodeData(cur[p])

(* fetch() after its lookup.                                                *)
Fetch(p) ==
    /\ pc[p] \in {"hit", "miss"} /\ op[p].kind = "fetch"
    /\ Finish(p, <<"data", Fetched(p)>>)
    /\ node' = IF pc[p] = "hit" THEN Repaired(cur[p]) ELSE node
    /\ UNCHANGED <<off, sync, nrecord, link, recs, fsize, files, lockV, call, stage, find, saved1,
                   exist, jrec, st, faults>>

(* store(), the key is in the journal.                                      *)
StoreHit(p) ==
    /\ pc[p] = "hit" /\ op[p].kind = "store"
    /\ node' = IF op[p].flag = INSERT THEN Repaired(cur[p]) ELSE node
    /\ IF op[p].flag = INSERT /\ ~Deleted(cur[p]) THEN Finish(p, Code(-1))
       ELSE IF /\ op[p].flag = REPLACE
               /\ ~Deleted(cur[p])
               /\ NodeData(cur[p]) = op[p].data
              THEN Finish(p, Code(0))
              ELSE Goto(p, "log") /\ UNCHANGED result
    /\ exist' = [exist EXCEPT ![p] = TRUE]
    /\ UNCHANGED <<off, sync, nrecord, link, recs, fsize, files, lockV, call, stage, find, saved1,
                   jrec, st, faults>>

(* store(), the key is not in the journal: cdbLookup().                     *)
StoreMiss(p) ==
    /\ pc[p] = "miss" /\ op[p].kind = "store"
    /\ LET c == cdb[p][op[p].key] IN
         /\ exist' = [exist EXCEPT ![p] = c # NoData]
         /\ IF c # NoData /\ op[p].flag = INSERT THEN Finish(p, Code(-1))
            ELSE IF c = op[p].data /\ op[p].flag = REPLACE THEN Finish(p, Code(0))
            ELSE Goto(p, "alloc") /\ UNCHANGED result
    /\ UNCHANGED <<journal, files, lockV, call, stage, find, saved1, jrec, st, faults>>

(* remove() after its lookup.                                               *)
RemoveHit(p) ==
    /\ pc[p] = "hit" /\ op[p].kind = "remove"
    /\ node' = Repaired(cur[p])
    /\ IF Deleted(cur[p]) THEN Finish(p, Code(-2)) ELSE Goto(p, "log") /\ UNCHANGED result
    /\ UNCHANGED <<off, sync, nrecord, link, recs, fsize, files, lockV, call, stage, find, saved1,
                   exist, jrec, st, faults>>

RemoveMiss(p) ==
    /\ pc[p] = "miss" /\ op[p].kind = "remove"
    /\ IF cdb[p][op[p].key] = NoData THEN Finish(p, Code(-1))
                                     ELSE Goto(p, "alloc") /\ UNCHANGED result
    /\ UNCHANGED <<journal, files, lockV, call, stage, find, saved1, exist, jrec, st, faults>>

(* substitute(): the search for the old key, then for the new one.          *)
SubstituteOld(p) ==
    /\ pc[p] \in {"hit", "miss"} /\ op[p].kind = "substitute" /\ stage[p] = "key"
    /\ node' = IF pc[p] = "hit" THEN Repaired(cur[p]) ELSE node
    /\ IF pc[p] = "hit" /\ Deleted(cur[p])
         THEN Finish(p, Code(-2)) /\ UNCHANGED <<stage, pnode, pnode1, cur1>>
       ELSE IF pc[p] = "miss" /\ cdb[p][op[p].key] = NoData
         THEN Finish(p, Code(-1)) /\ UNCHANGED <<stage, pnode, pnode1, cur1>>
         ELSE /\ pnode1' = [pnode1 EXCEPT ![p] = pnode[p]]
              /\ cur1' = [cur1 EXCEPT ![p] = cur[p]]
              /\ StartFind(p, op[p].key2, "key2")
              /\ UNCHANGED result
    /\ UNCHANGED <<off, sync, nrecord, link, recs, fsize, files, lockV, call, cur,
                   exist, jrec, st, faults>>

\* Mutant: the constant database is not consulted.
NewKeyLiveInJournal(p) == pc[p] = "hit" /\ ~Deleted(cur[p])

\* The new key of substitute() has an entry.
NewKeyLive(p) == IF pc[p] = "hit" THEN ~Deleted(cur[p]) ELSE cdb[p][op[p].key2] # NoData

SubstituteNew(p) ==
    /\ pc[p] \in {"hit", "miss"} /\ op[p].kind = "substitute" /\ stage[p] = "key2"
    /\ node' = IF pc[p] = "hit" /\ op[p].flag = INSERT THEN Repaired(cur[p]) ELSE node
    /\ IF op[p].flag = INSERT /\ NewKeyLive(p) THEN Finish(p, Code(-4))
       ELSE Goto(p, IF pc[p] = "hit" THEN "log" ELSE "alloc") /\ UNCHANGED result
    /\ UNCHANGED <<off, sync, nrecord, link, recs, fsize, files, lockV, call, stage, find, saved1,
                   exist, jrec, st, faults>>

-----------------------------------------------------------------------------
(* htAlloc(): take a node at off, link it, then clear it.                   *)
Alloc(p) ==
    /\ pc[p] = "alloc"
    /\ cur' = [cur EXCEPT ![p] = off]
    /\ off' = off + 1
    /\ Goto(p, "link")
    /\ UNCHANGED <<sync, nrecord, link, node, recs, fsize, files, lockV, call, stage, pnode, saved1,
                   exist, jrec, result, st, faults>>

LinkNode(p) ==
    /\ pc[p] = "link"
    /\ link' = [link EXCEPT ![pnode[p]] = cur[p]]
    /\ Goto(p, "clear")
    /\ UNCHANGED <<off, sync, nrecord, node, recs, fsize, files, lockV, call, stage, find, saved1,
                   exist, jrec, result, st, faults>>

\* The six words of the node in one step.
ClearNode(p) ==
    /\ pc[p] = "clear"
    /\ node' = [node EXCEPT ![cur[p]] = [w \in Words |-> 0]]
    /\ link' = [link EXCEPT ![<<"left", cur[p]>>] = 0, ![<<"right", cur[p]>>] = 0]
    /\ Goto(p, IF stage[p] = "old" THEN "ins1" ELSE "log")
    /\ UNCHANGED <<off, sync, nrecord, recs, fsize, files, lockV, call, stage, find, saved1,
                   exist, jrec, result, st, faults>>

(* logJournal() and writev(): the records fit in the journal file.  A       *)
(* substitution logs the deletion of the old key before the new entry.      *)
LogJournal(p) ==
    /\ pc[p] = "log"
    /\ Wanted(p) <= st[p]
    /\ LET o == op[p] IN
         recs' = IF o.kind = "store" THEN [recs EXCEPT ![off] = [key |-> o.key, data |-> o.data]]
                 ELSE IF o.kind = "remove" THEN [recs EXCEPT ![off] = [key |-> o.key, data |-> NoData]]
                 ELSE [recs EXCEPT ![off]     = [key |-> o.key, data |-> NoData],
                                   ![off + 1] = [key |-> o.key2, data |-> o.data]]
    /\ jrec' = [jrec EXCEPT ![p] = off]
    /\ off' = off + NumRecs(p)
    /\ stage' = [stage EXCEPT ![p] = "new"]
    /\ Goto(p, "ins1")
    /\ UNCHANGED <<sync, nrecord, link, node, fsize, files, lockV, call, find, saved1,
                   exist, result, st, faults>>

\* Mutants: the space of the node is kept; the failure is not reported.
OffAfterFailureSame == off
DiskFullIgnored == Code(0)

OffAfterFailure == off - 1
DiskFull == Code(-3)

(* htRemoveAlloc(): the node is given back and the operation fails.         *)
RemoveAlloc(p) ==
    /\ off' = OffAfterFailure
    /\ link' = [link EXCEPT ![pnode[p]] = 0]
    /\ Finish(p, DiskFull)
    /\ UNCHANGED <<sync, nrecord, fsize, st, cdbFile, cdb, find>>

(* The file grows by half of its size or by what is needed.                 *)
Ftruncate(p) ==
    /\ LET half == st[p] + st[p] \div 2
           size == IF Wanted(p) > half THEN Wanted(p) ELSE half IN
         st' = [st EXCEPT ![p] = size] /\ fsize' = size
    /\ UNCHANGED <<off, sync, nrecord, link, cdbFile, cdb, find, pc, result>>

(* The journal is merged into the constant database and the lookup repeated. *)
(* That the entry is saved in key1, which a substitution uses for its old    *)
(* key, is left out: no run lets a substitution take this way.               *)
MergeAndLookup(p) ==
    /\ cdbFile' = View(cdb[p])
    /\ cdb' = [cdb EXCEPT ![p] = cdbFile']
    /\ off' = 1 /\ sync' = 0 /\ nrecord' = 0
    /\ link' = [l \in Links |-> IF l[1] = "tab" THEN 0 ELSE link[l]]
    /\ pnode' = [pnode EXCEPT ![p] = <<"tab", Hash[SearchKey(p)]>>]
    /\ cur' = [cur EXCEPT ![p] = 0]
    /\ UNCHANGED <<fsize, st, pc, result>>

(* resizeJournal(), called by writev() when the records do not fit.  It     *)
(* fails when reorganize() cannot create a file; a later failure inside,    *)
(* which leaves the lock held (ReorganizeFails), is not combined with it.   *)
ResizeJournal(p) ==
    /\ pc[p] = "log"
    /\ Wanted(p) > st[p]
    /\ \/ "ftruncate" \in Full /\ Ftruncate(p)
       \/ "reorganize" \in Full /\ MergeAndLookup(p)
       \/ "fail" \in Full /\ RemoveAlloc(p)
    /\ UNCHANGED <<node, recs, parentCdb, lockV, call, stage, saved1, exist, jrec, faults>>

(* htInsert(): the four words of the node, one after the other.  With       *)
(* node = 0 the words are those of the header (off, sync, nrecord, ...).    *)
NewWord(p) ==
    LET r == IF op[p].kind = "substitute" /\ stage[p] = "new" THEN jrec[p] + 1 ELSE jrec[p] IN
    [kptr |-> r,
     ksz  |-> 1,
     dptr |-> IF Deleting(p) THEN 0 ELSE r,
     dsz  |-> IF Deleting(p) THEN NOT_FOUND ELSE Size[op[p].data]]

\* Mutant: the size of the data is written before the pointer.
WordNameSizeFirst == [ins1 |-> "kptr", ins2 |-> "ksz", ins3 |-> "dsz", ins4 |-> "dptr"]

\* The order of the words.
WordName == [ins1 |-> "kptr", ins2 |-> "ksz", ins3 |-> "dptr", ins4 |-> "dsz"]

AfterInsert(p) ==
    [ins1 |-> "ins2", ins2 |-> "ins3", ins3 |-> "ins4",
     ins4 |-> IF op[p].kind # "substitute" THEN "count"
              ELSE IF stage[p] = "new" THEN "swap" ELSE "unlock"]

HtInsert(p) ==
    /\ pc[p] \in DOMAIN WordName
    /\ LET v == NewWord(p)[WordName[pc[p]]] IN
         IF cur[p] # 0
           THEN /\ node' = [node EXCEPT ![cur[p]][WordName[pc[p]]] = v]
                /\ UNCHANGED <<off, sync, nrecord>>
           ELSE /\ off'     = IF pc[p] = "ins1" THEN v ELSE off
                /\ sync'    = IF pc[p] = "ins2" THEN v ELSE sync
                /\ nrecord' = IF pc[p] = "ins3" THEN v ELSE nrecord
                /\ UNCHANGED node
    /\ Goto(p, AfterInsert(p)[pc[p]])
    /\ UNCHANGED <<link, recs, fsize, files, lockV, call, stage, find, saved1, exist, jrec, result,
                   st, faults>>

\* Mutant: the node of the old key is not restored.
NodeOfOldKeySame(p) == cur[p]

NodeOfOldKey(p) == cur1[p]

(* substitute() goes on to mark the old entry deleted.                      *)
Swap(p) ==
    /\ pc[p] = "swap"
    /\ stage' = [stage EXCEPT ![p] = "old"]
    /\ pnode' = [pnode EXCEPT ![p] = pnode1[p]]
    /\ IF cur1[p] # 0
         THEN cur' = [cur EXCEPT ![p] = NodeOfOldKey(p)] /\ Goto(p, "ins1")
         ELSE UNCHANGED cur /\ Goto(p, "alloc")
    /\ UNCHANGED <<journal, files, lockV, call, saved1, exist, jrec, result, st, faults>>

(* The end of store() and remove(): RDB_nrecord.                            *)
CountRecord(p) ==
    /\ pc[p] = "count"
    /\ nrecord' = IF op[p].kind = "remove" THEN nrecord - 1
                  ELSE IF exist[p] THEN nrecord ELSE nrecord + 1
    /\ Finish(p, Code(0))
    /\ UNCHANGED <<off, sync, link, node, recs, fsize, files, lockV, call, stage, find, saved1,
                   exist, jrec, st, faults>>

-----------------------------------------------------------------------------
\* Mutant: the entries of the journal are not written.
MergedCdbOnly(p) == cdb[p]

\* The entries that makeAdd() writes: those of the trees that are not deleted
\* and those of the mapped constant database that are not in the trees.
Merged(p) == View(cdb[p])

(* reorganize(): the entries of the journal and those of the process's own  *)
(* mapping of the constant database become the new file.                    *)
Reorganize(p) ==
    /\ pc[p] = "reorg"
    /\ IF off > 1
         THEN cdbFile' = Merged(p) /\ Goto(p, "reset1") /\ UNCHANGED result
         ELSE Finish(p, Code(0)) /\ UNCHANGED cdbFile
    /\ UNCHANGED <<journal, cdb, parentCdb, lockV, call, stage, find, saved1, exist, jrec, st, faults>>

(* reorganize() cannot make the new file.  When it cannot be created the    *)
(* lock is given back; when it cannot be mapped, cut or renamed it is not.  *)
ReorganizeFails(p) ==
    /\ pc[p] = "reorg" /\ off > 1
    /\ faults < MaxFault
    /\ faults' = faults + 1
    /\ \E f \in ReorgFaults : Goto(p, IF f = "creat" THEN "unlock" ELSE "leave")
    /\ result' = [result EXCEPT ![p] = Code(1)]
    /\ UNCHANGED <<journal, files, lockV, call, stage, find, saved1, exist, jrec, st>>

(* reset(), one word after the other, for reorganize() and abort.           *)
ResetOff(p) ==
    /\ pc[p] = "reset1"
    /\ off' = 1
    /\ Goto(p, "reset2")
    /\ UNCHANGED <<sync, nrecord, link, node, recs, fsize, files, lockV, call, stage, find, saved1,
                   exist, jrec, result, st, faults>>

\* Mutant: sync is not reset.
SyncAfterResetSame == sync

SyncAfterReset == 0

ResetCounters(p) ==
    /\ pc[p] = "reset2"
    /\ sync' = SyncAfterReset /\ nrecord' = 0
    /\ Goto(p, "reset3")
    /\ UNCHANGED <<off, link, node, recs, fsize, files, lockV, call, stage, find, saved1,
                   exist, jrec, result, st, faults>>

TableAfterReset == [l \in Links |-> IF l[1] = "tab" THEN 0 ELSE link[l]]
MappedAfterReset(p) == IF op[p].kind = "abort" THEN cdb[p] ELSE cdbFile

(* The table is cleared, then reorganize() maps the new file.               *)
ResetTable(p) ==
    /\ pc[p] = "reset3"
    /\ link' = TableAfterReset
    /\ cdb' = [cdb EXCEPT ![p] = MappedAfterReset(p)]
    /\ Finish(p, Code(0))
    /\ UNCHANGED <<off, sync, nrecord, node, recs, fsize, cdbFile, parentCdb, lockV, call, stage, find, saved1,
                   exist, jrec, st, faults>>

(* commitTransaction(): msync().                                            *)
Msync(p) ==
    /\ pc[p] = "sync"
    /\ sync' = off
    /\ Finish(p, Code(0))
    /\ UNCHANGED <<off, nrecord, link, node, recs, fsize, files, lockV, call, stage, find, saved1,
                   exist, jrec, st, faults>>

(* callForAllEntry() and getKeys(): the nodes of the trees, then the        *)
(* entries of the constant database that are not in the trees.  The sorted  *)
(* form does nothing when the count it read before the lock was 0.          *)
Visited(p) ==
    {NodeKey(n) : n \in {m \in Nodes : ~Deleted(m)}}
    \cup {k \in Keys : cdb[p][k] # NoData /\ Walk(k) = 0}

CallForAllEntry(p) ==
    /\ pc[p] = "print"
    /\ IF op[p].kind = "sorted" /\ ~exist[p]
         THEN Finish(p, <<"keys", {}>>) /\ UNCHANGED node
         ELSE /\ Finish(p, <<"keys", Visited(p)>>)
              /\ node' = [n \in Offsets |-> IF n \in Nodes THEN Repaired(n)[n] ELSE node[n]]
    /\ UNCHANGED <<off, sync, nrecord, link, recs, fsize, files, lockV, call, stage, find, saved1,
                   exist, jrec, st, faults>>

-----------------------------------------------------------------------------
(* What an operation leaves in pnode, node and its locals is never read: the *)
(* next operation assigns them first.                                       *)
Forget(p) ==
    /\ stage'  = [stage EXCEPT ![p] = "key"]
    /\ pnode'  = [pnode EXCEPT ![p] = NoLink]
    /\ pnode1' = [pnode1 EXCEPT ![p] = NoLink]
    /\ cur'    = [cur EXCEPT ![p] = 0]
    /\ cur1'   = [cur1 EXCEPT ![p] = 0]
    /\ exist'  = [exist EXCEPT ![p] = FALSE]
    /\ jrec'   = [jrec EXCEPT ![p] = 0]
    /\ result' = [result EXCEPT ![p] = Code(0)]
    /\ op'     = [op EXCEPT ![p] = NoOp]
    /\ Goto(p, "idle")

\* Mutant: beginTransaction() returns without the lock.
LockedAfterBegin(p) == locked[p] - 1

\* The lock() calls left: beginTransaction() has one of its own besides the
\* one of reorganize(), and "leave" is a return without unlock().
LockedAfter(p) ==
    locked[p] + (IF op[p].kind = "begin" THEN 1 ELSE 0) - (IF pc[p] = "unlock" THEN 1 ELSE 0)

(* unlock() and return.                                                     *)
Unlock(p) ==
    /\ pc[p] \in {"unlock", "leave"}
    /\ locked' = [locked EXCEPT ![p] = LockedAfter(p)]
    /\ sem' = IF LockedAfter(p) = 0 THEN 1 ELSE sem
    /\ txn' = [txn EXCEPT ![p] = IF op[p].kind = "begin" THEN result[p] = Code(0)
                                ELSE IF op[p].kind \in {"commit", "abort"} THEN FALSE ELSE @]
    /\ ret' = [ret EXCEPT ![p] = result[p]]
    /\ snap' = NoEntries
    /\ Forget(p)
    /\ UNCHANGED <<journal, files, st, faults>>

(* The process dies.  Its successor is forked by the parent with the        *)
(* mappings and sizes of the files the parent opened, and the semaphore it  *)
(* held is posted by checkForDeadLock (see Lock).                           *)
Crash(p) ==
    /\ pc[p] # "idle" /\ op[p].kind \in CrashOps
    /\ faults < MaxFault
    /\ faults' = faults + 1
    /\ sem' = IF locked[p] > 0 THEN 1 ELSE sem
    /\ locked' = [locked EXCEPT ![p] = 0]
    /\ cdb' = [cdb EXCEPT ![p] = parentCdb]
    /\ snap' = IF Active(p) THEN NoEntries ELSE snap
    /\ st' = [st EXCEPT ![p] = JournalSize]
    /\ txn' = [txn EXCEPT ![p] = FALSE]
    /\ Forget(p)
    /\ UNCHANGED <<journal, cdbFile, parentCdb, ret>>

\* A step of an operation that holds the lock.
Inside(p) ==
    \/ FindStep(p) \/ FindHit(p) \/ FindMiss(p)
    \/ Fetch(p) \/ StoreHit(p) \/ StoreMiss(p) \/ RemoveHit(p) \/ RemoveMiss(p)
    \/ SubstituteOld(p) \/ SubstituteNew(p) \/ Swap(p)
    \/ Alloc(p) \/ LinkNode(p) \/ ClearNode(p) \/ LogJournal(p) \/ ResizeJournal(p)
    \/ HtInsert(p) \/ CountRecord(p)
    \/ Reorganize(p) \/ ReorganizeFails(p) \/ ResetOff(p) \/ ResetCounters(p) \/ ResetTable(p)
    \/ Msync(p) \/ CallForAllEntry(p)

Step(p) == (\E o \in Requests : Call(p, o)) \/ Lock(p) \/ Inside(p) \/ Unlock(p) \/ Crash(p)

Next == \E p \in Procs : Step(p)

Spec == Init /\ [][Next]_vars

\* A process that runs goes on to execute its instructions: it waits for
\* nobody once it has the lock.
FairSpec == Spec /\ \A p \in Procs : WF_vars(Inside(p) \/ Unlock(p))

-----------------------------------------------------------------------------
(* Properties.                                                              *)

PcLabels ==
    {"idle", "lock", "find", "hit", "miss", "alloc", "link", "clear", "log", "ins1", "ins2",
     "ins3", "ins4", "swap", "count", "reorg", "reset1", "reset2", "reset3", "sync", "print",
     "unlock", "leave"}

TypeOK ==
    /\ off \in 1 .. MaxOff + 1 /\ sync \in 0 .. MaxOff + 1 /\ nrecord \in Int
    /\ link \in [Links -> 0 .. MaxOff]
    /\ node \in [Offsets -> [Words -> Int]]
    /\ recs \in [Offsets -> [key : Keys \cup {NoData}, data : Data \cup {NoData}]]
    /\ sem \in {0, 1} /\ locked \in [Procs -> Nat]
    /\ op \in [Procs -> Requests \cup {NoOp}] /\ pc \in [Procs -> PcLabels]
    /\ stage \in [Procs -> {"key", "key2", "new", "old"}]
    /\ pnode \in [Procs -> Links \cup {NoLink}] /\ pnode1 \in [Procs -> Links \cup {NoLink}]
    /\ cur \in [Procs -> 0 .. MaxOff] /\ cur1 \in [Procs -> 0 .. MaxOff]
    /\ jrec \in [Procs -> 0 .. MaxOff] /\ txn \in [Procs -> BOOLEAN]

Busy == \E p \in Procs : Active(p)

(* The operations of the processes do not overlap.                          *)
OneActive == \A p, q \in Procs : Active(p) /\ Active(q) => p = q

(* When no operation and no transaction is in progress the lock is free.    *)
LockGivenBack == (\A p \in Procs : ~Active(p) /\ ~txn[p]) => sem = 1

(* Between operations every node of the journal lies below off, has a key,  *)
(* and is the node that a lookup of its key finds.                          *)
Searchable ==
    Busy \/ \A n \in Nodes : n < off /\ node[n].ksz # 0 /\ Walk(NodeKey(n)) = n

(* The part of the journal that msync() writes, from sync to off, is never  *)
(* negative.                                                                *)
SyncRange == Busy \/ sync <= off

(* What is written lies inside the journal file.                            *)
WritesInFile ==
    \A p \in Procs :
       /\ pc[p] \in {"clear", "ins1", "ins2", "ins3", "ins4"} => cur[p] <= fsize
       /\ pc[p] = "log" /\ Wanted(p) <= st[p] => off - 1 + NumRecs(p) <= fsize

(* The database does what KVStore promises.  The entries change, as seen    *)
(* from outside, when the operation gives the lock back.                    *)
AbsDb    == IF Busy THEN snap ELSE View(cdbFile)
AbsTxn   == IF \E p \in Procs : txn[p] THEN CHOOSE p \in Procs : txn[p] ELSE NoProc
AbsSaved == IF \E p \in Procs : txn[p] THEN cdbFile ELSE NoEntries

KV == INSTANCE KVStore WITH db <- AbsDb, txn <- AbsTxn, saved <- AbsSaved

ImplementsKVStore == KV!Spec

(* An operation that has the lock returns: the search of htLookup() comes   *)
(* to an end in every tree that stores, removals and crashes leave.         *)
Returns == \A p \in Procs : Active(p) ~> ~Active(p)

(* After a substitution that returns 0 the new key has the new data.        *)
SubstituteStores ==
    \A p \in Procs :
       pc[p] = "unlock" /\ op[p].kind = "substitute" /\ result[p] = Code(0)
         => View(cdb[p])[op[p].key2] = op[p].data

(* htRemoveAlloc() asserts that the node it gives back is the last one.     *)
RemoveAllocAssertion ==
    [][\A p \in Procs : pc[p] = "log" /\ pc'[p] = "unlock"
         => off' = link[pnode[p]]]_vars
=============================================================================
