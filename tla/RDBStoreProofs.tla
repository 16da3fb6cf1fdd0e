--------------------------- MODULE RDBStoreProofs ---------------------------
(***************************************************************************)
(* Proofs about what the database holds: RDB implements KVStore.           *)
(*                                                                         *)
(* While an operation writes its words one by one, Expected gives the      *)
(* entries that the nodes of the trees, over the constant database, have   *)
(* to show, and Exempt the one key whose node is being written.  A search  *)
(* finds the entry of the lock, since a key has one node or none; the last *)
(* word that htInsert() writes turns the old entry into the new one.       *)
(***************************************************************************)
EXTENDS RDBTreeProofs

-----------------------------------------------------------------------------
(* What the trees and the constant database hold.                           *)

\* The entry that a node stands for.
Value(n) == IF node[n].dptr = 0 THEN NoData ELSE NodeData(n)

\* The nodes N over the constant database show the entries e, but for X.
Holds(N, e, X) ==
    \A k \in Keys \ X :
       /\ \A n \in N : NodeKey(n) = k => Value(n) = e[k]
       /\ (\A n \in N : NodeKey(n) # k) => cdbFile[k] = e[k]

\* The entries after the operation, if it succeeds.
Updated(p) ==
    LET o == op[p] IN
    IF o.kind = "store" THEN [snap EXCEPT ![o.key] = o.data]
    ELSE IF o.kind = "remove" THEN [snap EXCEPT ![o.key] = NoData]
    ELSE IF o.kind = "substitute" THEN [snap EXCEPT ![o.key] = NoData, ![o.key2] = o.data]
    ELSE IF o.kind = "abort" THEN cdbFile
    ELSE snap

\* The entries that the journal shows while the process works: those it found,
\* those it leaves, and for a substitution those between its two insertions.
Expected(p) ==
    IF pc[p] \in {"unlock", "leave"} THEN IF result[p] = Code(0) THEN Updated(p) ELSE snap
    ELSE IF pc[p] = "count" THEN Updated(p)
    ELSE IF pc[p] = "swap" \/ (pc[p] \in Placing \cup Inserting /\ stage[p] = "old")
      THEN [snap EXCEPT ![op[p].key2] = op[p].data]
    ELSE snap

\* The key whose node is being written.
Exempt(p) == IF pc[p] \in Inserting THEN {EntryKey(p)} ELSE {}

\* The data of the nodes lie below off, and a new node has none.
DataOK(N) == \A n \in N : node[n].dptr \in 0 .. off - 1
Blank(p) == (Fresh(p) /\ pc[p] # "clear") => node[cur[p]].dptr = 0

\* The data of the records that the process has written, and the first of the
\* two words that stand for them in the node.
Recorded(p) ==
    /\ (pc[p] \in Inserting \cup {"swap"} \/ (pc[p] \in Placing /\ stage[p] = "old")) =>
         /\ op[p].kind = "store" => recs[jrec[p]].data = op[p].data
         /\ op[p].kind = "substitute" => recs[jrec[p] + 1].data = op[p].data
    /\ pc[p] = "ins4" => node[cur[p]].dptr = NewWord(p).dptr

StoreFor(p, N) ==
    /\ DataOK(N) /\ Blank(p) /\ Recorded(p)
    /\ Active(p) => Holds(N, Expected(p), Exempt(p))

\* The conditions under which an operation writes.
Writes(p) == pc[p] \in Placing \cup Inserting \cup {"swap", "count"}
Refused(p, k) == op[p].flag = INSERT /\ snap[k] # NoData
Decided(p) ==
    /\ Writes(p) =>
         /\ op[p].kind \in {"store", "remove", "substitute"}
         /\ op[p].kind = "store" => ~Refused(p, op[p].key)
         /\ op[p].kind = "substitute" => ~Refused(p, op[p].key2)
         /\ op[p].kind = "remove" => snap[op[p].key] # NoData
    /\ (Active(p) /\ op[p].kind = "substitute" /\ stage[p] # "key") => snap[op[p].key] # NoData
    /\ pc[p] = "count" => op[p].kind \in {"store", "remove"}
    /\ pc[p] = "reorg" => op[p].kind \in {"begin", "reorganize"}
    /\ pc[p] = "sync" => op[p].kind = "commit"
    /\ pc[p] = "print" => op[p].kind \in {"print", "sorted"}
    /\ pc[p] \notin {"unlock", "leave"} => result[p] = Code(0)

\* The result that an operation returns.
Answered(p) ==
    LET o == op[p] IN
    pc[p] \in {"unlock", "leave"} =>
       /\ o.kind = "store" =>
            IF Refused(p, o.key) THEN result[p] = Code(-1) ELSE result[p] = Code(0)
       /\ o.kind = "remove" =>
            IF snap[o.key] # NoData THEN result[p] = Code(0) ELSE result[p] \in {Code(-1), Code(-2)}
       /\ o.kind = "fetch" => result[p] = <<"data", snap[o.key]>>
       /\ o.kind = "substitute" =>
            IF snap[o.key] = NoData THEN result[p] \in {Code(-1), Code(-2)}
            ELSE IF Refused(p, o.key2) THEN result[p] = Code(-4) ELSE result[p] = Code(0)
       /\ o.kind = "print" => result[p] = <<"keys", {k \in Keys : snap[k] # NoData}>>
       /\ o.kind = "commit" \/ o.kind = "abort" => result[p] = Code(0)
       /\ o.kind = "begin" \/ o.kind = "reorganize" => result[p] \in {Code(0), Code(1)}
       /\ (o.kind = "begin" /\ result[p] = Code(0)) => cdbFile = snap

\* The file of the constant database and the mappings of it.
Mapped(p) ==
    /\ pc[p] \in {"reset1", "reset2", "reset3"} =>
         \/ op[p].kind = "abort"
         \/ (op[p].kind \in {"begin", "reorganize"} /\ cdbFile = snap)
    /\ cdb[p] = cdbFile \/ (pc[p] \in {"reset1", "reset2", "reset3"} /\ op[p].kind # "abort")

\* Transactions and reorganizations are for a process that is alone.
Exclusive(p) ==
    /\ txn[p] => \A q \in Procs : q = p
    /\ (pc[p] # "idle" /\ op[p].kind \in {"begin", "reorganize"}) => ~txn[p]
    /\ pc[p] = "idle" => op[p] = NoOp
    /\ ~Active(p) => result[p] = Code(0)

FilesOK ==
    /\ cdbFile = [k \in Keys |-> cdbFile[k]] /\ snap = [k \in Keys |-> snap[k]]
    /\ DOMAIN cdb = Procs /\ DOMAIN ret = Procs
    /\ \A p \in Procs : Mapped(p) /\ Exclusive(p)

StoreInd ==
    /\ JournalInd /\ Ascending /\ FilesOK
    /\ \A p \in Procs : Active(p) => Decided(p) /\ Answered(p)
    /\ \A p \in Procs : Alone(p) /\ pc[p] \notin {"reset2", "reset3"}
                          => \E N, D : TreeFor(p, N, D) /\ StoreFor(p, N)

-----------------------------------------------------------------------------
(* A step that changes no entry of the nodes, and of the file.              *)
LEMMA SameStore ==
    ASSUME NEW p \in Procs, NEW N, StoreFor(p, N), Active(p),
           UNCHANGED cdbFile, off \in Int, off' \in Int, off <= off',
           \A n \in N : /\ NodeKey(n)' = NodeKey(n) /\ Value(n)' = Value(n)
                        /\ node'[n].dptr = node[n].dptr,
           Blank(p)', Recorded(p)',
           \A k \in Keys : k \notin Exempt(p)' =>
              k \notin Exempt(p) /\ Expected(p)'[k] = Expected(p)[k]
    PROVE  StoreFor(p, N)'
<1>1. DataOK(N)'
  BY DEF DataOK, StoreFor
<1>2. Holds(N, Expected(p), Exempt(p))'
  BY DEF Holds, StoreFor
<1>. QED BY <1>1, <1>2 DEF StoreFor

(* isDeleted() and the visit change no entry.                               *)
LEMMA RepairValue ==
    ASSUME WordsType, UNCHANGED recs, NEW n \in Offsets,
           node'[n] \in {node[n], Repaired(n)[n]}
    PROVE  NodeKey(n)' = NodeKey(n) /\ Value(n)' = Value(n) /\ node'[n].dptr = node[n].dptr
<1>1. CASE node'[n] = node[n]
  BY <1>1 DEF NodeKey, Value, NodeData
<1>2. CASE node'[n] # node[n]
  <2>1. Deleted(n) /\ node'[n] = [node[n] EXCEPT !["dsz"] = NOT_FOUND]
    BY <1>2 DEF Repaired, WordsType
  <2>2. node'[n].dptr = node[n].dptr /\ node'[n].kptr = node[n].kptr /\ node[n].dptr = 0
    BY <2>1 DEF WordsType, Words, Deleted
  <2>. QED BY <2>2 DEF NodeKey, Value
<1>. QED BY <1>1, <1>2

LEMMA RepairedNode ==
    ASSUME WordsType, NEW m \in Offsets, node' \in {node, Repaired(m)}, NEW n \in Offsets
    PROVE  node'[n] \in {node[n], Repaired(n)[n]}
<1>1. n # m => Repaired(m)[n] = node[n]
  BY DEF Repaired, WordsType
<1>. QED BY <1>1

-----------------------------------------------------------------------------
\* What is known before a step of an operation, and what is to be shown of
\* the state after it.
AtWork(p, N, D) ==
    /\ JournalInd /\ Ascending /\ FilesOK /\ Active(p) /\ Decided(p) /\ Answered(p)
    /\ TreeFor(p, N, D) /\ StoreFor(p, N)

InOrder(p, N) == StoreFor(p, N) /\ Decided(p) /\ Answered(p)

LEMMA NodesAreOffsets ==
    ASSUME NEW p \in Procs, NEW N, NEW D, TreeFor(p, N, D)
    PROVE  N \subseteq Offsets
BY DEF TreeFor, Forest, IsTree

(* The search changes no entry.                                             *)
LEMMA SearchStore ==
    ASSUME NEW p \in Procs, NEW N, NEW D, AtWork(p, N, D), JournalInd',
           FindStep(p) \/ FindHit(p) \/ FindMiss(p)
    PROVE  InOrder(p, N)'
<1>1. /\ UNCHANGED <<off, node, recs, op, jrec, stage, snap, result, cdbFile>>
      /\ pc[p] = "find" /\ pc'[p] \in {"find", "hit", "miss"}
  BY DEF FindStep, FindHit, FindMiss, Goto, journal, call, files, AtWork, JournalInd, LockInd, LockType
<1>2. stage[p] # "old"
  BY <1>1 DEF AtWork, JournalInd, Stands, Shape, Searching
<1>3. Exempt(p) = {} /\ Exempt(p)' = {} /\ Expected(p) = snap /\ Expected(p)' = snap
  BY <1>1, <1>2 DEF Exempt, Expected, Placing, Inserting
<1>4. Blank(p)' /\ Recorded(p)'
  BY <1>1 DEF Blank, Recorded, Fresh, Inserting, Placing
<1>5. \A n \in N : NodeKey(n)' = NodeKey(n) /\ Value(n)' = Value(n) /\ node'[n].dptr = node[n].dptr
  BY <1>1 DEF NodeKey, Value, NodeData
<1>6. StoreFor(p, N)'
  BY <1>1, <1>3, <1>4, <1>5, SameStore DEF AtWork, JournalInd, WordsType
<1>7. Decided(p)' /\ Answered(p)'
  BY <1>1 DEF AtWork, Decided, Answered, Writes, Active, Placing, Inserting
<1>. QED BY <1>6, <1>7 DEF InOrder

(* Neither do the allocation of a node and the growth of the file.          *)
LEMMA PlaceStore ==
    ASSUME NEW p \in Procs, NEW N, NEW D, AtWork(p, N, D), JournalInd', Full \subseteq {"ftruncate"},
           Alloc(p) \/ LinkNode(p) \/ ResizeJournal(p)
    PROVE  InOrder(p, N)'
<1>1. /\ UNCHANGED <<node, recs, op, jrec, stage, snap, result, cdbFile>>
      /\ pc[p] \in {"alloc", "link", "log"} /\ pc'[p] \in {"link", "clear", "log"}
      /\ pc'[p] = "log" => UNCHANGED <<cur, pc>>
      /\ off' = off \/ off' = off + 1
  <2>1. CASE Alloc(p) \/ LinkNode(p)
    BY <2>1 DEF Alloc, LinkNode, Goto, journal, call, files, AtWork, JournalInd, LockInd, LockType
  <2>2. CASE ResizeJournal(p)
    BY <2>2 DEF ResizeJournal, Ftruncate, call, find, AtWork, JournalInd, LockInd, LockType
  <2>. QED BY <2>1, <2>2
<1>2. Exempt(p) = {} /\ Exempt(p)' = {} /\ Expected(p)' = Expected(p)
  BY <1>1 DEF Exempt, Expected, Placing, Inserting
<1>3. Blank(p)' /\ Recorded(p)'
  BY <1>1 DEF Blank, Recorded, Fresh, Inserting, Placing, AtWork, StoreFor
<1>4. \A n \in N : NodeKey(n)' = NodeKey(n) /\ Value(n)' = Value(n) /\ node'[n].dptr = node[n].dptr
  BY <1>1 DEF NodeKey, Value, NodeData
<1>5. StoreFor(p, N)'
  <2>1. off \in Int /\ off' \in Int /\ off <= off'
    BY <1>1 DEF AtWork, JournalInd, WordsType
  <2>. QED BY <1>1, <1>2, <1>3, <1>4, <2>1, SameStore DEF AtWork
<1>6. Decided(p)' /\ Answered(p)'
  BY <1>1 DEF AtWork, Decided, Answered, Writes, Refused, Active, Placing, Inserting
<1>. QED BY <1>5, <1>6 DEF InOrder

LEMMA ClearStore ==
    ASSUME NEW p \in Procs, NEW N, NEW D, AtWork(p, N, D), JournalInd', ClearNode(p)
    PROVE  InOrder(p, N)'
<1>1. /\ UNCHANGED <<off, recs, op, jrec, stage, snap, result, cdbFile, cur>>
      /\ node' = [node EXCEPT ![cur[p]] = [w \in Words |-> 0]]
      /\ pc[p] = "clear" /\ pc'[p] = (IF stage[p] = "old" THEN "ins1" ELSE "log")
  BY DEF ClearNode, Goto, journal, call, find, files, AtWork, JournalInd, LockInd, LockType
<1>2. /\ N \subseteq Offsets /\ cur[p] \in Offsets /\ \A n \in N : n < cur[p]
  BY <1>1, NodesAreOffsets DEF AtWork, TreeFor, Where, HasNew, Fresh
<1>3. \A n \in N : node'[n] = node[n]
  <2>1. \A n \in N : n # cur[p]
    BY <1>2 DEF Offsets
  <2>. QED BY <1>1, <1>2, <2>1 DEF AtWork, JournalInd, WordsType
<1>4. node'[cur[p]].dptr = 0
  BY <1>1, <1>2 DEF AtWork, JournalInd, WordsType, Words
<1>5. Exempt(p) = {} /\ Expected(p)' = Expected(p)
  BY <1>1 DEF Exempt, Expected, Placing, Inserting
<1>6. Blank(p)' /\ Recorded(p)'
  BY <1>1, <1>4 DEF Blank, Recorded, Inserting, Placing, AtWork, StoreFor
<1>7. \A n \in N : NodeKey(n)' = NodeKey(n) /\ Value(n)' = Value(n) /\ node'[n].dptr = node[n].dptr
  BY <1>1, <1>3 DEF NodeKey, Value, NodeData
<1>8. StoreFor(p, N)'
  BY <1>1, <1>5, <1>6, <1>7, SameStore DEF AtWork, JournalInd, WordsType
<1>9. Decided(p)' /\ Answered(p)'
  BY <1>1 DEF AtWork, Decided, Answered, Writes, Refused, Active, Placing, Inserting
<1>. QED BY <1>8, <1>9 DEF InOrder

(* The records are written above the nodes and their records.               *)
LEMMA LogStore ==
    ASSUME NEW p \in Procs, NEW N, NEW D, AtWork(p, N, D), JournalInd', LogJournal(p)
    PROVE  InOrder(p, N)'
<1>1. /\ UNCHANGED <<node, op, snap, result, cdbFile, cur>>
      /\ pc[p] = "log" /\ pc'[p] = "ins1" /\ stage'[p] = "new" /\ jrec'[p] = off
      /\ off' = off + NumRecs(p)
  BY DEF LogJournal, Goto, call, find, files, AtWork, JournalInd, LockInd, LockType, PointersType
<1>2. op[p].kind \in {"store", "remove", "substitute"} /\ stage[p] # "old"
  BY <1>1 DEF AtWork, JournalInd, Stands, Shape, Placing
<1>3. /\ off \in Nat \ {0} /\ off' \in Nat /\ off < off' /\ off' <= MaxOff + 1 /\ MaxOff \in Nat
      /\ off' = off + (IF op[p].kind = "substitute" THEN 2 ELSE 1)
  BY <1>1, <1>2, RDBAssumption DEF AtWork, JournalInd, WordsType, NumRecs
<1>4. /\ \A n \in Offsets : n < off => recs'[n] = recs[n]
      /\ op[p].kind = "store" => recs'[off].data = op[p].data
      /\ op[p].kind = "substitute" => recs'[off + 1].data = op[p].data
  <2>1. off \in Offsets /\ (op[p].kind = "substitute" => off + 1 \in Offsets /\ off + 1 # off)
    BY <1>2, <1>3 DEF Offsets
  <2>2. recs \in [Offsets -> [key : Keys \cup {NoData}, data : Data \cup {NoData}]]
    BY DEF AtWork, JournalInd, WordsType
  <2>3. CASE op[p].kind = "store"
    <3>1. recs' = [recs EXCEPT ![off] = [key |-> op[p].key, data |-> op[p].data]]
      BY <2>3 DEF LogJournal
    <3>. QED BY <1>3, <2>1, <2>2, <2>3, <3>1
  <2>4. CASE op[p].kind = "remove"
    <3>1. recs' = [recs EXCEPT ![off] = [key |-> op[p].key, data |-> NoData]]
      BY <2>4 DEF LogJournal
    <3>. QED BY <1>3, <2>1, <2>2, <2>4, <3>1
  <2>5. CASE op[p].kind = "substitute"
    <3>1. recs' = [recs EXCEPT ![off]     = [key |-> op[p].key, data |-> NoData],
                               ![off + 1] = [key |-> op[p].key2, data |-> op[p].data]]
      BY <2>5 DEF LogJournal
    <3>. QED BY <1>3, <2>1, <2>2, <2>5, <3>1 DEF Offsets
  <2>. QED BY <1>2, <2>3, <2>4, <2>5
<1>5. N \subseteq Offsets
  BY NodesAreOffsets DEF AtWork
<1>6. \A n \in N : node[n].kptr \in 1 .. off - 1 /\ node[n].dptr \in 0 .. off - 1
  BY DEF AtWork, TreeFor, Forest, NodesOK, StoreFor, DataOK
<1>7. \A n \in N : /\ recs'[node[n].kptr] = recs[node[n].kptr]
                   /\ node[n].dptr # 0 => recs'[node[n].dptr] = recs[node[n].dptr]
  <2>1. \A i \in 1 .. off - 1 : recs'[i] = recs[i]
    BY <1>3, <1>4 DEF Offsets
  <2>2. \A i \in 0 .. off - 1 : i # 0 => i \in 1 .. off - 1
    BY <1>3
  <2>. QED BY <1>6, <2>1, <2>2
<1>8. \A n \in N : NodeKey(n)' = NodeKey(n) /\ Value(n)' = Value(n) /\ node'[n].dptr = node[n].dptr
  BY <1>1, <1>7 DEF NodeKey, Value, NodeData
<1>9. Exempt(p) = {} /\ Expected(p) = snap /\ Expected(p)' = snap
  BY <1>1, <1>2 DEF Exempt, Expected, Placing, Inserting
<1>10. Blank(p)' /\ Recorded(p)'
  BY <1>1, <1>4 DEF Blank, Recorded, Fresh, Inserting, Placing, AtWork, StoreFor
<1>11. StoreFor(p, N)'
  BY <1>1, <1>3, <1>8, <1>9, <1>10, SameStore DEF AtWork
<1>12. Decided(p)' /\ Answered(p)'
  BY <1>1, <1>2 DEF AtWork, Decided, Answered, Writes, Refused, Active, Placing, Inserting, JournalInd, Stands, Shape
<1>. QED BY <1>11, <1>12 DEF InOrder

(* substitute() turns to the node or the place of the old key.              *)
LEMMA SwapStore ==
    ASSUME NEW p \in Procs, NEW N, NEW D, AtWork(p, N, D), JournalInd', Swap(p)
    PROVE  InOrder(p, N)'
<1>1. /\ UNCHANGED <<off, node, recs, op, jrec, snap, result, cdbFile>>
      /\ pc[p] = "swap" /\ stage'[p] = "old"
      /\ \/ cur1[p] # 0 /\ cur'[p] = cur1[p] /\ pc'[p] = "ins1"
         \/ cur1[p] = 0 /\ pc'[p] = "alloc"
  BY DEF Swap, Goto, NodeOfOldKey, journal, call, files, AtWork, JournalInd, PointersType, LockInd, LockType
<1>2. op[p].kind = "substitute" /\ stage[p] = "new"
  BY <1>1 DEF AtWork, JournalInd, Stands, Shape
<1>3. cur1[p] # 0 => cur1[p] \in N
  BY <1>1, <1>2 DEF AtWork, TreeFor, Where, Pending, Works
<1>4. Blank(p)'
  BY <1>1, <1>3 DEF Blank, Fresh, AtWork, TreeFor, Forest, NodesOK
<1>5. Recorded(p)'
  BY <1>1 DEF Recorded, AtWork, StoreFor
<1>6. Exempt(p) = {} /\ Expected(p)' = Expected(p)
  BY <1>1 DEF Exempt, Expected, Placing, Inserting
<1>7. \A n \in N : NodeKey(n)' = NodeKey(n) /\ Value(n)' = Value(n) /\ node'[n].dptr = node[n].dptr
  BY <1>1 DEF NodeKey, Value, NodeData
<1>8. StoreFor(p, N)'
  BY <1>1, <1>4, <1>5, <1>6, <1>7, SameStore DEF AtWork, JournalInd, WordsType
<1>9. Decided(p)' /\ Answered(p)'
  BY <1>1, <1>2 DEF AtWork, Decided, Answered, Writes, Refused, Active, Placing, Inserting
<1>. QED BY <1>8, <1>9 DEF InOrder

(* What htInsert() leaves alone, and that the operation goes on after it.   *)
LEMMA InsertDecided ==
    ASSUME NEW p \in Procs, NEW N, NEW D, AtWork(p, N, D), HtInsert(p)
    PROVE  /\ UNCHANGED <<off, recs, op, stage, jrec, cur, snap, result, cdbFile>>
           /\ Decided(p)' /\ Answered(p)'
<1>1. /\ UNCHANGED <<off, recs, op, stage, jrec, cur>> /\ pc[p] \in Inserting
      /\ pc'[p] = AfterInsert(p)[pc[p]]
  BY InsertStep DEF AtWork
<1>2. UNCHANGED <<snap, result, cdbFile>>
  BY DEF HtInsert, call, files
<1>3. /\ pc'[p] \in Inserting \cup {"count", "swap", "unlock"}
      /\ pc'[p] = "count" => op[p].kind # "substitute"
      /\ pc'[p] = "unlock" => op[p].kind = "substitute" /\ stage[p] # "new"
  <2>1. /\ AfterInsert(p)["ins1"] = "ins2" /\ AfterInsert(p)["ins2"] = "ins3"
        /\ AfterInsert(p)["ins3"] = "ins4"
        /\ AfterInsert(p)["ins4"] \in {"count", "swap", "unlock"}
        /\ AfterInsert(p)["ins4"] = "count" => op[p].kind # "substitute"
        /\ AfterInsert(p)["ins4"] = "unlock" => op[p].kind = "substitute" /\ stage[p] # "new"
    BY DEF AfterInsert
  <2>. QED BY <1>1, <2>1 DEF Inserting
<1>4. op[p].kind \in {"store", "remove", "substitute"} /\ result[p] = Code(0) /\ stage[p] # "key"
  BY <1>1 DEF AtWork, Decided, Writes, Inserting, JournalInd, Stands, Shape
<1>5. Decided(p)'
  BY <1>1, <1>2, <1>3, <1>4 DEF AtWork, Decided, Writes, Refused, Active, Placing, Inserting
<1>6. Answered(p)'
  BY <1>1, <1>2, <1>3, <1>4 DEF AtWork, Answered, Decided, Writes, Refused, Active, Inserting
<1>. QED BY <1>1, <1>2, <1>5, <1>6

LEMMA KeyWordStore ==
    ASSUME NEW p \in Procs, NEW N, NEW D, AtWork(p, N, D), JournalInd', HtInsert(p), pc[p] = "ins1"
    PROVE  InOrder(p, N)'
<1>1. /\ UNCHANGED <<off, recs, op, stage, jrec, cur, snap, result, cdbFile>>
      /\ Decided(p)' /\ Answered(p)'
  BY InsertDecided
<1>2. node' = [node EXCEPT ![cur[p]]["kptr"] = NewWord(p)["kptr"]] /\ pc'[p] = "ins2"
  <2>1. WordName["ins1"] = "kptr" /\ AfterInsert(p)["ins1"] = "ins2"
    BY DEF WordName, AfterInsert
  <2>. QED BY <2>1, InsertStep DEF AtWork
<1>3. /\ cur[p] \in Offsets /\ N \subseteq Offsets
      /\ Fresh(p) => cur[p] \notin N
      /\ ~Fresh(p) => NodeKey(cur[p]) = EntryKey(p)
  BY NodeAtHand DEF Inserting, AtWork
<1>4. /\ \A n \in Offsets : n # cur[p] => node'[n] = node[n]
      /\ node'[cur[p]].dptr = node[cur[p]].dptr /\ node'[cur[p]].dsz = node[cur[p]].dsz
      /\ node'[cur[p]].ksz = node[cur[p]].ksz
  BY <1>2, <1>3 DEF AtWork, JournalInd, WordsType, Words
<1>5. Fresh(p)' <=> Fresh(p)
  BY <1>1, <1>2, <1>4 DEF Fresh
<1>6. ~Fresh(p) => NodeKey(cur[p])' = NodeKey(cur[p])
  <2>1. TreeFor(p, N, D)'
    BY KeyWord DEF AtWork
  <2>2. ~Fresh(p) => NodeKey(cur[p])' = EntryKey(p)'
    BY <1>1, <1>2, <1>5, <2>1 DEF TreeFor, Where, HasNode, Inserting, NodeKey
  <2>. QED BY <1>1, <1>3, <2>2 DEF EntryKey
<1>7. \A n \in Offsets : Value(n)' = Value(n) /\ node'[n].dptr = node[n].dptr
  BY <1>1, <1>4 DEF Value, NodeData
<1>8. \A n \in N : NodeKey(n)' = NodeKey(n)
  BY <1>1, <1>3, <1>4, <1>6 DEF NodeKey
<1>9. Exempt(p)' = Exempt(p) /\ Expected(p)' = Expected(p)
  BY <1>1, <1>2 DEF Exempt, Expected, Inserting, EntryKey
<1>10. Blank(p)' /\ Recorded(p)'
  BY <1>1, <1>2, <1>3, <1>5, <1>7 DEF Blank, Recorded, Inserting, AtWork, StoreFor
<1>11. StoreFor(p, N)'
  <2>1. off \in Int
    BY DEF AtWork, JournalInd, WordsType
  <2>. QED BY <1>1, <1>3, <1>7, <1>8, <1>9, <1>10, <2>1, SameStore DEF AtWork
<1>. QED BY <1>1, <1>11 DEF InOrder

(* A node of the key that is being written is added.                        *)
LEMMA SizeWordStore ==
    ASSUME NEW p \in Procs, NEW N, NEW D, AtWork(p, N, D), JournalInd', HtInsert(p), pc[p] = "ins2"
    PROVE  InOrder(p, N)' /\ InOrder(p, N \cup {cur[p]})'
<1>1. /\ UNCHANGED <<off, recs, op, stage, jrec, cur, snap, result, cdbFile>>
      /\ Decided(p)' /\ Answered(p)'
  BY InsertDecided
<1>2. node' = [node EXCEPT ![cur[p]]["ksz"] = NewWord(p)["ksz"]] /\ pc'[p] = "ins3"
  <2>1. WordName["ins2"] = "ksz" /\ AfterInsert(p)["ins2"] = "ins3"
    BY DEF WordName, AfterInsert
  <2>. QED BY <2>1, InsertStep DEF AtWork
<1>3. cur[p] \in Offsets /\ N \subseteq Offsets /\ (~Fresh(p) => cur[p] \in N)
  BY NodeAtHand DEF Inserting, AtWork
<1>4. /\ \A n \in Offsets : n # cur[p] => node'[n] = node[n]
      /\ node'[cur[p]].dptr = node[cur[p]].dptr /\ node'[cur[p]].dsz = node[cur[p]].dsz
      /\ node'[cur[p]].kptr = node[cur[p]].kptr
  BY <1>2, <1>3 DEF AtWork, JournalInd, WordsType, Words
<1>5. \A n \in Offsets :
        NodeKey(n)' = NodeKey(n) /\ Value(n)' = Value(n) /\ node'[n].dptr = node[n].dptr
  BY <1>1, <1>4 DEF Value, NodeData, NodeKey
<1>6. Exempt(p)' = Exempt(p) /\ Expected(p)' = Expected(p) /\ Exempt(p)' = {EntryKey(p)}
  BY <1>1, <1>2 DEF Exempt, Expected, Inserting, EntryKey
<1>7. Blank(p)' /\ Recorded(p)'
  BY <1>1, <1>2 DEF Blank, Fresh, Recorded, Inserting, AtWork, StoreFor
<1>8. StoreFor(p, N)'
  <2>1. off \in Int
    BY DEF AtWork, JournalInd, WordsType
  <2>2. \A n \in N : NodeKey(n)' = NodeKey(n) /\ Value(n)' = Value(n) /\ node'[n].dptr = node[n].dptr
    BY <1>3, <1>5
  <2>3. \A k \in Keys : k \notin Exempt(p)' =>
           k \notin Exempt(p) /\ Expected(p)'[k] = Expected(p)[k]
    BY <1>6
  <2>. QED BY <1>1, <1>7, <2>1, <2>2, <2>3, SameStore DEF AtWork
<1>9. NodeKey(cur[p])' = EntryKey(p)
  <2>1. NodeKey(cur[p]) = EntryKey(p)
    BY DEF AtWork, TreeFor, Where, HasNew
  <2>. QED BY <1>1, <1>3, <1>4, <2>1 DEF NodeKey
<1>10. node[cur[p]].dptr \in 0 .. off - 1
  <2>1. off \in Int /\ off >= 1
    BY DEF AtWork, JournalInd, WordsType
  <2>2. CASE Fresh(p)
    BY <2>1, <2>2 DEF AtWork, StoreFor, Blank
  <2>3. CASE ~Fresh(p)
    BY <1>3, <2>3 DEF AtWork, StoreFor, DataOK
  <2>. QED BY <2>2, <2>3
<1>11. DataOK(N \cup {cur[p]})'
  BY <1>1, <1>3, <1>5, <1>8, <1>10 DEF DataOK, StoreFor
<1>12. Holds(N \cup {cur[p]}, Expected(p), Exempt(p))'
  <2>1. Holds(N, Expected(p), Exempt(p))'
    BY <1>2, <1>8 DEF StoreFor, Active
  <2>. QED BY <1>1, <1>6, <1>9, <2>1 DEF Holds
<1>13. StoreFor(p, N \cup {cur[p]})'
  BY <1>7, <1>11, <1>12 DEF StoreFor
<1>. QED BY <1>1, <1>8, <1>13 DEF InOrder

LEMMA DataWordStore ==
    ASSUME NEW p \in Procs, NEW N, NEW D, AtWork(p, N, D), JournalInd', HtInsert(p), pc[p] = "ins3"
    PROVE  InOrder(p, N)'
<1>1. /\ UNCHANGED <<off, recs, op, stage, jrec, cur, snap, result, cdbFile>>
      /\ Decided(p)' /\ Answered(p)'
  BY InsertDecided
<1>2. node' = [node EXCEPT ![cur[p]]["dptr"] = NewWord(p)["dptr"]] /\ pc'[p] = "ins4"
  <2>1. WordName["ins3"] = "dptr" /\ AfterInsert(p)["ins3"] = "ins4"
    BY DEF WordName, AfterInsert
  <2>. QED BY <2>1, InsertStep DEF AtWork
<1>3. cur[p] \in Offsets /\ N \subseteq Offsets /\ cur[p] \in N /\ NodeKey(cur[p]) = EntryKey(p)
  BY NodeAtHand DEF Inserting, AtWork, Fresh
<1>4. /\ \A n \in Offsets : n # cur[p] => node'[n] = node[n]
      /\ node'[cur[p]].dptr = NewWord(p).dptr /\ node'[cur[p]].kptr = node[cur[p]].kptr
  BY <1>2, <1>3 DEF AtWork, JournalInd, WordsType, Words
<1>5. /\ \A n \in Offsets : NodeKey(n)' = NodeKey(n)
      /\ \A n \in Offsets : n # cur[p] => Value(n)' = Value(n)
  BY <1>1, <1>4 DEF Value, NodeData, NodeKey
<1>6. Exempt(p)' = Exempt(p) /\ Expected(p)' = Expected(p) /\ Exempt(p) = {EntryKey(p)}
  BY <1>1, <1>2 DEF Exempt, Expected, Inserting, EntryKey
<1>7. NewWord(p)' = NewWord(p)
  BY <1>1 DEF NewWord, Deleting
<1>8. Blank(p)' /\ Recorded(p)'
  BY <1>1, <1>2, <1>4, <1>7 DEF Blank, Fresh, Recorded, Inserting, AtWork, StoreFor
<1>9. NewWord(p).dptr \in 0 .. off - 1
  <2>1. jrec[p] < off /\ (op[p].kind = "substitute" => jrec[p] + 1 < off)
    BY DEF AtWork, TreeFor, Where, HasRecords, Inserting
  <2>2. jrec[p] \in Nat /\ off \in Nat \ {0}
    BY DEF AtWork, JournalInd, PointersType, WordsType
  <2>. QED BY <2>1, <2>2 DEF NewWord
<1>10. DataOK(N)'
  BY <1>1, <1>3, <1>4, <1>9 DEF DataOK, AtWork, StoreFor
<1>11. Holds(N, Expected(p), Exempt(p))'
  <2>1. Holds(N, Expected(p), Exempt(p))
    BY DEF AtWork, StoreFor
  <2>. QED BY <1>1, <1>3, <1>5, <1>6, <2>1 DEF Holds
<1>. QED BY <1>1, <1>8, <1>10, <1>11 DEF InOrder, StoreFor

(* The trees without a node that has no key yet.                            *)
LEMMA SettledTree ==
    ASSUME NEW p \in Procs, NEW N, NEW D, JournalInd, TreeFor(p, N, D), ~Fresh(p)
    PROVE  IsTree(N, D, link, KeyOf) /\ NodesOK(N)
<1>1. BaseOf(p) = link
  BY DEF BaseOf, JournalInd, WordsType
<1>. QED BY <1>1 DEF TreeFor, Forest

(* A key has one node.                                                      *)
LEMMA OneNode ==
    ASSUME NEW p \in Procs, NEW N, NEW D, JournalInd, Ascending, TreeFor(p, N, D), ~Fresh(p),
           NEW m \in N, NEW n \in N, NodeKey(m) = NodeKey(n)
    PROVE  m = n
<1>1. IsTree(N, D, link, KeyOf) /\ NodesOK(N) /\ WordsType
  BY SettledTree DEF JournalInd
<1>2. NodeKey(n) \in Keys
  <2>1. KeyOf[n] \in Keys /\ n \in Offsets
    BY <1>1, KeysOfNodes DEF IsTree
  <2>. QED BY <2>1 DEF KeyOf
<1>3. Walk(NodeKey(n)) = m /\ Walk(NodeKey(n)) = n
  BY <1>1, <1>2, WalkFinds
<1>. QED BY <1>3

\* The entry that the process writes.
NewValue(p) == IF Deleting(p) THEN NoData ELSE op[p].data

LEMMA LastWordStore ==
    ASSUME NEW p \in Procs, NEW N, NEW D, AtWork(p, N, D), JournalInd', HtInsert(p), pc[p] = "ins4",
           op[p].kind = "substitute" => op[p].key # op[p].key2
    PROVE  InOrder(p, N)'
<1>1. /\ UNCHANGED <<off, recs, op, stage, jrec, cur, snap, result, cdbFile>>
      /\ Decided(p)' /\ Answered(p)'
  BY InsertDecided
<1>2. /\ node' = [node EXCEPT ![cur[p]]["dsz"] = NewWord(p)["dsz"]]
      /\ pc'[p] = (IF op[p].kind # "substitute" THEN "count"
                   ELSE IF stage[p] = "new" THEN "swap" ELSE "unlock")
  <2>1. WordName["ins4"] = "dsz"
    BY DEF WordName
  <2>2. AfterInsert(p)["ins4"] = (IF op[p].kind # "substitute" THEN "count"
                   ELSE IF stage[p] = "new" THEN "swap" ELSE "unlock")
    BY DEF AfterInsert
  <2>. QED BY <2>1, <2>2, InsertStep DEF AtWork
<1>3. /\ cur[p] \in Offsets /\ N \subseteq Offsets /\ cur[p] \in N /\ NodeKey(cur[p]) = EntryKey(p)
      /\ ~Fresh(p)
  BY NodeAtHand DEF Inserting, AtWork, Fresh
<1>4. /\ \A n \in Offsets : n # cur[p] => node'[n] = node[n]
      /\ \A n \in Offsets : node'[n].dptr = node[n].dptr /\ node'[n].kptr = node[n].kptr
      /\ node'[cur[p]].dsz = NewWord(p).dsz
  BY <1>2, <1>3 DEF AtWork, JournalInd, WordsType, Words
<1>5. /\ \A n \in Offsets : NodeKey(n)' = NodeKey(n)
      /\ \A n \in Offsets : n # cur[p] => Value(n)' = Value(n)
  BY <1>1, <1>4 DEF Value, NodeData, NodeKey
<1>6. node'[cur[p]].dptr = NewWord(p).dptr
  BY <1>3, <1>4 DEF AtWork, StoreFor, Recorded
<1>7. /\ op[p].kind \in {"store", "remove", "substitute"} /\ op[p] \in Requests
      /\ op[p].kind = "substitute" => stage[p] \in {"new", "old"}
      /\ op[p].kind # "substitute" => stage[p] = "new"
      /\ op[p].key \in Keys /\ (op[p].kind = "substitute" => op[p].key2 \in Keys)
      /\ op[p].kind # "remove" => op[p].data \in Data
  <2>1. op[p] \in Requests
    BY DEF AtWork, JournalInd, Requested
  <2>2. /\ op[p].kind \in {"store", "remove", "substitute"}
        /\ op[p].kind = "substitute" => stage[p] \in {"new", "old"}
        /\ op[p].kind # "substitute" => stage[p] = "new"
    BY DEF AtWork, JournalInd, Stands, Shape, Inserting
  <2>. QED BY <2>1, <2>2, RDBAssumption
<1>8. Value(cur[p])' = NewValue(p)
  <2>1. CASE Deleting(p)
    BY <1>1, <1>6, <2>1 DEF Value, NewWord, NewValue
  <2>2. CASE ~Deleting(p)
    <3>1. PICK r : r = NewWord(p).dptr
      OBVIOUS
    <3>2. r # 0 /\ recs[r].data = op[p].data
      <4>1. jrec[p] \in Nat \ {0}
        BY WordsWritten DEF Inserting, AtWork
      <4>2. /\ op[p].kind = "store" => recs[jrec[p]].data = op[p].data
            /\ op[p].kind = "substitute" => recs[jrec[p] + 1].data = op[p].data
        BY DEF AtWork, StoreFor, Recorded, Inserting
      <4>3. r = IF op[p].kind = "substitute" THEN jrec[p] + 1 ELSE jrec[p]
        BY <1>7, <2>2, <3>1 DEF NewWord, Deleting
      <4>. QED BY <1>7, <2>2, <4>1, <4>2, <4>3 DEF Deleting
    <3>3. op[p].data # NoData /\ NewWord(p).dsz = Size[op[p].data]
      BY <1>7, <2>2, RDBAssumption DEF NewWord, Deleting
    <3>. QED BY <1>1, <1>4, <1>6, <2>2, <3>1, <3>2, <3>3 DEF Value, NodeData, NewValue
  <2>. QED BY <2>1, <2>2
<1>9. DOMAIN snap = Keys
  BY DEF AtWork, FilesOK
<1>10. /\ Expected(p)'[EntryKey(p)] = NewValue(p)
       /\ \A k \in Keys : k # EntryKey(p) => Expected(p)'[k] = Expected(p)[k]
  <2>0. result[p] = Code(0)
    BY DEF AtWork, Decided
  <2>1. CASE op[p].kind = "store"
    <3>1. Expected(p)' = [snap EXCEPT ![op[p].key] = op[p].data]
      BY <1>1, <1>2, <2>1 DEF Expected, Updated
    <3>2. Expected(p) = snap /\ NewValue(p) = op[p].data /\ EntryKey(p) = op[p].key
      BY <1>7, <2>1 DEF Expected, NewValue, Deleting, EntryKey
    <3>. QED BY <1>7, <1>9, <3>1, <3>2
  <2>2. CASE op[p].kind = "remove"
    <3>1. Expected(p)' = [snap EXCEPT ![op[p].key] = NoData]
      BY <1>1, <1>2, <2>2 DEF Expected, Updated
    <3>2. Expected(p) = snap /\ NewValue(p) = NoData /\ EntryKey(p) = op[p].key
      BY <1>7, <2>2 DEF Expected, NewValue, Deleting, EntryKey
    <3>. QED BY <1>7, <1>9, <3>1, <3>2
  <2>3. CASE op[p].kind = "substitute" /\ stage[p] = "new"
    <3>1. Expected(p)' = [snap EXCEPT ![op[p].key2] = op[p].data]
      BY <1>1, <1>2, <2>3 DEF Expected
    <3>2. Expected(p) = snap /\ NewValue(p) = op[p].data /\ EntryKey(p) = op[p].key2
      BY <2>3 DEF Expected, NewValue, Deleting, EntryKey
    <3>. QED BY <1>7, <1>9, <2>3, <3>1, <3>2
  <2>4. CASE op[p].kind = "substitute" /\ stage[p] = "old"
    <3>1. Expected(p)' = [snap EXCEPT ![op[p].key] = NoData, ![op[p].key2] = op[p].data]
      BY <1>1, <1>2, <2>0, <2>4 DEF Expected, Updated
    <3>2. /\ Expected(p) = [snap EXCEPT ![op[p].key2] = op[p].data] /\ NewValue(p) = NoData
          /\ EntryKey(p) = op[p].key
      BY <2>4 DEF Inserting, Expected, NewValue, Deleting, EntryKey
    <3>. QED BY <1>7, <1>9, <2>4, <3>1, <3>2
  <2>. QED BY <1>7, <2>1, <2>2, <2>3, <2>4
<1>11. Exempt(p)' = {} /\ Exempt(p) = {EntryKey(p)}
  BY <1>2 DEF Exempt, Inserting
<1>12. Blank(p)' /\ Recorded(p)'
  BY <1>1, <1>2 DEF Blank, Fresh, Recorded, Inserting, Placing, AtWork, StoreFor
<1>13. DataOK(N)'
  BY <1>1, <1>3, <1>4 DEF DataOK, AtWork, StoreFor
<1>14. Holds(N, Expected(p), Exempt(p))'
  <2>1. Holds(N, Expected(p), Exempt(p))
    BY DEF AtWork, StoreFor
  <2>2. \A n \in N : NodeKey(n) = EntryKey(p) => n = cur[p]
    BY <1>3, OneNode DEF AtWork
  <2>3. ASSUME NEW k \in Keys
        PROVE  /\ \A n \in N : NodeKey(n)' = k => Value(n)' = Expected(p)'[k]
               /\ (\A n \in N : NodeKey(n)' # k) => cdbFile'[k] = Expected(p)'[k]
    <3>1. CASE k = EntryKey(p)
      <4>1. \A n \in N : NodeKey(n)' = k => n = cur[p]
        BY <1>3, <1>5, <2>2, <3>1
      <4>2. Value(cur[p])' = Expected(p)'[k]
        BY <1>8, <1>10, <3>1
      <4>3. \A n \in N : n = cur[p] => Value(n)' = NewValue(p)
        BY <1>1, <1>8 DEF Value, NodeData
      <4>4. NodeKey(cur[p]) = k
        BY <1>3, <3>1
      <4>. QED BY <1>3, <1>5, <1>10, <3>1, <4>1, <4>3, <4>4
    <3>2. CASE k # EntryKey(p)
      <4>1. Expected(p)'[k] = Expected(p)[k]
        BY <1>10, <3>2
      <4>2. \A n \in N : NodeKey(n)' = k => n # cur[p] /\ NodeKey(n) = k /\ Value(n)' = Value(n)
        BY <1>3, <1>5, <3>2
      <4>. QED BY <1>1, <1>3, <1>5, <1>11, <2>1, <3>2, <4>1, <4>2 DEF Holds
    <3>. QED BY <3>1, <3>2
  <2>. QED BY <1>11, <2>3 DEF Holds
<1>. QED BY <1>1, <1>12, <1>13, <1>14 DEF InOrder, StoreFor

-----------------------------------------------------------------------------
(* A search finds what the entry was when the lock was taken.               *)
LEMMA Found ==
    ASSUME NEW p \in Procs, NEW N, NEW D, AtWork(p, N, D), pc[p] \in {"hit", "miss"}
    PROVE  /\ EntryKey(p) \in Keys /\ stage[p] # "old" /\ Expected(p) = snap /\ Exempt(p) = {}
           /\ pc[p] = "hit" =>
                /\ cur[p] \in N /\ cur[p] \in Offsets /\ node[cur[p]].ksz # 0
                /\ snap[EntryKey(p)] = Value(cur[p])
                /\ Deleted(cur[p]) <=> snap[EntryKey(p)] = NoData
                /\ ~Deleted(cur[p]) => NodeData(cur[p]) = snap[EntryKey(p)]
           /\ pc[p] = "miss" => cdb[p][EntryKey(p)] = snap[EntryKey(p)]
<1>1. /\ stage[p] # "old"
      /\ op[p].kind \in {"store", "remove", "fetch", "substitute"}
      /\ EntryKey(p) = op[p].key \/ (op[p].kind = "substitute" /\ EntryKey(p) = op[p].key2)
  BY DEF AtWork, JournalInd, Stands, Shape, Searching, EntryKey
<1>2. EntryKey(p) \in Keys
  <2>1. op[p] \in Requests
    BY DEF AtWork, JournalInd, Requested
  <2>. QED BY <1>1, <2>1, RDBAssumption
<1>3. Expected(p) = snap /\ Exempt(p) = {} /\ ~Fresh(p)
  BY <1>1 DEF Expected, Exempt, Inserting, Fresh
<1>4. Holds(N, snap, {})
  BY <1>3 DEF AtWork, StoreFor
<1>5. CASE pc[p] = "hit"
  <2>1. cur[p] \in N /\ NodeKey(cur[p]) = EntryKey(p)
    BY <1>3, <1>5 DEF AtWork, TreeFor, Where, HasNode
  <2>2. cur[p] \in Offsets /\ node[cur[p]].ksz # 0
    BY <2>1, NodesAreOffsets DEF AtWork, TreeFor, Forest, NodesOK
  <2>3. snap[EntryKey(p)] = Value(cur[p])
    BY <1>2, <1>4, <2>1 DEF Holds
  <2>4. NodeData(cur[p]) # NoData
    BY RDBAssumption DEF NodeData
  <2>5. Deleted(cur[p]) <=> Value(cur[p]) = NoData
    BY <2>4 DEF Deleted, Value
  <2>6. ~Deleted(cur[p]) => NodeData(cur[p]) = Value(cur[p])
    BY DEF Deleted, Value
  <2>. QED BY <1>1, <1>2, <1>3, <1>5, <2>1, <2>2, <2>3, <2>5, <2>6
<1>6. CASE pc[p] = "miss"
  <2>1. IsTree(N, D, link, KeyOf) /\ NodesOK(N) /\ WordsType
    BY <1>3, SettledTree DEF AtWork, JournalInd
  <2>2. /\ pnode[p] \in TreeLinks(N) /\ EntryKey(p) \in D[pnode[p]] /\ link[pnode[p]] = 0
    BY <1>6 DEF AtWork, TreeFor, Where, Placed, Vacant, Works, Searching
  <2>3. Walk(EntryKey(p)) = 0 /\ \A n \in N : NodeKey(n) = EntryKey(p) => Walk(EntryKey(p)) = n
    BY <1>2, <2>1, <2>2, WalkFinds DEF AtWork
  <2>4. \A n \in N : n # 0
    BY NodesAreOffsets DEF AtWork, Offsets
  <2>5. cdbFile[EntryKey(p)] = snap[EntryKey(p)]
    BY <1>2, <1>4, <2>3, <2>4 DEF Holds
  <2>6. cdb[p] = cdbFile
    BY <1>6 DEF AtWork, FilesOK, Mapped
  <2>. QED BY <1>1, <1>2, <1>3, <1>6, <2>5, <2>6
<1>. QED BY <1>5, <1>6

(* The step after a search changes no entry, if the operation ends with it  *)
(* the entries are those it found.                                          *)
LEMMA FoundStore ==
    ASSUME NEW p \in Procs, NEW N, NEW D, AtWork(p, N, D), pc[p] \in {"hit", "miss"},
           UNCHANGED <<off, recs, op, jrec, snap, cdbFile, cur>>, stage'[p] # "old",
           node' = node \/ (pc[p] = "hit" /\ node' = Repaired(cur[p])),
           pc'[p] \in {"unlock", "log", "alloc", "find"}, pc'[p] = "log" => pc[p] = "hit",
           pc'[p] = "unlock" => \A k \in Keys : Expected(p)'[k] = snap[k]
    PROVE  StoreFor(p, N)'
<1>1. /\ Expected(p) = snap /\ Exempt(p) = {}
      /\ pc[p] = "hit" => cur[p] \in Offsets /\ node[cur[p]].ksz # 0
  BY Found
<1>2. WordsType /\ N \subseteq Offsets
  BY NodesAreOffsets DEF AtWork, JournalInd
<1>3. \A n \in Offsets : node'[n] \in {node[n], Repaired(n)[n]}
  BY <1>1, <1>2, RepairedNode
<1>4. \A n \in N : NodeKey(n)' = NodeKey(n) /\ Value(n)' = Value(n) /\ node'[n].dptr = node[n].dptr
  BY <1>2, <1>3, RepairValue
<1>5. Exempt(p)' = {}
  BY DEF Exempt, Inserting
<1>6. pc'[p] # "unlock" => Expected(p)' = snap
  BY DEF Expected
<1>7. Recorded(p)'
  BY DEF Recorded, Inserting, Placing
<1>8. Blank(p)'
  <2>1. pc'[p] = "log" => node'[cur[p]].ksz # 0
    BY <1>1, <1>2, RepairQuiet
  <2>. QED BY <2>1 DEF Blank, Fresh
<1>. QED BY <1>1, <1>2, <1>4, <1>5, <1>6, <1>7, <1>8, SameStore DEF AtWork, WordsType

LEMMA FetchStore ==
    ASSUME NEW p \in Procs, NEW N, NEW D, AtWork(p, N, D), Fetch(p)
    PROVE  InOrder(p, N)'
<1>1. /\ UNCHANGED <<off, recs, op, jrec, snap, cdbFile, cur, stage>>
      /\ pc[p] \in {"hit", "miss"} /\ op[p].kind = "fetch"
      /\ pc'[p] = "unlock" /\ result'[p] = <<"data", Fetched(p)>>
      /\ node' = node \/ (pc[p] = "hit" /\ node' = Repaired(cur[p]))
  BY DEF Fetch, Finish, Goto, call, find, files, AtWork, JournalInd, LockInd, LockType
<1>2. EntryKey(p) = op[p].key
  BY <1>1 DEF EntryKey
<1>3. Fetched(p) = snap[op[p].key] /\ stage[p] # "old"
  BY <1>1, <1>2, Found DEF Fetched
<1>4. Expected(p)' = snap
  BY <1>1 DEF Expected, Updated
<1>5. StoreFor(p, N)'
  BY <1>1, <1>3, <1>4, FoundStore
<1>6. Decided(p)' /\ Answered(p)'
  BY <1>1, <1>3 DEF AtWork, Decided, Answered, Writes, Placing, Inserting
<1>. QED BY <1>5, <1>6 DEF InOrder

\* What the steps of an operation after its search have in common.
AfterFind(p) ==
    /\ UNCHANGED <<off, recs, op, jrec, snap, cdbFile, cur>>
    /\ pc[p] \in {"hit", "miss"} /\ stage'[p] # "old"
    /\ node' = node \/ (pc[p] = "hit" /\ node' = Repaired(cur[p]))
    /\ pc'[p] = "log" => pc[p] = "hit"

GoesOn(p) == pc'[p] \in {"log", "alloc"} /\ result'[p] = result[p]
Ends(p, c) == pc'[p] = "unlock" /\ result'[p] = Code(c)

LEMMA StoreStore ==
    ASSUME NEW p \in Procs, NEW N, NEW D, AtWork(p, N, D), StoreHit(p) \/ StoreMiss(p)
    PROVE  InOrder(p, N)'
<1>1. AfterFind(p) /\ op[p].kind = "store" /\ UNCHANGED stage
  <2>1. stage[p] # "old"
    BY Found DEF StoreHit, StoreMiss
  <2>2. CASE StoreHit(p)
    BY <2>1, <2>2 DEF StoreHit, AfterFind, call, find, files
  <2>3. CASE StoreMiss(p)
    BY <2>1, <2>3
       DEF StoreMiss, AfterFind, Finish, Goto, journal, call, find, files, AtWork, JournalInd, LockInd, LockType
  <2>. QED BY <2>2, <2>3
<1>2. EntryKey(p) = op[p].key /\ op[p].key \in Keys
  BY <1>1, Found DEF EntryKey, AfterFind
<1>3. \/ Ends(p, -1) /\ Refused(p, op[p].key)
      \/ Ends(p, 0) /\ ~Refused(p, op[p].key) /\ snap[op[p].key] = op[p].data
      \/ GoesOn(p) /\ ~Refused(p, op[p].key)
  <2>1. CASE StoreHit(p)
    <3>1. pc[p] = "hit"
      BY <2>1 DEF StoreHit
    <3>2. /\ Deleted(cur[p]) <=> snap[op[p].key] = NoData
          /\ ~Deleted(cur[p]) => NodeData(cur[p]) = snap[op[p].key]
      BY <1>2, <3>1, Found
    <3>3. \/ Ends(p, -1) /\ op[p].flag = INSERT /\ ~Deleted(cur[p])
          \/ Ends(p, 0) /\ op[p].flag = REPLACE /\ ~Deleted(cur[p]) /\ NodeData(cur[p]) = op[p].data
          \/ GoesOn(p) /\ ~(op[p].flag = INSERT /\ ~Deleted(cur[p]))
      BY <2>1 DEF StoreHit, Finish, Goto, Ends, GoesOn, AtWork, JournalInd, LockInd, LockType
    <3>. QED BY <3>2, <3>3 DEF Refused, INSERT, REPLACE
  <2>2. CASE StoreMiss(p)
    <3>1. pc[p] = "miss"
      BY <2>2 DEF StoreMiss
    <3>2. cdb[p][op[p].key] = snap[op[p].key]
      BY <1>2, <3>1, Found
    <3>3. \/ Ends(p, -1) /\ op[p].flag = INSERT /\ cdb[p][op[p].key] # NoData
          \/ Ends(p, 0) /\ op[p].flag = REPLACE /\ cdb[p][op[p].key] = op[p].data
          \/ GoesOn(p) /\ ~(op[p].flag = INSERT /\ cdb[p][op[p].key] # NoData)
      BY <2>2 DEF StoreMiss, Finish, Goto, Ends, GoesOn, AtWork, JournalInd, LockInd, LockType
    <3>. QED BY <3>2, <3>3 DEF Refused, INSERT, REPLACE
  <2>. QED BY <2>1, <2>2
<1>4. pc'[p] = "unlock" => \A k \in Keys : Expected(p)'[k] = snap[k]
  <2>1. CASE Ends(p, -1)
    BY <1>1, <2>1 DEF Ends, Expected, Code, AfterFind
  <2>2. CASE Ends(p, 0) /\ snap[op[p].key] = op[p].data
    <3>1. Expected(p)' = [snap EXCEPT ![op[p].key] = op[p].data]
      BY <1>1, <2>2 DEF Ends, Expected, Updated, AfterFind
    <3>2. DOMAIN snap = Keys
      BY DEF AtWork, FilesOK
    <3>. QED BY <1>2, <2>2, <3>1, <3>2
  <2>. QED BY <1>3, <2>1, <2>2 DEF GoesOn
<1>5. pc'[p] \in {"unlock", "log", "alloc"}
  BY <1>3 DEF GoesOn, Ends
<1>6. StoreFor(p, N)'
  BY <1>1, <1>4, <1>5, FoundStore DEF AfterFind
<1>7. result[p] = Code(0)
  BY <1>1 DEF AfterFind, AtWork, Decided
<1>8. Decided(p)' /\ Answered(p)'
  BY <1>1, <1>3, <1>7
     DEF AfterFind, Decided, Answered, Writes, Refused, Ends, GoesOn, Placing, Inserting
<1>. QED BY <1>6, <1>8 DEF InOrder

LEMMA RemoveStore ==
    ASSUME NEW p \in Procs, NEW N, NEW D, AtWork(p, N, D), RemoveHit(p) \/ RemoveMiss(p)
    PROVE  InOrder(p, N)'
<1>1. AfterFind(p) /\ op[p].kind = "remove" /\ UNCHANGED stage
  <2>1. stage[p] # "old"
    BY Found DEF RemoveHit, RemoveMiss
  <2>2. CASE RemoveHit(p)
    BY <2>1, <2>2 DEF RemoveHit, AfterFind, call, find, files
  <2>3. CASE RemoveMiss(p)
    BY <2>1, <2>3
       DEF RemoveMiss, AfterFind, Finish, Goto, journal, call, find, files, AtWork, JournalInd, LockInd, LockType
  <2>. QED BY <2>2, <2>3
<1>2. EntryKey(p) = op[p].key /\ op[p].key \in Keys
  BY <1>1, Found DEF EntryKey, AfterFind
<1>3. \/ (Ends(p, -1) \/ Ends(p, -2)) /\ snap[op[p].key] = NoData
      \/ GoesOn(p) /\ snap[op[p].key] # NoData
  <2>1. CASE RemoveHit(p)
    <3>1. pc[p] = "hit"
      BY <2>1 DEF RemoveHit
    <3>2. Deleted(cur[p]) <=> snap[op[p].key] = NoData
      BY <1>2, <3>1, Found
    <3>. QED BY <2>1, <3>2
             DEF RemoveHit, Finish, Goto, Ends, GoesOn, AtWork, JournalInd, LockInd, LockType
  <2>2. CASE RemoveMiss(p)
    <3>1. pc[p] = "miss"
      BY <2>2 DEF RemoveMiss
    <3>2. cdb[p][op[p].key] = snap[op[p].key]
      BY <1>2, <3>1, Found
    <3>. QED BY <2>2, <3>2
             DEF RemoveMiss, Finish, Goto, Ends, GoesOn, AtWork, JournalInd, LockInd, LockType
  <2>. QED BY <2>1, <2>2
<1>4. pc'[p] = "unlock" => Expected(p)' = snap
  BY <1>1, <1>3 DEF Ends, GoesOn, Expected, Code, AfterFind
<1>5. pc'[p] \in {"unlock", "log", "alloc"}
  BY <1>3 DEF GoesOn, Ends
<1>6. StoreFor(p, N)'
  BY <1>1, <1>4, <1>5, FoundStore DEF AfterFind
<1>7. result[p] = Code(0)
  BY <1>1 DEF AfterFind, AtWork, Decided
<1>8. Decided(p)' /\ Answered(p)'
  BY <1>1, <1>3, <1>7
     DEF AfterFind, Decided, Answered, Writes, Refused, Ends, GoesOn, Placing, Inserting
<1>. QED BY <1>6, <1>8 DEF InOrder

LEMMA SubstituteNewStore ==
    ASSUME NEW p \in Procs, NEW N, NEW D, AtWork(p, N, D), SubstituteNew(p)
    PROVE  InOrder(p, N)'
<1>1. AfterFind(p) /\ op[p].kind = "substitute" /\ UNCHANGED stage /\ stage[p] = "key2"
  BY DEF SubstituteNew, Finish, Goto, AfterFind, call, find, files, AtWork, JournalInd, LockInd, LockType
<1>2. EntryKey(p) = op[p].key2 /\ op[p].key2 \in Keys
  BY <1>1, Found DEF EntryKey, AfterFind
<1>3. NewKeyLive(p) <=> snap[op[p].key2] # NoData
  BY <1>1, <1>2, Found DEF NewKeyLive, AfterFind
<1>4. \/ Ends(p, -4) /\ Refused(p, op[p].key2)
      \/ GoesOn(p) /\ ~Refused(p, op[p].key2)
  BY <1>3 DEF SubstituteNew, Finish, Goto, Ends, GoesOn, Refused, AtWork, JournalInd, LockInd, LockType
<1>5. pc'[p] = "unlock" => Expected(p)' = snap
  BY <1>1, <1>4 DEF Ends, GoesOn, Expected, Code, AfterFind
<1>6. pc'[p] \in {"unlock", "log", "alloc"}
  BY <1>4 DEF GoesOn, Ends
<1>7. StoreFor(p, N)'
  BY <1>1, <1>5, <1>6, FoundStore DEF AfterFind
<1>8. result[p] = Code(0) /\ snap[op[p].key] # NoData
  BY <1>1 DEF AfterFind, AtWork, Decided
<1>9. Decided(p)' /\ Answered(p)'
  BY <1>1, <1>4, <1>8
     DEF AfterFind, Decided, Answered, Writes, Refused, Ends, GoesOn, Placing, Inserting
<1>. QED BY <1>7, <1>9 DEF InOrder

LEMMA SubstituteOldStore ==
    ASSUME NEW p \in Procs, NEW N, NEW D, AtWork(p, N, D), SubstituteOld(p)
    PROVE  InOrder(p, N)'
<1>1. /\ AfterFind(p) /\ op[p].kind = "substitute" /\ stage[p] = "key"
      /\ \/ Ends(p, -2) /\ pc[p] = "hit" /\ Deleted(cur[p]) /\ stage'[p] = "key"
         \/ Ends(p, -1) /\ pc[p] = "miss" /\ cdb[p][op[p].key] = NoData /\ stage'[p] = "key"
         \/ /\ pc'[p] = "find" /\ result'[p] = result[p] /\ stage'[p] = "key2"
            /\ pc[p] = "hit" => ~Deleted(cur[p])
            /\ pc[p] = "miss" => cdb[p][op[p].key] # NoData
  BY DEF SubstituteOld, Finish, StartFind, Goto, AfterFind, Ends, call, files, AtWork, JournalInd,
         LockInd, LockType, PointersType
<1>2. EntryKey(p) = op[p].key /\ op[p].key \in Keys
  BY <1>1, Found DEF EntryKey, AfterFind
<1>3. \/ (Ends(p, -1) \/ Ends(p, -2)) /\ snap[op[p].key] = NoData /\ stage'[p] = "key"
      \/ /\ pc'[p] = "find" /\ result'[p] = result[p] /\ stage'[p] = "key2"
         /\ snap[op[p].key] # NoData
  BY <1>1, <1>2, Found DEF AfterFind
<1>4. pc'[p] = "unlock" => Expected(p)' = snap
  BY <1>1, <1>3 DEF Ends, Expected, Code, AfterFind
<1>5. pc'[p] \in {"unlock", "find"}
  BY <1>3 DEF Ends
<1>6. StoreFor(p, N)'
  BY <1>1, <1>4, <1>5, FoundStore DEF AfterFind
<1>7. result[p] = Code(0)
  BY <1>1 DEF AfterFind, AtWork, Decided
<1>8. Decided(p)' /\ Answered(p)'
  BY <1>1, <1>3, <1>7
     DEF AfterFind, Decided, Answered, Writes, Refused, Ends, Placing, Inserting
<1>. QED BY <1>6, <1>8 DEF InOrder

-----------------------------------------------------------------------------
(* The end of store() and remove(), of a commit, and of a reorganization    *)
(* that fails.                                                              *)
LEMMA EndStore ==
    ASSUME NEW p \in Procs, NEW N, NEW D, AtWork(p, N, D),
           CountRecord(p) \/ Msync(p) \/ ReorganizeFails(p)
    PROVE  InOrder(p, N)'
<1>1. /\ UNCHANGED <<off, node, recs, op, jrec, stage, snap, cdbFile, cur>>
      /\ pc'[p] \in {"unlock", "leave"}
      /\ \/ pc[p] = "count" /\ result'[p] = Code(0)
         \/ pc[p] = "sync" /\ result'[p] = Code(0)
         \/ pc[p] = "reorg" /\ result'[p] = Code(1)
  BY DEF CountRecord, Msync, ReorganizeFails, Finish, Goto, journal, call, find, files, AtWork,
         JournalInd, LockInd, LockType
<1>2. Updated(p)' = Updated(p)
  BY <1>1 DEF Updated
<1>3. /\ pc[p] = "count" => op[p].kind \in {"store", "remove"}
      /\ pc[p] = "sync" => op[p].kind = "commit"
      /\ pc[p] = "reorg" => op[p].kind \in {"begin", "reorganize"}
  BY DEF AtWork, Decided
<1>4. Expected(p)' = Expected(p) /\ Exempt(p) = {} /\ Exempt(p)' = {}
  <2>1. CASE pc[p] = "count"
    BY <1>1, <1>2, <2>1 DEF Expected, Exempt, Inserting
  <2>2. CASE pc[p] = "sync"
    BY <1>1, <1>2, <1>3, <2>2 DEF Expected, Updated, Exempt, Placing, Inserting
  <2>3. CASE pc[p] = "reorg"
    BY <1>1, <1>3, <2>3 DEF Expected, Exempt, Code, Placing, Inserting
  <2>. QED BY <1>1, <2>1, <2>2, <2>3
<1>5. Blank(p)' /\ Recorded(p)'
  BY <1>1 DEF Blank, Fresh, Recorded, Placing, Inserting
<1>6. \A n \in N : NodeKey(n)' = NodeKey(n) /\ Value(n)' = Value(n) /\ node'[n].dptr = node[n].dptr
  BY <1>1 DEF NodeKey, Value, NodeData
<1>7. StoreFor(p, N)'
  BY <1>1, <1>4, <1>5, <1>6, SameStore DEF AtWork, JournalInd, WordsType
<1>8. Decided(p)'
  BY <1>1, <1>3 DEF AtWork, Decided, Writes, Active, Placing, Inserting
<1>9. Answered(p)'
  BY <1>1, <1>3 DEF AtWork, Decided, Writes, Answered, Refused, Code
<1>. QED BY <1>7, <1>8, <1>9 DEF InOrder

(* What the trees show is what a lookup in each of them gives.              *)
LEMMA ViewIs ==
    \A p \in Procs : \A N, D, e :
       /\ JournalInd /\ Ascending /\ ~Works(p) /\ TreeFor(p, N, D) /\ Holds(N, e, {})
       /\ e = [k \in Keys |-> e[k]]
       => View(cdbFile) = e
<1>. SUFFICES ASSUME NEW p \in Procs, NEW N, NEW D, NEW e, JournalInd, Ascending, ~Works(p),
                     TreeFor(p, N, D), Holds(N, e, {}), e = [k \in Keys |-> e[k]]
              PROVE  View(cdbFile) = e
  OBVIOUS
<1>1. \A k \in Keys : /\ Walk(k) = 0 \/ (Walk(k) \in N /\ NodeKey(Walk(k)) = k)
                      /\ \A n \in N : NodeKey(n) = k => Walk(k) = n
  BY TreesAtRest
<1>2. \A n \in N : n # 0
  BY NodesAreOffsets DEF Offsets
<1>3. ASSUME NEW k \in Keys
      PROVE  (IF Walk(k) = 0 THEN cdbFile[k] ELSE Value(Walk(k))) = e[k]
  <2>1. CASE Walk(k) = 0
    BY <1>1, <1>2, <2>1 DEF Holds
  <2>2. CASE Walk(k) # 0
    BY <1>1, <2>2 DEF Holds
  <2>. QED BY <2>1, <2>2
<1>4. View(cdbFile) = [k \in Keys |-> IF Walk(k) = 0 THEN cdbFile[k] ELSE Value(Walk(k))]
  BY DEF View, Value
<1>. QED BY <1>3, <1>4

(* And conversely the trees show what lookups give.                         *)
LEMMA HoldsView ==
    ASSUME NEW p \in Procs, NEW N, NEW D, JournalInd, Ascending, ~Works(p), TreeFor(p, N, D)
    PROVE  Holds(N, View(cdbFile), {})
<1>1. \A k \in Keys : /\ Walk(k) = 0 \/ (Walk(k) \in N /\ NodeKey(Walk(k)) = k)
                      /\ \A n \in N : NodeKey(n) = k => Walk(k) = n
  BY TreesAtRest
<1>2. \A n \in N : n # 0
  BY NodesAreOffsets DEF Offsets
<1>3. View(cdbFile) = [k \in Keys |-> IF Walk(k) = 0 THEN cdbFile[k] ELSE Value(Walk(k))]
  BY DEF View, Value
<1>. QED BY <1>1, <1>2, <1>3 DEF Holds

(* The visit meets the keys that have entries.                              *)
LEMMA VisitStore ==
    ASSUME NEW p \in Procs, NEW N, NEW D, AtWork(p, N, D), CallForAllEntry(p)
    PROVE  InOrder(p, N)'
<1>1. /\ UNCHANGED <<off, recs, op, jrec, stage, snap, cdbFile, cur>>
      /\ pc[p] = "print" /\ pc'[p] = "unlock"
      /\ \E s : result'[p] = <<"keys", s>>
      /\ op[p].kind = "print" => result'[p] = <<"keys", Visited(p)>>
      /\ \/ node' = node
         \/ node' = [n \in Offsets |-> IF n \in Nodes THEN Repaired(n)[n] ELSE node[n]]
  BY DEF CallForAllEntry, Finish, Goto, call, find, files, AtWork, JournalInd, LockInd, LockType
<1>2. op[p].kind \in {"print", "sorted"}
  BY <1>1 DEF AtWork, Decided
<1>3. result'[p] # Code(0)
  BY <1>1 DEF Code
<1>4. Expected(p) = snap /\ Expected(p)' = snap /\ Exempt(p) = {} /\ Exempt(p)' = {}
  BY <1>1, <1>3 DEF Expected, Exempt, Placing, Inserting
<1>5. Holds(N, snap, {})
  BY <1>4 DEF AtWork, StoreFor
<1>6. ~Works(p) /\ N \subseteq Offsets
  BY <1>1, NodesAreOffsets DEF Works, Searching, Placing, Inserting, AtWork
<1>7. Visited(p) = {k \in Keys : snap[k] # NoData}
  <2>1. /\ Nodes = N /\ IsTree(N, D, link, KeyOf)
        /\ \A k \in Keys : /\ Walk(k) = 0 \/ (Walk(k) \in N /\ NodeKey(Walk(k)) = k)
                           /\ \A n \in N : NodeKey(n) = k => Walk(k) = n
    BY <1>6, TreesAtRest DEF AtWork
  <2>2. \A n \in N : n # 0 /\ NodeKey(n) \in Keys
    <3>1. \A n \in N : KeyOf[n] \in Keys /\ KeyOf[n] = NodeKey(n)
      BY <1>6, <2>1, KeysOfNodes DEF KeyOf
    <3>. QED BY <1>6, <3>1 DEF Offsets
  <2>3. cdb[p] = cdbFile
    BY <1>1 DEF AtWork, FilesOK, Mapped
  <2>4. \A n \in N : ~Deleted(n) <=> snap[NodeKey(n)] # NoData
    <3>1. \A n \in N : snap[NodeKey(n)] = Value(n)
      BY <1>5, <2>2 DEF Holds
    <3>2. \A n \in N : NodeData(n) # NoData
      BY RDBAssumption DEF NodeData
    <3>. QED BY <3>1, <3>2 DEF Value, Deleted
  <2>5. \A k \in Keys : Walk(k) = 0 => cdbFile[k] = snap[k]
    BY <1>5, <2>1, <2>2 DEF Holds
  <2>6. ASSUME NEW k \in Visited(p) PROVE k \in Keys /\ snap[k] # NoData
    BY <2>1, <2>2, <2>3, <2>4, <2>5 DEF Visited
  <2>7. ASSUME NEW k \in Keys, snap[k] # NoData PROVE k \in Visited(p)
    <3>1. CASE Walk(k) = 0
      BY <2>3, <2>5, <2>7, <3>1 DEF Visited
    <3>2. CASE Walk(k) # 0
      <4>1. PICK n \in N : NodeKey(n) = k
        BY <2>1, <3>2
      <4>. QED BY <2>1, <2>4, <2>7, <4>1 DEF Visited
    <3>. QED BY <3>1, <3>2
  <2>. QED BY <2>6, <2>7
<1>8. \A n \in Offsets : node'[n] \in {node[n], Repaired(n)[n]}
  BY <1>1
<1>9. \A n \in N : NodeKey(n)' = NodeKey(n) /\ Value(n)' = Value(n) /\ node'[n].dptr = node[n].dptr
  BY <1>1, <1>6, <1>8, RepairValue DEF AtWork, JournalInd
<1>10. Blank(p)' /\ Recorded(p)'
  BY <1>1 DEF Blank, Fresh, Recorded, Placing, Inserting
<1>11. StoreFor(p, N)'
  BY <1>1, <1>4, <1>9, <1>10, SameStore DEF AtWork, JournalInd, WordsType
<1>12. Decided(p)' /\ Answered(p)'
  BY <1>1, <1>2, <1>7 DEF AtWork, Decided, Writes, Answered, Active, Placing, Inserting
<1>. QED BY <1>11, <1>12 DEF InOrder

(* reorganize() writes the entries that the journal shows.                  *)
LEMMA ReorganizeStore ==
    ASSUME NEW p \in Procs, NEW N, NEW D, AtWork(p, N, D), Reorganize(p)
    PROVE  /\ InOrder(p, N)'
           /\ \/ UNCHANGED cdbFile /\ pc'[p] = "unlock"
              \/ cdbFile' = snap /\ pc'[p] = "reset1"
<1>1. /\ UNCHANGED <<off, link, node, recs, op, jrec, stage, snap, cur>>
      /\ pc[p] = "reorg"
      /\ \/ off > 1 /\ cdbFile' = View(cdb[p]) /\ pc'[p] = "reset1" /\ UNCHANGED result
         \/ ~(off > 1) /\ UNCHANGED cdbFile /\ pc'[p] = "unlock" /\ result'[p] = Code(0)
  BY DEF Reorganize, Merged, Finish, Goto, journal, call, find, AtWork, JournalInd, LockInd, LockType
<1>2. /\ op[p].kind \in {"begin", "reorganize"} /\ result[p] = Code(0)
      /\ cdb[p] = cdbFile /\ snap = [k \in Keys |-> snap[k]] /\ cdbFile = [k \in Keys |-> cdbFile[k]]
  BY <1>1 DEF AtWork, Decided, FilesOK, Mapped
<1>3. ~Works(p) /\ Expected(p) = snap /\ Exempt(p) = {}
  BY <1>1 DEF Works, Searching, Placing, Inserting, Expected, Exempt
<1>4. Holds(N, snap, {})
  BY <1>3 DEF AtWork, StoreFor
<1>5. View(cdbFile) = snap
  BY <1>2, <1>3, <1>4, ViewIs DEF AtWork
<1>6. ~(off > 1) => cdbFile = snap
  <2>. SUFFICES ASSUME ~(off > 1) PROVE cdbFile = snap
    OBVIOUS
  <2>1. N = {}
    <3>1. \A n \in N : n \in Offsets /\ n < off
      BY NodesAreOffsets DEF AtWork, TreeFor, Forest, NodesOK
    <3>2. off = 1
      BY DEF AtWork, JournalInd, WordsType
    <3>. QED BY <3>1, <3>2 DEF Offsets
  <2>2. \A k \in Keys : cdbFile[k] = snap[k]
    BY <1>4, <2>1 DEF Holds
  <2>. QED BY <1>2, <2>2
<1>7. Expected(p)' = snap /\ Exempt(p)' = {}
  BY <1>1, <1>2 DEF Expected, Updated, Exempt, Placing, Inserting
<1>8. cdbFile' = snap
  BY <1>1, <1>2, <1>5, <1>6
<1>9. Holds(N, snap, {})'
  <2>1. \A n : NodeKey(n)' = NodeKey(n) /\ Value(n)' = Value(n)
    BY <1>1 DEF NodeKey, Value, NodeData
  <2>. QED BY <1>1, <1>4, <1>8, <2>1 DEF Holds
<1>10. StoreFor(p, N)'
  <2>1. DataOK(N)'
    BY <1>1 DEF DataOK, AtWork, StoreFor
  <2>2. Blank(p)' /\ Recorded(p)'
    BY <1>1 DEF Blank, Fresh, Recorded, Placing, Inserting
  <2>. QED BY <1>1, <1>7, <1>9, <2>1, <2>2 DEF StoreFor
<1>11. Decided(p)'
  BY <1>1, <1>2 DEF Decided, Writes, Placing, Inserting, AtWork
<1>12. Answered(p)'
  BY <1>1, <1>2, <1>8 DEF Answered
<1>. QED BY <1>1, <1>8, <1>10, <1>11, <1>12 DEF InOrder

(* reset() empties the trees: the file has the entries.                     *)
LEMMA ResettingStore ==
    ASSUME NEW p \in Procs, JournalInd, FilesOK, Active(p), Decided(p), ResetOff(p) \/ ResetCounters(p)
    PROVE  Decided(p)' /\ Answered(p)'
<1>1. /\ UNCHANGED <<op, stage, snap, result, cdbFile>>
      /\ pc[p] \in {"reset1", "reset2"} /\ pc'[p] \in {"reset2", "reset3"}
  BY DEF ResetOff, ResetCounters, Goto, call, files, JournalInd, LockInd, LockType
<1>. QED BY <1>1 DEF Decided, Answered, Writes, Placing, Inserting, Active

LEMMA ResetStore ==
    ASSUME NEW p \in Procs, JournalInd, FilesOK, Active(p), Decided(p), ResetTable(p)
    PROVE  InOrder(p, {})' /\ \E D : TreeFor(p, {}, D)'
<1>1. /\ UNCHANGED <<op, stage, snap, cdbFile>>
      /\ pc[p] = "reset3" /\ pc'[p] = "unlock" /\ result'[p] = Code(0)
  BY DEF ResetTable, Finish, Goto, call, JournalInd, LockInd, LockType
<1>2. op[p].kind = "abort" \/ (op[p].kind \in {"begin", "reorganize"} /\ cdbFile = snap)
  BY <1>1 DEF FilesOK, Mapped
<1>3. Expected(p)' = cdbFile
  BY <1>1, <1>2 DEF Expected, Updated
<1>4. StoreFor(p, {})'
  BY <1>1, <1>3 DEF StoreFor, DataOK, Blank, Fresh, Recorded, Placing, Inserting, Holds
<1>5. Decided(p)' /\ Answered(p)'
  BY <1>1, <1>2 DEF Decided, Answered, Writes, Placing, Inserting, Active
<1>. QED BY <1>4, <1>5, ResetTree DEF InOrder

-----------------------------------------------------------------------------
\* The keys of a substitution lie in different slots, and who may begin a
\* transaction or reorganize is alone.
Coherent ==
    /\ Plain
    /\ \A o \in Requests :
         /\ o.kind = "substitute" => Hash[o.key] # Hash[o.key2]
         /\ o.kind \in {"begin", "commit", "abort", "reorganize"} => \A p, q \in Procs : p = q

InPlace(p, N, D) == TreeFor(p, N, D) /\ InOrder(p, N)

(* A step of an operation keeps the trees and what they hold.               *)
LEMMA WorkStore ==
    ASSUME Coherent, NEW p \in Procs, NEW N, NEW D, AtWork(p, N, D), JournalInd', Inside(p),
           ~ResetOff(p), ~ResetCounters(p), ~ResetTable(p)
    PROVE  \E M, E : InPlace(p, M, E)'
<1>1. /\ Full \subseteq {"ftruncate"} /\ JournalInd /\ TreeFor(p, N, D)
      /\ op[p].kind = "substitute" => Hash[op[p].key] # Hash[op[p].key2]
  <2>1. op[p] \in Requests
    BY DEF AtWork, JournalInd, Requested, Active
  <2>. QED BY <2>1 DEF Coherent, Plain, AtWork
<1>2. CASE FindStep(p) \/ FindHit(p) \/ FindMiss(p)
  BY <1>1, <1>2, FindStepTree, FindHitTree, FindMissTree, SearchStore DEF InPlace
<1>3. CASE Fetch(p) \/ StoreHit(p) \/ StoreMiss(p) \/ RemoveHit(p) \/ RemoveMiss(p)
  BY <1>1, <1>3, ResultTree, FetchStore, StoreStore, RemoveStore DEF InPlace
<1>4. CASE SubstituteNew(p) \/ SubstituteOld(p)
  BY <1>1, <1>4, ResultTree, SubstituteOldTree, SubstituteNewStore, SubstituteOldStore DEF InPlace
<1>5. CASE Swap(p) \/ Alloc(p) \/ ClearNode(p) \/ LogJournal(p) \/ ResizeJournal(p)
  BY <1>1, <1>5, SwapTree, AllocTree, ClearTree, LogTree, ResizeTree,
     SwapStore, PlaceStore, ClearStore, LogStore DEF InPlace
<1>6. CASE LinkNode(p)
  <2>1. PICK M : TreeFor(p, M, D)' /\ (M = N \/ (stage[p] = "old" /\ Hash[op[p].key] = Hash[op[p].key2]))
    BY <1>1, <1>6, LinkTree
  <2>2. stage[p] = "old" => op[p].kind = "substitute"
    BY <1>1, <1>6 DEF LinkNode, JournalInd, Stands, Shape, Placing
  <2>3. M = N
    BY <1>1, <2>1, <2>2
  <2>. QED BY <1>1, <1>6, <2>1, <2>3, PlaceStore DEF InPlace
<1>7. CASE HtInsert(p)
  <2>1. pc[p] \in {"ins1", "ins2", "ins3", "ins4"}
    BY <1>7 DEF HtInsert, WordName
  <2>2. CASE pc[p] = "ins1"
    BY <1>1, <1>7, <2>2, KeyWord, KeyWordStore DEF InPlace
  <2>3. CASE pc[p] = "ins2"
    <3>1. PICK M, E : TreeFor(p, M, E)' /\ M \in {N, N \cup {cur[p]}}
      BY <1>1, <1>7, <2>3, SizeWord
    <3>2. InOrder(p, N)' /\ InOrder(p, N \cup {cur[p]})'
      BY <1>7, <2>3, SizeWordStore
    <3>3. UNCHANGED cur
      BY <1>7 DEF HtInsert, find
    <3>4. InOrder(p, M)'
      BY <3>1, <3>2, <3>3 DEF InOrder, StoreFor, DataOK, Holds
    <3>. QED BY <3>1, <3>4 DEF InPlace
  <2>4. CASE pc[p] = "ins3"
    BY <1>1, <1>7, <2>4, DataWord, DataWordStore DEF InPlace
  <2>5. CASE pc[p] = "ins4"
    BY <1>1, <1>7, <2>5, DataWord, LastWordStore DEF InPlace
  <2>. QED BY <2>1, <2>2, <2>3, <2>4, <2>5
<1>8. CASE CountRecord(p) \/ Msync(p) \/ ReorganizeFails(p)
  BY <1>1, <1>8, EndTree, EndStore DEF InPlace
<1>9. CASE CallForAllEntry(p) \/ Reorganize(p)
  BY <1>1, <1>9, EndTree, VisitStore, ReorganizeStore DEF InPlace
<1>. QED BY <1>2, <1>3, <1>4, <1>5, <1>6, <1>7, <1>8, <1>9 DEF Inside

(* The files while an operation works.                                      *)
LEMMA InsideFiles ==
    ASSUME Coherent, NEW p \in Procs, JournalInd, JournalInd', FilesOK, Inside(p), Active(p),
           Decided(p),
           pc[p] = "reorg" => (UNCHANGED cdbFile /\ pc'[p] # "reset1")
                              \/ (cdbFile' = snap /\ pc'[p] = "reset1")
    PROVE  FilesOK' /\ UNCHANGED snap /\ (UNCHANGED cdbFile \/ ~txn[p])
<1>1. /\ UNCHANGED <<op, txn, ret, snap>>
      /\ \A q \in Procs : q # p => /\ pc'[q] = pc[q] /\ ~Active(q)
  <2>1. UNCHANGED call
    BY DEF Inside, FindStep, FindHit, FindMiss, Fetch, StoreHit, StoreMiss, RemoveHit, RemoveMiss,
       SubstituteOld, SubstituteNew, Swap, Alloc, LinkNode, ClearNode, LogJournal, ResizeJournal,
       HtInsert, CountRecord, Reorganize, ReorganizeFails, ResetOff, ResetCounters, ResetTable, Msync,
       CallForAllEntry
  <2>. QED BY <2>1, OneInside DEF JournalInd, call
<1>2. Active(p)'
  BY OneInside DEF JournalInd
<1>3. \A q \in Procs : q # p => result'[q] = result[q]
  BY DEF Inside, FindStep, FindHit, FindMiss, Fetch, StoreHit, StoreMiss, RemoveHit, RemoveMiss,
       SubstituteOld, SubstituteNew, Swap, Alloc, LinkNode, ClearNode, LogJournal, ResizeJournal,
       Ftruncate, MergeAndLookup, RemoveAlloc, Finish, StartFind,
       HtInsert, CountRecord, Reorganize, ReorganizeFails, ResetOff, ResetCounters, ResetTable, Msync,
       CallForAllEntry, JournalInd, LockInd, LockType
<1>4. \A q \in Procs : Exclusive(q)'
  <2>1. ASSUME NEW q \in Procs PROVE Exclusive(q)'
    <3>1. Exclusive(q)
      BY <2>1 DEF FilesOK
    <3>. QED BY <1>1, <1>2, <1>3, <2>1, <3>1 DEF Exclusive, Active
  <2>. QED BY <2>1
<1>5. CASE Reorganize(p)
  <2>1. /\ UNCHANGED cdb /\ pc[p] = "reorg" /\ pc'[p] \in {"unlock", "reset1"}
        /\ op[p].kind \in {"begin", "reorganize"} /\ op[p] \in Requests
    BY <1>5 DEF Reorganize, Finish, Goto, Decided, JournalInd, LockInd, LockType, Requested
  <2>2. \A q \in Procs : q = p
    BY <2>1 DEF Coherent
  <2>3. cdb[p] = cdbFile
    BY <2>1 DEF FilesOK, Mapped
  <2>4. Mapped(p)'
    BY <1>1, <2>1, <2>3 DEF Mapped
  <2>5. ~txn[p]
    BY <2>1 DEF FilesOK, Exclusive
  <2>6. cdbFile' = [k \in Keys |-> cdbFile'[k]]
    BY <1>1, <2>1 DEF FilesOK
  <2>. QED BY <1>1, <1>4, <2>1, <2>2, <2>4, <2>5, <2>6 DEF FilesOK
<1>6. CASE ResetTable(p)
  <2>1. UNCHANGED cdbFile /\ pc[p] = "reset3" /\ pc'[p] = "unlock"
        /\ cdb' = [cdb EXCEPT ![p] = MappedAfterReset(p)]
    BY <1>6 DEF ResetTable, Finish, Goto, JournalInd, LockInd, LockType
  <2>2. MappedAfterReset(p) = cdbFile
    BY <2>1 DEF MappedAfterReset, FilesOK, Mapped
  <2>3. \A q \in Procs : Mapped(q)'
    <3>1. ASSUME NEW q \in Procs PROVE Mapped(q)'
      <4>1. CASE q = p
        BY <1>1, <2>1, <2>2, <4>1 DEF Mapped, FilesOK
      <4>2. CASE q # p
        BY <1>1, <2>1, <3>1, <4>2 DEF Mapped, FilesOK
      <4>. QED BY <4>1, <4>2
    <3>. QED BY <3>1
  <2>. QED BY <1>1, <1>4, <2>1, <2>3 DEF FilesOK
<1>7. CASE ~Reorganize(p) /\ ~ResetTable(p)
  <2>1. UNCHANGED <<cdbFile, cdb>>
    BY <1>7 DEF Inside, FindStep, FindHit, FindMiss, Fetch, StoreHit, StoreMiss, RemoveHit, RemoveMiss,
       SubstituteOld, SubstituteNew, Swap, Alloc, LinkNode, ClearNode, LogJournal, ResizeJournal,
       Ftruncate, HtInsert, CountRecord, ReorganizeFails, ResetOff, ResetCounters, Msync,
       CallForAllEntry, files, Coherent, Plain
  <2>2. pc'[p] \in {"reset1", "reset2", "reset3"} <=> pc[p] \in {"reset1", "reset2"}
    BY <1>7 DEF Inside, FindStep, FindHit, FindMiss, Fetch, StoreHit, StoreMiss, RemoveHit, RemoveMiss,
       SubstituteOld, SubstituteNew, Swap, Alloc, LinkNode, ClearNode, LogJournal, ResizeJournal,
       Ftruncate, HtInsert, WordName, AfterInsert, CountRecord, ReorganizeFails, ResetOff, ResetCounters, Msync,
       CallForAllEntry, Finish, StartFind, Goto, Coherent, Plain, JournalInd, LockInd, LockType
  <2>3. pc[p] # "reset3"
    BY <1>7 DEF Inside, FindStep, FindHit, FindMiss, Fetch, StoreHit, StoreMiss, RemoveHit, RemoveMiss,
       SubstituteOld, SubstituteNew, Swap, Alloc, LinkNode, ClearNode, LogJournal, ResizeJournal,
       HtInsert, WordName, CountRecord, ReorganizeFails, ResetOff, ResetCounters, Msync,
       CallForAllEntry
  <2>4. \A q \in Procs : Mapped(q)'
    <3>1. ASSUME NEW q \in Procs PROVE Mapped(q)'
      <4>1. CASE q = p
        BY <1>1, <2>1, <2>2, <2>3, <4>1 DEF Mapped, FilesOK
      <4>2. CASE q # p
        BY <1>1, <2>1, <3>1, <4>2 DEF Mapped, FilesOK
      <4>. QED BY <4>1, <4>2
    <3>. QED BY <3>1
  <2>. QED BY <1>1, <1>4, <2>1, <2>4 DEF FilesOK
<1>. QED BY <1>5, <1>6, <1>7

(* What a step of another process leaves alone.                             *)
LEMMA QuietStore ==
    ASSUME NEW q \in Procs, Untouched(q), result'[q] = result[q], UNCHANGED <<node, recs, snap, cdbFile>>
    PROVE  /\ \A N : StoreFor(q, N) => StoreFor(q, N)'
           /\ Decided(q) => Decided(q)'
           /\ Answered(q) => Answered(q)'
<1>1. Expected(q)' = Expected(q) /\ Exempt(q)' = Exempt(q) /\ (Active(q)' <=> Active(q))
  BY DEF Untouched, Expected, Updated, Exempt, EntryKey, Active
<1>2. ASSUME NEW N, StoreFor(q, N) PROVE StoreFor(q, N)'
  <2>1. DataOK(N)' /\ Blank(q)' /\ Recorded(q)'
    BY <1>2 DEF StoreFor, DataOK, Blank, Fresh, Recorded, NewWord, Deleting, Untouched
  <2>2. Active(q) => Holds(N, Expected(q), Exempt(q))'
    BY <1>1, <1>2 DEF StoreFor, Holds, Value, NodeData, NodeKey
  <2>. QED BY <1>1, <2>1, <2>2 DEF StoreFor
<1>. QED BY <1>1, <1>2 DEF Untouched, Decided, Answered, Writes, Refused, Active

(* Nobody works on the trees.                                               *)
LEMMA RestStore ==
    ASSUME NEW q \in Procs, NEW N, DataOK(N), ~Active(q)', UNCHANGED <<off, node>>
    PROVE  StoreFor(q, N)'
BY DEF StoreFor, DataOK, Blank, Fresh, Recorded, Active, Placing, Inserting

LEMMA InitStoreInd == Init => StoreInd
<1>. SUFFICES ASSUME Init PROVE StoreInd  OBVIOUS
<1>1. TreeInd
  BY InitTreeInd
<1>2. FilesOK
  <2>1. cdbFile = [k \in Keys |-> cdbFile[k]]
    BY RDBAssumption DEF Init
  <2>. QED BY <2>1 DEF Init, FilesOK, Mapped, Exclusive, NoEntries, Active
<1>3. \A p \in Procs : ~Active(p)
  BY DEF Init, Active
<1>4. ASSUME NEW p \in Procs, NEW N, NEW D, TreeFor(p, N, D) PROVE StoreFor(p, N)
  <2>1. N \subseteq Offsets
    BY <1>4, NodesAreOffsets
  <2>2. DataOK(N)
    BY <2>1 DEF DataOK, Init, Words
  <2>. QED BY <1>3, <2>2 DEF StoreFor, Blank, Fresh, Recorded, Active, Placing, Inserting
<1>. QED BY <1>1, <1>2, <1>3, <1>4 DEF StoreInd, TreeInd

LEMMA CallStore ==
    ASSUME StoreInd, TreeInd', NEW p \in Procs, NEW o \in Requests, Call(p, o)
    PROVE  StoreInd'
<1>1. /\ UNCHANGED <<off, link, node, recs, stage, pnode, cur, pnode1, cur1, jrec, cdbFile, cdb, result,
                     txn, snap>>
      /\ pc[p] = "idle" /\ (o.kind \in {"begin", "reorganize"} => ~txn[p])
      /\ op' = [op EXCEPT ![p] = o] /\ ret' = [ret EXCEPT ![p] = NoResult]
      /\ pc' = [pc EXCEPT ![p] = "lock"]
  BY DEF Call, Goto, journal, find, saved1, files
<1>2. /\ pc'[p] = "lock" /\ op'[p] = o
      /\ \A q \in Procs : q # p => pc'[q] = pc[q] /\ op'[q] = op[q]
  BY <1>1 DEF StoreInd, JournalInd, LockInd, LockType
<1>3. \A q \in Procs : q # p => Untouched(q) /\ cur1'[q] = cur1[q]
  BY <1>1, <1>2 DEF Untouched
<1>4. FilesOK'
  <2>1. ASSUME NEW q \in Procs PROVE Mapped(q)' /\ Exclusive(q)'
    <3>1. Mapped(q) /\ Exclusive(q)
      BY <2>1 DEF StoreInd, FilesOK
    <3>2. CASE q = p
      BY <1>1, <1>2, <3>1, <3>2 DEF Mapped, Exclusive, Active
    <3>3. CASE q # p
      BY <1>1, <1>2, <2>1, <3>1, <3>3 DEF Mapped, Exclusive, Active
    <3>. QED BY <3>2, <3>3
  <2>2. DOMAIN ret' = Procs
    BY <1>1 DEF StoreInd, FilesOK
  <2>. QED BY <1>1, <2>1, <2>2 DEF StoreInd, FilesOK
<1>5. ASSUME NEW q \in Procs, Active(q)' PROVE Decided(q)' /\ Answered(q)'
  <2>1. q # p /\ Active(q)
    BY <1>2, <1>5 DEF Active
  <2>. QED BY <1>1, <1>3, <2>1, QuietStore DEF StoreInd
<1>6. ASSUME NEW q \in Procs, Alone(q)', pc'[q] \notin {"reset2", "reset3"}
      PROVE  \E N, D : TreeFor(q, N, D)' /\ StoreFor(q, N)'
  <2>1. Alone(q) /\ pc[q] \notin {"reset2", "reset3"}
    BY <1>1, <1>2, <1>6 DEF Alone, Active
  <2>2. PICK N, D : TreeFor(q, N, D) /\ StoreFor(q, N)
    BY <2>1 DEF StoreInd
  <2>3. CASE q = p
    <3>1. ~Works(p) /\ ~Works(p)' /\ ~Active(p)'
      BY <1>1, <1>2 DEF Works, Active, Searching, Placing, Inserting
    <3>. QED BY <1>1, <2>2, <2>3, <3>1, RestTree, RestStore DEF TreeFor, StoreFor
  <2>4. CASE q # p
    BY <1>1, <1>3, <2>2, <2>4, UntouchedTree, QuietStore
  <2>. QED BY <2>3, <2>4
<1>. QED BY <1>4, <1>5, <1>6 DEF StoreInd, TreeInd

(* lock(): the entries that the trees show are what the operation finds.    *)
LEMMA LockStore ==
    ASSUME StoreInd, TreeInd', NEW p \in Procs, Lock(p), \A q \in Procs : ~Active(q)
    PROVE  StoreInd'
<1>1. /\ UNCHANGED <<off, link, node, recs, op, result, cdbFile, cdb, ret, txn>> /\ pc[p] = "lock"
      /\ snap' = View(cdbFile) /\ op[p] \in Requests
  BY DEF Lock, journal, files, StoreInd, JournalInd, Requested
<1>2. /\ op[p].kind \in Kinds
      /\ \/ (pc' = [pc EXCEPT ![p] = "find"] /\ stage'[p] = "key")
         \/ (pc' = [pc EXCEPT ![p] = "reorg"] /\ op[p].kind \in {"begin", "reorganize"})
         \/ (pc' = [pc EXCEPT ![p] = "reset1"] /\ op[p].kind = "abort")
         \/ (pc' = [pc EXCEPT ![p] = "sync"] /\ op[p].kind = "commit")
         \/ (pc' = [pc EXCEPT ![p] = "print"] /\ op[p].kind \in {"print", "sorted"})
  <2>1. op[p].kind \in Kinds
    BY <1>1, RDBAssumption
  <2>. QED BY <2>1 DEF Lock, StartFind, Goto, Kinds, StoreInd, JournalInd, PointersType
<1>3. /\ \/ (pc'[p] = "find" /\ stage'[p] = "key")
         \/ (pc'[p] = "reorg" /\ op[p].kind \in {"begin", "reorganize"})
         \/ (pc'[p] = "reset1" /\ op[p].kind = "abort")
         \/ (pc'[p] = "sync" /\ op[p].kind = "commit")
         \/ (pc'[p] = "print" /\ op[p].kind \in {"print", "sorted"})
      /\ \A q \in Procs : q # p => pc'[q] = pc[q]
  BY <1>2 DEF StoreInd, JournalInd, LockInd, LockType
<1>4. Active(p)' /\ \A q \in Procs : q # p => ~Active(q)'
  BY <1>3 DEF Active
<1>5. FilesOK'
  <2>1. ASSUME NEW q \in Procs PROVE Mapped(q)' /\ Exclusive(q)'
    <3>1. Mapped(q) /\ Exclusive(q)
      BY <2>1 DEF StoreInd, FilesOK
    <3>2. CASE q = p
      BY <1>1, <1>3, <1>4, <3>1, <3>2 DEF Mapped, Exclusive
    <3>3. CASE q # p
      BY <1>1, <1>3, <1>4, <2>1, <3>1, <3>3 DEF Mapped, Exclusive, Active
    <3>. QED BY <3>2, <3>3
  <2>2. snap' = [k \in Keys |-> snap'[k]]
    BY <1>1 DEF View
  <2>. QED BY <1>1, <2>1, <2>2 DEF StoreInd, FilesOK
<1>6. Decided(p)' /\ Answered(p)'
  <2>1. result[p] = Code(0)
    BY DEF StoreInd, FilesOK, Exclusive
  <2>. QED BY <1>1, <1>3, <2>1 DEF Decided, Answered, Writes, Placing, Inserting
<1>7. \E N, D : TreeFor(p, N, D)' /\ StoreFor(p, N)'
  <2>1. PICK N, D : TreeFor(p, N, D) /\ StoreFor(p, N)
    BY <1>1 DEF StoreInd, Alone
  <2>2. TreeFor(p, N, D)'
    BY <2>1, LockTree DEF StoreInd
  <2>3. Holds(N, View(cdbFile), {})
    BY <1>1, <2>1, HoldsView DEF StoreInd, Works, Searching, Placing, Inserting
  <2>4. Expected(p)' = snap' /\ Exempt(p)' = {}
    BY <1>3 DEF Expected, Exempt, Placing, Inserting
  <2>5. Holds(N, Expected(p), Exempt(p))'
    BY <1>1, <2>3, <2>4 DEF Holds, Value, NodeData, NodeKey
  <2>6. DataOK(N)' /\ Blank(p)' /\ Recorded(p)'
    BY <1>1, <1>3, <2>1 DEF StoreFor, DataOK, Blank, Fresh, Recorded, Placing, Inserting
  <2>. QED BY <2>2, <2>5, <2>6 DEF StoreFor
<1>8. \A q \in Procs : Active(q)' => q = p
  BY <1>4
<1>9. \A q \in Procs : Alone(q)' => q = p
  BY <1>4 DEF Alone
<1>. QED BY <1>5, <1>6, <1>7, <1>8, <1>9 DEF StoreInd, TreeInd

LEMMA UnlockStore ==
    ASSUME Coherent, StoreInd, TreeInd', NEW p \in Procs, Unlock(p), \A q \in Procs : q # p => ~Active(q)
    PROVE  StoreInd'
<1>1. /\ UNCHANGED <<off, link, node, recs, cdbFile, cdb>> /\ pc[p] \in {"unlock", "leave"}
      /\ op[p] \in Requests /\ snap' = NoEntries
      /\ op' = [op EXCEPT ![p] = NoOp] /\ pc' = [pc EXCEPT ![p] = "idle"]
      /\ result' = [result EXCEPT ![p] = Code(0)] /\ ret' = [ret EXCEPT ![p] = result[p]]
      /\ \A q \in Procs : q # p => txn'[q] = txn[q]
      /\ txn'[p] => txn[p] \/ op[p].kind = "begin"
  <2>1. op[p] \in Requests
    BY DEF Unlock, StoreInd, JournalInd, Requested
  <2>. QED BY <2>1 DEF Unlock, Forget, Goto, journal, files, StoreInd, JournalInd, LockInd, LockType
<1>2. /\ pc'[p] = "idle" /\ op'[p] = NoOp /\ result'[p] = Code(0)
      /\ \A q \in Procs : q # p => pc'[q] = pc[q] /\ op'[q] = op[q] /\ result'[q] = result[q]
  BY <1>1 DEF StoreInd, JournalInd, LockInd, LockType
<1>3. \A q \in Procs : ~Active(q)'
  BY <1>2 DEF Active
<1>4. FilesOK'
  <2>1. ASSUME NEW q \in Procs PROVE Mapped(q)' /\ Exclusive(q)'
    <3>1. Mapped(q) /\ Exclusive(q) /\ Exclusive(p)
      BY <2>1 DEF StoreInd, FilesOK
    <3>2. CASE q = p
      <4>1. txn'[p] => \A r \in Procs : r = p
        BY <1>1, <3>1 DEF Exclusive, Coherent
      <4>. QED BY <1>1, <1>2, <3>1, <3>2, <4>1 DEF Mapped, Exclusive
    <3>3. CASE q # p
      BY <1>1, <1>2, <2>1, <3>1, <3>3 DEF Mapped, Exclusive, Active
    <3>. QED BY <3>2, <3>3
  <2>2. DOMAIN ret' = Procs
    BY <1>1 DEF StoreInd, FilesOK
  <2>. QED BY <1>1, <2>1, <2>2 DEF StoreInd, FilesOK, NoEntries
<1>5. PICK N, D : TreeFor(p, N, D) /\ StoreFor(p, N)
  BY <1>1 DEF StoreInd, Alone
<1>6. ~Works(p) /\ \A q \in Procs : ~Works(q)'
  BY <1>1, <1>3 DEF Works, Active, Searching, Placing, Inserting
<1>7. ASSUME NEW q \in Procs PROVE TreeFor(q, N, D)' /\ StoreFor(q, N)'
  BY <1>1, <1>3, <1>5, <1>6, RestTree, RestStore DEF TreeFor, StoreFor
<1>. QED BY <1>3, <1>4, <1>7 DEF StoreInd, TreeInd

LEMMA InsideStore ==
    ASSUME Coherent, StoreInd, TreeInd', NEW p \in Procs, Inside(p)
    PROVE  StoreInd' /\ UNCHANGED snap /\ (UNCHANGED cdbFile \/ ~txn[p])
<1>1. Active(p) /\ Active(p)' /\ \A q \in Procs : q # p => ~Active(q) /\ ~Active(q)'
  BY OneInside DEF StoreInd, JournalInd
<1>2. /\ JournalInd /\ JournalInd' /\ Ascending /\ FilesOK /\ Decided(p) /\ Answered(p)
      /\ pc[p] \notin {"reset2", "reset3"} => \E N, D : AtWork(p, N, D)
  BY <1>1 DEF StoreInd, TreeInd, Alone, AtWork
<1>3. /\ Decided(p)' /\ Answered(p)'
      /\ pc'[p] \notin {"reset2", "reset3"} => \E N, D : TreeFor(p, N, D)' /\ StoreFor(p, N)'
  <2>1. CASE ResetOff(p) \/ ResetCounters(p)
    <3>1. pc'[p] \in {"reset2", "reset3"}
      BY <1>2, <2>1 DEF ResetOff, ResetCounters, Goto, JournalInd, LockInd, LockType
    <3>. QED BY <1>1, <1>2, <2>1, <3>1, ResettingStore
  <2>2. CASE ResetTable(p)
    BY <1>1, <1>2, <2>2, ResetStore DEF InOrder
  <2>3. CASE ~ResetOff(p) /\ ~ResetCounters(p) /\ ~ResetTable(p)
    <3>1. pc[p] \notin {"reset2", "reset3"}
      BY <2>3 DEF Inside, FindStep, FindHit, FindMiss, Fetch, StoreHit, StoreMiss, RemoveHit, RemoveMiss,
         SubstituteOld, SubstituteNew, Swap, Alloc, LinkNode, ClearNode, LogJournal, ResizeJournal,
         HtInsert, WordName, CountRecord, Reorganize, ReorganizeFails, Msync, CallForAllEntry
    <3>2. PICK N, D : AtWork(p, N, D)
      BY <1>2, <3>1
    <3>3. PICK M, E : InPlace(p, M, E)'
      BY <1>2, <2>3, <3>2, WorkStore
    <3>. QED BY <3>3 DEF InPlace, InOrder
  <2>. QED BY <2>1, <2>2, <2>3
<1>4. pc[p] = "reorg" => (UNCHANGED cdbFile /\ pc'[p] # "reset1")
                         \/ (cdbFile' = snap /\ pc'[p] = "reset1")
  <2>. SUFFICES ASSUME pc[p] = "reorg"
                PROVE  (UNCHANGED cdbFile /\ pc'[p] # "reset1") \/ (cdbFile' = snap /\ pc'[p] = "reset1")
    OBVIOUS
  <2>1. Reorganize(p) \/ ReorganizeFails(p)
    BY DEF Inside, FindStep, FindHit, FindMiss, Fetch, StoreHit, StoreMiss, RemoveHit, RemoveMiss,
         SubstituteOld, SubstituteNew, Swap, Alloc, LinkNode, ClearNode, LogJournal, ResizeJournal,
         HtInsert, WordName, CountRecord, ResetOff, ResetCounters, ResetTable, Msync, CallForAllEntry
  <2>2. CASE Reorganize(p)
    <3>1. PICK N, D : AtWork(p, N, D)
      BY <1>2
    <3>. QED BY <2>2, <3>1, ReorganizeStore
  <2>3. CASE ReorganizeFails(p)
    BY <1>2, <2>3 DEF ReorganizeFails, Goto, files, JournalInd, LockInd, LockType
  <2>. QED BY <2>1, <2>2, <2>3
<1>5. FilesOK' /\ UNCHANGED snap /\ (UNCHANGED cdbFile \/ ~txn[p])
  BY <1>1, <1>2, <1>4, InsideFiles
<1>6. \A q \in Procs : Active(q)' => q = p
  BY <1>1
<1>7. \A q \in Procs : Alone(q)' => q = p
  BY <1>1 DEF Alone
<1>. QED BY <1>3, <1>5, <1>6, <1>7 DEF StoreInd, TreeInd

(* Who gets the lock finds nobody at work.                                  *)
LEMMA LockFrees ==
    ASSUME JournalInd, OneActive', NEW p \in Procs, Lock(p)
    PROVE  \A q \in Procs : ~Active(q)
<1>1. /\ pc[p] = "lock"
      /\ \E l \in {"find", "reorg", "reset1", "sync", "print"} : pc' = [pc EXCEPT ![p] = l]
  BY DEF Lock, StartFind, Goto
<1>2. pc'[p] \notin {"idle", "lock"} /\ \A q \in Procs : q # p => pc'[q] = pc[q]
  BY <1>1 DEF JournalInd, LockInd, LockType
<1>. QED BY <1>1, <1>2 DEF OneActive, Active

LEMMA NextStoreInd ==
    ASSUME Coherent
    PROVE  StoreInd /\ [Next]_vars => StoreInd'
<1>. SUFFICES ASSUME StoreInd, [Next]_vars PROVE StoreInd'  OBVIOUS
<1>1. TreeInd /\ TreeInd'
  <2>1. TreeInd
    BY DEF StoreInd, TreeInd
  <2>. QED BY <2>1, NextTreeInd DEF Coherent
<1>2. OneActive /\ OneActive'
  <2>1. LockInd /\ LockInd'
    BY <1>1 DEF TreeInd, JournalInd
  <2>2. LockInd => OneActive
    BY LockIndOneActive
  <2>3. (LockInd => OneActive)'
    BY LockIndOneActive, PTL
  <2>. QED BY <2>1, <2>2, <2>3
<1>3. CASE UNCHANGED vars
  <2>1. \A q \in Procs : Untouched(q) /\ cur1'[q] = cur1[q] /\ (Active(q)' <=> Active(q))
    BY <1>3 DEF vars, Untouched, Active
  <2>2. FilesOK'
    BY <1>3 DEF StoreInd, FilesOK, Mapped, Exclusive, Active, vars
  <2>3. ASSUME NEW q \in Procs, Active(q)' PROVE Decided(q)' /\ Answered(q)'
    BY <1>3, <2>1, <2>3, QuietStore DEF StoreInd, vars
  <2>4. ASSUME NEW q \in Procs, Alone(q)', pc'[q] \notin {"reset2", "reset3"}
        PROVE  \E N, D : TreeFor(q, N, D)' /\ StoreFor(q, N)'
    <3>1. PICK N, D : TreeFor(q, N, D) /\ StoreFor(q, N)
      BY <1>3, <2>1, <2>4 DEF StoreInd, Alone, vars
    <3>. QED BY <1>3, <2>1, <3>1, UntouchedTree, QuietStore DEF vars
  <2>. QED BY <1>1, <2>2, <2>3, <2>4 DEF StoreInd, TreeInd
<1>4. ASSUME NEW p \in Procs, Step(p) PROVE StoreInd'
  <2>1. CASE \E o \in Requests : Call(p, o)
    BY <1>1, <2>1, CallStore
  <2>2. CASE Lock(p)
    <3>1. \A q \in Procs : ~Active(q)
      BY <1>2, <2>2, LockFrees DEF StoreInd
    <3>. QED BY <1>1, <2>2, <3>1, LockStore
  <2>3. CASE Inside(p)
    BY <1>1, <2>3, InsideStore
  <2>4. CASE Unlock(p)
    <3>1. \A q \in Procs : q # p => ~Active(q)
      BY <1>2, <2>4 DEF OneActive, Unlock, Active
    <3>. QED BY <1>1, <2>4, <3>1, UnlockStore
  <2>5. CASE Crash(p)
    BY <2>5 DEF Crash, Coherent, Plain
  <2>. QED BY <1>4, <2>1, <2>2, <2>3, <2>4, <2>5 DEF Step
<1>. QED BY <1>3, <1>4 DEF Next

(* The entries of the database when an operation is over.                   *)
LEMMA ShownAtEnd ==
    ASSUME StoreInd, NEW p \in Procs, pc[p] \in {"unlock", "leave"}
    PROVE  /\ Expected(p) = [k \in Keys |-> Expected(p)[k]]
           /\ View(cdbFile) = Expected(p) /\ cdb[p] = cdbFile
           /\ \E N, D : TreeFor(p, N, D) /\ Holds(N, Expected(p), {})
<1>1. Active(p) /\ Alone(p) /\ ~Works(p) /\ Exempt(p) = {} /\ cdb[p] = cdbFile
  <2>1. OneActive
    BY LockIndOneActive DEF StoreInd, JournalInd
  <2>. QED BY <2>1
           DEF OneActive, Active, Alone, Works, Searching, Placing, Inserting, Exempt, StoreInd, FilesOK, Mapped
<1>2. PICK N, D : TreeFor(p, N, D) /\ Holds(N, Expected(p), {})
  BY <1>1 DEF StoreInd, StoreFor
<1>3. Expected(p) = [k \in Keys |-> Expected(p)[k]]
  <2>1. snap = [k \in Keys |-> snap[k]] /\ cdbFile = [k \in Keys |-> cdbFile[k]]
    BY DEF StoreInd, FilesOK
  <2>2. Updated(p) = [k \in Keys |-> Updated(p)[k]]
    BY <2>1 DEF Updated
  <2>. QED BY <2>1, <2>2 DEF Expected
<1>4. View(cdbFile) = Expected(p)
  <2>1. PICK e : e = Expected(p)
    OBVIOUS
  <2>. QED BY <1>1, <1>2, <1>3, <2>1, ViewIs DEF StoreInd
<1>. QED BY <1>1, <1>2, <1>3, <1>4

(* After a substitution that returns 0 the process that made it reads the   *)
(* new data under the new key, whatever trees and deleted nodes it met.     *)
(* The two keys lie in different slots: in one slot the second node may be  *)
(* linked over the first (run rdb_samepath).                                *)
THEOREM RDBSubstituteStores ==
    ASSUME Coherent
    PROVE  Spec => []SubstituteStores
<1>1. StoreInd => SubstituteStores
  <2>. SUFFICES ASSUME StoreInd, NEW p \in Procs, pc[p] = "unlock", op[p].kind = "substitute",
                       result[p] = Code(0)
                PROVE  View(cdb[p])[op[p].key2] = op[p].data
    BY DEF SubstituteStores
  <2>1. View(cdb[p]) = Expected(p) /\ DOMAIN snap = Keys
    BY ShownAtEnd DEF StoreInd, FilesOK
  <2>2. Expected(p) = [snap EXCEPT ![op[p].key] = NoData, ![op[p].key2] = op[p].data]
    BY DEF Expected, Updated
  <2>3. op[p].key2 \in Keys
    BY RDBAssumption DEF StoreInd, JournalInd, Requested
  <2>. QED BY <2>1, <2>2, <2>3
<1>. QED BY <1>1, InitStoreInd, NextStoreInd, PTL DEF Spec

-----------------------------------------------------------------------------
(* The database implements KVStore.                                         *)

\* ViewIs as a formula, to be used in the state after a step.
ViewRule ==
    \A p \in Procs : \A N, D, e :
       /\ JournalInd /\ Ascending /\ ~Works(p) /\ TreeFor(p, N, D) /\ Holds(N, e, {})
       /\ e = [k \in Keys |-> e[k]]
       => View(cdbFile) = e

LEMMA ViewRules == ViewRule
BY ViewIs DEF ViewRule

(* Lookups find the same as long as nobody writes.                          *)
LEMMA SameView ==
    ASSUME StoreInd, StoreInd', NEW p \in Procs, \A q \in Procs : ~Active(q), ~Active(p)',
           UNCHANGED <<off, link, node, recs, cdbFile>>
    PROVE  View(cdbFile)' = View(cdbFile)
<1>1. ~Works(p) /\ ~Works(p)' /\ Alone(p) /\ pc[p] \notin {"reset2", "reset3"}
  BY DEF Works, Active, Alone, Searching, Placing, Inserting
<1>2. PICK N, D : TreeFor(p, N, D)
  BY <1>1 DEF StoreInd
<1>3. TreeFor(p, N, D)'
  BY <1>1, <1>2, RestTree DEF TreeFor
<1>4. PICK e : e = View(cdbFile)
  OBVIOUS
<1>5. Holds(N, e, {})
  BY <1>1, <1>2, <1>4, HoldsView DEF StoreInd
<1>6. Holds(N, e, {})'
  BY <1>5 DEF Holds, Value, NodeData, NodeKey
<1>7. e = [k \in Keys |-> e[k]]
  BY <1>4 DEF View
<1>8. ViewRule'
  BY ViewRules, PTL
<1>9. JournalInd' /\ Ascending'
  BY DEF StoreInd
<1>. QED BY <1>1, <1>3, <1>4, <1>6, <1>7, <1>8, <1>9 DEF ViewRule

\* Whether somebody is in a transaction, and who.
LEMMA AbsTxnIs ==
    ASSUME StoreInd, NEW p \in Procs
    PROVE  /\ txn[p] => AbsTxn = p /\ AbsSaved = cdbFile /\ \A q \in Procs : q = p
           /\ (\A q \in Procs : ~txn[q]) => AbsTxn = NoProc /\ AbsSaved = NoEntries
           /\ AbsTxn = NoProc <=> \A q \in Procs : ~txn[q]
           /\ (\E q \in Procs : txn[q]) => (\A q \in Procs : q = p) /\ txn[p]
<1>1. \A q \in Procs : txn[q] => \A r \in Procs : r = q
  BY DEF StoreInd, FilesOK, Exclusive
<1>2. ASSUME txn[p] PROVE AbsTxn = p /\ AbsSaved = cdbFile /\ \A q \in Procs : q = p
  BY <1>1, <1>2 DEF AbsTxn, AbsSaved
<1>3. ASSUME \A q \in Procs : ~txn[q] PROVE AbsTxn = NoProc /\ AbsSaved = NoEntries
  BY <1>3 DEF AbsTxn, AbsSaved
<1>4. NoProc \notin Procs
  BY RDBAssumption
<1>. QED BY <1>1, <1>2, <1>3, <1>4

\* The requests that KVStore knows, without the sorted visit: it asks a count
\* that other operations may have left wrong.
Known == Requests \subseteq KV!Ops /\ \A o \in Requests : o.kind # "sorted"

LEMMA InitKV ==
    ASSUME Procs # {}
    PROVE  Init => KV!Init
<1>. SUFFICES ASSUME Init PROVE KV!Init  OBVIOUS
<1>1. PICK p \in Procs : TRUE
  OBVIOUS
<1>2. TreeInd /\ ~Busy /\ ~Works(p)
  BY InitTreeInd DEF Init, Busy, Active, Works, Searching, Placing, Inserting
<1>3. PICK N, D : TreeFor(p, N, D)
  BY <1>1, <1>2 DEF TreeInd, Alone, Busy, Active
<1>4. N = {}
  <2>1. \A n \in N : n \in Offsets /\ n < 1
    BY <1>3, NodesAreOffsets DEF TreeFor, Forest, NodesOK, Init
  <2>. QED BY <2>1 DEF Offsets
<1>5. cdbFile \in [Keys -> Data \cup {NoData}]
  BY RDBAssumption DEF Init
<1>6. View(cdbFile) = cdbFile
  <2>1. Holds({}, cdbFile, {})
    BY DEF Holds
  <2>2. PICK e : e = cdbFile
    OBVIOUS
  <2>. QED BY <1>2, <1>3, <1>4, <1>5, <2>1, <2>2, ViewIs DEF TreeInd
<1>7. \A q \in Procs : ~txn[q]
  BY DEF Init
<1>8. AbsDb \in [Keys -> Data \cup {NoData}] /\ AbsTxn = NoProc /\ AbsSaved = NoEntries
  BY <1>2, <1>5, <1>6, <1>7 DEF AbsDb, AbsTxn, AbsSaved
<1>. QED BY <1>8 DEF Init, KV!Init, NoEntries, NoResult, KV!NoResult

LEMMA CallKV ==
    ASSUME Known, StoreInd, StoreInd', NEW p \in Procs, NEW o \in Requests, Call(p, o)
    PROVE  KV!Begin(p, o)
<1>1. /\ UNCHANGED <<off, link, node, recs, cdbFile, txn, snap>> /\ pc[p] = "idle"
      /\ op' = [op EXCEPT ![p] = o] /\ ret' = [ret EXCEPT ![p] = NoResult]
      /\ pc' = [pc EXCEPT ![p] = "lock"]
  BY DEF Call, Goto, journal, files
<1>2. op[p] = NoOp
  BY <1>1 DEF StoreInd, FilesOK, Exclusive
<1>3. \A q \in Procs : Active(q)' <=> Active(q)
  BY <1>1 DEF Active, StoreInd, JournalInd, LockInd, LockType
<1>4. AbsDb' = AbsDb
  <2>1. CASE Busy
    BY <1>1, <1>3, <2>1 DEF AbsDb, Busy
  <2>2. CASE ~Busy
    <3>1. View(cdbFile)' = View(cdbFile)
      BY <1>1, <1>3, <2>2, SameView DEF Busy
    <3>. QED BY <1>3, <2>2, <3>1 DEF AbsDb, Busy
  <2>. QED BY <2>1, <2>2
<1>5. AbsTxn' = AbsTxn /\ AbsSaved' = AbsSaved
  BY <1>1 DEF AbsTxn, AbsSaved
<1>. QED BY <1>1, <1>2, <1>4, <1>5 DEF KV!Begin, NoResult, KV!NoResult

LEMMA LockKV ==
    ASSUME StoreInd, NEW p \in Procs, Lock(p), \A q \in Procs : ~Active(q)
    PROVE  UNCHANGED (KV!kvVars)
<1>1. /\ UNCHANGED <<op, ret, txn, cdbFile>> /\ snap' = View(cdbFile)
      /\ \E l \in {"find", "reorg", "reset1", "sync", "print"} : pc' = [pc EXCEPT ![p] = l]
  BY DEF Lock, StartFind, Goto, files
<1>2. Active(p)'
  BY <1>1 DEF Active, StoreInd, JournalInd, LockInd, LockType
<1>3. AbsDb' = AbsDb
  BY <1>1, <1>2 DEF AbsDb, Busy
<1>4. AbsTxn' = AbsTxn /\ AbsSaved' = AbsSaved
  BY <1>1 DEF AbsTxn, AbsSaved
<1>. QED BY <1>1, <1>3, <1>4 DEF KV!kvVars

LEMMA InsideKV ==
    ASSUME StoreInd, NEW p \in Procs, Inside(p), UNCHANGED snap, UNCHANGED cdbFile \/ ~txn[p]
    PROVE  UNCHANGED (KV!kvVars)
<1>1. UNCHANGED <<op, ret, txn>>
  <2>1. UNCHANGED call
    BY DEF Inside, FindStep, FindHit, FindMiss, Fetch, StoreHit, StoreMiss, RemoveHit, RemoveMiss,
       SubstituteOld, SubstituteNew, Swap, Alloc, LinkNode, ClearNode, LogJournal, ResizeJournal,
       HtInsert, CountRecord, Reorganize, ReorganizeFails, ResetOff, ResetCounters, ResetTable, Msync,
       CallForAllEntry
  <2>. QED BY <2>1 DEF call
<1>2. Active(p) /\ Active(p)'
  BY OneInside DEF StoreInd, JournalInd
<1>3. AbsDb' = AbsDb
  BY <1>2 DEF AbsDb, Busy
<1>4. AbsTxn' = AbsTxn
  BY <1>1 DEF AbsTxn
<1>5. AbsSaved' = AbsSaved
  <2>1. (\E q \in Procs : txn[q]) => txn[p]
    BY AbsTxnIs
  <2>. QED BY <1>1, <2>1 DEF AbsSaved
<1>. QED BY <1>1, <1>3, <1>4, <1>5 DEF KV!kvVars

(* What an operation returns, and leaves in the database, is an outcome     *)
(* that KVStore allows.                                                     *)
LEMMA OutcomeKV ==
    ASSUME Known, StoreInd, NEW p \in Procs, pc[p] \in {"unlock", "leave"}
    PROVE  <<Expected(p), result[p]>> \in KV!Outcome(op[p])
<1>1. /\ op[p] \in Requests /\ Active(p) /\ Answered(p)
      /\ op[p].kind \in {"commit", "abort"} => txn[p]
  BY DEF StoreInd, JournalInd, Requested, Active, LockInd, TxnControl
<1>2. op[p].kind \in Kinds \ {"sorted"}
  BY <1>1, RDBAssumption DEF Known
<1>3. AbsDb = snap
  BY <1>1 DEF AbsDb, Busy
<1>4. Expected(p) = IF result[p] = Code(0) THEN Updated(p) ELSE snap
  BY DEF Expected
<1>5. /\ Code(0) = <<"code", 0>> /\ Code(-1) = <<"code", -1>> /\ Code(-2) = <<"code", -2>>
      /\ Code(-4) = <<"code", -4>> /\ Code(1) = <<"code", 1>>
      /\ KV!Code(0) = Code(0) /\ KV!Code(-1) = Code(-1) /\ KV!Code(-2) = Code(-2)
      /\ KV!Code(-4) = Code(-4) /\ KV!Code(1) = Code(1) /\ KV!INSERT = INSERT
  BY DEF Code, KV!Code, INSERT, KV!INSERT
<1>6. Code(0) # Code(-1) /\ Code(0) # Code(-2) /\ Code(0) # Code(-4) /\ Code(0) # Code(1)
  BY <1>5
<1>7. CASE op[p].kind = "store"
  <2>1. KV!Outcome(op[p]) =
          IF op[p].flag = INSERT /\ snap[op[p].key] # NoData THEN {<<snap, Code(-1)>>}
          ELSE {<<[snap EXCEPT ![op[p].key] = op[p].data], Code(0)>>, <<snap, KV!Code(-3)>>}
    BY <1>3, <1>5, <1>7 DEF KV!Outcome, KV!Has
  <2>2. IF Refused(p, op[p].key) THEN result[p] = Code(-1) ELSE result[p] = Code(0)
    BY <1>1, <1>7 DEF Answered
  <2>3. Updated(p) = [snap EXCEPT ![op[p].key] = op[p].data]
    BY <1>7 DEF Updated
  <2>. QED BY <1>4, <1>6, <2>1, <2>2, <2>3 DEF Refused
<1>8. CASE op[p].kind = "remove"
  <2>1. KV!Outcome(op[p]) =
          IF snap[op[p].key] # NoData
            THEN {<<[snap EXCEPT ![op[p].key] = NoData], Code(0)>>, <<snap, KV!Code(-3)>>}
            ELSE {snap} \X {Code(-1), Code(-2)}
    BY <1>3, <1>5, <1>8 DEF KV!Outcome, KV!Has, KV!Absent
  <2>2. IF snap[op[p].key] # NoData THEN result[p] = Code(0) ELSE result[p] \in {Code(-1), Code(-2)}
    BY <1>1, <1>8 DEF Answered
  <2>3. Updated(p) = [snap EXCEPT ![op[p].key] = NoData]
    BY <1>8 DEF Updated
  <2>. QED BY <1>4, <1>6, <2>1, <2>2, <2>3
<1>9. CASE op[p].kind = "fetch"
  <2>1. KV!Outcome(op[p]) = {<<snap, <<"data", snap[op[p].key]>>>>}
    BY <1>3, <1>9 DEF KV!Outcome
  <2>2. result[p] = <<"data", snap[op[p].key]>> /\ result[p] # Code(0)
    BY <1>1, <1>5, <1>9 DEF Answered
  <2>. QED BY <1>4, <2>1, <2>2
<1>10. CASE op[p].kind = "substitute"
  <2>1. KV!Outcome(op[p]) =
          IF ~(snap[op[p].key] # NoData) THEN {snap} \X {Code(-1), Code(-2)}
          ELSE IF op[p].flag = INSERT /\ snap[op[p].key2] # NoData THEN {<<snap, Code(-4)>>}
          ELSE {<<[snap EXCEPT ![op[p].key] = NoData, ![op[p].key2] = op[p].data], Code(0)>>,
                <<snap, KV!Code(-3)>>}
    BY <1>3, <1>5, <1>10 DEF KV!Outcome, KV!Has, KV!Absent
  <2>2. IF snap[op[p].key] = NoData THEN result[p] \in {Code(-1), Code(-2)}
        ELSE IF Refused(p, op[p].key2) THEN result[p] = Code(-4) ELSE result[p] = Code(0)
    BY <1>1, <1>10 DEF Answered
  <2>3. Updated(p) = [snap EXCEPT ![op[p].key] = NoData, ![op[p].key2] = op[p].data]
    BY <1>10 DEF Updated
  <2>. QED BY <1>4, <1>6, <2>1, <2>2, <2>3 DEF Refused
<1>11. CASE op[p].kind = "print"
  <2>1. KV!Outcome(op[p]) = {<<snap, <<"keys", {k \in Keys : snap[k] # NoData}>>>>}
    BY <1>3, <1>11 DEF KV!Outcome, KV!Has
  <2>2. result[p] = <<"keys", {k \in Keys : snap[k] # NoData}>> /\ result[p] # Code(0)
    BY <1>1, <1>5, <1>11 DEF Answered
  <2>. QED BY <1>4, <2>1, <2>2
<1>12. CASE op[p].kind = "abort"
  <2>1. KV!Outcome(op[p]) = {<<AbsSaved, Code(0)>>}
    BY <1>5, <1>12 DEF KV!Outcome
  <2>2. AbsSaved = cdbFile /\ result[p] = Code(0) /\ Updated(p) = cdbFile
    BY <1>1, <1>12, AbsTxnIs DEF Answered, Updated
  <2>. QED BY <1>4, <2>1, <2>2
<1>13. CASE op[p].kind = "commit"
  <2>1. KV!Outcome(op[p]) = {<<snap, Code(0)>>}
    BY <1>3, <1>5, <1>13 DEF KV!Outcome
  <2>2. result[p] = Code(0) /\ Updated(p) = snap
    BY <1>1, <1>13 DEF Answered, Updated
  <2>. QED BY <1>4, <2>1, <2>2
<1>14. CASE op[p].kind \in {"begin", "reorganize"}
  <2>1. KV!Outcome(op[p]) = {<<snap, Code(0)>>, <<snap, Code(1)>>}
    BY <1>3, <1>5, <1>14 DEF KV!Outcome
  <2>2. result[p] \in {Code(0), Code(1)} /\ Updated(p) = snap
    BY <1>1, <1>14 DEF Answered, Updated
  <2>. QED BY <1>4, <2>1, <2>2
<1>. QED BY <1>2, <1>7, <1>8, <1>9, <1>10, <1>11, <1>12, <1>13, <1>14 DEF Kinds

LEMMA UnlockKV ==
    ASSUME Known, Coherent, StoreInd, StoreInd', NEW p \in Procs, Unlock(p),
           \A q \in Procs : q # p => ~Active(q)
    PROVE  KV!End(p)
<1>1. /\ UNCHANGED <<off, link, node, recs, cdbFile>> /\ pc[p] \in {"unlock", "leave"}
      /\ op[p] \in Requests /\ op' = [op EXCEPT ![p] = NoOp] /\ pc' = [pc EXCEPT ![p] = "idle"]
      /\ ret' = [ret EXCEPT ![p] = result[p]] /\ ret'[p] = result[p]
      /\ \A q \in Procs : q # p => txn'[q] = txn[q]
      /\ txn'[p] = (IF op[p].kind = "begin" THEN result[p] = Code(0)
                    ELSE IF op[p].kind \in {"commit", "abort"} THEN FALSE ELSE txn[p])
  <2>1. op[p] \in Requests /\ DOMAIN ret = Procs
    BY DEF Unlock, StoreInd, JournalInd, Requested, FilesOK
  <2>. QED BY <2>1 DEF Unlock, Forget, Goto, journal, files, StoreInd, JournalInd, LockInd, LockType
<1>2. Active(p) /\ Answered(p) /\ Exclusive(p) /\ (op[p].kind \in {"commit", "abort"} => txn[p])
  BY <1>1 DEF StoreInd, Active, FilesOK, JournalInd, LockInd, TxnControl
<1>3. \A q \in Procs : ~Active(q)'
  BY <1>1 DEF Active, StoreInd, JournalInd, LockInd, LockType
<1>4. AbsDb' = Expected(p)
  <2>1. PICK N, D : TreeFor(p, N, D) /\ Holds(N, Expected(p), {})
    BY <1>1, ShownAtEnd
  <2>2. PICK e : e = Expected(p)
    OBVIOUS
  <2>3. ~Works(p) /\ ~Works(p)' /\ e = [k \in Keys |-> e[k]]
    BY <1>1, <1>3, <2>2, ShownAtEnd DEF Works, Active, Searching, Placing, Inserting
  <2>4. TreeFor(p, N, D)'
    BY <1>1, <2>1, <2>3, RestTree DEF TreeFor
  <2>5. Holds(N, e, {})'
    BY <1>1, <2>1, <2>2 DEF Holds, Value, NodeData, NodeKey
  <2>6. ViewRule'
    BY ViewRules, PTL
  <2>7. View(cdbFile)' = e
    BY <2>3, <2>4, <2>5, <2>6 DEF ViewRule, StoreInd
  <2>. QED BY <1>3, <2>2, <2>7 DEF AbsDb, Busy
<1>5. AbsDb = snap
  BY <1>2 DEF AbsDb, Busy
<1>6. op[p] # NoOp /\ NoProc # p
  BY <1>1, RDBAssumption
<1>7. AbsTxn \in {NoProc, p}
  BY AbsTxnIs
<1>8. /\ txn'[p] => AbsTxn' = p /\ AbsSaved' = cdbFile
      /\ (\A q \in Procs : ~txn'[q]) => AbsTxn' = NoProc /\ AbsSaved' = NoEntries
      /\ (\E q \in Procs : txn'[q]) => txn'[p]
  <2>1. \A q \in Procs : txn'[q] => \A r \in Procs : r = q
    BY DEF StoreInd, FilesOK, Exclusive
  <2>2. ASSUME txn'[p] PROVE AbsTxn' = p /\ AbsSaved' = cdbFile
    BY <1>1, <2>1, <2>2 DEF AbsTxn, AbsSaved
  <2>3. ASSUME \A q \in Procs : ~txn'[q] PROVE AbsTxn' = NoProc /\ AbsSaved' = NoEntries
    BY <2>3 DEF AbsTxn, AbsSaved
  <2>. QED BY <2>1, <2>2, <2>3
<1>9. /\ txn[p] => AbsTxn = p /\ AbsSaved = cdbFile
      /\ (\A q \in Procs : ~txn[q]) => AbsTxn = NoProc
      /\ (\E q \in Procs : txn[q]) => txn[p] /\ \A q \in Procs : q = p
  BY AbsTxnIs
<1>10. /\ AbsTxn' = (IF op[p].kind = "begin" /\ ret'[p] = Code(0) THEN p
                     ELSE IF op[p].kind \in {"commit", "abort"} THEN NoProc ELSE AbsTxn)
       /\ AbsSaved' = (IF AbsTxn' = NoProc THEN NoEntries ELSE IF AbsTxn = NoProc THEN AbsDb ELSE AbsSaved)
  <2>1. CASE op[p].kind = "begin"
    <3>1. ~txn[p] /\ \A q \in Procs : ~txn[q]
      BY <1>1, <1>2, <1>9, <2>1 DEF Exclusive, Active
    <3>2. CASE result[p] = Code(0)
      <4>1. txn'[p] /\ cdbFile = snap
        BY <1>1, <1>2, <2>1, <3>2 DEF Answered
      <4>. QED BY <1>1, <1>5, <1>6, <1>8, <1>9, <2>1, <3>1, <3>2, <4>1
    <3>3. CASE result[p] # Code(0)
      <4>1. \A q \in Procs : ~txn'[q]
        BY <1>1, <2>1, <3>1, <3>3
      <4>. QED BY <1>1, <1>8, <1>9, <2>1, <3>1, <3>3, <4>1
    <3>. QED BY <3>2, <3>3
  <2>2. CASE op[p].kind \in {"commit", "abort"}
    <3>1. ~txn'[p]
      BY <1>1, <2>2
    <3>2. \A q \in Procs : ~txn'[q]
      BY <1>8, <3>1
    <3>. QED BY <1>8, <2>2, <3>2
  <2>3. CASE op[p].kind \notin {"begin", "commit", "abort"}
    <3>1. txn'[p] = txn[p]
      BY <1>1, <2>3
    <3>2. CASE txn[p]
      BY <1>6, <1>8, <1>9, <2>3, <3>1, <3>2
    <3>3. CASE ~txn[p]
      BY <1>8, <1>9, <2>3, <3>1, <3>3
    <3>. QED BY <3>2, <3>3
  <2>. QED BY <2>1, <2>2, <2>3
<1>11. \E out \in KV!Outcome(op[p]) : AbsDb' = out[1] /\ ret' = [ret EXCEPT ![p] = out[2]]
  BY <1>1, <1>4, OutcomeKV
<1>12. Code(0) = KV!Code(0)
  BY DEF Code, KV!Code
<1>. QED BY <1>1, <1>6, <1>7, <1>10, <1>11, <1>12 DEF KV!End, NoEntries

(* Every step of the database is a step of KVStore or leaves it as it is.   *)
LEMMA NextKV ==
    ASSUME Known, Coherent, StoreInd, StoreInd', [Next]_vars
    PROVE  [KV!Next]_(KV!kvVars)
<1>1. OneActive /\ OneActive'
  <2>1. LockInd /\ LockInd'
    BY DEF StoreInd, JournalInd
  <2>2. LockInd => OneActive
    BY LockIndOneActive
  <2>3. (LockInd => OneActive)'
    BY LockIndOneActive, PTL
  <2>. QED BY <2>1, <2>2, <2>3
<1>2. CASE UNCHANGED vars
  <2>1. AbsTxn' = AbsTxn /\ AbsSaved' = AbsSaved /\ (Busy' <=> Busy) /\ UNCHANGED <<op, ret>>
    BY <1>2 DEF vars, AbsTxn, AbsSaved, Busy, Active
  <2>2. AbsDb' = AbsDb
    <3>1. CASE Busy
      BY <1>2, <2>1, <3>1 DEF vars, AbsDb
    <3>2. CASE ~Busy
      <4>1. PICK p \in Procs : TRUE
        BY DEF Coherent, Plain
      <4>2. View(cdbFile)' = View(cdbFile)
        BY <1>2, <2>1, <3>2, <4>1, SameView DEF Busy, vars
      <4>. QED BY <2>1, <3>2, <4>2 DEF AbsDb
    <3>. QED BY <3>1, <3>2
  <2>. QED BY <2>1, <2>2 DEF KV!kvVars
<1>3. ASSUME NEW p \in Procs, Step(p) PROVE [KV!Next]_(KV!kvVars)
  <2>1. ASSUME NEW o \in Requests, Call(p, o) PROVE KV!Next
    <3>1. KV!Begin(p, o)
      BY <2>1, CallKV
    <3>. QED BY <3>1 DEF KV!Next, Known
  <2>2. CASE Lock(p)
    <3>1. \A q \in Procs : ~Active(q)
      BY <1>1, <2>2, LockFrees DEF StoreInd
    <3>. QED BY <2>2, <3>1, LockKV
  <2>3. CASE Inside(p)
    <3>1. TreeInd'
      BY DEF StoreInd, TreeInd
    <3>2. UNCHANGED snap /\ (UNCHANGED cdbFile \/ ~txn[p])
      BY <2>3, <3>1, InsideStore
    <3>. QED BY <2>3, <3>2, InsideKV
  <2>4. CASE Unlock(p)
    <3>1. \A q \in Procs : q # p => ~Active(q)
      BY <1>1, <2>4 DEF OneActive, Unlock, Active
    <3>2. KV!End(p)
      BY <2>4, <3>1, UnlockKV
    <3>. QED BY <3>2 DEF KV!Next
  <2>5. CASE Crash(p)
    BY <2>5 DEF Crash, Coherent, Plain
  <2>. QED BY <1>3, <2>1, <2>2, <2>3, <2>4, <2>5 DEF Step
<1>. QED BY <1>2, <1>3 DEF Next

(* The database is the map that KVStore promises, whatever the processes,   *)
(* keys, hash function and order of keys: the words that an operation       *)
(* writes one by one, in trees that others left, change the entries once    *)
(* and as asked, with the documented result, and a transaction that is      *)
(* aborted leaves what was there when it began.                             *)
THEOREM RDBImplementsKVStore ==
    ASSUME Coherent, Known
    PROVE  Spec => ImplementsKVStore
<1>1. Init => StoreInd /\ KV!Init
  BY InitStoreInd, InitKV DEF Coherent, Plain
<1>2. StoreInd /\ [Next]_vars => StoreInd' /\ [KV!Next]_(KV!kvVars)
  BY NextStoreInd, NextKV
<1>. QED BY <1>1, <1>2, PTL DEF Spec, ImplementsKVStore, KV!Spec
=============================================================================
