----------------------------- MODULE RDBProofs -----------------------------
(***************************************************************************)
(* Proofs about RDB for every set of processes, keys and requests.         *)
(*                                                                         *)
(* The lock: the operations of the processes exclude each other, whatever  *)
(* crashes and failed reorganizations happen, and the lock is given back   *)
(* as long as no reorganization fails.                                     *)
(*                                                                         *)
(* The journal: its words and the pointers into it keep their types,       *)
(* msync() never gets a negative range, and what is written lies inside    *)
(* the journal file.                                                       *)
(***************************************************************************)
EXTENDS RDB, TLAPS

\* The lock() calls that a process has to undo: the one of its transaction,
\* and the one of the operation unless it runs under that of the transaction.
InTxn(p) == IF txn[p] THEN 1 ELSE 0
InOp(p) == IF Active(p) /\ op[p].kind \notin {"commit", "abort"} THEN 1 ELSE 0

LockType ==
    /\ locked \in [Procs -> Nat] /\ sem \in {0, 1}
    /\ pc \in [Procs -> PcLabels] /\ txn \in [Procs -> BOOLEAN]
    /\ op \in [Procs -> Requests \cup {NoOp}]
    /\ DOMAIN result = Procs

\* What may be requested inside and outside a transaction.
TxnControl ==
    \A p \in Procs :
       pc[p] # "idle" =>
         /\ op[p].kind \in {"commit", "abort"} => txn[p]
         /\ op[p].kind = "begin" => ~txn[p]

\* Every call to be undone is counted, and the counter of one process at most
\* is not 0, exactly when the semaphore is taken.
Counted == \A p \in Procs : InTxn(p) + InOp(p) <= locked[p]
OneHolder == \A p, q \in Procs : locked[p] > 0 /\ locked[q] > 0 => p = q
SemTaken == sem = 0 <=> \E p \in Procs : locked[p] > 0

LockInd == LockType /\ TxnControl /\ Counted /\ OneHolder /\ SemTaken

ActiveLabels == PcLabels \ {"idle", "lock"}

\* The steps between lock() and unlock() do not touch what LockInd is about,
\* except for the label of the process.
Moves(p) ==
    /\ Active(p)
    /\ UNCHANGED <<sem, locked, op, txn>>
    /\ \E l \in ActiveLabels : pc' = [pc EXCEPT ![p] = l]
    /\ DOMAIN result' = Procs

-----------------------------------------------------------------------------
(* A step of an operation that has the lock only moves its process to       *)
(* another label inside the operation.                                      *)
LEMMA InsideMoves ==
    ASSUME LockType, NEW p \in Procs, Inside(p)
    PROVE  Moves(p)
<1>. USE DEF LockType, Moves, Active, ActiveLabels, PcLabels, Goto, call, lockV, find
<1>1. CASE FindStep(p)
  <2>1. pc' = [pc EXCEPT ![p] = "find"]  BY <1>1 DEF FindStep
  <2>. QED  BY <1>1, <2>1 DEF FindStep
<1>2. CASE FindHit(p)  BY <1>2 DEF FindHit
<1>3. CASE FindMiss(p)  BY <1>3 DEF FindMiss
<1>4. CASE Fetch(p)  BY <1>4 DEF Fetch, Finish
<1>5. CASE StoreHit(p)  BY <1>5 DEF StoreHit, Finish
<1>6. CASE StoreMiss(p)  BY <1>6 DEF StoreMiss, Finish
<1>7. CASE RemoveHit(p)  BY <1>7 DEF RemoveHit, Finish
<1>8. CASE RemoveMiss(p)  BY <1>8 DEF RemoveMiss, Finish
<1>9. CASE SubstituteOld(p)  BY <1>9 DEF SubstituteOld, Finish, StartFind
<1>10. CASE SubstituteNew(p)  BY <1>10 DEF SubstituteNew, Finish
<1>11. CASE Swap(p)  BY <1>11 DEF Swap
<1>12. CASE Alloc(p)  BY <1>12 DEF Alloc
<1>13. CASE LinkNode(p)  BY <1>13 DEF LinkNode
<1>14. CASE ClearNode(p)  BY <1>14 DEF ClearNode
<1>15. CASE LogJournal(p)  BY <1>15 DEF LogJournal
<1>16. CASE ResizeJournal(p)
  <2>1. CASE Ftruncate(p) \/ MergeAndLookup(p)
    <3>1. pc' = [pc EXCEPT ![p] = "log"] /\ result' = result
          BY <1>16, <2>1 DEF ResizeJournal, Ftruncate, MergeAndLookup
    <3>. QED  BY <1>16, <3>1 DEF ResizeJournal
  <2>2. CASE RemoveAlloc(p)  BY <1>16, <2>2 DEF ResizeJournal, RemoveAlloc, Finish
  <2>. QED  BY <1>16, <2>1, <2>2 DEF ResizeJournal
<1>17. CASE HtInsert(p)
  <2>1. AfterInsert(p)[pc[p]] \in ActiveLabels  BY <1>17 DEF HtInsert, AfterInsert, WordName
  <2>. QED  BY <1>17, <2>1 DEF HtInsert, WordName
<1>18. CASE CountRecord(p)  BY <1>18 DEF CountRecord, Finish
<1>19. CASE Reorganize(p)  BY <1>19 DEF Reorganize, Finish
<1>20. CASE ReorganizeFails(p)  BY <1>20 DEF ReorganizeFails
<1>21. CASE ResetOff(p)  BY <1>21 DEF ResetOff
<1>22. CASE ResetCounters(p)  BY <1>22 DEF ResetCounters
<1>23. CASE ResetTable(p)  BY <1>23 DEF ResetTable, Finish
<1>24. CASE Msync(p)  BY <1>24 DEF Msync, Finish
<1>25. CASE CallForAllEntry(p)  BY <1>25 DEF CallForAllEntry, Finish
<1>. QED
  BY <1>1, <1>2, <1>3, <1>4, <1>5, <1>6, <1>7, <1>8, <1>9, <1>10, <1>11, <1>12, <1>13, <1>14,
     <1>15, <1>16, <1>17, <1>18, <1>19, <1>20, <1>21, <1>22, <1>23, <1>24, <1>25 DEF Inside

(* The invariant holds initially.                                           *)
LEMMA InitLockInd == Init => LockInd
<1>. SUFFICES ASSUME Init PROVE LockInd  OBVIOUS
<1>1. LockType  BY DEF Init, LockType, PcLabels
<1>2. TxnControl /\ OneHolder /\ SemTaken  BY DEF Init, TxnControl, OneHolder, SemTaken
<1>3. Counted  BY DEF Init, Counted, InTxn, InOp, Active
<1>. QED  BY <1>1, <1>2, <1>3 DEF LockInd

(* A step inside an operation preserves the invariant.                      *)
LEMMA MovesInd ==
    ASSUME LockInd, NEW p \in Procs, Moves(p)
    PROVE  LockInd'
<1>. USE DEF LockInd
<1>1. LockType'  BY DEF LockType, Moves, ActiveLabels
<1>2. \A q \in Procs : Active(q)' <=> Active(q)
      BY DEF LockType, Moves, ActiveLabels, Active, PcLabels
<1>3. \A q \in Procs : pc'[q] # "idle" => pc[q] # "idle"
      BY DEF LockType, Moves, Active
<1>4. TxnControl'  BY <1>3 DEF TxnControl, Moves
<1>5. Counted'
  <2>1. \A q \in Procs : InTxn(q)' = InTxn(q) /\ InOp(q)' = InOp(q)
        BY <1>2 DEF InTxn, InOp, Moves
  <2>. QED  BY <2>1 DEF Counted, Moves
<1>6. OneHolder' /\ SemTaken'  BY DEF OneHolder, SemTaken, Moves
<1>. QED  BY <1>1, <1>4, <1>5, <1>6

(* A request preserves the invariant: the process is not active yet.        *)
LEMMA CallInd ==
    ASSUME LockInd, NEW p \in Procs, NEW o \in Requests, Call(p, o)
    PROVE  LockInd'
<1>. USE DEF LockInd
<1>1. /\ pc[p] = "idle" /\ pc' = [pc EXCEPT ![p] = "lock"]
      /\ op' = [op EXCEPT ![p] = o]
      /\ UNCHANGED <<sem, locked, txn, result>>
      BY DEF Call, Goto, lockV
<1>2. LockType'  BY <1>1 DEF LockType, PcLabels
<1>3. TxnControl'  BY <1>1 DEF TxnControl, LockType, Call
<1>4. Counted'
  <2>1. \A q \in Procs : Active(q)' <=> Active(q)  BY <1>1 DEF Active, LockType
  <2>2. \A q \in Procs : InTxn(q)' = InTxn(q) /\ InOp(q)' = InOp(q)
        BY <1>1, <2>1 DEF InTxn, InOp, Active, LockType
  <2>. QED  BY <1>1, <2>2 DEF Counted
<1>5. OneHolder' /\ SemTaken'  BY <1>1 DEF OneHolder, SemTaken
<1>. QED  BY <1>2, <1>3, <1>4, <1>5

(* lock() preserves the invariant: it returns to a process that has the     *)
(* semaphore already, or when no process has it.                            *)
LEMMA LockPreserves ==
    ASSUME LockInd, NEW p \in Procs, Lock(p)
    PROVE  LockInd'
<1>. USE DEF LockInd
<1>1. /\ pc[p] = "lock" /\ (locked[p] > 0 \/ sem = 1)
      /\ sem' = 0
      /\ locked' = IF op[p].kind \in {"commit", "abort"} THEN locked
                   ELSE [locked EXCEPT ![p] = @ + 1]
      /\ UNCHANGED <<op, txn, result>>
      /\ \E l \in ActiveLabels : pc' = [pc EXCEPT ![p] = l]
      BY DEF Lock, CanLock, StartFind, Goto, ActiveLabels, PcLabels
<1>2. LockType'  BY <1>1 DEF LockType, ActiveLabels
<1>3. TxnControl'  BY <1>1 DEF TxnControl, LockType
<1>4. \A q \in Procs : q # p => locked[q] = 0
      BY <1>1 DEF OneHolder, SemTaken, LockType
<1>5. \A q \in Procs : q # p => locked'[q] = locked[q] /\ InTxn(q)' = InTxn(q) /\ InOp(q)' = InOp(q)
      BY <1>1 DEF LockType, InTxn, InOp, Active
<1>6. InTxn(p)' = InTxn(p) /\ InOp(p) = 0  BY <1>1 DEF InTxn, InOp, Active
<1>7. CASE op[p].kind \in {"commit", "abort"}
  <2>1. locked' = locked /\ txn[p] /\ InOp(p)' = 0
        BY <1>1, <1>7 DEF TxnControl, InOp
  <2>2. InTxn(p) = 1  BY <2>1 DEF InTxn
  <2>3. Counted'  BY <1>5, <1>6, <2>1 DEF Counted
  <2>4. locked[p] > 0  BY <1>6, <2>2 DEF Counted, LockType
  <2>. QED  BY <1>1, <1>2, <1>3, <1>4, <2>1, <2>3, <2>4 DEF OneHolder, SemTaken
<1>8. CASE op[p].kind \notin {"commit", "abort"}
  <2>1. locked'[p] = locked[p] + 1  BY <1>1, <1>8 DEF LockType
  <2>2. InOp(p)' = 1
    <3>1. Active(p)'  BY <1>1 DEF LockType, ActiveLabels, Active
    <3>. QED  BY <1>1, <1>8, <3>1 DEF InOp
  <2>3. Counted'
    <3>1. InTxn(p) \in {0, 1} /\ locked[p] \in Nat  BY DEF InTxn, LockType
    <3>. QED  BY <1>5, <1>6, <2>1, <2>2, <3>1 DEF Counted
  <2>4. locked'[p] > 0  BY <2>1 DEF LockType
  <2>. QED  BY <1>1, <1>2, <1>3, <1>4, <1>5, <2>3, <2>4 DEF OneHolder, SemTaken
<1>. QED  BY <1>7, <1>8

(* The return of an operation preserves the invariant: the semaphore is     *)
(* posted when no call is left to be undone.                                *)
LEMMA UnlockPreserves ==
    ASSUME LockInd, NEW p \in Procs, Unlock(p)
    PROVE  LockInd'
<1>. USE DEF LockInd
<1>1. /\ pc[p] \in {"unlock", "leave"} /\ pc' = [pc EXCEPT ![p] = "idle"]
      /\ locked' = [locked EXCEPT ![p] = LockedAfter(p)]
      /\ sem' = IF LockedAfter(p) = 0 THEN 1 ELSE sem
      /\ op' = [op EXCEPT ![p] = NoOp]
      /\ result' = [result EXCEPT ![p] = Code(0)]
      /\ txn' = [txn EXCEPT ![p] = IF op[p].kind = "begin" THEN result[p] = Code(0)
                                  ELSE IF op[p].kind \in {"commit", "abort"} THEN FALSE ELSE @]
      BY DEF Unlock, Forget, Goto
<1>2. Active(p) /\ pc[p] # "idle"  BY <1>1 DEF Active
<1>3. ~Active(p)' /\ InOp(p)' = 0  BY <1>1 DEF Active, InOp, LockType
<1>4. locked[p] \in Nat /\ locked[p] > 0
  <2>1. CASE op[p].kind \in {"commit", "abort"}
    <3>1. InTxn(p) = 1 /\ InOp(p) = 0  BY <1>2, <2>1 DEF TxnControl, InTxn, InOp
    <3>. QED  BY <3>1 DEF Counted, LockType
  <2>2. CASE op[p].kind \notin {"commit", "abort"}
    <3>1. InTxn(p) \in {0, 1} /\ InOp(p) = 1  BY <1>2, <2>2 DEF InTxn, InOp
    <3>. QED  BY <3>1 DEF Counted, LockType
  <2>. QED  BY <2>1, <2>2
<1>5. LockedAfter(p) \in Nat /\ InTxn(p)' <= LockedAfter(p)
  <2>1. CASE op[p].kind = "begin"
    <3>1. LockedAfter(p) \in Nat /\ LockedAfter(p) >= 1  BY <1>4, <2>1 DEF LockedAfter
    <3>2. InTxn(p)' \in {0, 1}  BY DEF InTxn
    <3>. QED  BY <3>1, <3>2
  <2>2. CASE op[p].kind \in {"commit", "abort"}
    <3>1. LockedAfter(p) \in Nat  BY <1>4, <2>2 DEF LockedAfter
    <3>2. InTxn(p)' = 0  BY <1>1, <2>2 DEF InTxn, LockType
    <3>. QED  BY <3>1, <3>2
  <2>3. CASE op[p].kind \notin {"begin", "commit", "abort"}
    <3>1. InTxn(p) \in {0, 1} /\ InOp(p) = 1  BY <1>2, <2>3 DEF InTxn, InOp
    <3>2. InTxn(p) + 1 <= locked[p]  BY <3>1 DEF Counted
    <3>3. InTxn(p)' = InTxn(p)  BY <1>1, <2>3 DEF InTxn, LockType
    <3>4. LockedAfter(p) \in Nat /\ LockedAfter(p) >= locked[p] - 1
          BY <1>4, <2>3 DEF LockedAfter
    <3>. QED  BY <1>4, <3>1, <3>2, <3>3, <3>4
  <2>. QED  BY <2>1, <2>2, <2>3
<1>6. LockType'
  <2>1. txn' \in [Procs -> BOOLEAN]  BY <1>1, Zenon DEF LockType
  <2>2. pc' \in [Procs -> PcLabels] /\ op' \in [Procs -> Requests \cup {NoOp}]
        BY <1>1 DEF LockType, PcLabels
  <2>3. locked' \in [Procs -> Nat] /\ sem' \in {0, 1} /\ DOMAIN result' = Procs
        BY <1>1, <1>5 DEF LockType
  <2>. QED  BY <2>1, <2>2, <2>3 DEF LockType
<1>7. \A q \in Procs : q # p => /\ locked'[q] = locked[q] /\ locked[q] = 0
                               /\ InTxn(q)' = InTxn(q) /\ InOp(q)' = InOp(q)
  <2>1. \A q \in Procs : q # p => locked[q] = 0  BY <1>4 DEF OneHolder, LockType
  <2>2. \A q \in Procs : q # p => /\ locked'[q] = locked[q] /\ txn'[q] = txn[q]
                                 /\ pc'[q] = pc[q] /\ op'[q] = op[q]
        BY <1>1 DEF LockType
  <2>. QED  BY <2>1, <2>2 DEF InTxn, InOp, Active
<1>8. TxnControl'
  <2>1. \A q \in Procs : q # p => pc'[q] = pc[q] /\ op'[q] = op[q] /\ txn'[q] = txn[q]
        BY <1>1 DEF LockType
  <2>2. pc'[p] = "idle"  BY <1>1 DEF LockType
  <2>. QED  BY <2>1, <2>2 DEF TxnControl
<1>9. locked'[p] = LockedAfter(p)  BY <1>1 DEF LockType
<1>10. Counted'
  <2>1. InTxn(p)' \in {0, 1}  BY DEF InTxn
  <2>. QED  BY <1>3, <1>5, <1>7, <1>9, <2>1 DEF Counted
<1>11. OneHolder'  BY <1>7 DEF OneHolder
<1>12. SemTaken'
  <2>1. sem = 0  BY <1>4 DEF SemTaken
  <2>. QED  BY <1>1, <1>5, <1>7, <1>9, <2>1 DEF SemTaken
<1>. QED  BY <1>6, <1>8, <1>10, <1>11, <1>12

(* The death of a process preserves the invariant: its counter is gone and  *)
(* the unit it held is posted again.                                        *)
LEMMA CrashPreserves ==
    ASSUME LockInd, NEW p \in Procs, Crash(p)
    PROVE  LockInd'
<1>. USE DEF LockInd
<1>1. /\ pc' = [pc EXCEPT ![p] = "idle"]
      /\ locked' = [locked EXCEPT ![p] = 0]
      /\ sem' = IF locked[p] > 0 THEN 1 ELSE sem
      /\ op' = [op EXCEPT ![p] = NoOp]
      /\ txn' = [txn EXCEPT ![p] = FALSE]
      /\ result' = [result EXCEPT ![p] = Code(0)]
      BY DEF Crash, Forget, Goto
<1>2. LockType'
  <2>1. txn' \in [Procs -> BOOLEAN]  BY <1>1, Zenon DEF LockType
  <2>. QED  BY <1>1, <2>1 DEF LockType, PcLabels
<1>3. \A q \in Procs : q # p => /\ locked'[q] = locked[q] /\ txn'[q] = txn[q]
                               /\ pc'[q] = pc[q] /\ op'[q] = op[q]
      BY <1>1 DEF LockType
<1>4. pc'[p] = "idle" /\ locked'[p] = 0 /\ ~txn'[p]  BY <1>1 DEF LockType
<1>5. TxnControl'  BY <1>3, <1>4 DEF TxnControl
<1>6. Counted'
  <2>1. InTxn(p)' = 0 /\ InOp(p)' = 0  BY <1>4 DEF InTxn, InOp, Active
  <2>2. \A q \in Procs : q # p => InTxn(q)' = InTxn(q) /\ InOp(q)' = InOp(q)
        BY <1>3 DEF InTxn, InOp, Active
  <2>. QED  BY <1>3, <1>4, <2>1, <2>2 DEF Counted
<1>7. OneHolder'  BY <1>3, <1>4 DEF OneHolder
<1>8. SemTaken'  BY <1>1, <1>3, <1>4 DEF SemTaken, OneHolder, LockType
<1>. QED  BY <1>2, <1>5, <1>6, <1>7, <1>8

(* Every step preserves the invariant.                                      *)
LEMMA NextLockInd == LockInd /\ [Next]_vars => LockInd'
<1>. SUFFICES ASSUME LockInd, [Next]_vars PROVE LockInd'  OBVIOUS
<1>1. CASE UNCHANGED vars
  BY <1>1 DEF vars, LockInd, LockType, TxnControl, Counted, OneHolder, SemTaken, InTxn, InOp, Active
<1>2. ASSUME NEW p \in Procs, Step(p) PROVE LockInd'
  <2>1. CASE \E o \in Requests : Call(p, o)  BY <2>1, CallInd
  <2>2. CASE Lock(p)  BY <2>2, LockPreserves
  <2>3. CASE Inside(p)  BY <2>3, InsideMoves, MovesInd DEF LockInd
  <2>4. CASE Unlock(p)  BY <2>4, UnlockPreserves
  <2>5. CASE Crash(p)  BY <2>5, CrashPreserves
  <2>. QED  BY <1>2, <2>1, <2>2, <2>3, <2>4, <2>5 DEF Step
<1>. QED  BY <1>1, <1>2 DEF Next

(* A process in an operation has a call to be undone, so it is the holder.  *)
LEMMA LockIndOneActive == LockInd => OneActive
<1>. SUFFICES ASSUME LockInd, NEW p \in Procs, NEW q \in Procs, Active(p), Active(q)
              PROVE p = q
     BY DEF OneActive
<1>1. ASSUME NEW r \in Procs, Active(r) PROVE locked[r] > 0
  <2>1. InTxn(r) \in {0, 1} /\ InOp(r) \in {0, 1} /\ InTxn(r) + InOp(r) <= locked[r]
        BY DEF LockInd, Counted, InTxn, InOp
  <2>2. InTxn(r) = 1 \/ InOp(r) = 1
        BY <1>1 DEF LockInd, TxnControl, InTxn, InOp, Active
  <2>. QED  BY <2>1, <2>2 DEF LockInd, LockType
<1>. QED  BY <1>1 DEF LockInd, OneHolder

(* The operations of the processes that share a database never overlap,     *)
(* with transactions, crashes at any point and failed reorganizations: every *)
(* lookup and every update of the journal runs alone.                       *)
THEOREM RDBOneActive == Spec => []OneActive
BY InitLockInd, NextLockInd, LockIndOneActive, PTL DEF Spec

-----------------------------------------------------------------------------
\* Where a process that begins a transaction may stand.
BeginLabels == {"lock", "reorg", "reset1", "reset2", "reset3", "unlock"}

\* Without failed reorganizations every lock() has its unlock().
Exact == \A p \in Procs : locked[p] = InTxn(p) + InOp(p)
BeginControl ==
    \A p \in Procs :
       /\ pc[p] # "leave"
       /\ pc[p] # "idle" /\ op[p].kind = "begin" =>
            pc[p] \in BeginLabels /\ (pc[p] = "unlock" => result[p] = Code(0))

ExactInd == LockInd /\ Exact /\ BeginControl

(* Without failed reorganizations an operation reaches no return that       *)
(* forgets unlock(), and beginTransaction() succeeds.                       *)
LEMMA InsideBegin ==
    ASSUME ReorgFaults = {}, ExactInd, NEW p \in Procs, Inside(p)
    PROVE  BeginControl'
<1>. DEFINE Mine == /\ pc'[p] # "leave"
                    /\ op[p].kind = "begin" =>
                         pc'[p] \in BeginLabels /\ (pc'[p] = "unlock" => result'[p] = Code(0))
<1>0. LockType /\ BeginControl /\ Moves(p)  BY InsideMoves DEF ExactInd, LockInd
<1>1. SUFFICES Mine /\ \A q \in Procs : q # p => result'[q] = result[q]
  <2>1. \A q \in Procs : q # p => pc'[q] = pc[q]  BY <1>0 DEF LockType, Moves
  <2>2. op' = op /\ pc[p] # "idle"  BY <1>0 DEF Moves, Active
  <2>. QED  BY <1>0, <1>1, <2>1, <2>2 DEF BeginControl
<1>2. \A q \in Procs : q # p => result'[q] = result[q]
  BY <1>0 DEF LockType, Inside, FindStep, FindHit, FindMiss, Fetch, StoreHit, StoreMiss, RemoveHit,
       RemoveMiss, SubstituteOld, SubstituteNew, Swap, Alloc, LinkNode, ClearNode, LogJournal,
       ResizeJournal, Ftruncate, MergeAndLookup, RemoveAlloc, HtInsert, CountRecord, Reorganize,
       ReorganizeFails, ResetOff, ResetCounters, ResetTable, Msync, CallForAllEntry, Finish
<1>3. pc[p] # "leave" /\ (op[p].kind = "begin" => pc[p] \in BeginLabels)
      BY <1>0 DEF BeginControl, Moves, Active
<1>. USE <1>0, <1>3 DEF LockType, Goto, Finish, BeginLabels
<1>4. CASE FindStep(p) \/ FindHit(p) \/ FindMiss(p)  BY <1>4 DEF FindStep, FindHit, FindMiss
<1>5. CASE Fetch(p) \/ StoreHit(p) \/ StoreMiss(p) \/ RemoveHit(p) \/ RemoveMiss(p)
      BY <1>5 DEF Fetch, StoreHit, StoreMiss, RemoveHit, RemoveMiss
<1>6. CASE SubstituteOld(p) \/ SubstituteNew(p) \/ Swap(p)
      BY <1>6 DEF SubstituteOld, SubstituteNew, Swap, StartFind
<1>7. CASE Alloc(p) \/ LinkNode(p) \/ ClearNode(p) \/ LogJournal(p)
      BY <1>7 DEF Alloc, LinkNode, ClearNode, LogJournal
<1>8. CASE ResizeJournal(p)
      BY <1>8 DEF ResizeJournal, Ftruncate, MergeAndLookup, RemoveAlloc
<1>9. CASE HtInsert(p)
  <2>1. pc'[p] = AfterInsert(p)[pc[p]] /\ pc[p] \in {"ins1", "ins2", "ins3", "ins4"}
        BY <1>9 DEF HtInsert, WordName
  <2>. QED  BY <1>2, <2>1 DEF AfterInsert
<1>10. CASE CountRecord(p)  BY <1>10 DEF CountRecord
<1>11. CASE Reorganize(p)  BY <1>11 DEF Reorganize
<1>12. CASE ReorganizeFails(p)  BY <1>12 DEF ReorganizeFails
<1>13. CASE ResetOff(p) \/ ResetCounters(p) \/ ResetTable(p)
      BY <1>13 DEF ResetOff, ResetCounters, ResetTable
<1>14. CASE Msync(p) \/ CallForAllEntry(p)  BY <1>14 DEF Msync, CallForAllEntry
<1>. QED
  BY <1>2, <1>4, <1>5, <1>6, <1>7, <1>8, <1>9, <1>10, <1>11, <1>12, <1>13, <1>14 DEF Inside

(* Every step preserves the exact count.                                    *)
LEMMA NextExactInd ==
    ASSUME ReorgFaults = {}
    PROVE  ExactInd /\ [Next]_vars => ExactInd'
<1>. SUFFICES ASSUME ExactInd, [Next]_vars PROVE Exact' /\ BeginControl'
     BY NextLockInd DEF ExactInd
<1>1. CASE UNCHANGED vars
  BY <1>1 DEF vars, ExactInd, Exact, BeginControl, InTxn, InOp, Active
<1>2. ASSUME NEW p \in Procs, Step(p) PROVE Exact' /\ BeginControl'
  <2>. USE DEF ExactInd, LockInd
  <2>1. ASSUME NEW o \in Requests, Call(p, o) PROVE Exact' /\ BeginControl'
    <3>1. /\ pc[p] = "idle" /\ pc' = [pc EXCEPT ![p] = "lock"]
          /\ op' = [op EXCEPT ![p] = o]
          /\ UNCHANGED <<locked, txn, result>>
          BY <2>1 DEF Call, Goto, lockV
    <3>2. \A q \in Procs : InTxn(q)' = InTxn(q) /\ InOp(q)' = InOp(q)
          BY <3>1 DEF InTxn, InOp, Active, LockType
    <3>3. Exact'  BY <3>1, <3>2 DEF Exact
    <3>4. BeginControl'  BY <3>1 DEF BeginControl, BeginLabels, LockType
    <3>. QED  BY <3>3, <3>4
  <2>2. CASE Lock(p)
    <3>1. /\ pc[p] = "lock"
          /\ locked' = IF op[p].kind \in {"commit", "abort"} THEN locked
                       ELSE [locked EXCEPT ![p] = @ + 1]
          /\ UNCHANGED <<op, txn, result>>
          /\ \E l \in ActiveLabels \ {"leave"} :
                /\ pc' = [pc EXCEPT ![p] = l]
                /\ op[p].kind = "begin" => l = "reorg"
          BY <2>2 DEF Lock, StartFind, Goto, ActiveLabels, PcLabels
    <3>2. BeginControl'  BY <3>1 DEF BeginControl, BeginLabels, LockType
    <3>3. \A q \in Procs : q # p => locked'[q] = locked[q] /\ InTxn(q)' = InTxn(q) /\ InOp(q)' = InOp(q)
          BY <3>1 DEF InTxn, InOp, Active, LockType
    <3>4. InTxn(p)' = InTxn(p) /\ InOp(p) = 0 /\ Active(p)'
          BY <3>1 DEF InTxn, InOp, Active, ActiveLabels, LockType
    <3>5. locked'[p] = locked[p] + InOp(p)'
      <4>1. CASE op[p].kind \in {"commit", "abort"}
            BY <3>1, <4>1 DEF InOp, LockType
      <4>2. CASE op[p].kind \notin {"commit", "abort"}
        <5>1. InOp(p)' = 1  BY <3>1, <3>4, <4>2 DEF InOp
        <5>. QED  BY <3>1, <4>2, <5>1 DEF LockType
      <4>. QED  BY <4>1, <4>2
    <3>6. InTxn(p) \in {0, 1} /\ InOp(p)' \in {0, 1}  BY DEF InTxn, InOp
    <3>7. Exact'  BY <3>3, <3>4, <3>5, <3>6 DEF Exact
    <3>. QED  BY <3>2, <3>7
  <2>3. CASE Inside(p)
    <3>1. Moves(p)  BY <2>3, InsideMoves
    <3>2. \A q \in Procs : Active(q)' <=> Active(q)
          BY <3>1 DEF LockType, Moves, ActiveLabels, Active, PcLabels
    <3>3. \A q \in Procs : InTxn(q)' = InTxn(q) /\ InOp(q)' = InOp(q)
          BY <3>1, <3>2 DEF InTxn, InOp, Moves
    <3>4. Exact'  BY <3>1, <3>3 DEF Exact, Moves
    <3>. QED  BY <2>3, <3>4, InsideBegin
  <2>4. CASE Unlock(p)
    <3>1. /\ pc[p] = "unlock" /\ pc' = [pc EXCEPT ![p] = "idle"]
          /\ locked' = [locked EXCEPT ![p] = LockedAfter(p)]
          /\ op' = [op EXCEPT ![p] = NoOp]
          /\ result' = [result EXCEPT ![p] = Code(0)]
          /\ txn' = [txn EXCEPT ![p] = IF op[p].kind = "begin" THEN result[p] = Code(0)
                                      ELSE IF op[p].kind \in {"commit", "abort"} THEN FALSE ELSE @]
          BY <2>4 DEF Unlock, Forget, Goto, BeginControl
    <3>2. \A q \in Procs : q # p => /\ locked'[q] = locked[q] /\ txn'[q] = txn[q] /\ pc'[q] = pc[q]
                                   /\ op'[q] = op[q] /\ result'[q] = result[q]
          BY <3>1 DEF LockType
    <3>3. pc'[p] = "idle" /\ locked'[p] = LockedAfter(p) /\ InOp(p)' = 0
          BY <3>1 DEF LockType, InOp, Active
    <3>4. BeginControl'  BY <3>2, <3>3 DEF BeginControl
    <3>5. locked[p] \in Nat /\ locked[p] = InTxn(p) + InOp(p)  BY DEF LockType, Exact
    <3>6. InTxn(p)' = LockedAfter(p)
      <4>1. CASE op[p].kind = "begin"
        <5>1. ~txn[p] /\ result[p] = Code(0)  BY <3>1, <4>1 DEF TxnControl, BeginControl
        <5>2. InTxn(p) = 0 /\ InOp(p) = 1  BY <3>1, <4>1, <5>1 DEF InTxn, InOp, Active
        <5>3. txn'[p]  BY <3>1, <4>1, <5>1 DEF LockType
        <5>. QED  BY <3>1, <3>5, <4>1, <5>2, <5>3 DEF InTxn, LockedAfter
      <4>2. CASE op[p].kind \in {"commit", "abort"}
        <5>1. InTxn(p) = 1 /\ InOp(p) = 0  BY <3>1, <4>2 DEF TxnControl, InTxn, InOp
        <5>2. InTxn(p)' = 0  BY <3>1, <4>2 DEF InTxn, LockType
        <5>. QED  BY <3>1, <3>5, <4>2, <5>1, <5>2 DEF LockedAfter
      <4>3. CASE op[p].kind \notin {"begin", "commit", "abort"}
        <5>1. InTxn(p) \in {0, 1} /\ InOp(p) = 1  BY <3>1, <4>3 DEF InTxn, InOp, Active
        <5>2. InTxn(p)' = InTxn(p)  BY <3>1, <4>3 DEF InTxn, LockType
        <5>. QED  BY <3>1, <3>5, <4>3, <5>1, <5>2 DEF LockedAfter
      <4>. QED  BY <4>1, <4>2, <4>3
    <3>7. \A q \in Procs : q # p => InTxn(q)' = InTxn(q) /\ InOp(q)' = InOp(q)
          BY <3>2 DEF InTxn, InOp, Active
    <3>8. Exact'
      <4>1. InTxn(p)' \in {0, 1}  BY DEF InTxn
      <4>. QED  BY <3>2, <3>3, <3>6, <3>7, <4>1 DEF Exact
    <3>. QED  BY <3>4, <3>8
  <2>5. CASE Crash(p)
    <3>1. /\ pc' = [pc EXCEPT ![p] = "idle"] /\ locked' = [locked EXCEPT ![p] = 0]
          /\ op' = [op EXCEPT ![p] = NoOp] /\ txn' = [txn EXCEPT ![p] = FALSE]
          /\ result' = [result EXCEPT ![p] = Code(0)]
          BY <2>5 DEF Crash, Forget, Goto
    <3>2. \A q \in Procs : q # p => /\ locked'[q] = locked[q] /\ txn'[q] = txn[q] /\ pc'[q] = pc[q]
                                   /\ op'[q] = op[q] /\ result'[q] = result[q]
          BY <3>1 DEF LockType
    <3>3. pc'[p] = "idle" /\ locked'[p] = 0 /\ ~txn'[p]  BY <3>1 DEF LockType
    <3>4. BeginControl'  BY <3>2, <3>3 DEF BeginControl
    <3>5. InTxn(p)' = 0 /\ InOp(p)' = 0  BY <3>3 DEF InTxn, InOp, Active
    <3>6. \A q \in Procs : q # p => InTxn(q)' = InTxn(q) /\ InOp(q)' = InOp(q)
          BY <3>2 DEF InTxn, InOp, Active
    <3>7. Exact'  BY <3>2, <3>3, <3>5, <3>6 DEF Exact
    <3>. QED  BY <3>4, <3>7
  <2>. QED  BY <1>2, <2>1, <2>2, <2>3, <2>4, <2>5 DEF Step
<1>. QED  BY <1>1, <1>2 DEF Next

(* As long as no reorganization fails, the semaphore is free whenever no    *)
(* operation and no transaction is in progress: every path through the      *)
(* operations, the failing ones included, has its unlock().                 *)
THEOREM RDBLockGivenBack ==
    ASSUME ReorgFaults = {}
    PROVE  Spec => []LockGivenBack
<1>1. Init => ExactInd
  <2>. SUFFICES ASSUME Init PROVE Exact /\ BeginControl  BY InitLockInd DEF ExactInd
  <2>. QED  BY DEF Init, Exact, BeginControl, InTxn, InOp, Active
<1>2. ExactInd => LockGivenBack
  <2>. SUFFICES ASSUME ExactInd, \A p \in Procs : ~Active(p) /\ ~txn[p] PROVE sem = 1
       BY DEF LockGivenBack
  <2>1. \A p \in Procs : locked[p] = 0  BY DEF ExactInd, Exact, InTxn, InOp
  <2>. QED  BY <2>1 DEF ExactInd, LockInd, SemTaken, LockType
<1>. QED  BY <1>1, <1>2, NextExactInd, PTL DEF Spec

-----------------------------------------------------------------------------
(* The journal.                                                             *)

\* The labels of an operation: the search, the work on a node up to the log,
\* and the words of the node.
Searching == {"find", "hit", "miss"}
Placing   == {"alloc", "link", "clear", "log"}
Inserting == {"ins1", "ins2", "ins3", "ins4"}

\* The units that the operation may still take from the journal.
Left(p) ==
    IF pc[p] \in Searching \/ (pc[p] = "alloc" /\ stage[p] # "old") THEN Need(p)
    ELSE IF pc[p] \in {"link", "clear", "log"} /\ stage[p] # "old" THEN Need(p) - 1
    ELSE IF \/ (pc[p] \in Inserting /\ stage[p] = "new" /\ op[p].kind = "substitute")
            \/ pc[p] \in {"swap", "alloc"} THEN 1
    ELSE 0

WordsType ==
    /\ off \in 1 .. MaxOff + 1 /\ sync \in 0 .. MaxOff + 1 /\ nrecord \in Int
    /\ link \in [Links -> 0 .. MaxOff]
    /\ node \in [Offsets -> [Words -> Int]]
    /\ recs \in [Offsets -> [key : Keys \cup {NoData}, data : Data \cup {NoData}]]

PointersType ==
    /\ stage \in [Procs -> {"key", "key2", "new", "old"}]
    /\ pnode \in [Procs -> Links \cup {NoLink}] /\ pnode1 \in [Procs -> Links \cup {NoLink}]
    /\ cur \in [Procs -> 0 .. MaxOff] /\ cur1 \in [Procs -> 0 .. MaxOff]
    /\ jrec \in [Procs -> 0 .. MaxOff]

\* Where the operation of a process stands: which key it works on and which
\* of its pointers are set.
Shape(p) ==
    /\ pc[p] \in Searching =>
         /\ pnode[p] \in Links
         /\ \/ (op[p].kind \in {"store", "remove", "fetch", "substitute"} /\ stage[p] = "key")
            \/ (op[p].kind = "substitute" /\ stage[p] = "key2")
    /\ pc[p] \in Placing =>
         /\ pnode[p] \in Links
         /\ \/ (op[p].kind \in {"store", "remove"} /\ stage[p] = "key")
            \/ (op[p].kind = "substitute" /\ stage[p] = "key2")
            \/ (op[p].kind = "substitute" /\ stage[p] = "old" /\ pc[p] # "log")
    /\ pc[p] \in Inserting =>
         \/ (op[p].kind \in {"store", "remove", "substitute"} /\ stage[p] = "new")
         \/ (op[p].kind = "substitute" /\ stage[p] = "old" /\ cur[p] # 0)
    /\ pc[p] = "swap" => op[p].kind = "substitute" /\ stage[p] = "new"
    /\ (Active(p) /\ op[p].kind = "substitute" /\ stage[p] # "key") => pnode1[p] \in Links
    /\ pc[p] \in {"hit", "link", "clear"} => cur[p] # 0

\* The records just logged are the last ones of the journal.
Logged(p) ==
    /\ (pc[p] = "ins1" /\ stage[p] = "new") => jrec[p] + NumRecs(p) = off
    /\ pc[p] \in Inserting \cup {"swap"} => jrec[p] # 0
    /\ (pc[p] \in Placing /\ stage[p] = "old") => jrec[p] # 0

\* What the operation may still take is there.
Room(p) == Active(p) => off + Left(p) <= MaxOff + 1

Stands(p) == Shape(p) /\ Logged(p) /\ Room(p)

Requested == \A p \in Procs : pc[p] # "idle" => op[p] \in Requests

\* No process remembers a file smaller than the one it has opened.
Sized == st \in [Procs -> Nat] /\ \A p \in Procs : st[p] >= JournalSize

JournalInd ==
    LockInd /\ Requested /\ WordsType /\ PointersType /\ Sized /\ \A p \in Procs : Stands(p)

\* If a write may fail for lack of room, the file had room for a substitution:
\* off is then well above the first offset when a failure moves it back.
Roomy == "fail" \in Full => JournalSize >= 4

-----------------------------------------------------------------------------
(* The pointers into the trees are links.                                   *)
LEMMA LinksOfTrees ==
    /\ \A k \in Keys : <<"tab", Hash[k]>> \in Links
    /\ \A n \in Offsets : <<"left", n>> \in Links /\ <<"right", n>> \in Links
BY RDBAssumption DEF Links

(* A process outside its operation asks nothing of the journal.             *)
LEMMA RestingStands ==
    ASSUME NEW p \in Procs
    PROVE  /\ pc[p] \in {"idle", "lock"} => Stands(p)
           /\ pc'[p] \in {"idle", "lock"} => Stands(p)'
BY DEF Stands, Shape, Logged, Room, Active, Searching, Placing, Inserting

\* A step leaves alone what Stands(p) is about.
Untouched(p) ==
    /\ pc'[p] = pc[p] /\ op'[p] = op[p] /\ stage'[p] = stage[p] /\ off' = off
    /\ pnode'[p] = pnode[p] /\ pnode1'[p] = pnode1[p] /\ cur'[p] = cur[p] /\ jrec'[p] = jrec[p]

LEMMA UntouchedStands ==
    ASSUME NEW p \in Procs, Untouched(p), Stands(p)
    PROVE  Stands(p)'
BY DEF Untouched, Stands, Shape, Logged, Room, Active, Left, Need, NumRecs

(* The initial states.                                                      *)
LEMMA InitJournalInd == Init => JournalInd
<1>. SUFFICES ASSUME Init PROVE JournalInd  OBVIOUS
<1>1. LockInd  BY InitLockInd
<1>2. WordsType
  <2>1. node \in [Offsets -> [Words -> Int]]  BY DEF Init
  <2>. QED  BY <2>1, RDBAssumption DEF Init, WordsType
<1>3. PointersType  BY RDBAssumption DEF Init, PointersType
<1>4. \A p \in Procs : Stands(p)  BY RestingStands DEF Init
<1>5. Sized  BY RDBAssumption DEF Init, Sized
<1>. QED  BY <1>1, <1>2, <1>3, <1>4, <1>5 DEF JournalInd, Requested, Init

(* A request preserves the invariant.                                       *)
LEMMA CallJournal ==
    ASSUME JournalInd, NEW p \in Procs, NEW o \in Requests, Call(p, o)
    PROVE  JournalInd'
<1>. USE DEF JournalInd
<1>1. LockInd'  BY CallInd
<1>2. /\ UNCHANGED <<journal, stage, find, saved1, jrec>>
      /\ pc' = [pc EXCEPT ![p] = "lock"] /\ op' = [op EXCEPT ![p] = o]
      BY DEF Call, Goto
<1>3. WordsType' /\ PointersType'
      BY <1>2 DEF WordsType, PointersType, journal, find, saved1
<1>4. ASSUME NEW q \in Procs PROVE Stands(q)'
  <2>1. CASE q = p  BY <1>2, <2>1, RestingStands DEF LockInd, LockType
  <2>2. CASE q # p
    <3>1. Untouched(q)
          BY <1>2, <2>2 DEF Untouched, journal, find, saved1, LockInd, LockType
    <3>. QED  BY <3>1, UntouchedStands
  <2>. QED  BY <2>1, <2>2
<1>5. Requested'  BY <1>2 DEF Requested, LockInd, LockType
<1>6. Sized'  BY DEF Call, Sized
<1>. QED  BY <1>1, <1>3, <1>4, <1>5, <1>6

(* The return of an operation and the death of a process preserve it: both  *)
(* leave the journal alone.                                                 *)
LEMMA LeaveJournal ==
    ASSUME JournalInd, NEW p \in Procs, Unlock(p) \/ Crash(p)
    PROVE  JournalInd'
<1>. USE DEF JournalInd
<1>1. LockInd'  BY UnlockPreserves, CrashPreserves
<1>2. UNCHANGED journal /\ Forget(p)  BY DEF Unlock, Crash
<1>3. WordsType'  BY <1>2 DEF WordsType, journal
<1>4. PointersType'  BY <1>2, RDBAssumption DEF PointersType, Forget
<1>5. ASSUME NEW q \in Procs PROVE Stands(q)'
  <2>1. CASE q = p  BY <1>2, <2>1, RestingStands DEF LockInd, LockType, Forget, Goto
  <2>2. CASE q # p
    <3>1. Untouched(q)
          BY <1>2, <2>2 DEF Untouched, journal, Forget, Goto, LockInd, LockType, PointersType
    <3>. QED  BY <3>1, UntouchedStands
  <2>. QED  BY <2>1, <2>2
<1>6. Requested'  BY <1>2 DEF Requested, Forget, Goto, LockInd, LockType
<1>7. Sized'
  <2>1. JournalSize \in Nat  BY RDBAssumption
  <2>2. CASE Unlock(p)  BY <2>2 DEF Unlock, Sized
  <2>3. CASE Crash(p)
    <3>1. st' = [st EXCEPT ![p] = JournalSize]  BY <2>3 DEF Crash
    <3>. QED  BY <2>1, <3>1 DEF Sized
  <2>. QED  BY <2>2, <2>3
<1>. QED  BY <1>1, <1>3, <1>4, <1>5, <1>6, <1>7

(* lock() preserves it: the search starts at the slot of the key, and the   *)
(* operation has the room that it may need.                                 *)
LEMMA LockJournal ==
    ASSUME JournalInd, NEW p \in Procs, Lock(p)
    PROVE  JournalInd'
<1>. USE DEF JournalInd
<1>1. LockInd'  BY LockPreserves
<1>2. /\ UNCHANGED <<journal, cur, saved1, jrec, op>> /\ off + Need(p) <= MaxOff + 1
      /\ pc[p] = "lock"
      BY DEF Lock
<1>3. op[p] \in Requests  BY <1>2 DEF Requested
<1>4. \/ /\ op[p].kind \in {"store", "remove", "fetch", "substitute"}
         /\ pc' = [pc EXCEPT ![p] = "find"]
         /\ stage' = [stage EXCEPT ![p] = "key"]
         /\ \E l \in Links : pnode' = [pnode EXCEPT ![p] = l]
      \/ /\ op[p].kind \notin {"store", "remove", "fetch", "substitute"}
         /\ \E l \in {"reorg", "reset1", "sync", "print"} : pc' = [pc EXCEPT ![p] = l]
         /\ UNCHANGED <<stage, pnode>>
      BY <1>3, LinksOfTrees, RDBAssumption DEF Lock, StartFind, Goto
<1>5. WordsType' /\ PointersType'
  <2>1. WordsType'  BY <1>2 DEF WordsType, journal
  <2>. QED  BY <1>2, <1>4, <2>1 DEF PointersType, saved1
<1>6. Requested'  BY <1>2, <1>3, <1>4 DEF Requested, LockInd, LockType
<1>7. Stands(p)'
  <2>. USE DEF Stands, Shape, Logged, Room, Active, Left, Searching, Placing, Inserting
  <2>1. Need(p)' = Need(p) /\ Need(p) \in 0 .. 4 /\ off' = off  BY <1>2 DEF Need, journal
  <2>2. CASE op[p].kind \in {"store", "remove", "fetch", "substitute"}
        BY <1>2, <1>4, <2>1, <2>2 DEF LockInd, LockType, PointersType
  <2>3. CASE op[p].kind \notin {"store", "remove", "fetch", "substitute"}
        BY <1>2, <1>4, <2>1, <2>3 DEF LockInd, LockType, PointersType, WordsType
  <2>. QED  BY <2>2, <2>3
<1>8. ASSUME NEW q \in Procs, q # p PROVE Stands(q)'
  <2>1. Untouched(q)
        BY <1>2, <1>4, <1>8 DEF Untouched, journal, saved1, LockInd, LockType, PointersType
  <2>. QED  BY <2>1, UntouchedStands
<1>9. Sized'  BY DEF Lock, Sized
<1>. QED  BY <1>1, <1>5, <1>6, <1>7, <1>8, <1>9

-----------------------------------------------------------------------------
(* The steps of an operation.                                               *)

\* What a step of process p has to preserve.
Kept(p) == WordsType' /\ PointersType' /\ Stands(p)'

(* The node behind a link lies in the journal.                              *)
LEMMA NodeOfLink ==
    ASSUME WordsType, NEW l \in Links, link[l] # 0
    PROVE  link[l] \in Offsets
BY DEF WordsType, Offsets

(* A search follows links and stops at a node.                              *)
LEMMA SearchKept ==
    ASSUME JournalInd, NEW p \in Procs, FindStep(p) \/ FindHit(p) \/ FindMiss(p)
    PROVE  Kept(p)
<1>. USE DEF JournalInd, Kept
<1>1. /\ pc[p] = "find" /\ pnode[p] \in Links /\ Stands(p)
      /\ UNCHANGED <<off, sync, nrecord, node, recs, op, stage, saved1, jrec>>
      BY DEF FindStep, FindHit, FindMiss, Stands, Shape, Searching, journal, call
<1>2. link' \in [Links -> 0 .. MaxOff]
      BY <1>1, RDBAssumption DEF FindStep, FindHit, FindMiss, WordsType, journal
<1>3. WordsType'  BY <1>1, <1>2 DEF WordsType
<1>4. /\ cur' \in [Procs -> 0 .. MaxOff]
      /\ pnode' \in [Procs -> Links \cup {NoLink}] /\ pnode'[p] \in Links
      /\ pc'[p] \in Searching
      /\ pc'[p] = "hit" => cur'[p] # 0
  <2>. USE DEF PointersType
  <2>1. CASE FindStep(p)
    <3>1. link[pnode[p]] # 0 /\ pc' = pc /\ cur' = [cur EXCEPT ![p] = link[pnode[p]]]
          BY <2>1 DEF FindStep
    <3>2. link[pnode[p]] \in Offsets  BY <1>1, <3>1, NodeOfLink
    <3>3. NextLink(p, link[pnode[p]]) \in Links  BY <3>2, LinksOfTrees DEF NextLink, Side
    <3>4. pnode' = [pnode EXCEPT ![p] = NextLink(p, link[pnode[p]])]  BY <2>1 DEF FindStep
    <3>. QED  BY <1>1, <3>1, <3>2, <3>3, <3>4 DEF Offsets, Searching
  <2>2. CASE FindHit(p)
    <3>1. /\ link[pnode[p]] # 0 /\ pnode' = pnode /\ cur' = [cur EXCEPT ![p] = link[pnode[p]]]
          /\ pc' = [pc EXCEPT ![p] = "hit"]
          BY <2>2 DEF FindHit, Goto
    <3>2. link[pnode[p]] \in Offsets  BY <1>1, <3>1, NodeOfLink
    <3>. QED  BY <1>1, <3>1, <3>2 DEF Offsets, Searching, LockInd, LockType
  <2>3. CASE FindMiss(p)
    <3>1. pnode' = pnode /\ cur' = [cur EXCEPT ![p] = 0] /\ pc' = [pc EXCEPT ![p] = "miss"]
          BY <2>3 DEF FindMiss, Goto
    <3>. QED  BY <1>1, <3>1, RDBAssumption DEF Searching, LockInd, LockType
  <2>. QED  BY <2>1, <2>2, <2>3
<1>5. PointersType'  BY <1>1, <1>4 DEF PointersType, saved1
<1>6. Stands(p)'
  <2>1. Need(p)' = Need(p)  BY <1>1 DEF Need
  <2>. QED  BY <1>1, <1>4, <2>1
            DEF Stands, Shape, Logged, Room, Active, Left, Searching, Placing, Inserting,
                PointersType, saved1
<1>. QED  BY <1>3, <1>5, <1>6

(* isDeleted() writes an integer into a node.                               *)
LEMMA RepairedType ==
    ASSUME WordsType, NEW n \in Offsets
    PROVE  Repaired(n) \in [Offsets -> [Words -> Int]]
BY DEF Repaired, WordsType, Words, NOT_FOUND

(* After the search the operation is over, or goes on to place the entry.   *)
LEMMA AfterSearch ==
    ASSUME JournalInd, NEW p \in Procs, pc[p] \in {"hit", "miss"},
           UNCHANGED <<off, op, stage, pnode, pnode1, cur, jrec>>,
           \/ pc'[p] = "unlock"
           \/ /\ pc'[p] \in {"log", "alloc"}
              /\ op[p].kind # "fetch"
              /\ op[p].kind = "substitute" => stage[p] = "key2"
    PROVE  Stands(p)'
<1>1. Stands(p) /\ Need(p)' = Need(p) /\ Need(p) \in 0 .. 4  BY DEF JournalInd, Need
<1>2. Shape(p)' /\ Logged(p)'
      BY <1>1 DEF Stands, Shape, Logged, Active, Searching, Placing, Inserting
<1>3. Room(p)'
  <2>1. off + Need(p) <= MaxOff + 1  BY <1>1 DEF Stands, Room, Active, Left, Searching
  <2>2. off \in Int /\ MaxOff \in Int  BY RDBAssumption DEF JournalInd, WordsType
  <2>3. stage[p] # "old"  BY <1>1 DEF Stands, Shape, Searching
  <2>4. Left(p)' <= Need(p) /\ Left(p)' \in Int  BY <1>1, <2>3 DEF Left, Searching, Inserting
  <2>. QED  BY <2>1, <2>2, <2>4, <1>1 DEF Room
<1>. QED  BY <1>2, <1>3 DEF Stands

(* fetch(), and store() and remove() after their lookups.                   *)
LEMMA ResultKept ==
    ASSUME JournalInd, NEW p \in Procs,
           Fetch(p) \/ StoreHit(p) \/ StoreMiss(p) \/ RemoveHit(p) \/ RemoveMiss(p)
    PROVE  Kept(p)
<1>. USE DEF JournalInd, Kept
<1>1. /\ UNCHANGED <<off, sync, nrecord, link, recs, op, stage, pnode, pnode1, cur, cur1, jrec>>
      /\ pc[p] \in {"hit", "miss"}
      BY DEF Fetch, StoreHit, StoreMiss, RemoveHit, RemoveMiss, journal, call, find, saved1
<1>2. \/ pc'[p] = "unlock"
      \/ pc'[p] \in {"log", "alloc"} /\ op[p].kind \in {"store", "remove"}
      BY DEF Fetch, StoreHit, StoreMiss, RemoveHit, RemoveMiss, Finish, Goto, LockInd, LockType
<1>3. node' = node \/ (pc[p] = "hit" /\ node' = Repaired(cur[p]))
      BY DEF Fetch, StoreHit, StoreMiss, RemoveHit, RemoveMiss, journal
<1>4. WordsType'
  <2>1. pc[p] = "hit" => cur[p] \in Offsets
        BY DEF Stands, Shape, PointersType, Offsets
  <2>2. node' \in [Offsets -> [Words -> Int]]  BY <1>3, <2>1, RepairedType DEF WordsType
  <2>. QED  BY <1>1, <2>2 DEF WordsType
<1>5. PointersType'  BY <1>1 DEF PointersType
<1>6. Stands(p)'  BY <1>1, <1>2, AfterSearch
<1>. QED  BY <1>4, <1>5, <1>6

(* substitute(), the search for the old key.                                *)
LEMMA SubstituteOldKept ==
    ASSUME JournalInd, NEW p \in Procs, SubstituteOld(p)
    PROVE  Kept(p)
<1>. USE DEF JournalInd, Kept
<1>1. /\ UNCHANGED <<off, sync, nrecord, link, recs, op, cur, jrec>>
      /\ pc[p] \in {"hit", "miss"} /\ op[p].kind = "substitute" /\ stage[p] = "key"
      /\ node' = IF pc[p] = "hit" THEN Repaired(cur[p]) ELSE node
      BY DEF SubstituteOld, call
<1>2. Stands(p) /\ op[p] \in Requests  BY <1>1 DEF Requested
<1>3. WordsType'
  <2>1. pc[p] = "hit" => cur[p] \in Offsets
        BY <1>2 DEF Stands, Shape, PointersType, Offsets
  <2>2. node' \in [Offsets -> [Words -> Int]]  BY <1>1, <2>1, RepairedType DEF WordsType
  <2>. QED  BY <1>1, <2>2 DEF WordsType
<1>4. \/ pc'[p] = "unlock" /\ UNCHANGED <<stage, pnode, pnode1, cur1>>
      \/ /\ pc'[p] = "find"
         /\ pnode1' = [pnode1 EXCEPT ![p] = pnode[p]]
         /\ cur1' = [cur1 EXCEPT ![p] = cur[p]]
         /\ stage' = [stage EXCEPT ![p] = "key2"]
         /\ pnode' = [pnode EXCEPT ![p] = <<"tab", Hash[op[p].key2]>>]
      BY DEF SubstituteOld, Finish, StartFind, Goto, LockInd, LockType
<1>5. CASE pc'[p] = "unlock" /\ UNCHANGED <<stage, pnode, pnode1, cur1>>
  <2>1. PointersType'  BY <1>1, <1>5 DEF PointersType
  <2>2. Stands(p)'  BY <1>1, <1>5, AfterSearch
  <2>. QED  BY <1>3, <2>1, <2>2
<1>6. CASE /\ pc'[p] = "find"
           /\ pnode1' = [pnode1 EXCEPT ![p] = pnode[p]]
           /\ cur1' = [cur1 EXCEPT ![p] = cur[p]]
           /\ stage' = [stage EXCEPT ![p] = "key2"]
           /\ pnode' = [pnode EXCEPT ![p] = <<"tab", Hash[op[p].key2]>>]
  <2>1. <<"tab", Hash[op[p].key2]>> \in Links
        BY <1>1, <1>2, LinksOfTrees, RDBAssumption
  <2>2. PointersType'  BY <1>1, <1>6, <2>1 DEF PointersType
  <2>3. pnode[p] \in Links  BY <1>1, <1>2 DEF Stands, Shape, Searching
  <2>4. pnode'[p] \in Links /\ pnode1'[p] \in Links /\ stage'[p] = "key2"
        BY <1>6, <2>1, <2>3 DEF PointersType
  <2>5. Shape(p)' /\ Logged(p)'
        BY <1>1, <1>6, <2>4 DEF Shape, Logged, Active, Searching, Placing, Inserting
  <2>6. Need(p)' = Need(p)  BY <1>1 DEF Need
  <2>7. Room(p)'  BY <1>1, <1>2, <1>6, <2>6 DEF Stands, Room, Active, Left, Searching
  <2>. QED  BY <1>3, <2>2, <2>5, <2>7 DEF Stands
<1>. QED  BY <1>4, <1>5, <1>6

(* substitute(), the search for the new key.                                *)
LEMMA SubstituteNewKept ==
    ASSUME JournalInd, NEW p \in Procs, SubstituteNew(p)
    PROVE  Kept(p)
<1>. USE DEF JournalInd, Kept
<1>1. /\ UNCHANGED <<off, sync, nrecord, link, recs, op, stage, pnode, pnode1, cur, cur1, jrec>>
      /\ pc[p] \in {"hit", "miss"} /\ op[p].kind = "substitute" /\ stage[p] = "key2"
      /\ node' = node \/ (pc[p] = "hit" /\ node' = Repaired(cur[p]))
      BY DEF SubstituteNew, call, find, saved1
<1>2. pc'[p] \in {"unlock", "log", "alloc"}
      BY DEF SubstituteNew, Finish, Goto, LockInd, LockType
<1>3. WordsType'
  <2>1. pc[p] = "hit" => cur[p] \in Offsets
        BY DEF Stands, Shape, PointersType, Offsets
  <2>2. node' \in [Offsets -> [Words -> Int]]  BY <1>1, <2>1, RepairedType DEF WordsType
  <2>. QED  BY <1>1, <2>2 DEF WordsType
<1>4. PointersType'  BY <1>1 DEF PointersType
<1>5. Stands(p)'  BY <1>1, <1>2, AfterSearch
<1>. QED  BY <1>3, <1>4, <1>5

(* substitute() turns to the old key.                                       *)
LEMMA SwapKept ==
    ASSUME JournalInd, NEW p \in Procs, Swap(p)
    PROVE  Kept(p)
<1>. USE DEF JournalInd, Kept
<1>1. /\ UNCHANGED <<off, sync, nrecord, link, node, recs, op, pnode1, cur1, jrec>>
      /\ pc[p] = "swap" /\ stage' = [stage EXCEPT ![p] = "old"]
      /\ pnode' = [pnode EXCEPT ![p] = pnode1[p]]
      /\ \/ /\ cur1[p] # 0 /\ cur' = [cur EXCEPT ![p] = cur1[p]]
            /\ pc' = [pc EXCEPT ![p] = "ins1"]
         \/ cur' = cur /\ pc' = [pc EXCEPT ![p] = "alloc"]
      BY DEF Swap, call, journal, saved1, Goto, NodeOfOldKey
<1>2. Stands(p)  OBVIOUS
<1>3. WordsType'  BY <1>1 DEF WordsType
<1>4. PointersType'  BY <1>1 DEF PointersType
<1>5. /\ pnode1[p] \in Links /\ op[p].kind = "substitute" /\ jrec[p] # 0
      /\ off + 1 <= MaxOff + 1
      BY <1>1, <1>2 DEF Stands, Shape, Logged, Room, Left, Active, Searching, Inserting
<1>6. /\ pnode'[p] = pnode1[p] /\ stage'[p] = "old" /\ pc'[p] \in {"ins1", "alloc"}
      /\ pc'[p] = "ins1" => cur'[p] # 0
      BY <1>1 DEF PointersType, LockInd, LockType
<1>7. Shape(p)' /\ Logged(p)'
      BY <1>1, <1>5, <1>6 DEF Shape, Logged, Active, Searching, Placing, Inserting
<1>8. Room(p)'  BY <1>1, <1>5, <1>6 DEF Room, Active, Left, Searching, Inserting, WordsType
<1>. QED  BY <1>3, <1>4, <1>7, <1>8 DEF Stands

-----------------------------------------------------------------------------
(* htAlloc(): the node lies in the journal.                                 *)
LEMMA AllocKept ==
    ASSUME JournalInd, NEW p \in Procs, Alloc(p)
    PROVE  Kept(p)
<1>. USE DEF JournalInd, Kept
<1>1. /\ UNCHANGED <<sync, nrecord, link, node, recs, op, stage, pnode, pnode1, cur1, jrec>>
      /\ pc[p] = "alloc" /\ pc'[p] = "link"
      /\ cur' = [cur EXCEPT ![p] = off] /\ off' = off + 1
      BY DEF Alloc, call, saved1, Goto, LockInd, LockType
<1>2. Stands(p)  OBVIOUS
<1>3. Need(p)' = Need(p) /\ Need(p) \in 0 .. 4 /\ (stage[p] # "old" => Need(p) >= 2)
      BY <1>1, <1>2 DEF Need, Stands, Shape, Placing
<1>4. off + Left(p) <= MaxOff + 1  BY <1>1, <1>2 DEF Stands, Room, Active
<1>5. off \in 1 .. MaxOff /\ off \in Int /\ MaxOff \in Int
      BY <1>1, <1>3, <1>4, RDBAssumption DEF Left, Searching, Inserting, WordsType
<1>6. WordsType'  BY <1>1, <1>5 DEF WordsType
<1>7. PointersType'  BY <1>1, <1>5 DEF PointersType
<1>8. Shape(p)' /\ Logged(p)'
  <2>1. cur'[p] = off  BY <1>1 DEF PointersType
  <2>. QED  BY <1>1, <1>2, <1>5, <2>1
            DEF Stands, Shape, Logged, Active, Searching, Placing, Inserting
<1>9. Room(p)'
      BY <1>1, <1>3, <1>4, <1>5 DEF Room, Active, Left, Searching, Inserting
<1>. QED  BY <1>6, <1>7, <1>8, <1>9 DEF Stands

LEMMA LinkKept ==
    ASSUME JournalInd, NEW p \in Procs, LinkNode(p)
    PROVE  Kept(p)
<1>. USE DEF JournalInd, Kept
<1>1. /\ UNCHANGED <<off, sync, nrecord, node, recs, op, stage, pnode, cur, pnode1, cur1, jrec>>
      /\ pc[p] = "link" /\ pc'[p] = "clear"
      /\ link' = [link EXCEPT ![pnode[p]] = cur[p]]
      BY DEF LinkNode, call, find, saved1, Goto, LockInd, LockType
<1>2. Stands(p) /\ Need(p)' = Need(p)  BY <1>1 DEF Need
<1>3. WordsType'  BY <1>1 DEF WordsType, PointersType
<1>4. PointersType'  BY <1>1 DEF PointersType
<1>5. Stands(p)'
      BY <1>1, <1>2 DEF Stands, Shape, Logged, Room, Active, Left, Searching, Placing, Inserting
<1>. QED  BY <1>3, <1>4, <1>5

LEMMA ClearKept ==
    ASSUME JournalInd, NEW p \in Procs, ClearNode(p)
    PROVE  Kept(p)
<1>. USE DEF JournalInd, Kept
<1>1. /\ UNCHANGED <<off, sync, nrecord, recs, op, stage, pnode, cur, pnode1, cur1, jrec>>
      /\ pc[p] = "clear" /\ pc'[p] = IF stage[p] = "old" THEN "ins1" ELSE "log"
      /\ node' = [node EXCEPT ![cur[p]] = [w \in Words |-> 0]]
      /\ link' = [link EXCEPT ![<<"left", cur[p]>>] = 0, ![<<"right", cur[p]>>] = 0]
      BY DEF ClearNode, call, find, saved1, Goto, LockInd, LockType
<1>2. Stands(p) /\ Need(p)' = Need(p)  BY <1>1 DEF Need
<1>3. WordsType'
  <2>1. link' \in [Links -> 0 .. MaxOff]
    <3>. DEFINE once == [link EXCEPT ![<<"left", cur[p]>>] = 0]
    <3>1. 0 \in 0 .. MaxOff  BY RDBAssumption
    <3>2. once \in [Links -> 0 .. MaxOff]  BY <3>1 DEF WordsType
    <3>3. link' = [once EXCEPT ![<<"right", cur[p]>>] = 0]  BY <1>1
    <3>. QED  BY <3>1, <3>2, <3>3
  <2>2. node' \in [Offsets -> [Words -> Int]]
    <3>1. [w \in Words |-> 0] \in [Words -> Int]  OBVIOUS
    <3>. QED  BY <1>1, <3>1 DEF WordsType
  <2>. QED  BY <1>1, <2>1, <2>2 DEF WordsType
<1>4. PointersType'  BY <1>1 DEF PointersType
<1>5. Shape(p)' /\ Logged(p)'
      BY <1>1, <1>2 DEF Stands, Shape, Logged, Active, Searching, Placing, Inserting
<1>6. Room(p)'
      BY <1>1, <1>2 DEF Stands, Room, Active, Left, Searching, Inserting
<1>. QED  BY <1>3, <1>4, <1>5, <1>6 DEF Stands

(* logJournal(): the records lie in the journal.                            *)
LEMMA LogKept ==
    ASSUME JournalInd, NEW p \in Procs, LogJournal(p)
    PROVE  Kept(p)
<1>. USE DEF JournalInd, Kept
<1>1. /\ UNCHANGED <<sync, nrecord, link, node, op, pnode, cur, pnode1, cur1>>
      /\ pc[p] = "log" /\ pc'[p] = "ins1"
      /\ stage' = [stage EXCEPT ![p] = "new"] /\ jrec' = [jrec EXCEPT ![p] = off]
      /\ off' = off + NumRecs(p)
      BY DEF LogJournal, call, find, saved1, Goto, LockInd, LockType
<1>2. Stands(p) /\ op[p] \in Requests  BY <1>1 DEF Requested
<1>3. \/ op[p].kind \in {"store", "remove"} /\ stage[p] = "key" /\ NumRecs(p) = 1 /\ Left(p) = 1
      \/ op[p].kind = "substitute" /\ stage[p] = "key2" /\ NumRecs(p) = 2 /\ Left(p) = 3
      BY <1>1, <1>2 DEF Stands, Shape, Placing, Searching, NumRecs, Need, Left
<1>4. off + Left(p) <= MaxOff + 1  BY <1>1, <1>2 DEF Stands, Room, Active
<1>5. off \in Int /\ off >= 1 /\ MaxOff \in Int  BY RDBAssumption DEF WordsType
<1>6. recs' \in [Offsets -> [key : Keys \cup {NoData}, data : Data \cup {NoData}]]
  <2>. DEFINE Records == [key : Keys \cup {NoData}, data : Data \cup {NoData}]
  <2>1. CASE op[p].kind = "store"
    <3>1. [key |-> op[p].key, data |-> op[p].data] \in Records  BY <1>2, <2>1, RDBAssumption
    <3>2. recs' = [recs EXCEPT ![off] = [key |-> op[p].key, data |-> op[p].data]]
          BY <2>1 DEF LogJournal
    <3>. QED  BY <3>1, <3>2 DEF WordsType
  <2>2. CASE op[p].kind = "remove"
    <3>1. [key |-> op[p].key, data |-> NoData] \in Records  BY <1>2, <2>2, RDBAssumption
    <3>2. recs' = [recs EXCEPT ![off] = [key |-> op[p].key, data |-> NoData]]
          BY <2>2 DEF LogJournal
    <3>. QED  BY <3>1, <3>2 DEF WordsType
  <2>3. CASE op[p].kind = "substitute"
    <3>1. /\ [key |-> op[p].key, data |-> NoData] \in Records
          /\ [key |-> op[p].key2, data |-> op[p].data] \in Records
          BY <1>2, <2>3, RDBAssumption
    <3>2. recs' = [recs EXCEPT ![off]     = [key |-> op[p].key, data |-> NoData],
                               ![off + 1] = [key |-> op[p].key2, data |-> op[p].data]]
          BY <2>3 DEF LogJournal
    <3>. QED  BY <3>1, <3>2 DEF WordsType
  <2>. QED  BY <1>3, <2>1, <2>2, <2>3
<1>7. WordsType'  BY <1>1, <1>3, <1>4, <1>5, <1>6 DEF WordsType
<1>8. PointersType'  BY <1>1, <1>3, <1>4, <1>5 DEF PointersType
<1>9. stage'[p] = "new" /\ jrec'[p] = off /\ NumRecs(p)' = NumRecs(p)
      BY <1>1 DEF PointersType, NumRecs
<1>10. Shape(p)'
       BY <1>1, <1>2, <1>3, <1>9 DEF Stands, Shape, Active, Searching, Placing, Inserting
<1>11. Logged(p)'  BY <1>1, <1>5, <1>9 DEF Logged, Placing, Inserting
<1>12. Room(p)'
       BY <1>1, <1>3, <1>4, <1>5, <1>9 DEF Room, Active, Left, Searching, Inserting
<1>. QED  BY <1>7, <1>8, <1>10, <1>11, <1>12 DEF Stands

(* resizeJournal(): the file grows, or the journal starts again from its    *)
(* first offset.                                                            *)
LEMMA ResizeKept ==
    ASSUME Roomy, JournalInd, NEW p \in Procs, ResizeJournal(p)
    PROVE  Kept(p)
<1>. USE DEF JournalInd, Kept
<1>1. /\ UNCHANGED <<node, recs, op, stage, pnode1, cur1, jrec>> /\ pc[p] = "log"
      /\ Ftruncate(p) \/ MergeAndLookup(p) \/ ("fail" \in Full /\ RemoveAlloc(p))
      BY DEF ResizeJournal, call, saved1
<1>2. Stands(p) /\ op[p] \in Requests /\ Need(p)' = Need(p)  BY <1>1 DEF Requested, Need
<1>4. CASE Ftruncate(p)
  <2>0. pc' = pc  BY <1>4 DEF Ftruncate
  <2>1. UNCHANGED <<off, sync, nrecord, link, pnode, cur>>  BY <1>4 DEF Ftruncate, find
  <2>2. WordsType' /\ PointersType'  BY <1>1, <2>1 DEF WordsType, PointersType
  <2>3. Untouched(p)  BY <1>1, <2>0, <2>1 DEF Untouched
  <2>. QED  BY <1>2, <2>2, <2>3, UntouchedStands
<1>5. CASE MergeAndLookup(p)
  <2>0. pc' = pc  BY <1>5 DEF MergeAndLookup
  <2>1. /\ off' = 1 /\ sync' = 0 /\ nrecord' = 0
        /\ link' = [l \in Links |-> IF l[1] = "tab" THEN 0 ELSE link[l]]
        /\ pnode' = [pnode EXCEPT ![p] = <<"tab", Hash[SearchKey(p)]>>]
        /\ cur' = [cur EXCEPT ![p] = 0]
        BY <1>5 DEF MergeAndLookup
  <2>2. <<"tab", Hash[SearchKey(p)]>> \in Links
    <3>1. SearchKey(p) \in Keys
          BY <1>1, <1>2, RDBAssumption DEF SearchKey, Stands, Shape, Placing
    <3>. QED  BY <3>1, LinksOfTrees
  <2>3. WordsType'
    <3>1. link' \in [Links -> 0 .. MaxOff]  BY <2>1, RDBAssumption DEF WordsType
    <3>. QED  BY <1>1, <2>1, <3>1, RDBAssumption DEF WordsType
  <2>4. PointersType'  BY <1>1, <2>1, <2>2, RDBAssumption DEF PointersType
  <2>5. pnode'[p] \in Links  BY <2>1, <2>2 DEF PointersType
  <2>6. Shape(p)' /\ Logged(p)'
        BY <1>1, <1>2, <2>0, <2>5
        DEF Stands, Shape, Logged, Active, Searching, Placing, Inserting
  <2>7. Room(p)'
        BY <1>1, <1>2, <2>0, <2>1, RDBAssumption
        DEF Stands, Room, Active, Left, Need, Searching, Inserting, WordsType
  <2>. QED  BY <2>3, <2>4, <2>6, <2>7 DEF Stands
<1>6. CASE "fail" \in Full /\ RemoveAlloc(p)
  <2>1. /\ UNCHANGED <<sync, nrecord, pnode, cur>> /\ pc'[p] = "unlock" /\ off' = off - 1
        /\ link' = [link EXCEPT ![pnode[p]] = 0]
        BY <1>6 DEF RemoveAlloc, OffAfterFailure, Finish, Goto, find, LockInd, LockType
  <2>2. off \in Int /\ MaxOff \in Int /\ off <= MaxOff + 1 /\ off >= 4 - 2
    <3>1. off \in Int /\ MaxOff \in Int /\ off <= MaxOff + 1  BY RDBAssumption DEF WordsType
    <3>2. NumRecs(p) \in {1, 2}  BY DEF NumRecs
    <3>3. st[p] \in Int /\ st[p] >= 4
      <4>1. st[p] \in Int /\ st[p] >= JournalSize /\ JournalSize \in Int  BY RDBAssumption DEF Sized
      <4>2. JournalSize >= 4  BY <1>6 DEF Roomy
      <4>. QED  BY <4>1, <4>2
    <3>4. (off - 1) + NumRecs(p) + 2 > st[p]
      <4>1. Wanted(p) > st[p]  BY DEF ResizeJournal
      <4>. QED  BY <4>1 DEF Wanted
    <3>. QED  BY <3>1, <3>2, <3>3, <3>4
  <2>3. WordsType'
    <3>0. 0 \in 0 .. MaxOff  BY RDBAssumption
    <3>1. link' \in [Links -> 0 .. MaxOff]  BY <2>1, <3>0 DEF WordsType
    <3>2. off' \in 1 .. MaxOff + 1  BY <2>1, <2>2
    <3>. QED  BY <1>1, <2>1, <3>1, <3>2 DEF WordsType
  <2>4. PointersType'  BY <1>1, <2>1 DEF PointersType
  <2>5. Shape(p)' /\ Logged(p)'
        BY <1>1, <1>2, <2>1
        DEF Stands, Shape, Logged, Active, Searching, Placing, Inserting
  <2>6. Room(p)'
        BY <2>1, <2>2 DEF Room, Left, Searching, Inserting
  <2>. QED  BY <2>3, <2>4, <2>5, <2>6 DEF Stands
<1>. QED  BY <1>1, <1>4, <1>5, <1>6

-----------------------------------------------------------------------------
(* What htInsert() writes are integers; the pointer to the key is the       *)
(* offset of a record just logged.                                          *)
LEMMA WordsWritten ==
    ASSUME JournalInd, NEW p \in Procs, pc[p] \in Inserting
    PROVE  /\ \A w \in Words : NewWord(p)[w] \in Int
           /\ NewWord(p)["ksz"] = 1
           /\ NewWord(p)["kptr"] \in jrec[p] .. jrec[p] + NumRecs(p) - 1
           /\ jrec[p] \in Nat \ {0} /\ NumRecs(p) \in {1, 2}
<1>1. Shape(p) /\ Logged(p) /\ op[p] \in Requests
      BY DEF JournalInd, Stands, Requested, Inserting
<1>2. jrec[p] \in Nat \ {0} /\ NumRecs(p) \in {1, 2}
      BY <1>1 DEF Logged, JournalInd, PointersType, NumRecs
<1>3. ~Deleting(p) => Size[op[p].data] \in Int
      BY <1>1, RDBAssumption DEF Shape, Deleting
<1>. QED  BY <1>1, <1>2, <1>3 DEF NewWord, NumRecs, Words, NOT_FOUND

(* Storing an integer into a word of a node.                                *)
LEMMA WordStored ==
    ASSUME NEW f \in [Offsets -> [Words -> Int]], NEW n, NEW w \in Words, NEW v \in Int
    PROVE  [f EXCEPT ![n][w] = v] \in [Offsets -> [Words -> Int]]
OBVIOUS

(* htInsert() never moves off forward.                                      *)
LEMMA InsertOff ==
    ASSUME JournalInd, NEW p \in Procs, HtInsert(p)
    PROVE  off' \in 1 .. off
<1>1. Logged(p) /\ Shape(p) /\ off \in Nat /\ off >= 1
      BY DEF JournalInd, Stands, WordsType
<1>2. CASE cur[p] = 0 /\ pc[p] = "ins1"
  <2>1. off' = NewWord(p)["kptr"]  BY <1>2 DEF HtInsert, WordName
  <2>2. jrec[p] + NumRecs(p) = off  BY <1>1, <1>2 DEF Shape, Logged, Inserting
  <2>3. /\ NewWord(p)["kptr"] \in jrec[p] .. jrec[p] + NumRecs(p) - 1
        /\ jrec[p] \in Nat \ {0} /\ NumRecs(p) \in {1, 2}
        BY <1>2, WordsWritten DEF Inserting
  <2>. QED  BY <2>1, <2>2, <2>3
<1>3. CASE ~(cur[p] = 0 /\ pc[p] = "ins1")
  <2>1. off' = off  BY <1>3 DEF HtInsert
  <2>. QED  BY <1>1, <2>1
<1>. QED  BY <1>2, <1>3

(* htInsert(), into a node or, without one, into the header.                *)
LEMMA InsertKept ==
    ASSUME JournalInd, NEW p \in Procs, HtInsert(p)
    PROVE  Kept(p)
<1>. USE DEF JournalInd, Kept
<1>. DEFINE w == WordName[pc[p]]
            v == NewWord(p)[w]
<1>1. /\ UNCHANGED <<link, recs, op, stage, pnode, cur, pnode1, cur1, jrec>>
      /\ pc[p] \in Inserting /\ w \in Words
      /\ pc'[p] = AfterInsert(p)[pc[p]]
      BY DEF HtInsert, WordName, Words, Inserting, call, find, saved1, Goto, LockInd, LockType
<1>2. \/ cur[p] # 0 /\ node' = [node EXCEPT ![cur[p]][w] = v] /\ UNCHANGED <<off, sync, nrecord>>
      \/ /\ cur[p] = 0 /\ node' = node
         /\ off' = IF pc[p] = "ins1" THEN v ELSE off
         /\ sync' = IF pc[p] = "ins2" THEN v ELSE sync
         /\ nrecord' = IF pc[p] = "ins3" THEN v ELSE nrecord
      BY DEF HtInsert
<1>3. Stands(p) /\ v \in Int  BY <1>1, WordsWritten
<1>5. off' \in 1 .. off  BY InsertOff
<1>6. WordsType'
  <2>1. pc[p] = "ins2" => v = 1  BY <1>1, WordsWritten DEF WordName
  <2>2. node' \in [Offsets -> [Words -> Int]]
    <3>. HIDE DEF v, w
    <3>1. node' = node \/ node' = [node EXCEPT ![cur[p]][w] = v]  BY <1>2
    <3>2. [node EXCEPT ![cur[p]][w] = v] \in [Offsets -> [Words -> Int]]
          BY <1>1, <1>3, WordStored DEF WordsType
    <3>. QED  BY <3>1, <3>2 DEF WordsType
  <2>3. off' \in 1 .. MaxOff + 1 /\ sync' \in 0 .. MaxOff + 1
        BY <1>2, <1>5, <2>1, RDBAssumption DEF WordsType
  <2>. QED  BY <1>1, <1>2, <1>3, <2>2, <2>3 DEF WordsType
<1>7. PointersType'  BY <1>1 DEF PointersType
<1>8. \/ pc'[p] \in {"ins2", "ins3", "ins4"} /\ pc[p] # "ins4"
      \/ pc'[p] = "count" /\ op[p].kind # "substitute"
      \/ pc'[p] = "swap" /\ op[p].kind = "substitute" /\ stage[p] = "new"
      \/ pc'[p] = "unlock"
      BY <1>1 DEF AfterInsert, Inserting
<1>9. Shape(p)'
      BY <1>1, <1>3, <1>8 DEF Stands, Shape, Active, Searching, Placing, Inserting
<1>10. Logged(p)'
       BY <1>1, <1>3, <1>8 DEF Stands, Logged, Placing, Inserting
<1>11. Room(p)'
  <2>1. off + Left(p) <= MaxOff + 1
        BY <1>1, <1>3 DEF Stands, Room, Active, Inserting
  <2>2. Left(p)' <= Left(p) /\ Left(p)' \in Int /\ Left(p) \in Int
        BY <1>1, <1>8 DEF Left, Searching, Inserting
  <2>. QED  BY <1>5, <2>1, <2>2, RDBAssumption DEF Room, WordsType
<1>. QED  BY <1>6, <1>7, <1>9, <1>10, <1>11 DEF Stands

(* The steps that leave the nodes and the pointers of the process alone.    *)
LEMMA AfterwardsStands ==
    ASSUME JournalInd, NEW p \in Procs, Active(p), off' \in 1 .. MaxOff + 1,
           UNCHANGED <<op, stage, pnode1>>,
           pc'[p] \in {"reset1", "reset2", "reset3", "unlock", "leave"}
    PROVE  Stands(p)'
<1>1. Stands(p)  BY DEF JournalInd
<1>2. Shape(p)' /\ Logged(p)'
      BY <1>1 DEF Stands, Shape, Logged, Active, Searching, Placing, Inserting
<1>3. Left(p)' = 0  BY DEF Left, Searching, Inserting
<1>. QED  BY <1>2, <1>3, RDBAssumption DEF Stands, Room

(* The end of an operation, reorganize(), reset(), msync() and the visits.  *)
LEMMA OthersKept ==
    ASSUME JournalInd, NEW p \in Procs,
           \/ CountRecord(p) \/ Reorganize(p) \/ ReorganizeFails(p) \/ ResetOff(p)
           \/ ResetCounters(p) \/ ResetTable(p) \/ Msync(p) \/ CallForAllEntry(p)
    PROVE  Kept(p)
<1>. USE DEF JournalInd, Kept
<1>1. UNCHANGED <<recs, op, stage, pnode, cur, pnode1, cur1, jrec>>
      BY DEF CountRecord, Reorganize, ReorganizeFails, ResetOff, ResetCounters, ResetTable, Msync,
             CallForAllEntry, journal, call, find, saved1
<1>2. Active(p) /\ pc'[p] \in {"reset1", "reset2", "reset3", "unlock", "leave"}
      BY DEF CountRecord, Reorganize, ReorganizeFails, ResetOff, ResetCounters, ResetTable, Msync,
             CallForAllEntry, Goto, Finish, Active, LockInd, LockType
<1>3. off' \in 1 .. MaxOff + 1 /\ sync' \in 0 .. MaxOff + 1 /\ nrecord' \in Int
      BY RDBAssumption
      DEF CountRecord, Reorganize, ReorganizeFails, ResetOff, ResetCounters, ResetTable, Msync,
          CallForAllEntry, journal, WordsType, SyncAfterReset
<1>4. link' \in [Links -> 0 .. MaxOff]
  <2>1. CASE ResetTable(p)  BY <2>1, RDBAssumption DEF ResetTable, TableAfterReset, WordsType
  <2>2. CASE ~ResetTable(p)
        BY <2>2 DEF CountRecord, Reorganize, ReorganizeFails, ResetOff, ResetCounters, Msync,
             CallForAllEntry, journal, WordsType
  <2>. QED  BY <2>1, <2>2
<1>5. node' \in [Offsets -> [Words -> Int]]
  <2>1. CASE CallForAllEntry(p)
    <3>1. CASE node' = node  BY <3>1 DEF WordsType
    <3>2. CASE node' = [n \in Offsets |-> IF n \in Nodes THEN Repaired(n)[n] ELSE node[n]]
      <4>1. \A n \in Offsets : Repaired(n)[n] \in [Words -> Int]  BY RepairedType
      <4>. QED  BY <3>2, <4>1 DEF WordsType
    <3>. QED  BY <2>1, <3>1, <3>2 DEF CallForAllEntry
  <2>2. CASE ~CallForAllEntry(p)
        BY <2>2 DEF CountRecord, Reorganize, ReorganizeFails, ResetOff, ResetCounters, Msync,
             ResetTable, journal, WordsType
  <2>. QED  BY <2>1, <2>2
<1>6. WordsType'  BY <1>1, <1>3, <1>4, <1>5 DEF WordsType
<1>7. PointersType'  BY <1>1 DEF PointersType
<1>8. Stands(p)'  BY <1>1, <1>2, <1>3, AfterwardsStands
<1>. QED  BY <1>6, <1>7, <1>8

-----------------------------------------------------------------------------
(* At most one operation is in progress, and the one that takes a step is.  *)
LEMMA OneInside ==
    ASSUME LockInd, NEW p \in Procs, Inside(p)
    PROVE  /\ Active(p) /\ Active(p)'
           /\ \A q \in Procs : q # p => ~Active(q) /\ ~Active(q)' /\ pc'[q] = pc[q]
<1>1. Moves(p)  BY InsideMoves DEF LockInd
<1>2. OneActive  BY LockIndOneActive
<1>. QED  BY <1>1, <1>2 DEF OneActive, Moves, Active, ActiveLabels, PcLabels, LockInd, LockType

LEMMA InsideKept ==
    ASSUME Roomy, JournalInd, NEW p \in Procs, Inside(p)
    PROVE  Kept(p)
BY SearchKept, ResultKept, SubstituteOldKept, SubstituteNewKept, SwapKept, AllocKept, LinkKept,
   ClearKept, LogKept, ResizeKept, InsertKept, OthersKept
DEF Inside

(* A process that resizes the file makes it larger than it remembers.       *)
LEMMA InsideSized ==
    ASSUME JournalInd, NEW p \in Procs, Inside(p)
    PROVE  Sized'
<1>1. CASE UNCHANGED st  BY <1>1 DEF JournalInd, Sized
<1>2. CASE Ftruncate(p)
  <2>. DEFINE half == st[p] + st[p] \div 2
              size == IF Wanted(p) > half THEN Wanted(p) ELSE half
  <2>1. st' = [st EXCEPT ![p] = size]  BY <1>2 DEF Ftruncate
  <2>2. st \in [Procs -> Nat] /\ st[p] \in Nat /\ st[p] >= JournalSize /\ JournalSize \in Nat
        BY RDBAssumption DEF JournalInd, Sized
  <2>3. half \in Nat /\ half >= JournalSize  BY <2>2
  <2>4. Wanted(p) \in Int
    <3>1. off \in Int /\ NumRecs(p) \in Int  BY DEF JournalInd, WordsType, NumRecs
    <3>. QED  BY <3>1 DEF Wanted
  <2>. HIDE DEF half
  <2>5. size \in Nat /\ size >= JournalSize  BY <2>2, <2>3, <2>4
  <2>. HIDE DEF size
  <2>. QED  BY <2>1, <2>2, <2>5 DEF JournalInd, Sized
<1>3. UNCHANGED st \/ Ftruncate(p)
      BY DEF Inside, FindStep, FindHit, FindMiss, Fetch, StoreHit, StoreMiss, RemoveHit, RemoveMiss,
         SubstituteOld, SubstituteNew, Swap, Alloc, LinkNode, ClearNode, LogJournal, ResizeJournal,
         MergeAndLookup, RemoveAlloc, HtInsert, CountRecord, Reorganize, ReorganizeFails, ResetOff,
         ResetCounters, ResetTable, Msync, CallForAllEntry
<1>. QED  BY <1>1, <1>2, <1>3

(* Every step preserves the invariant.                                      *)
LEMMA NextJournalInd ==
    ASSUME Roomy
    PROVE  JournalInd /\ [Next]_vars => JournalInd'
<1>. SUFFICES ASSUME JournalInd, [Next]_vars PROVE JournalInd'  OBVIOUS
<1>1. CASE UNCHANGED vars
  <2>1. LockInd'  BY NextLockInd DEF JournalInd
  <2>2. \A p \in Procs : Stands(p)'  BY <1>1, UntouchedStands DEF vars, Untouched, JournalInd
  <2>. QED  BY <1>1, <2>1, <2>2 DEF vars, JournalInd, Requested, WordsType, PointersType, Sized
<1>2. ASSUME NEW p \in Procs, Step(p) PROVE JournalInd'
  <2>1. CASE \E o \in Requests : Call(p, o)  BY <2>1, CallJournal
  <2>2. CASE Lock(p)  BY <2>2, LockJournal
  <2>3. CASE Inside(p)
    <3>1. LockInd'  BY NextLockInd DEF JournalInd
    <3>2. Moves(p)  BY <2>3, InsideMoves DEF JournalInd, LockInd
    <3>3. Requested'  BY <3>2 DEF JournalInd, Requested, Moves, Active, LockInd, LockType
    <3>4. Kept(p)  BY <2>3, InsideKept
    <3>5. \A q \in Procs : q # p => Stands(q)'
      <4>. SUFFICES ASSUME NEW q \in Procs, q # p PROVE Stands(q)'  OBVIOUS
      <4>1. pc'[q] \in {"idle", "lock"}  BY <2>3, OneInside DEF JournalInd, Active
      <4>. QED  BY <4>1, RestingStands
    <3>6. Sized'  BY <2>3, InsideSized
    <3>. QED  BY <3>1, <3>3, <3>4, <3>5, <3>6 DEF JournalInd, Kept
  <2>4. CASE Unlock(p)  BY <2>4, LeaveJournal
  <2>5. CASE Crash(p)  BY <2>5, LeaveJournal
  <2>. QED  BY <1>2, <2>1, <2>2, <2>3, <2>4, <2>5 DEF Step
<1>. QED  BY <1>1, <1>2 DEF Next

(* The words of the journal and the pointers of the processes keep their    *)
(* types, whether a full journal grows, is reorganized or makes a write     *)
(* fail: off stays inside the journal whatever an operation still takes     *)
(* from it or gives back, every pointer that is followed or written through *)
(* is a link, and every node and record lies in the journal.                *)
THEOREM RDBTypes ==
    ASSUME Roomy
    PROVE  Spec => []TypeOK
<1>1. JournalInd => TypeOK
      BY DEF JournalInd, LockInd, LockType, WordsType, PointersType, TypeOK
<1>. QED  BY <1>1, InitJournalInd, NextJournalInd, PTL DEF Spec

-----------------------------------------------------------------------------
(* The range of msync().                                                    *)

\* reset() sets off before sync: in between, sync may lie behind off.
ResetLabels == {"reorg", "reset1", "reset2", "reset3"}
Resetting == \E p \in Procs : pc[p] = "reset2"
ResetBy(p) == pc[p] \in ResetLabels => op[p].kind \in {"begin", "reorganize", "abort"}

\* Without a node the words of the entry are written over the header, which
\* the reorganization before it has just reset.
HeaderReset(p) == (pc[p] \in {"log", "ins1"} /\ cur[p] = 0) => sync = 0

SyncInd ==
    /\ JournalInd
    /\ Resetting \/ sync <= off
    /\ \A p \in Procs : ResetBy(p) /\ HeaderReset(p)

(* A step of an operation keeps sync behind off, except inside reset().     *)
LEMMA InsideSync ==
    ASSUME "fail" \notin Full, SyncInd, NEW p \in Procs, Inside(p)
    PROVE  /\ sync' <= off' \/ pc'[p] = "reset2"
           /\ HeaderReset(p)' /\ ResetBy(p)'
<1>. DEFINE Goal == /\ sync' <= off' \/ pc'[p] = "reset2"
                    /\ HeaderReset(p)' /\ ResetBy(p)'
<1>1. /\ Stands(p) /\ LockType /\ WordsType /\ PointersType
      /\ HeaderReset(p) /\ ResetBy(p)
      /\ sync \in Int /\ off \in Int /\ off >= 1
      BY DEF SyncInd, JournalInd, LockInd, WordsType
<1>2. pc[p] = "reset2" \/ sync <= off
      BY OneInside DEF SyncInd, Resetting, JournalInd, Active
<1>3. op' = op  BY InsideMoves, <1>1 DEF Moves
<1>4. ASSUME UNCHANGED <<off, sync, cur>>, pc[p] # "reset2",
             pc'[p] \in {"log", "ins1"} => (pc[p] = "log" \/ cur[p] # 0),
             pc'[p] \in ResetLabels => pc[p] \in ResetLabels
      PROVE  Goal
      BY <1>1, <1>2, <1>3, <1>4 DEF HeaderReset, ResetBy
<1>. USE <1>1 DEF LockType, Goto, Finish
<1>5. CASE FindStep(p) \/ FindHit(p) \/ FindMiss(p)
  <2>1. UNCHANGED <<off, sync>> /\ pc'[p] \in Searching /\ pc[p] = "find"
        BY <1>5 DEF FindStep, FindHit, FindMiss, journal, Searching
  <2>. QED  BY <1>2, <2>1 DEF HeaderReset, ResetBy, ResetLabels, Searching
<1>6. CASE Fetch(p) \/ StoreHit(p) \/ StoreMiss(p) \/ RemoveHit(p) \/ RemoveMiss(p)
  <2>1. /\ UNCHANGED <<off, sync, cur>> /\ pc[p] \in {"hit", "miss"}
        /\ pc'[p] \in {"unlock", "log", "alloc"} /\ (pc'[p] = "log" => pc[p] = "hit")
        BY <1>6 DEF Fetch, StoreHit, StoreMiss, RemoveHit, RemoveMiss, journal, find
  <2>2. pc[p] = "hit" => cur[p] # 0  BY DEF Stands, Shape
  <2>. QED  BY <1>4, <2>1, <2>2 DEF ResetLabels
<1>7. CASE SubstituteOld(p)
  <2>1. UNCHANGED <<off, sync, cur>> /\ pc[p] \in {"hit", "miss"} /\ pc'[p] \in {"unlock", "find"}
        BY <1>7 DEF SubstituteOld, StartFind
  <2>. QED  BY <1>4, <2>1 DEF ResetLabels
<1>8. CASE SubstituteNew(p)
  <2>1. /\ UNCHANGED <<off, sync, cur>> /\ pc[p] \in {"hit", "miss"}
        /\ pc'[p] \in {"unlock", "log", "alloc"} /\ (pc'[p] = "log" => pc[p] = "hit")
        BY <1>8 DEF SubstituteNew, find
  <2>2. pc[p] = "hit" => cur[p] # 0  BY DEF Stands, Shape
  <2>. QED  BY <1>4, <2>1, <2>2 DEF ResetLabels
<1>9. CASE Swap(p)
  <2>1. /\ UNCHANGED <<off, sync>> /\ pc[p] = "swap" /\ pc'[p] \in {"ins1", "alloc"}
        /\ pc'[p] = "ins1" => cur'[p] # 0
        BY <1>9 DEF Swap, journal, NodeOfOldKey, PointersType
  <2>. QED  BY <1>2, <2>1 DEF HeaderReset, ResetBy, ResetLabels
<1>10. CASE Alloc(p)
  <2>1. pc[p] = "alloc" /\ pc'[p] = "link" /\ off' = off + 1 /\ sync' = sync
        BY <1>10 DEF Alloc
  <2>. QED  BY <1>2, <2>1 DEF HeaderReset, ResetBy, ResetLabels
<1>11. CASE LinkNode(p) \/ ClearNode(p)
  <2>1. /\ UNCHANGED <<off, sync, cur>> /\ pc[p] \in {"link", "clear"}
        /\ pc'[p] \in {"clear", "log", "ins1"}
        BY <1>11 DEF LinkNode, ClearNode, find
  <2>2. cur[p] # 0  BY <2>1 DEF Stands, Shape
  <2>. QED  BY <1>4, <2>1, <2>2 DEF ResetLabels
<1>12. CASE LogJournal(p)
  <2>1. /\ pc[p] = "log" /\ pc'[p] = "ins1" /\ off' = off + NumRecs(p) /\ UNCHANGED <<sync, cur>>
        /\ NumRecs(p) \in {1, 2}
        BY <1>12 DEF LogJournal, NumRecs, find
  <2>. QED  BY <1>2, <2>1 DEF HeaderReset, ResetBy, ResetLabels
<1>13. CASE ResizeJournal(p)
  <2>1. pc[p] = "log" /\ (Ftruncate(p) \/ MergeAndLookup(p))  BY <1>13 DEF ResizeJournal
  <2>2. CASE Ftruncate(p)
    <3>1. UNCHANGED <<off, sync, cur, pc>>  BY <2>2 DEF Ftruncate, find
    <3>. QED  BY <1>4, <2>1, <3>1
  <2>3. CASE MergeAndLookup(p)
    <3>1. off' = 1 /\ sync' = 0 /\ pc' = pc  BY <2>3 DEF MergeAndLookup
    <3>. QED  BY <2>1, <3>1 DEF HeaderReset, ResetBy, ResetLabels
  <2>. QED  BY <2>1, <2>2, <2>3
<1>14. CASE HtInsert(p)
  <2>1. /\ pc[p] \in Inserting
        /\ pc'[p] \in {"ins2", "ins3", "ins4", "count", "swap", "unlock"}
        BY <1>14 DEF HtInsert, WordName, Inserting, AfterInsert
  <2>2. sync' <= off'
    <3>1. CASE cur[p] # 0
      <4>1. UNCHANGED <<off, sync>>  BY <1>14, <3>1 DEF HtInsert
      <4>. QED  BY <1>2, <2>1, <4>1 DEF Inserting
    <3>2. CASE cur[p] = 0 /\ pc[p] = "ins1"
      <4>1. off' = NewWord(p)["kptr"] /\ sync' = sync  BY <1>14, <3>2 DEF HtInsert, WordName
      <4>2. sync = 0  BY <3>2 DEF HeaderReset
      <4>3. /\ NewWord(p)["kptr"] \in jrec[p] .. jrec[p] + NumRecs(p) - 1
            /\ jrec[p] \in Nat \ {0} /\ NumRecs(p) \in {1, 2}
            BY <2>1, WordsWritten DEF SyncInd
      <4>. QED  BY <4>1, <4>2, <4>3
    <3>3. CASE cur[p] = 0 /\ pc[p] = "ins2"
      <4>1. sync' = NewWord(p)["ksz"] /\ off' = off  BY <1>14, <3>3 DEF HtInsert, WordName
      <4>2. sync' = 1  BY <2>1, <4>1, WordsWritten DEF SyncInd
      <4>. QED  BY <4>1, <4>2
    <3>4. CASE cur[p] = 0 /\ pc[p] \in {"ins3", "ins4"}
      <4>1. UNCHANGED <<off, sync>>  BY <1>14, <3>4 DEF HtInsert
      <4>. QED  BY <1>2, <2>1, <4>1 DEF Inserting
    <3>. QED  BY <2>1, <3>1, <3>2, <3>3, <3>4 DEF Inserting
  <2>. QED  BY <2>1, <2>2 DEF HeaderReset, ResetBy, ResetLabels
<1>15. CASE CountRecord(p) \/ CallForAllEntry(p) \/ ReorganizeFails(p) \/ ResetTable(p)
  <2>1. /\ UNCHANGED <<off, sync, cur>> /\ pc[p] # "reset2" /\ pc'[p] \in {"unlock", "leave"}
        BY <1>15 DEF CountRecord, CallForAllEntry, ReorganizeFails, ResetTable, find, journal
  <2>. QED  BY <1>4, <2>1 DEF ResetLabels
<1>16. CASE Reorganize(p)
  <2>1. UNCHANGED <<off, sync, cur>> /\ pc[p] = "reorg" /\ pc'[p] \in {"unlock", "reset1"}
        BY <1>16 DEF Reorganize, find, journal
  <2>. QED  BY <1>4, <2>1 DEF ResetLabels
<1>17. CASE ResetOff(p)
  <2>1. pc[p] = "reset1" /\ pc'[p] = "reset2"  BY <1>17 DEF ResetOff
  <2>. QED  BY <1>3, <2>1 DEF HeaderReset, ResetBy, ResetLabels
<1>18. CASE ResetCounters(p)
  <2>1. pc[p] = "reset2" /\ pc'[p] = "reset3" /\ sync' = 0 /\ off' = off
        BY <1>18 DEF ResetCounters, SyncAfterReset
  <2>. QED  BY <1>3, <2>1 DEF HeaderReset, ResetBy, ResetLabels
<1>19. CASE Msync(p)
  <2>1. pc'[p] = "unlock" /\ sync' = off /\ off' = off  BY <1>19 DEF Msync
  <2>. QED  BY <2>1 DEF HeaderReset, ResetBy, ResetLabels
<1>. QED
  BY <1>5, <1>6, <1>7, <1>8, <1>9, <1>10, <1>11, <1>12, <1>13, <1>14, <1>15, <1>16, <1>17, <1>18,
     <1>19 DEF Inside

(* Every step preserves the order of sync and off, if no process dies       *)
(* inside reset().                                                          *)
LEMMA NextSyncInd ==
    ASSUME "fail" \notin Full, CrashOps \cap {"begin", "reorganize", "abort"} = {}
    PROVE  SyncInd /\ [Next]_vars => SyncInd'
<1>. SUFFICES ASSUME SyncInd, [Next]_vars PROVE SyncInd'  OBVIOUS
<1>1. JournalInd'  BY NextJournalInd DEF SyncInd, Roomy
<1>2. CASE UNCHANGED vars
      BY <1>1, <1>2 DEF vars, SyncInd, Resetting, ResetBy, HeaderReset
<1>3. ASSUME NEW p \in Procs, Step(p) PROVE SyncInd'
  <2>. USE DEF SyncInd
  <2>0. LockType /\ PointersType  BY DEF JournalInd, LockInd
  <2>1. CASE Inside(p)
    <3>1. /\ sync' <= off' \/ pc'[p] = "reset2"
          /\ HeaderReset(p)' /\ ResetBy(p)'
          BY <2>1, InsideSync
    <3>2. \A q \in Procs : q # p => pc'[q] \in {"idle", "lock"}
          BY <2>1, OneInside DEF JournalInd, Active
    <3>3. \A q \in Procs : q # p => HeaderReset(q)' /\ ResetBy(q)'
          BY <3>2 DEF HeaderReset, ResetBy, ResetLabels
    <3>. QED  BY <1>1, <3>1, <3>3 DEF Resetting
  <2>2. CASE ~Inside(p)
    <3>1. /\ UNCHANGED <<off, sync>>
          /\ \A q \in Procs : q # p => pc'[q] = pc[q] /\ cur'[q] = cur[q] /\ op'[q] = op[q]
          BY <1>3, <2>0, <2>2
          DEF Step, Call, Lock, StartFind, Unlock, Crash, Forget, Goto, journal, find,
              LockType, PointersType
    <3>2. /\ pc[p] # "reset2" /\ pc'[p] \notin {"log", "ins1"}
          /\ pc'[p] \in ResetLabels => op'[p].kind \in {"begin", "reorganize", "abort"}
      <4>1. CASE \E o \in Requests : Call(p, o)
            BY <2>0, <4>1 DEF Call, Goto, LockType, ResetLabels
      <4>2. CASE Lock(p)  BY <2>0, <4>2 DEF Lock, StartFind, Goto, LockType, ResetLabels
      <4>3. CASE Unlock(p)  BY <2>0, <4>3 DEF Unlock, Forget, Goto, LockType, ResetLabels
      <4>4. CASE Crash(p)
        <5>1. op[p].kind \in CrashOps /\ pc'[p] = "idle"
              BY <2>0, <4>4 DEF Crash, Forget, Goto, LockType
        <5>2. ResetBy(p)  OBVIOUS
        <5>. QED  BY <5>1, <5>2 DEF ResetBy, ResetLabels
      <4>. QED  BY <1>3, <2>2, <4>1, <4>2, <4>3, <4>4 DEF Step
    <3>3. \A q \in Procs : HeaderReset(q)' /\ ResetBy(q)'
          BY <3>1, <3>2 DEF HeaderReset, ResetBy
    <3>4. Resetting' \/ sync' <= off'  BY <3>1, <3>2 DEF Resetting
    <3>. QED  BY <1>1, <3>3, <3>4
  <2>. QED  BY <2>1, <2>2
<1>. QED  BY <1>2, <1>3 DEF Next

(* Between operations the part of the journal that msync() writes, from     *)
(* sync to off, is never negative, as long as a full journal grows or is    *)
(* reorganized and no process dies inside reset(): deaths in stores,        *)
(* removals, substitutions and commits leave off and sync in order, and so  *)
(* does an entry whose words end up in the header.                          *)
THEOREM RDBSyncRange ==
    ASSUME "fail" \notin Full, CrashOps \cap {"begin", "reorganize", "abort"} = {}
    PROVE  Spec => []SyncRange
<1>1. Init => SyncInd
  <2>. SUFFICES ASSUME Init PROVE SyncInd  OBVIOUS
  <2>1. JournalInd  BY InitJournalInd
  <2>. QED  BY <2>1 DEF Init, SyncInd, ResetBy, HeaderReset, ResetLabels
<1>2. SyncInd => SyncRange
      BY DEF SyncInd, SyncRange, Resetting, Busy, Active
<1>. QED  BY <1>1, <1>2, NextSyncInd, PTL DEF Spec

-----------------------------------------------------------------------------
(* The journal file.                                                        *)

\* One process, or a file that is never resized: the size that a process
\* remembers is that of the file.
SizeKnown == "ftruncate" \notin Full \/ \A p, q \in Procs : p = q

\* A node was taken before the size of the file is looked at: the reserve of
\* the last write is used.
Taken(p) == pc[p] \in {"link", "clear", "log"} /\ stage[p] # "old"

\* A substitution may take a second node after its records were written.
SecondNode(p) ==
    (\/ (pc[p] \in Inserting /\ stage[p] = "new")
     \/ pc[p] = "swap"
     \/ (pc[p] = "alloc" /\ stage[p] = "old")) => off + 1 <= fsize

FileType == fsize \in Nat \ {0} /\ st = [p \in Procs |-> fsize]
LinksInFile == \A l \in Links : link[l] <= fsize
NodesInFile == \A p \in Procs : cur[p] <= fsize /\ cur1[p] <= fsize
OffInFile == off <= fsize + 1 /\ (off <= fsize \/ \E p \in Procs : Taken(p))

FileInd ==
    /\ JournalInd /\ FileType /\ LinksInFile /\ NodesInFile /\ OffInFile
    /\ \A p \in Procs : SecondNode(p)

\* What a step of the operation of process p has to preserve.
FileKept(p) ==
    /\ FileType' /\ fsize' >= fsize
    /\ LinksInFile'
    /\ cur'[p] <= fsize' /\ cur1'[p] <= fsize'
    /\ off' <= fsize' + 1 /\ (off' <= fsize' \/ Taken(p)')
    /\ SecondNode(p)'

(* resizeJournal() makes the file larger.                                   *)
LEMMA GrowsFile ==
    ASSUME SizeKnown, FileInd, NEW p \in Procs, ResizeJournal(p), Ftruncate(p), "ftruncate" \in Full
    PROVE  FileType' /\ fsize' >= fsize
<1>. DEFINE half == st[p] + st[p] \div 2
            size == IF Wanted(p) > half THEN Wanted(p) ELSE half
<1>1. st' = [st EXCEPT ![p] = size] /\ fsize' = size  BY DEF Ftruncate
<1>2. st[p] = fsize /\ fsize \in Nat \ {0} /\ DOMAIN st = Procs  BY DEF FileInd, FileType
<1>3. half \in Nat /\ half >= fsize  BY <1>2
<1>4. Wanted(p) \in Int
  <2>1. off \in Int /\ NumRecs(p) \in Int  BY DEF FileInd, JournalInd, WordsType, NumRecs
  <2>. QED  BY <2>1 DEF Wanted
<1>. HIDE DEF half
<1>5. size \in Nat /\ size >= fsize  BY <1>2, <1>3, <1>4
<1>6. \A q \in Procs : q = p  BY DEF SizeKnown
<1>. HIDE DEF size
<1>7. st' = [q \in Procs |-> size]  BY <1>1, <1>2, <1>6
<1>8. fsize' = size /\ size # 0  BY <1>1, <1>2, <1>5
<1>9. st' = [q \in Procs |-> fsize']  BY <1>7, <1>8
<1>. QED  BY <1>5, <1>8, <1>9 DEF FileType

(* A step of an operation stays inside the file.                            *)
LEMMA InsideFile ==
    ASSUME Roomy, SizeKnown, FileInd, NEW p \in Procs, Inside(p)
    PROVE  FileKept(p)
<1>1. /\ Stands(p) /\ LockType /\ WordsType /\ PointersType /\ SecondNode(p)
      /\ FileType /\ LinksInFile
      /\ fsize \in Int /\ fsize >= 1 /\ off \in Int /\ off >= 1
      /\ cur[p] \in Int /\ cur1[p] \in Int /\ cur[p] <= fsize /\ cur1[p] <= fsize
      /\ off <= fsize + 1
      BY DEF FileInd, JournalInd, LockInd, WordsType, PointersType, FileType, NodesInFile, OffInFile
<1>2. Taken(p) \/ off <= fsize
  <2>1. \A q \in Procs : q # p => ~Taken(q)
        BY OneInside DEF FileInd, JournalInd, Active, Taken
  <2>. QED  BY <2>1 DEF FileInd, OffInFile
<1>. USE <1>1 DEF LockType, Goto, Finish
<1>3. ASSUME UNCHANGED <<fsize, st>> PROVE FileType' /\ fsize' >= fsize
      BY <1>3 DEF FileType
<1>4. ASSUME UNCHANGED <<link, fsize>> PROVE LinksInFile'
      BY <1>4 DEF LinksInFile
<1>5. ASSUME UNCHANGED fsize, NEW l, NEW n \in Int, n <= fsize, link' = [link EXCEPT ![l] = n]
      PROVE  LinksInFile'
      BY <1>5 DEF LinksInFile, WordsType
<1>6. ASSUME UNCHANGED fsize, link' = TableAfterReset PROVE LinksInFile'
  <2>1. \A l \in Links : link'[l] = 0 \/ link'[l] = link[l]  BY <1>6 DEF TableAfterReset
  <2>. QED  BY <1>6, <2>1 DEF LinksInFile
<1>7. CASE FindStep(p) \/ FindHit(p) \/ FindMiss(p)
  <2>1. /\ UNCHANGED <<off, fsize, st, cur1, stage>> /\ pc[p] = "find" /\ pc'[p] \in Searching
        BY <1>7 DEF FindStep, FindHit, FindMiss, journal, saved1, Searching
  <2>2. pnode[p] \in Links  BY <2>1 DEF Stands, Shape, Searching
  <2>3. LinksInFile'
    <3>1. CASE FindMiss(p)
      <4>1. link' = [link EXCEPT ![pnode[p]] = 0]  BY <3>1 DEF FindMiss
      <4>2. \A l \in Links : link'[l] \in {0, link[l]}  BY <4>1 DEF WordsType
      <4>. QED  BY <2>1, <4>2 DEF LinksInFile
    <3>2. CASE FindStep(p) \/ FindHit(p)  BY <1>4, <3>2 DEF FindStep, FindHit, journal
    <3>. QED  BY <1>7, <3>1, <3>2
  <2>4. cur'[p] <= fsize
    <3>1. cur'[p] \in {0, link[pnode[p]]}
          BY <1>7 DEF FindStep, FindHit, FindMiss, PointersType
    <3>. QED  BY <2>2, <3>1 DEF LinksInFile
  <2>. QED  BY <1>2, <1>3, <2>1, <2>3, <2>4
            DEF FileKept, Taken, SecondNode, Searching, Inserting
<1>8. CASE \/ Fetch(p) \/ StoreHit(p) \/ StoreMiss(p) \/ RemoveHit(p) \/ RemoveMiss(p)
           \/ SubstituteNew(p)
  <2>1. /\ UNCHANGED <<off, link, fsize, st, cur, cur1, stage>> /\ pc[p] \in {"hit", "miss"}
        /\ pc'[p] \in {"unlock", "log", "alloc"}
        BY <1>8 DEF Fetch, StoreHit, StoreMiss, RemoveHit, RemoveMiss, SubstituteNew, journal,
                    find, saved1
  <2>2. stage[p] # "old"  BY <2>1 DEF Stands, Shape, Searching
  <2>. QED  BY <1>2, <1>3, <1>4, <2>1, <2>2 DEF FileKept, Taken, SecondNode, Inserting
<1>9. CASE SubstituteOld(p)
  <2>1. /\ UNCHANGED <<off, link, fsize, st, cur>> /\ pc[p] \in {"hit", "miss"}
        /\ pc'[p] \in {"unlock", "find"} /\ cur1'[p] \in {cur[p], cur1[p]}
        BY <1>9 DEF SubstituteOld, StartFind, PointersType
  <2>. QED  BY <1>2, <1>3, <1>4, <2>1 DEF FileKept, Taken, SecondNode, Inserting
<1>10. CASE Swap(p)
  <2>1. /\ UNCHANGED <<off, link, fsize, st, cur1>> /\ pc[p] = "swap"
        /\ pc'[p] \in {"ins1", "alloc"} /\ cur'[p] \in {cur[p], cur1[p]}
        /\ stage'[p] = "old"
        BY <1>10 DEF Swap, journal, saved1, NodeOfOldKey, PointersType
  <2>. QED  BY <1>2, <1>3, <1>4, <2>1 DEF FileKept, Taken, SecondNode, Inserting
<1>11. CASE Alloc(p)
  <2>1. /\ UNCHANGED <<link, fsize, st, cur1, stage>> /\ pc[p] = "alloc" /\ pc'[p] = "link"
        /\ off' = off + 1 /\ cur'[p] = off
        BY <1>11 DEF Alloc, saved1, PointersType
  <2>2. off <= fsize  BY <1>2, <2>1 DEF Taken
  <2>3. stage[p] = "old" => off + 1 <= fsize  BY <2>1 DEF SecondNode
  <2>. QED  BY <1>3, <1>4, <2>1, <2>2, <2>3 DEF FileKept, Taken, SecondNode, Inserting
<1>12. CASE LinkNode(p)
  <2>1. /\ UNCHANGED <<off, fsize, st, cur, cur1, stage>> /\ pc[p] = "link" /\ pc'[p] = "clear"
        /\ link' = [link EXCEPT ![pnode[p]] = cur[p]]
        BY <1>12 DEF LinkNode, find, saved1
  <2>2. LinksInFile'  BY <1>5, <2>1
  <2>. QED  BY <1>2, <1>3, <2>1, <2>2 DEF FileKept, Taken, SecondNode, Inserting
<1>13. CASE ClearNode(p)
  <2>. DEFINE once == [link EXCEPT ![<<"left", cur[p]>>] = 0]
  <2>1. /\ UNCHANGED <<off, fsize, st, cur, cur1, stage>> /\ pc[p] = "clear"
        /\ pc'[p] = IF stage[p] = "old" THEN "ins1" ELSE "log"
        /\ link' = [once EXCEPT ![<<"right", cur[p]>>] = 0]
        BY <1>13 DEF ClearNode, find, saved1
  <2>2. LinksInFile'
    <3>1. \A l \in Links : once[l] \in {0, link[l]} /\ DOMAIN once = Links  BY DEF WordsType
    <3>. HIDE DEF once
    <3>2. \A l \in Links : link'[l] \in {0, link[l]}  BY <2>1, <3>1
    <3>. QED  BY <2>1, <3>2 DEF LinksInFile
  <2>. QED  BY <1>2, <1>3, <2>1, <2>2 DEF FileKept, Taken, SecondNode, Inserting
<1>14. CASE LogJournal(p)
  <2>1. /\ UNCHANGED <<link, fsize, st, cur, cur1>> /\ pc'[p] = "ins1"
        /\ off' = off + NumRecs(p) /\ Wanted(p) <= st[p] /\ NumRecs(p) \in {1, 2}
        BY <1>14 DEF LogJournal, find, saved1, NumRecs
  <2>2. off' + 1 <= fsize  BY <2>1 DEF Wanted, FileType
  <2>. QED  BY <1>3, <1>4, <2>1, <2>2 DEF FileKept, Taken, SecondNode, Inserting
<1>15. CASE ResizeJournal(p)
  <2>1. /\ UNCHANGED <<stage, cur1>> /\ pc[p] = "log"
        /\ ("ftruncate" \in Full /\ Ftruncate(p)) \/ MergeAndLookup(p) \/ RemoveAlloc(p)
        BY <1>15 DEF ResizeJournal, saved1
  <2>2. stage[p] # "old"  BY <2>1 DEF Stands, Shape, Placing
  <2>3. Ftruncate(p) \/ MergeAndLookup(p) => pc' = pc  BY DEF Ftruncate, MergeAndLookup
  <2>4. Ftruncate(p) \/ MergeAndLookup(p) => Taken(p)' /\ SecondNode(p)'
        BY <2>1, <2>2, <2>3 DEF Taken, SecondNode, Inserting
  <2>5. CASE "ftruncate" \in Full /\ Ftruncate(p)
    <3>1. UNCHANGED <<link, cur, off>>  BY <2>5 DEF Ftruncate, find
    <3>2. FileType' /\ fsize' >= fsize  BY <1>15, <2>5, GrowsFile
    <3>3. fsize' \in Int  BY <3>2 DEF FileType
    <3>4. LinksInFile'
      <4>1. \A l \in Links : link[l] \in Int  BY DEF WordsType
      <4>. QED  BY <3>1, <3>2, <3>3, <4>1 DEF LinksInFile
    <3>. QED  BY <2>1, <2>4, <2>5, <3>1, <3>2, <3>3, <3>4 DEF FileKept
  <2>6. CASE MergeAndLookup(p)
    <3>1. UNCHANGED <<fsize, st>> /\ cur'[p] = 0 /\ off' = 1 /\ link' = TableAfterReset
          BY <2>6 DEF MergeAndLookup, TableAfterReset, PointersType
    <3>. QED  BY <1>3, <1>6, <2>1, <2>4, <2>6, <3>1 DEF FileKept
  <2>7. CASE RemoveAlloc(p)
    <3>1. /\ UNCHANGED <<fsize, st, cur>> /\ pc'[p] = "unlock" /\ off' = off - 1
          /\ link' = [link EXCEPT ![pnode[p]] = 0]
          BY <2>7 DEF RemoveAlloc, OffAfterFailure, find
    <3>2. LinksInFile'
      <4>1. \A l \in Links : link'[l] \in {0, link[l]}  BY <3>1
      <4>. QED  BY <3>1, <4>1 DEF LinksInFile
    <3>3. SecondNode(p)'  BY <3>1 DEF SecondNode, Inserting
    <3>. QED  BY <1>3, <2>1, <3>1, <3>2, <3>3 DEF FileKept
  <2>. QED  BY <2>1, <2>5, <2>6, <2>7
<1>16. CASE HtInsert(p)
  <2>1. /\ UNCHANGED <<link, fsize, st, cur, cur1, stage>> /\ pc[p] \in Inserting
        /\ pc'[p] \in {"ins2", "ins3", "ins4", "count", "swap", "unlock"}
        /\ pc'[p] = "swap" => stage[p] = "new"
        BY <1>16 DEF HtInsert, WordName, Inserting, AfterInsert, find, saved1
  <2>2. off' \in Int /\ off' <= off  BY <1>16, InsertOff DEF FileInd
  <2>3. off <= fsize  BY <1>2, <2>1 DEF Taken, Inserting
  <2>4. SecondNode(p)'
    <3>1. stage[p] = "new" => off + 1 <= fsize  BY <2>1 DEF SecondNode
    <3>2. stage[p] = "new" => off' + 1 <= fsize'  BY <2>1, <2>2, <3>1
    <3>3. pc'[p] # "alloc" /\ stage' = stage  BY <2>1
    <3>. QED  BY <2>1, <3>2, <3>3 DEF SecondNode
  <2>. QED  BY <1>3, <1>4, <2>1, <2>2, <2>3, <2>4 DEF FileKept
<1>17. CASE \/ CountRecord(p) \/ Reorganize(p) \/ ReorganizeFails(p) \/ ResetOff(p)
            \/ ResetCounters(p) \/ ResetTable(p) \/ Msync(p) \/ CallForAllEntry(p)
  <2>1. UNCHANGED <<fsize, st, cur, cur1>> /\ off' \in {1, off}
        BY <1>17 DEF CountRecord, Reorganize, ReorganizeFails, ResetOff, ResetCounters, ResetTable,
             Msync, CallForAllEntry, journal, find, saved1
  <2>2. /\ pc[p] \notin {"link", "clear", "log"}
        /\ pc'[p] \in {"reset1", "reset2", "reset3", "unlock", "leave"}
        BY <1>17 DEF CountRecord, Reorganize, ReorganizeFails, ResetOff, ResetCounters, ResetTable,
             Msync, CallForAllEntry
  <2>3. link' = link \/ link' = TableAfterReset
        BY <1>17 DEF CountRecord, Reorganize, ReorganizeFails, ResetOff, ResetCounters, ResetTable,
             Msync, CallForAllEntry, journal
  <2>4. LinksInFile'  BY <1>4, <1>6, <2>1, <2>3
  <2>. QED  BY <1>2, <1>3, <2>1, <2>2, <2>4 DEF FileKept, Taken, SecondNode, Inserting
<1>. QED
  BY <1>7, <1>8, <1>9, <1>10, <1>11, <1>12, <1>13, <1>14, <1>15, <1>16, <1>17 DEF Inside

(* Every step stays inside the file.                                        *)
LEMMA NextFileInd ==
    ASSUME Roomy, CrashOps = {}, SizeKnown
    PROVE  FileInd /\ [Next]_vars => FileInd'
<1>. SUFFICES ASSUME FileInd, [Next]_vars PROVE FileInd'  OBVIOUS
<1>1. JournalInd'  BY NextJournalInd DEF FileInd
<1>2. CASE UNCHANGED vars
      BY <1>1, <1>2 DEF vars, FileInd, FileType, LinksInFile, NodesInFile, OffInFile, Taken,
                        SecondNode
<1>3. ASSUME NEW p \in Procs, Step(p) PROVE FileInd'
  <2>. USE DEF FileInd
  <2>0. LockType /\ PointersType /\ fsize \in Int
        BY DEF JournalInd, LockInd, FileType
  <2>1. CASE Inside(p)
    <3>1. FileKept(p)  BY <2>1, InsideFile
    <3>2. fsize' \in Int /\ fsize' >= fsize  BY <3>1 DEF FileKept, FileType
    <3>3. \A q \in Procs : q # p => pc'[q] \in {"idle", "lock"}
          BY <2>1, OneInside DEF JournalInd, Active
    <3>4. \A q \in Procs : q # p => SecondNode(q)'
          BY <3>3 DEF SecondNode, Inserting
    <3>5. \A q \in Procs : q # p => cur'[q] = cur[q] /\ cur1'[q] = cur1[q]
          BY <2>0, <2>1 DEF Inside, FindStep, FindHit, FindMiss, Fetch, StoreHit, StoreMiss,
             RemoveHit, RemoveMiss, SubstituteOld, SubstituteNew, Swap, Alloc, LinkNode, ClearNode,
             LogJournal, ResizeJournal, Ftruncate, MergeAndLookup, RemoveAlloc, HtInsert,
             CountRecord, Reorganize, ReorganizeFails, ResetOff, ResetCounters, ResetTable, Msync,
             CallForAllEntry, find, saved1, PointersType
    <3>6. NodesInFile'
      <4>. SUFFICES ASSUME NEW q \in Procs PROVE cur'[q] <= fsize' /\ cur1'[q] <= fsize'
           BY DEF NodesInFile
      <4>1. CASE q = p  BY <3>1, <4>1 DEF FileKept
      <4>2. CASE q # p
        <5>1. cur[q] \in Int /\ cur1[q] \in Int /\ cur[q] <= fsize /\ cur1[q] <= fsize
              BY <2>0 DEF NodesInFile, PointersType
        <5>. QED  BY <2>0, <3>2, <3>5, <4>2, <5>1
      <4>. QED  BY <4>1, <4>2
    <3>7. OffInFile'  BY <3>1 DEF FileKept, OffInFile
    <3>. QED  BY <1>1, <3>1, <3>4, <3>6, <3>7 DEF FileKept
  <2>2. CASE ~Inside(p)
    <3>1. (\E o \in Requests : Call(p, o)) \/ Lock(p) \/ Unlock(p)
          BY <1>3, <2>2 DEF Step, Crash
    <3>2. /\ UNCHANGED <<off, link, fsize, st>>
          /\ \A q \in Procs : q # p => pc'[q] = pc[q] /\ stage'[q] = stage[q]
          BY <2>0, <3>1
          DEF Call, Lock, StartFind, Unlock, Forget, Goto, journal, LockType, PointersType
    <3>3. \A q \in Procs : cur'[q] \in {0, cur[q]} /\ cur1'[q] \in {0, cur1[q]}
          BY <2>0, <3>1 DEF Call, Lock, Unlock, Forget, find, saved1, PointersType
    <3>4. /\ pc[p] \in {"idle", "lock", "unlock", "leave"}
          /\ pc'[p] \notin Inserting \cup {"swap", "alloc"}
      <4>1. CASE \E o \in Requests : Call(p, o)  BY <2>0, <4>1 DEF Call, Goto, LockType, Inserting
      <4>2. CASE Lock(p)  BY <2>0, <4>2 DEF Lock, StartFind, Goto, LockType, Inserting
      <4>3. CASE Unlock(p)  BY <2>0, <4>3 DEF Unlock, Forget, Goto, LockType, Inserting
      <4>. QED  BY <3>1, <4>1, <4>2, <4>3
    <3>5. FileType' /\ LinksInFile'  BY <3>2 DEF FileType, LinksInFile
    <3>6. NodesInFile'  BY <3>2, <3>3 DEF NodesInFile, FileType
    <3>7. OffInFile'  BY <3>2, <3>4 DEF OffInFile, Taken
    <3>8. \A q \in Procs : SecondNode(q)'  BY <3>2, <3>4 DEF SecondNode
    <3>. QED  BY <1>1, <3>5, <3>6, <3>7, <3>8
  <2>. QED  BY <2>1, <2>2
<1>. QED  BY <1>2, <1>3 DEF Next

(* What is written lies inside the journal file, when no process dies and   *)
(* the file is resized by one process only or not at all: the room for two  *)
(* nodes that every write keeps behind its records is enough for the node   *)
(* that the next operation takes before it looks at the size, and for the   *)
(* second node of a substitution.                                           *)
THEOREM RDBWritesInFile ==
    ASSUME Roomy, CrashOps = {}, SizeKnown, JournalSize # 0
    PROVE  Spec => []WritesInFile
<1>1. Init => FileInd
  <2>. SUFFICES ASSUME Init PROVE FileInd  OBVIOUS
  <2>1. JournalInd  BY InitJournalInd
  <2>2. JournalSize \in Nat \ {0}  BY RDBAssumption
  <2>. QED  BY <2>1, <2>2 DEF Init, FileInd, FileType, LinksInFile, NodesInFile, OffInFile,
                              SecondNode, Inserting
<1>2. FileInd => WritesInFile
  <2>. SUFFICES ASSUME FileInd, NEW p \in Procs
                PROVE  /\ cur[p] <= fsize
                       /\ Wanted(p) <= st[p] => off - 1 + NumRecs(p) <= fsize
       BY DEF WritesInFile
  <2>1. cur[p] <= fsize  BY DEF FileInd, NodesInFile
  <2>2. st[p] = fsize /\ fsize \in Int /\ off \in Int /\ NumRecs(p) \in Int
        BY DEF FileInd, FileType, JournalInd, WordsType, NumRecs
  <2>. QED  BY <2>1, <2>2 DEF Wanted
<1>. QED  BY <1>1, <1>2, NextFileInd, PTL DEF Spec
=============================================================================
