------------------------------ MODULE KVStore ------------------------------
(***************************************************************************)
(* What a reliable database (URDB) promises its callers: a map from keys to *)
(* data on which every operation takes effect at once, with the result     *)
(* codes that rdb.h documents, and transactions that exclude the other     *)
(* processes and can be undone.  A process that dies in the middle of an   *)
(* operation leaves either nothing or all of it ("crash-proof").           *)
(***************************************************************************)
EXTENDS Integers

CONSTANTS
    Procs,      \* the processes that share the database
    Keys,
    Data,
    NoData,     \* a key without entry
    NoOp,       \* a process that is not executing an operation
    NoProc      \* nobody is in a transaction

INSERT  == "RDB_INSERT"
REPLACE == "RDB_REPLACE"

Ops ==
    [kind : {"store"}, key : Keys, data : Data, flag : {INSERT, REPLACE}]
    \cup [kind : {"remove", "fetch"}, key : Keys]
    \cup [kind : {"substitute"}, key : Keys, key2 : Keys, data : Data,
          flag : {INSERT, REPLACE}]
    \cup [kind : {"begin", "commit", "abort", "reorganize", "print", "sorted"}]

VARIABLES
    db,       \* the entries
    op,       \* the operation every process is executing
    ret,      \* the result of the last operation of every process, until the next
    txn,      \* the process in a transaction
    saved     \* the entries when the transaction began

kvVars == <<db, op, ret, txn, saved>>

-----------------------------------------------------------------------------
Has(k) == db[k] # NoData

\* Results: a return code, the data of a fetch, the keys of a print.
Code(c) == <<"code", c>>
NoResult == <<"none", 0>>

\* -1 and -2 tell how the store knows that a key is absent, not what it holds.
Absent == {Code(-1), Code(-2)}

(* The outcomes <<entries, result>> of an operation on the entries db.      *)
Outcome(o) ==
    CASE o.kind = "store" ->
           IF o.flag = INSERT /\ Has(o.key)
             THEN {<<db, Code(-1)>>}
             ELSE {<<[db EXCEPT ![o.key] = o.data], Code(0)>>, <<db, Code(-3)>>}
      [] o.kind = "remove" ->
           IF Has(o.key)
             THEN {<<[db EXCEPT ![o.key] = NoData], Code(0)>>, <<db, Code(-3)>>}
             ELSE {db} \X Absent
      [] o.kind = "fetch" -> {<<db, <<"data", db[o.key]>>>>}
      [] o.kind = "substitute" ->
           IF ~Has(o.key) THEN {db} \X Absent
           ELSE IF o.flag = INSERT /\ Has(o.key2) THEN {<<db, Code(-4)>>}
           ELSE {<<[db EXCEPT ![o.key] = NoData, ![o.key2] = o.data], Code(0)>>, <<db, Code(-3)>>}
      [] o.kind \in {"print", "sorted"} -> {<<db, <<"keys", {k \in Keys : Has(k)}>>>>}
      [] o.kind = "abort" -> {<<saved, Code(0)>>}
      [] o.kind = "commit" -> {<<db, Code(0)>>}
      [] o.kind \in {"begin", "reorganize"} -> {<<db, Code(0)>>, <<db, Code(1)>>}

Init ==
    /\ db \in [Keys -> Data \cup {NoData}]
    /\ op = [p \in Procs |-> NoOp]
    /\ ret = [p \in Procs |-> NoResult]
    /\ txn = NoProc
    /\ saved = [k \in Keys |-> NoData]

Begin(p, o) ==
    /\ op[p] = NoOp
    /\ op' = [op EXCEPT ![p] = o]
    /\ ret' = [ret EXCEPT ![p] = NoResult]
    /\ UNCHANGED <<db, txn, saved>>

End(p) ==
    /\ op[p] # NoOp
    /\ op' = [op EXCEPT ![p] = NoOp]
    /\ txn \in {NoProc, p}
    /\ \E out \in Outcome(op[p]) :
         /\ db'  = out[1]
         /\ ret' = [ret EXCEPT ![p] = out[2]]
    /\ txn' = IF op[p].kind = "begin" /\ ret'[p] = Code(0) THEN p
              ELSE IF op[p].kind \in {"commit", "abort"} THEN NoProc ELSE txn
    /\ saved' = IF txn' = NoProc THEN [k \in Keys |-> NoData]
                ELSE IF txn = NoProc THEN db ELSE saved

(* The process dies: the operation it was executing took place or did not.  *)
Die(p) ==
    /\ op[p] # NoOp
    /\ op' = [op EXCEPT ![p] = NoOp]
    /\ txn = NoProc
    /\ \E out \in Outcome(op[p]) : db' \in {db, out[1]}
    /\ UNCHANGED <<ret, txn, saved>>

Next == \E p \in Procs : (\E o \in Ops : Begin(p, o)) \/ End(p) \/ Die(p)

Spec == Init /\ [][Next]_kvVars
=============================================================================
