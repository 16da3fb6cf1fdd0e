------------------------------- MODULE MCRDB -------------------------------
(* Instances of RDB for TLC.  Three keys: k1 and k2 share a slot, and, as   *)
(* one is a prefix of the other, each is searched right of the other; k3    *)
(* has a slot of its own unless a run says otherwise.  d2 is longer than d1. *)
EXTENDS RDB, TLC

CONSTANTS k1, k2, k3, d1, d2, p1, p2

\* The processes run the same program.
Alike == Permutations(Procs)

TwoSlots == (k1 :> 1) @@ (k2 :> 1) @@ (k3 :> 2)
OneSlot  == (k1 :> 1) @@ (k2 :> 1) @@ (k3 :> 1)
LeftOf   == {<<k3, k1>>, <<k3, k2>>}
Sizes    == (d1 :> 1) @@ (d2 :> 2)

Empty   == [k \in Keys |-> NoData]
WithK1  == [Empty EXCEPT ![k1] = d1]
WithK12 == [Empty EXCEPT ![k1] = d1, ![k2] = d2]

CdbEmpty  == {Empty}
CdbSome   == {Empty, WithK1}
CdbFull   == {WithK12}

Store(ks, ds, fs) == [kind : {"store"}, key : ks, data : ds, flag : fs]
Only(kinds, ks)   == [kind : kinds, key : ks]
Plain(kinds)      == [kind : kinds]
Subst(k, l, ds, fs) == [kind : {"substitute"}, key : {k}, key2 : {l}, data : ds, flag : fs]

Both == {INSERT, REPLACE}

\* Stores, removals and reads on keys that collide.
TreeOps == Store({k1, k2, k3}, {d1}, {INSERT}) \cup Store({k1, k2}, {d2}, {REPLACE})
             \cup Only({"remove"}, {k1, k2}) \cup Only({"fetch"}, {k1, k2, k3})

\* Transactions.
TxnOps == Store({k1}, {d2}, {REPLACE}) \cup Store({k2}, {d1}, {INSERT})
            \cup Only({"remove", "fetch"}, {k1})
            \cup Plain({"begin", "commit", "abort", "reorganize", "print"})

\* Substitutions between keys of different slots.
SubstOps == Subst(k1, k3, {d1, d2}, Both) \cup Subst(k3, k1, {d2}, {INSERT})
              \cup Store({k1, k3}, {d1}, {INSERT}) \cup Store({k1}, {d2}, {REPLACE})
              \cup Only({"remove"}, {k1, k3})

\* Removals that a crash may interrupt.
RemoveOps == Store({k3}, {d1}, {INSERT}) \cup Only({"remove"}, {k1, k2, k3})

\* New keys, until the journal is full.
FullOps == Store({k1, k2, k3}, {d1}, {INSERT}) \cup Only({"fetch"}, {k1, k2, k3})
             \cup Plain({"sorted"})

\* A substitution between two keys of one slot.
SamePathOps == Subst(k1, k2, {d2}, {INSERT})
=============================================================================
