--------------------------- MODULE RDBTreeProofs ---------------------------
(***************************************************************************)
(* Proofs about the trees of the journal of RDB.                           *)
(*                                                                         *)
(* A search is a walk, which a proof of preservation cannot follow.  The   *)
(* invariant says instead, link by link, which keys are searched through   *)
(* it: all keys of a slot through the root of the slot, and below a node   *)
(* each key but that of the node through one side.  What a walk of any     *)
(* length finds follows from that at the end.                              *)
(***************************************************************************)
EXTENDS RDBProofs, FiniteSetTheorems

Sides == {"left", "right"}

\* The links of a forest with the nodes N.
TreeLinks(N) == ({"tab"} \X Slots) \cup (Sides \X N)

SideOf(k, c) == IF <<k, c>> \in GoLeft THEN "left" ELSE "right"

\* With the links lk the nodes N with the keys kf are search trees, where D
\* are the keys that are searched through each link.
IsTree(N, D, lk, kf) ==
    /\ N \subseteq Offsets /\ D \in [Links -> SUBSET Keys]
    /\ \A l \in TreeLinks(N) : lk[l] \in N \cup {0}
    /\ \A n \in N : \E l \in TreeLinks(N) : lk[l] = n
    /\ \A l, j \in TreeLinks(N) : lk[l] = lk[j] /\ lk[l] # 0 => l = j
    /\ \A s \in Slots : D[<<"tab", s>>] = {k \in Keys : Hash[k] = s}
    /\ \A l \in TreeLinks(N) : \A j, k \in D[l] : Hash[j] = Hash[k]
    /\ \A l \in TreeLinks(N) : lk[l] # 0 => kf[lk[l]] \in D[l]
    /\ \A l \in TreeLinks(N) : \A t \in Sides :
         lk[l] # 0 => D[<<t, lk[l]>>] = {k \in D[l] : k # kf[lk[l]] /\ SideOf(k, kf[lk[l]]) = t}

(* The links of a forest, and that a step off its links does not change it. *)
LEMMA LinksOfForest ==
    ASSUME NEW N, N \subseteq Offsets
    PROVE  /\ TreeLinks(N) \subseteq Links
           /\ \A s \in Slots : <<"tab", s>> \in TreeLinks(N)
           /\ \A n \in N, t \in Sides : <<t, n>> \in TreeLinks(N)
           /\ \A m : \A t \in Sides : m \notin N => <<t, m>> \notin TreeLinks(N)
           /\ \A m, l : l \in TreeLinks(N \cup {m}) =>
                l \in TreeLinks(N) \/ l = <<"left", m>> \/ l = <<"right", m>>
           /\ \A m, l : l \in TreeLinks(N) => l \in TreeLinks(N \cup {m})
           /\ \A m, l : l \in TreeLinks(N \ {m}) <=>
                l \in TreeLinks(N) /\ l # <<"left", m>> /\ l # <<"right", m>>
BY DEF TreeLinks, Links, Sides

LEMMA SameTree ==
    ASSUME NEW N, NEW D, NEW lk, NEW kf, IsTree(N, D, lk, kf), NEW lk2, NEW kf2,
           \A l \in TreeLinks(N) : lk2[l] = lk[l], \A n \in N : kf2[n] = kf[n]
    PROVE  IsTree(N, D, lk2, kf2)
<1>1. \A l \in TreeLinks(N) : lk[l] # 0 => lk[l] \in N
  BY DEF IsTree
<1>2. \A l \in TreeLinks(N) : lk[l] # 0 => kf2[lk[l]] = kf[lk[l]]
  BY <1>1
<1>. QED BY <1>1, <1>2 DEF IsTree

(* Empty roots are a forest without nodes.                                  *)
LEMMA EmptyTree ==
    ASSUME NEW lk, NEW kf, \A s \in Slots : lk[<<"tab", s>>] = 0
    PROVE  \E D : IsTree({}, D, lk, kf)
<1>. DEFINE D == [l \in Links |-> {k \in Keys : l = <<"tab", Hash[k]>>}]
<1>1. \A l \in TreeLinks({}) : \E s \in Slots : l = <<"tab", s>>
  BY DEF TreeLinks
<1>2. D \in [Links -> SUBSET Keys]
  OBVIOUS
<1>3. \A s \in Slots : D[<<"tab", s>>] = {k \in Keys : Hash[k] = s}
  BY DEF Links
<1>. HIDE DEF D
<1>4. \A l \in TreeLinks({}) : lk[l] = 0
  BY <1>1
<1>5. \A l \in TreeLinks({}) : \A j, k \in D[l] : Hash[j] = Hash[k]
  BY <1>1, <1>3
<1>6. \A l, j \in TreeLinks({}) : lk[l] = lk[j] /\ lk[l] # 0 => l = j
  BY <1>4
<1>7. IsTree({}, D, lk, kf)
  BY <1>2, <1>3, <1>4, <1>5, <1>6 DEF IsTree
<1>. QED BY <1>7

(* A node for a key is added where the search for the key ends.             *)
Adds(N, D, lk, kf, lk2, l, m) ==
    /\ IsTree(N, D, lk, kf) /\ l \in TreeLinks(N) /\ lk[l] = 0
    /\ m \in Offsets /\ m \notin N /\ kf[m] \in D[l]
    /\ lk2[l] = m /\ lk2[<<"left", m>>] = 0 /\ lk2[<<"right", m>>] = 0
    /\ \A j \in TreeLinks(N) : j # l => lk2[j] = lk[j]

Extends(N, D, M, E, lk, kf) ==
    IsTree(M, E, lk, kf) /\ \A j \in TreeLinks(N) : E[j] = D[j]

LEMMA TreeGrows ==
    ASSUME NEW N, NEW D, NEW lk, NEW kf, NEW lk2, NEW l, NEW m, Adds(N, D, lk, kf, lk2, l, m)
    PROVE  \E E : Extends(N, D, N \cup {m}, E, lk2, kf)
<1>. USE DEF Adds
<1>. DEFINE M == N \cup {m}
            Below(t) == {k \in D[l] : k # kf[m] /\ SideOf(k, kf[m]) = t}
            D2 == [j \in Links |-> IF j = <<"left", m>> THEN Below("left")
                                   ELSE IF j = <<"right", m>> THEN Below("right") ELSE D[j]]
<1>1. /\ N \subseteq Offsets /\ M \subseteq Offsets /\ TreeLinks(N) \subseteq TreeLinks(M)
      /\ TreeLinks(N) \subseteq Links /\ m # 0 /\ m \notin N
      /\ <<"left", m>> \notin TreeLinks(N) /\ <<"right", m>> \notin TreeLinks(N)
      /\ <<"left", m>> \in Links /\ <<"right", m>> \in Links /\ <<"left", m>> # <<"right", m>>
      /\ \A j \in TreeLinks(M) : j \in TreeLinks(N) \/ j = <<"left", m>> \/ j = <<"right", m>>
  <2>1. N \subseteq Offsets /\ M \subseteq Offsets /\ m # 0
    BY DEF IsTree, Offsets
  <2>2. /\ TreeLinks(N) \subseteq Links
        /\ \A t \in Sides : <<t, m>> \notin TreeLinks(N)
        /\ \A j : j \in TreeLinks(M) => j \in TreeLinks(N) \/ j = <<"left", m>> \/ j = <<"right", m>>
        /\ \A j : j \in TreeLinks(N) => j \in TreeLinks(M)
    BY <2>1, LinksOfForest
  <2>3. <<"left", m>> \in Links /\ <<"right", m>> \in Links /\ <<"left", m>> # <<"right", m>>
    BY DEF Links
  <2>. QED BY <2>1, <2>2, <2>3 DEF Sides
<1>2. D \in [Links -> SUBSET Keys] /\ \A j \in TreeLinks(N) : lk[j] \in N \cup {0}
  BY DEF IsTree
<1>3. /\ D2 \in [Links -> SUBSET Keys]
      /\ \A j \in TreeLinks(N) : D2[j] = D[j]
      /\ D2[<<"left", m>>] = Below("left") /\ D2[<<"right", m>>] = Below("right")
      /\ \A n \in N, t \in Sides : D2[<<t, n>>] = D[<<t, n>>]
  <2>1. Below("left") \in SUBSET Keys /\ Below("right") \in SUBSET Keys
    BY <1>1, <1>2
  <2>2. \A n \in N, t \in Sides : <<t, n>> \in TreeLinks(N)
    BY <1>1, LinksOfForest
  <2>. HIDE DEF Below
  <2>3. D2 \in [Links -> SUBSET Keys]
    BY <1>2, <2>1
  <2>4. \A j \in TreeLinks(N) : D2[j] = D[j]
    BY <1>1
  <2>5. D2[<<"left", m>>] = Below("left") /\ D2[<<"right", m>>] = Below("right")
    BY <1>1
  <2>. QED BY <2>2, <2>3, <2>4, <2>5
<1>. HIDE DEF D2, M
<1>4. \A j \in TreeLinks(M) : lk2[j] \in M \cup {0}
  BY <1>1, <1>2 DEF M
<1>5. \A n \in M : \E j \in TreeLinks(M) : lk2[j] = n
  <2>1. \A n \in N : \E j \in TreeLinks(N) : lk[j] = n /\ n # 0
    BY <1>1 DEF IsTree, Offsets
  <2>2. \A n \in N : \E j \in TreeLinks(N) : lk2[j] = n
    BY <2>1
  <2>. QED BY <1>1, <2>2 DEF M
<1>6. \A i, j \in TreeLinks(M) : lk2[i] = lk2[j] /\ lk2[i] # 0 => i = j
  <2>1. \A i, j \in TreeLinks(N) : lk[i] = lk[j] /\ lk[i] # 0 => i = j
    BY DEF IsTree
  <2>2. \A j \in TreeLinks(M) : lk2[j] # 0 => j \in TreeLinks(N)
    BY <1>1
  <2>3. \A j \in TreeLinks(N) : j # l => lk2[j] # m
    BY <1>1, <1>2
  <2>4. \A i, j \in TreeLinks(N) : lk2[i] = lk2[j] /\ lk2[i] # 0 => i = j
    BY <2>1, <2>3
  <2>. QED BY <2>2, <2>4
<1>7. \A s \in Slots : D2[<<"tab", s>>] = {k \in Keys : Hash[k] = s}
  <2>1. \A s \in Slots : <<"tab", s>> \in TreeLinks(N)
    BY <1>1, LinksOfForest
  <2>. QED BY <1>3, <2>1 DEF IsTree
<1>8. \A j \in TreeLinks(M) : \A i, k \in D2[j] : Hash[i] = Hash[k]
  <2>1. \A j \in TreeLinks(N) : \A i, k \in D[j] : Hash[i] = Hash[k]
    BY DEF IsTree
  <2>2. \A t : Below(t) \subseteq D[l]
    OBVIOUS
  <2>. HIDE DEF Below
  <2>. QED BY <1>1, <1>3, <2>1, <2>2
<1>9. \A j \in TreeLinks(M) : lk2[j] # 0 => kf[lk2[j]] \in D2[j]
  <2>1. \A j \in TreeLinks(N) : lk[j] # 0 => lk[j] \in N /\ kf[lk[j]] \in D[j]
    BY DEF IsTree
  <2>2. \A j \in TreeLinks(M) : lk2[j] # 0 => j \in TreeLinks(N)
    BY <1>1
  <2>3. \A j \in TreeLinks(N) : j # l /\ lk2[j] # 0 => kf[lk2[j]] \in D[j]
    BY <2>1
  <2>. QED BY <1>3, <2>2, <2>3
<1>10. ASSUME NEW j \in TreeLinks(M), NEW t \in Sides, lk2[j] # 0
       PROVE  D2[<<t, lk2[j]>>] = {k \in D2[j] : k # kf[lk2[j]] /\ SideOf(k, kf[lk2[j]]) = t}
  <2>1. j \in TreeLinks(N) /\ D2[j] = D[j]
    BY <1>1, <1>3, <1>10
  <2>2. CASE j = l
    <3>1. D2[<<t, m>>] = Below(t)
      BY <1>3, <1>10 DEF Sides
    <3>. QED BY <2>1, <2>2, <3>1
  <2>3. CASE j # l
    <3>1. lk2[j] = lk[j] /\ lk[j] \in N
      BY <1>2, <1>10, <2>1, <2>3
    <3>2. D2[<<t, lk[j]>>] = D[<<t, lk[j]>>]
      BY <1>3, <3>1
    <3>3. D[<<t, lk[j]>>] = {k \in D[j] : k # kf[lk[j]] /\ SideOf(k, kf[lk[j]]) = t}
      BY <1>10, <2>1, <3>1 DEF IsTree
    <3>. QED BY <2>1, <3>1, <3>2, <3>3
  <2>. QED BY <2>2, <2>3
<1>11. IsTree(M, D2, lk2, kf)
  BY <1>1, <1>3, <1>4, <1>5, <1>6, <1>7, <1>8, <1>9, <1>10 DEF IsTree
<1>. QED BY <1>3, <1>11 DEF M, Extends

(* A node without successors is taken off.                                  *)
LEMMA TreeCut ==
    ASSUME NEW N, NEW D, NEW lk, NEW kf, IsTree(N, D, lk, kf), NEW lk2,
           NEW l \in TreeLinks(N), NEW m, m = lk[l], m # 0,
           lk[<<"left", m>>] = 0, lk[<<"right", m>>] = 0,
           lk2[l] = 0, \A j \in TreeLinks(N) : j # l => lk2[j] = lk[j]
    PROVE  IsTree(N \ {m}, D, lk2, kf) /\ l \in TreeLinks(N \ {m})
<1>. DEFINE M == N \ {m}
<1>1. /\ N \subseteq Offsets /\ \A n \in N : n # 0
      /\ \A j \in TreeLinks(M) : j \in TreeLinks(N) /\ j # <<"left", m>> /\ j # <<"right", m>>
      /\ \A j \in TreeLinks(N) : j # <<"left", m>> /\ j # <<"right", m>> => j \in TreeLinks(M)
  <2>1. N \subseteq Offsets /\ \A n \in N : n # 0
    BY DEF IsTree, Offsets
  <2>2. \A j : j \in TreeLinks(M) <=> j \in TreeLinks(N) /\ j # <<"left", m>> /\ j # <<"right", m>>
    BY <2>1, LinksOfForest
  <2>. QED BY <2>1, <2>2
<1>2. l \in TreeLinks(M)
  BY <1>1
<1>3. \A j \in TreeLinks(N) : lk[j] = m => j = l
  BY DEF IsTree
<1>. HIDE DEF M
<1>4. \A j \in TreeLinks(M) : lk2[j] \in M \cup {0}
  <2>1. \A j \in TreeLinks(N) : lk[j] \in N \cup {0}
    BY DEF IsTree
  <2>. QED BY <1>1, <1>3, <2>1 DEF M
<1>5. \A n \in M : \E j \in TreeLinks(M) : lk2[j] = n
  <2>1. \A n \in M : n \in N /\ n # m /\ n # 0
    BY <1>1 DEF M
  <2>2. \A n \in N : \E j \in TreeLinks(N) : lk[j] = n
    BY DEF IsTree
  <2>. QED BY <1>1, <2>1, <2>2
<1>6. IsTree(M, D, lk2, kf)
  <2>1. M \subseteq Offsets /\ D \in [Links -> SUBSET Keys]
    BY <1>1 DEF M, IsTree
  <2>2. \A j \in TreeLinks(M) : lk2[j] # 0 => j \in TreeLinks(N) /\ lk2[j] = lk[j]
    BY <1>1
  <2>. QED BY <1>1, <1>4, <1>5, <2>1, <2>2 DEF IsTree
<1>. QED BY <1>2, <1>6 DEF M

-----------------------------------------------------------------------------
\* The node of the process is linked and has no key yet.
Fresh(p) == pc[p] = "clear" \/ (pc[p] \in {"log", "ins1", "ins2"} /\ node[cur[p]].ksz = 0)

\* The links without the one to that node, and the keys of the nodes.
BaseOf(p) == [l \in Links |-> IF Fresh(p) /\ l = pnode[p] THEN 0 ELSE link[l]]
KeyOf == [n \in Offsets |-> NodeKey(n)]

\* The nodes of the trees have keys, and lie with their records below off.
NodesOK(N) == \A n \in N : n < off /\ node[n].ksz # 0 /\ node[n].kptr \in 1 .. off - 1

Forest(p, N, D) == IsTree(N, D, BaseOf(p), KeyOf) /\ NodesOK(N)

\* The key that the process works on.
EntryKey(p) ==
    IF op[p].kind = "substitute" /\ stage[p] \in {"key2", "new"} THEN op[p].key2 ELSE op[p].key

Works(p) == pc[p] \in Searching \cup Placing \cup Inserting \cup {"swap"}

\* The pointer to the node is where a search for the key comes by.
Placed(p, N, D) == Works(p) => pnode[p] \in TreeLinks(N) /\ EntryKey(p) \in D[pnode[p]]

\* The node of the process is in the trees.
HasNode(p, N) ==
    (pc[p] \in {"hit", "log"} \cup Inserting /\ ~Fresh(p))
       => cur[p] \in N /\ NodeKey(cur[p]) = EntryKey(p)

\* A new node may be linked at l: nothing is there or, in a substitution
\* between keys of a slot, a node without successors.
Leaf(l) == link[l] # 0 /\ link[<<"left", link[l]>>] = 0 /\ link[<<"right", link[l]>>] = 0
Loose(p, l) == link[l] = 0 \/ (Leaf(l) /\ Hash[op[p].key] = Hash[op[p].key2])
Vacant(p) ==
    /\ pc[p] = "miss" => link[pnode[p]] = 0 /\ cur[p] = 0
    /\ pc[p] \in {"alloc", "link"} =>
         /\ stage[p] # "old" => link[pnode[p]] = 0
         /\ stage[p] = "old" => Loose(p, pnode[p])

\* The new node lies above all nodes of the trees.
HasNew(p, N) ==
    /\ (pc[p] = "link" \/ Fresh(p)) => cur[p] \in Offsets /\ cur[p] < off /\ \A n \in N : n < cur[p]
    /\ Fresh(p) => link[pnode[p]] = cur[p]
    /\ (Fresh(p) /\ pc[p] # "clear") =>
         link[<<"left", cur[p]>>] = 0 /\ link[<<"right", cur[p]>>] = 0
    /\ pc[p] = "ins2" => node[cur[p]].kptr \in 1 .. off - 1 /\ NodeKey(cur[p]) = EntryKey(p)

\* The records that the process has written.
HasRecords(p) ==
    (pc[p] \in Inserting \cup {"swap"} \/ (pc[p] \in Placing /\ stage[p] = "old")) =>
       /\ jrec[p] < off /\ recs[jrec[p]].key = op[p].key
       /\ op[p].kind = "substitute" => jrec[p] + 1 < off /\ recs[jrec[p] + 1].key = op[p].key2

\* The node of the old key while substitute() works on the new one.
Pending(p, N, D) ==
    (Works(p) /\ op[p].kind = "substitute" /\ stage[p] \in {"key2", "new"}) =>
       /\ pnode1[p] \in TreeLinks(N) /\ op[p].key \in D[pnode1[p]]
       /\ cur1[p] # 0 => cur1[p] \in N /\ NodeKey(cur1[p]) = op[p].key
       /\ (cur1[p] = 0 /\ pc[p] \notin {"ins3", "ins4", "swap"}) => BaseOf(p)[pnode1[p]] = 0
       /\ (cur1[p] = 0 /\ pc[p] \in {"ins3", "ins4", "swap"}) => Loose(p, pnode1[p])

Where(p, N, D) ==
    /\ Placed(p, N, D) /\ HasNode(p, N) /\ Vacant(p) /\ HasNew(p, N) /\ HasRecords(p)
    /\ Pending(p, N, D)

TreeFor(p, N, D) == Forest(p, N, D) /\ Where(p, N, D)

\* The successors of a node were taken from the journal after it.
Ascending ==
    \A n \in Offsets, t \in Sides : link[<<t, n>>] = 0 \/ n < link[<<t, n>>]

Alone(p) == \A q \in Procs : Active(q) => q = p

TreeInd ==
    /\ JournalInd /\ Ascending
    /\ \A p \in Procs : Alone(p) /\ pc[p] \notin {"reset2", "reset3"} => \E N, D : TreeFor(p, N, D)

-----------------------------------------------------------------------------
(* A step that leaves the links and the keys of the nodes alone.            *)
LEMMA QuietForest ==
    ASSUME NEW p \in Procs, WordsType, off' \in Int, NEW N, NEW D, Forest(p, N, D),
           UNCHANGED <<link, recs>>, off <= off',
           \A n \in Offsets : node'[n].kptr = node[n].kptr /\ node'[n].ksz = node[n].ksz,
           Fresh(p)' <=> Fresh(p), Fresh(p) => pnode'[p] = pnode[p]
    PROVE  Forest(p, N, D)'
<1>1. N \subseteq Offsets
  BY DEF Forest, IsTree
<1>2. KeyOf' = KeyOf
  BY DEF KeyOf, NodeKey
<1>3. BaseOf(p)' = BaseOf(p)
  BY DEF BaseOf
<1>4. NodesOK(N)'
  <2>1. off \in Int /\ \A n \in N : node[n].kptr \in Int
    BY <1>1 DEF WordsType, Words
  <2>. QED BY <1>1, <2>1 DEF NodesOK, Forest, Offsets
<1>. QED BY <1>2, <1>3, <1>4 DEF Forest

(* isDeleted() leaves the keys of the nodes alone.                          *)
LEMMA RepairQuiet ==
    ASSUME WordsType, NEW m \in Offsets
    PROVE  \A n \in Offsets :
              Repaired(m)[n].kptr = node[n].kptr /\ Repaired(m)[n].ksz = node[n].ksz
BY DEF WordsType, Words, Repaired

(* The trees of a process that does not search or write are all there is.   *)
LEMMA IdleTree ==
    ASSUME NEW p \in Procs, NEW N, NEW D
    PROVE  /\ ~Works(p) => Where(p, N, D)
           /\ ~Works(p)' => Where(p, N, D)'
BY DEF Where, Works, Placed, HasNode, Vacant, HasNew, HasRecords, Pending, Fresh, Searching, Placing,
       Inserting

(* One turn of the search follows the side of the key.                      *)
LEMMA FindStepTree ==
    ASSUME JournalInd, NEW p \in Procs, NEW N, NEW D, TreeFor(p, N, D), FindStep(p)
    PROVE  TreeFor(p, N, D)'
<1>1. PICK n : n = link[pnode[p]]
  OBVIOUS
<1>2. /\ pc[p] = "find" /\ n # 0 /\ NodeKey(n) # SearchKey(p)
      /\ pnode' = [pnode EXCEPT ![p] = NextLink(p, n)] /\ cur' = [cur EXCEPT ![p] = n]
      /\ UNCHANGED <<off, link, node, recs, op, pc, stage, pnode1, cur1, jrec>>
  BY <1>1 DEF FindStep, journal, call, saved1
<1>3. ~Fresh(p) /\ ~Fresh(p)' /\ Works(p)
  BY <1>2 DEF Fresh, Works, Searching
<1>4. Forest(p, N, D)'
  BY <1>2, <1>3, QuietForest DEF TreeFor, JournalInd, WordsType
<1>5. /\ pnode[p] \in TreeLinks(N) /\ EntryKey(p) \in D[pnode[p]] /\ N \subseteq Offsets
      /\ TreeLinks(N) \subseteq Links
  BY <1>3, LinksOfForest DEF TreeFor, Where, Placed, Forest, IsTree
<1>6. SearchKey(p) = EntryKey(p)
  BY <1>2 DEF JournalInd, Stands, Shape, Searching, SearchKey, EntryKey
<1>7. n \in N
  BY <1>1, <1>2, <1>3, <1>5 DEF TreeFor, Forest, IsTree, BaseOf
<1>8. EntryKey(p) \in D[<<SideOf(EntryKey(p), KeyOf[n]), n>>]
  <2>1. BaseOf(p)[pnode[p]] = n
    BY <1>1, <1>3, <1>5 DEF BaseOf
  <2>2. KeyOf[n] = NodeKey(n) /\ SideOf(EntryKey(p), KeyOf[n]) \in Sides
    BY <1>5, <1>7 DEF KeyOf, SideOf, Sides
  <2>. QED BY <1>2, <1>5, <1>6, <2>1, <2>2 DEF TreeFor, Forest, IsTree
<1>9. pnode'[p] \in TreeLinks(N) /\ EntryKey(p) \in D[pnode'[p]]
  <2>1. pnode'[p] = <<SideOf(EntryKey(p), KeyOf[n]), n>>
    BY <1>2, <1>5, <1>6, <1>7 DEF NextLink, Side, SideOf, KeyOf, JournalInd, PointersType
  <2>2. SideOf(EntryKey(p), KeyOf[n]) \in Sides
    BY DEF SideOf, Sides
  <2>. QED BY <1>5, <1>7, <1>8, <2>1, <2>2, LinksOfForest
<1>10. EntryKey(p)' = EntryKey(p)
  BY <1>2 DEF EntryKey
<1>11. Where(p, N, D)'
  <2>1. BaseOf(p)' = BaseOf(p)
    BY <1>2, <1>3 DEF BaseOf
  <2>2. Pending(p, N, D)'
    BY <1>2, <2>1 DEF TreeFor, Where, Pending, Works, NodeKey
  <2>. QED BY <1>2, <1>3, <1>9, <1>10, <2>2
           DEF Where, Placed, HasNode, Vacant, HasNew, HasRecords, Searching, Placing, Inserting
<1>. QED BY <1>4, <1>11 DEF TreeFor

(* What is noted of the old key is kept when the trees are.                 *)
LEMMA PendingQuiet ==
    ASSUME NEW p \in Procs, NEW N, NEW D, N \subseteq Offsets, Pending(p, N, D),
           UNCHANGED <<link, recs, op, stage, pnode1, cur1>>,
           \A n \in Offsets : node'[n].kptr = node[n].kptr, BaseOf(p)' = BaseOf(p), Works(p),
           pc'[p] \in {"ins3", "ins4", "swap"} <=> pc[p] \in {"ins3", "ins4", "swap"}
    PROVE  Pending(p, N, D)'
<1>1. \A n \in N : NodeKey(n)' = NodeKey(n)
  BY DEF NodeKey
<1>2. \A l : Loose(p, l)' <=> Loose(p, l)
  BY DEF Loose, Leaf
<1>. QED BY <1>1, <1>2 DEF Pending

(* The search ends at the node of the key.                                  *)
LEMMA FindHitTree ==
    ASSUME JournalInd, NEW p \in Procs, NEW N, NEW D, TreeFor(p, N, D), FindHit(p)
    PROVE  TreeFor(p, N, D)'
<1>1. PICK n : n = link[pnode[p]]
  OBVIOUS
<1>2. /\ pc[p] = "find" /\ n # 0 /\ NodeKey(n) = SearchKey(p)
      /\ pc' = [pc EXCEPT ![p] = "hit"] /\ cur' = [cur EXCEPT ![p] = n]
      /\ UNCHANGED <<off, link, node, recs, op, stage, pnode, pnode1, cur1, jrec>>
  BY <1>1 DEF FindHit, Goto, journal, call, saved1
<1>3. pc'[p] = "hit" /\ cur'[p] = n
  BY <1>2 DEF JournalInd, LockInd, LockType, PointersType
<1>4. ~Fresh(p) /\ ~Fresh(p)' /\ Works(p)
  BY <1>2, <1>3 DEF Fresh, Works, Searching
<1>5. Forest(p, N, D)'
  BY <1>2, <1>4, QuietForest DEF TreeFor, JournalInd, WordsType
<1>6. pnode[p] \in TreeLinks(N) /\ N \subseteq Offsets /\ TreeLinks(N) \subseteq Links
  BY <1>4, LinksOfForest DEF TreeFor, Where, Placed, Forest, IsTree
<1>7. n \in N
  BY <1>1, <1>2, <1>4, <1>6 DEF TreeFor, Forest, IsTree, BaseOf
<1>8. SearchKey(p) = EntryKey(p) /\ EntryKey(p)' = EntryKey(p) /\ NodeKey(n)' = NodeKey(n)
  BY <1>2 DEF JournalInd, Stands, Shape, Searching, SearchKey, EntryKey, NodeKey
<1>9. Where(p, N, D)'
  <2>1. BaseOf(p)' = BaseOf(p)
    BY <1>2, <1>4 DEF BaseOf
  <2>2. Pending(p, N, D)'
    BY <1>2, <1>3, <1>4, <1>6, <2>1, PendingQuiet DEF TreeFor, Where
  <2>3. Placed(p, N, D)'
    BY <1>2, <1>4, <1>8 DEF TreeFor, Where, Placed
  <2>4. HasNode(p, N)'
    BY <1>2, <1>3, <1>7, <1>8 DEF HasNode, NodeKey, EntryKey
  <2>. QED BY <1>3, <1>4, <2>2, <2>3, <2>4
           DEF Where, Vacant, HasNew, HasRecords, Searching, Placing, Inserting
<1>. QED BY <1>5, <1>9 DEF TreeFor

(* The search ends where the node would be.                                 *)
LEMMA FindMissTree ==
    ASSUME JournalInd, NEW p \in Procs, NEW N, NEW D, TreeFor(p, N, D), FindMiss(p)
    PROVE  TreeFor(p, N, D)' /\ link' = link
<1>1. /\ pc[p] = "find" /\ (link[pnode[p]] # 0 => node[link[pnode[p]]].ksz = 0)
      /\ pc' = [pc EXCEPT ![p] = "miss"] /\ cur' = [cur EXCEPT ![p] = 0]
      /\ link' = [link EXCEPT ![pnode[p]] = 0]
      /\ UNCHANGED <<off, node, recs, op, stage, pnode, pnode1, cur1, jrec>>
  BY DEF FindMiss, Goto, journal, call, saved1
<1>2. pc'[p] = "miss" /\ cur'[p] = 0
  BY <1>1 DEF JournalInd, LockInd, LockType, PointersType
<1>3. ~Fresh(p) /\ ~Fresh(p)' /\ Works(p)
  BY <1>1, <1>2 DEF Fresh, Works, Searching
<1>4. pnode[p] \in TreeLinks(N) /\ N \subseteq Offsets /\ TreeLinks(N) \subseteq Links
  BY <1>3, LinksOfForest DEF TreeFor, Where, Placed, Forest, IsTree
<1>5. link[pnode[p]] = 0 \/ link[pnode[p]] \in N
  BY <1>3, <1>4 DEF TreeFor, Forest, IsTree, BaseOf
<1>6. link[pnode[p]] = 0
  BY <1>1, <1>5 DEF TreeFor, Forest, NodesOK
<1>7. link' = link
  BY <1>1, <1>6 DEF JournalInd, WordsType
<1>8. Forest(p, N, D)'
  BY <1>1, <1>3, <1>7, QuietForest DEF TreeFor, JournalInd, WordsType
<1>9. EntryKey(p)' = EntryKey(p)
  BY <1>1 DEF EntryKey
<1>10. Where(p, N, D)'
  <2>1. BaseOf(p)' = BaseOf(p)
    BY <1>1, <1>3, <1>7 DEF BaseOf
  <2>2. Pending(p, N, D)'
    BY <1>1, <1>2, <1>3, <1>4, <1>7, <2>1, PendingQuiet DEF TreeFor, Where
  <2>3. Placed(p, N, D)'
    BY <1>1, <1>3, <1>9 DEF TreeFor, Where, Placed
  <2>4. Vacant(p)'
    BY <1>1, <1>2, <1>6, <1>7 DEF Vacant
  <2>. QED BY <1>2, <1>3, <2>2, <2>3, <2>4
           DEF Where, HasNode, HasNew, HasRecords, Searching, Placing, Inserting
<1>. QED BY <1>7, <1>8, <1>10 DEF TreeFor

(* The steps after a search go on at the node or at its place.              *)
LEMMA FoundTree ==
    ASSUME JournalInd, NEW p \in Procs, NEW N, NEW D, TreeFor(p, N, D), pc[p] \in {"hit", "miss"},
           \A n \in Offsets : node'[n].kptr = node[n].kptr /\ node'[n].ksz = node[n].ksz,
           UNCHANGED <<off, link, recs, op, stage, pnode, pnode1, cur, cur1, jrec>>,
           \/ pc'[p] = "unlock"
           \/ pc[p] = "hit" /\ pc'[p] = "log"
           \/ pc[p] = "miss" /\ pc'[p] = "alloc"
    PROVE  TreeFor(p, N, D)'
<1>1. ~Fresh(p) /\ Works(p) /\ stage[p] # "old"
  BY DEF Fresh, Works, Searching, JournalInd, Stands, Shape
<1>2. pnode[p] \in TreeLinks(N) /\ N \subseteq Offsets /\ TreeLinks(N) \subseteq Links
  BY <1>1, LinksOfForest DEF TreeFor, Where, Placed, Forest, IsTree
<1>3. pc[p] = "hit" => cur[p] \in N /\ NodeKey(cur[p]) = EntryKey(p)
  BY <1>1 DEF TreeFor, Where, HasNode
<1>4. ~Fresh(p)'
  BY <1>2, <1>3 DEF Fresh, TreeFor, Forest, NodesOK
<1>5. Forest(p, N, D)'
  BY <1>1, <1>4, QuietForest DEF TreeFor, JournalInd, WordsType
<1>6. EntryKey(p)' = EntryKey(p) /\ \A n \in N : NodeKey(n)' = NodeKey(n)
  BY <1>2 DEF EntryKey, NodeKey
<1>7. BaseOf(p)' = BaseOf(p)
  BY <1>1, <1>4 DEF BaseOf
<1>8. Pending(p, N, D)'
  BY <1>1, <1>2, <1>7, PendingQuiet DEF TreeFor, Where
<1>9. Placed(p, N, D)'
  BY <1>1, <1>6 DEF TreeFor, Where, Placed
<1>10. HasNode(p, N)'
  BY <1>3, <1>6 DEF HasNode, NodeKey, EntryKey, Inserting
<1>11. Vacant(p)'
  BY <1>1 DEF Vacant, TreeFor, Where
<1>12. HasNew(p, N)' /\ HasRecords(p)'
  BY <1>1, <1>4 DEF HasNew, HasRecords, Inserting, Placing
<1>. QED BY <1>5, <1>8, <1>9, <1>10, <1>11, <1>12 DEF TreeFor, Where

(* fetch(), store() and remove() after their lookups.                       *)
LEMMA ResultTree ==
    ASSUME JournalInd, NEW p \in Procs, NEW N, NEW D, TreeFor(p, N, D),
           Fetch(p) \/ StoreHit(p) \/ StoreMiss(p) \/ RemoveHit(p) \/ RemoveMiss(p) \/ SubstituteNew(p)
    PROVE  TreeFor(p, N, D)'
<1>1. /\ UNCHANGED <<off, link, recs, op, stage, pnode, pnode1, cur, cur1, jrec>>
      /\ pc[p] \in {"hit", "miss"}
  BY DEF Fetch, StoreHit, StoreMiss, RemoveHit, RemoveMiss, SubstituteNew, journal, call, find, saved1
<1>2. \/ pc'[p] = "unlock"
      \/ pc[p] = "hit" /\ pc'[p] = "log"
      \/ pc[p] = "miss" /\ pc'[p] = "alloc"
  BY DEF Fetch, StoreHit, StoreMiss, RemoveHit, RemoveMiss, SubstituteNew, Finish, Goto, JournalInd,
         LockInd, LockType
<1>3. node' = node \/ (pc[p] = "hit" /\ node' = Repaired(cur[p]))
  BY DEF Fetch, StoreHit, StoreMiss, RemoveHit, RemoveMiss, SubstituteNew, journal
<1>4. pc[p] = "hit" => cur[p] \in Offsets
  BY DEF JournalInd, Stands, Shape, PointersType, Offsets
<1>5. \A n \in Offsets : node'[n].kptr = node[n].kptr /\ node'[n].ksz = node[n].ksz
  BY <1>3, <1>4, RepairQuiet DEF JournalInd
<1>. QED BY <1>1, <1>2, <1>5, FoundTree

(* substitute() notes the node or the place of the old key, and starts the  *)
(* search for the new one.                                                  *)
LEMMA SubstituteOldTree ==
    ASSUME JournalInd, NEW p \in Procs, NEW N, NEW D, TreeFor(p, N, D), SubstituteOld(p)
    PROVE  TreeFor(p, N, D)'
<1>1. /\ UNCHANGED <<off, link, recs, op, cur, jrec>>
      /\ pc[p] \in {"hit", "miss"} /\ op[p].kind = "substitute" /\ stage[p] = "key"
      /\ node' = IF pc[p] = "hit" THEN Repaired(cur[p]) ELSE node
  BY DEF SubstituteOld, call
<1>2. pc[p] = "hit" => cur[p] \in Offsets
  BY DEF JournalInd, Stands, Shape, PointersType, Offsets
<1>3. \A n \in Offsets : node'[n].kptr = node[n].kptr /\ node'[n].ksz = node[n].ksz
  BY <1>1, <1>2, RepairQuiet DEF JournalInd
<1>4. \/ pc'[p] = "unlock" /\ UNCHANGED <<stage, pnode, pnode1, cur1>>
      \/ /\ pc'[p] = "find"
         /\ pnode1' = [pnode1 EXCEPT ![p] = pnode[p]]
         /\ cur1' = [cur1 EXCEPT ![p] = cur[p]]
         /\ stage' = [stage EXCEPT ![p] = "key2"]
         /\ pnode' = [pnode EXCEPT ![p] = <<"tab", Hash[op[p].key2]>>]
  BY DEF SubstituteOld, Finish, StartFind, Goto, JournalInd, LockInd, LockType
<1>5. CASE pc'[p] = "unlock" /\ UNCHANGED <<stage, pnode, pnode1, cur1>>
  BY <1>1, <1>3, <1>5, FoundTree
<1>6. CASE /\ pc'[p] = "find"
           /\ pnode1' = [pnode1 EXCEPT ![p] = pnode[p]]
           /\ cur1' = [cur1 EXCEPT ![p] = cur[p]]
           /\ stage' = [stage EXCEPT ![p] = "key2"]
           /\ pnode' = [pnode EXCEPT ![p] = <<"tab", Hash[op[p].key2]>>]
  <2>1. /\ pnode1'[p] = pnode[p] /\ cur1'[p] = cur[p] /\ stage'[p] = "key2"
        /\ pnode'[p] = <<"tab", Hash[op[p].key2]>>
    BY <1>6 DEF JournalInd, PointersType
  <2>2. ~Fresh(p) /\ ~Fresh(p)' /\ Works(p)
    BY <1>1, <1>6 DEF Fresh, Works, Searching
  <2>3. Forest(p, N, D)'
    BY <1>1, <1>3, <2>2, QuietForest DEF TreeFor, JournalInd, WordsType
  <2>4. /\ pnode[p] \in TreeLinks(N) /\ op[p].key \in D[pnode[p]] /\ N \subseteq Offsets
        /\ TreeLinks(N) \subseteq Links
    BY <1>1, <2>2, LinksOfForest DEF TreeFor, Where, Placed, Forest, IsTree, EntryKey
  <2>5. op[p].key2 \in Keys
    <3>1. op[p] \in Requests
      BY <1>1 DEF JournalInd, Requested
    <3>. QED BY <1>1, <3>1, RDBAssumption
  <2>6. pnode'[p] \in TreeLinks(N) /\ op[p].key2 \in D[pnode'[p]]
    <3>1. Hash[op[p].key2] \in Slots
      BY <2>5, RDBAssumption
    <3>2. <<"tab", Hash[op[p].key2]>> \in TreeLinks(N)
      BY <2>4, <3>1, LinksOfForest
    <3>. QED BY <2>1, <2>5, <3>1, <3>2 DEF TreeFor, Forest, IsTree
  <2>7. EntryKey(p)' = op[p].key2
    BY <1>1, <2>1 DEF EntryKey
  <2>8. cur[p] # 0 => cur[p] \in N /\ NodeKey(cur[p]) = op[p].key
    BY <1>1, <2>2 DEF TreeFor, Where, HasNode, Vacant, EntryKey
  <2>9. cur[p] = 0 => link[pnode[p]] = 0
    <3>1. pc[p] = "hit" => cur[p] # 0
      BY DEF JournalInd, Stands, Shape
    <3>. QED BY <1>1, <3>1 DEF TreeFor, Where, Vacant
  <2>10. Pending(p, N, D)'
    <3>1. \A n \in N : NodeKey(n)' = NodeKey(n)
      BY <1>1, <1>3, <2>4 DEF NodeKey
    <3>2. BaseOf(p)'[pnode[p]] = link[pnode[p]]
      BY <1>1, <2>2, <2>4 DEF BaseOf
    <3>. QED BY <1>1, <1>6, <2>1, <2>4, <2>8, <2>9, <3>1, <3>2 DEF Pending
  <2>. QED BY <1>6, <2>2, <2>3, <2>6, <2>7, <2>10
           DEF TreeFor, Where, Placed, HasNode, Vacant, HasNew, HasRecords, Placing, Inserting
<1>. QED BY <1>4, <1>5, <1>6

(* substitute() goes back to the old key.                                   *)
LEMMA SwapTree ==
    ASSUME JournalInd, NEW p \in Procs, NEW N, NEW D, TreeFor(p, N, D), Swap(p)
    PROVE  TreeFor(p, N, D)'
<1>1. /\ UNCHANGED <<off, link, node, recs, op, jrec>> /\ pc[p] = "swap"
      /\ stage'[p] = "old" /\ pnode'[p] = pnode1[p]
      /\ \/ cur1[p] # 0 /\ cur'[p] = cur1[p] /\ pc'[p] = "ins1"
         \/ cur1[p] = 0 /\ pc'[p] = "alloc"
  BY DEF Swap, Goto, NodeOfOldKey, journal, call, JournalInd, PointersType, LockInd, LockType
<1>2. op[p].kind = "substitute" /\ stage[p] = "new" /\ ~Fresh(p) /\ Works(p)
  BY <1>1 DEF JournalInd, Stands, Shape, Fresh, Works
<1>3. /\ pnode1[p] \in TreeLinks(N) /\ op[p].key \in D[pnode1[p]] /\ N \subseteq Offsets
      /\ cur1[p] # 0 => cur1[p] \in N /\ NodeKey(cur1[p]) = op[p].key
      /\ cur1[p] = 0 => Loose(p, pnode1[p])
  BY <1>1, <1>2 DEF TreeFor, Where, Pending, Forest, IsTree
<1>4. ~Fresh(p)'
  BY <1>1, <1>3 DEF Fresh, TreeFor, Forest, NodesOK
<1>5. Forest(p, N, D)'
  BY <1>1, <1>2, <1>4, QuietForest DEF TreeFor, JournalInd, WordsType
<1>6. EntryKey(p)' = op[p].key /\ \A n \in N : NodeKey(n)' = NodeKey(n)
  BY <1>1 DEF EntryKey, NodeKey
<1>7. HasNode(p, N)'
  BY <1>1, <1>3, <1>6 DEF HasNode, Inserting, NodeKey
<1>8. Vacant(p)'
  BY <1>1, <1>3 DEF Vacant, Loose, Leaf
<1>9. HasRecords(p)'
  BY <1>1 DEF TreeFor, Where, HasRecords
<1>. QED BY <1>1, <1>3, <1>4, <1>5, <1>6, <1>7, <1>8, <1>9
         DEF TreeFor, Where, Placed, HasNew, Pending

(* A node is taken above all others.                                        *)
LEMMA AllocTree ==
    ASSUME JournalInd, NEW p \in Procs, NEW N, NEW D, TreeFor(p, N, D), Alloc(p)
    PROVE  TreeFor(p, N, D)'
<1>1. /\ UNCHANGED <<link, node, recs, op, stage, pnode, pnode1, cur1, jrec>> /\ pc[p] = "alloc"
      /\ cur'[p] = off /\ off' = off + 1 /\ pc'[p] = "link"
  BY DEF Alloc, Goto, call, saved1, JournalInd, PointersType, LockInd, LockType
<1>2. off \in Int /\ off' \in Int /\ off \in Offsets
  <2>1. off \in 1 .. MaxOff + 1 /\ Room(p)
    BY DEF JournalInd, WordsType, Stands
  <2>2. Left(p) >= 1 /\ Left(p) \in Int
    BY <1>1 DEF JournalInd, Stands, Shape, Left, Need, Placing, Searching
  <2>. QED BY <1>1, <2>1, <2>2, RDBAssumption DEF Room, Active, Offsets
<1>3. ~Fresh(p) /\ ~Fresh(p)' /\ Works(p) /\ Works(p)'
  BY <1>1 DEF Fresh, Works, Placing
<1>4. Forest(p, N, D)'
  BY <1>1, <1>2, <1>3, QuietForest DEF TreeFor, JournalInd
<1>5. EntryKey(p)' = EntryKey(p) /\ N \subseteq Offsets
  BY <1>1 DEF EntryKey, TreeFor, Forest, IsTree
<1>6. BaseOf(p)' = BaseOf(p)
  BY <1>1, <1>3 DEF BaseOf
<1>7. Pending(p, N, D)'
  BY <1>1, <1>3, <1>5, <1>6, PendingQuiet DEF TreeFor, Where
<1>8. HasNew(p, N)'
  <2>1. \A n \in N : n < off
    BY DEF TreeFor, Forest, NodesOK
  <2>. QED BY <1>1, <1>2, <1>3, <2>1 DEF HasNew
<1>9. HasRecords(p)'
  BY <1>1, <1>2 DEF TreeFor, Where, HasRecords, Placing, Inserting, JournalInd, PointersType
<1>10. Vacant(p)'
  BY <1>1 DEF TreeFor, Where, Vacant, Loose, Leaf
<1>11. Placed(p, N, D)'
  BY <1>1, <1>3, <1>5 DEF TreeFor, Where, Placed
<1>. QED BY <1>1, <1>4, <1>7, <1>8, <1>9, <1>10, <1>11 DEF TreeFor, Where, HasNode, Inserting

(* The new node is linked, in a substitution between keys of a slot perhaps *)
(* in the place of the node just added.                                     *)
LEMMA LinkTree ==
    ASSUME JournalInd, NEW p \in Procs, NEW N, NEW D, TreeFor(p, N, D), LinkNode(p)
    PROVE  \E M : /\ TreeFor(p, M, D)' /\ M \subseteq N
                  /\ M = N \/ (stage[p] = "old" /\ Hash[op[p].key] = Hash[op[p].key2])
<1>1. /\ UNCHANGED <<off, node, recs, op, stage, pnode, cur, pnode1, cur1, jrec>> /\ pc[p] = "link"
      /\ link' = [link EXCEPT ![pnode[p]] = cur[p]] /\ pc'[p] = "clear"
  BY DEF LinkNode, Goto, call, find, saved1, JournalInd, LockInd, LockType
<1>2. ~Fresh(p) /\ Fresh(p)' /\ Works(p)
  BY <1>1 DEF Fresh, Works, Placing
<1>3. /\ pnode[p] \in TreeLinks(N) /\ EntryKey(p) \in D[pnode[p]] /\ N \subseteq Offsets
      /\ TreeLinks(N) \subseteq Links
  BY <1>2, LinksOfForest DEF TreeFor, Where, Placed, Forest, IsTree
<1>4. cur[p] \in Offsets /\ cur[p] < off /\ \A n \in N : n < cur[p]
  BY <1>1 DEF TreeFor, Where, HasNew
<1>5. EntryKey(p)' = EntryKey(p) /\ KeyOf' = KeyOf /\ \A n : NodeKey(n)' = NodeKey(n)
  BY <1>1 DEF EntryKey, KeyOf, NodeKey
<1>6. /\ BaseOf(p)'[pnode[p]] = 0 /\ link'[pnode[p]] = cur[p]
      /\ \A l \in Links : BaseOf(p)[l] = link[l]
      /\ \A l \in Links : l # pnode[p] => BaseOf(p)'[l] = BaseOf(p)[l]
  BY <1>1, <1>2, <1>3 DEF BaseOf, JournalInd, WordsType
<1>7. HasRecords(p)'
  BY <1>1 DEF TreeFor, Where, HasRecords, Placing, Inserting
<1>8. ASSUME NEW M, M \subseteq N, pnode[p] \in TreeLinks(M), IsTree(M, D, BaseOf(p)', KeyOf),
             stage[p] = "old" \/ M = N
      PROVE  TreeFor(p, M, D)'
  <2>1. Forest(p, M, D)'
    BY <1>1, <1>5, <1>8 DEF TreeFor, Forest, NodesOK
  <2>2. Placed(p, M, D)'
    BY <1>1, <1>3, <1>5, <1>8 DEF Placed
  <2>3. HasNew(p, M)'
    BY <1>1, <1>2, <1>4, <1>6, <1>8 DEF HasNew
  <2>4. Pending(p, M, D)'
    <3>1. CASE stage[p] = "old"
      BY <1>1, <3>1 DEF Pending
    <3>2. CASE stage[p] # "old" /\ M = N
      <4>1. Pending(p, N, D)
        BY DEF TreeFor, Where
      <4>. QED BY <1>1, <1>2, <1>3, <1>5, <1>6, <3>2, <4>1 DEF Pending
    <3>. QED BY <1>8, <3>1, <3>2
  <2>. QED BY <1>1, <1>2, <1>7, <2>1, <2>2, <2>3, <2>4 DEF TreeFor, Where, HasNode, Vacant, Inserting
<1>9. CASE link[pnode[p]] = 0
  <2>1. \A l \in TreeLinks(N) : BaseOf(p)'[l] = BaseOf(p)[l]
    BY <1>3, <1>6, <1>9
  <2>2. IsTree(N, D, BaseOf(p)', KeyOf)
    BY <2>1, SameTree DEF TreeFor, Forest
  <2>. QED BY <1>3, <1>8, <2>2
<1>10. CASE link[pnode[p]] # 0
  <2>1. stage[p] = "old" /\ Leaf(pnode[p]) /\ Hash[op[p].key] = Hash[op[p].key2]
    BY <1>1, <1>10 DEF TreeFor, Where, Vacant, Loose
  <2>2. PICK m : m = link[pnode[p]]
    OBVIOUS
  <2>3. m \in N
    BY <1>3, <1>6, <1>10, <2>2 DEF TreeFor, Forest, IsTree
  <2>4. BaseOf(p)[<<"left", m>>] = 0 /\ BaseOf(p)[<<"right", m>>] = 0
    BY <1>3, <1>6, <2>1, <2>2, <2>3, LinksOfTrees DEF Leaf
  <2>5. IsTree(N \ {m}, D, BaseOf(p)', KeyOf) /\ pnode[p] \in TreeLinks(N \ {m})
    <3>1. m = BaseOf(p)[pnode[p]] /\ m # 0
      BY <1>3, <1>6, <1>10, <2>2
    <3>2. \A j \in TreeLinks(N) : j # pnode[p] => BaseOf(p)'[j] = BaseOf(p)[j]
      BY <1>3, <1>6
    <3>. QED BY <1>3, <1>6, <2>4, <3>1, <3>2, TreeCut DEF TreeFor, Forest
  <2>. QED BY <1>8, <2>1, <2>5
<1>. QED BY <1>9, <1>10

(* The words and the successors of the new node are cleared.                *)
LEMMA ClearTree ==
    ASSUME JournalInd, NEW p \in Procs, NEW N, NEW D, TreeFor(p, N, D), ClearNode(p)
    PROVE  TreeFor(p, N, D)'
<1>1. /\ UNCHANGED <<off, recs, op, stage, pnode, cur, pnode1, cur1, jrec>> /\ pc[p] = "clear"
      /\ node' = [node EXCEPT ![cur[p]] = [w \in Words |-> 0]]
      /\ link' = [link EXCEPT ![<<"left", cur[p]>>] = 0, ![<<"right", cur[p]>>] = 0]
      /\ \/ stage[p] = "old" /\ pc'[p] = "ins1"
         \/ stage[p] # "old" /\ pc'[p] = "log"
  BY DEF ClearNode, Goto, call, find, saved1, JournalInd, LockInd, LockType
<1>2. Fresh(p) /\ Works(p)
  BY <1>1 DEF Fresh, Works, Placing
<1>3. /\ pnode[p] \in TreeLinks(N) /\ EntryKey(p) \in D[pnode[p]] /\ N \subseteq Offsets
      /\ TreeLinks(N) \subseteq Links
  BY <1>2, LinksOfForest DEF TreeFor, Where, Placed, Forest, IsTree
<1>4. /\ cur[p] \in Offsets /\ cur[p] < off /\ \A n \in N : n < cur[p]
      /\ link[pnode[p]] = cur[p]
  BY <1>2 DEF TreeFor, Where, HasNew
<1>5. cur[p] \notin N
  <2>1. cur[p] \in N => cur[p] < cur[p]
    BY <1>4
  <2>. QED BY <1>4, <2>1 DEF Offsets
<1>6. <<"left", cur[p]>> \notin TreeLinks(N) /\ <<"right", cur[p]>> \notin TreeLinks(N)
  BY <1>3, <1>5, LinksOfForest DEF Sides
<1>7. /\ \A l \in TreeLinks(N) : link'[l] = link[l]
      /\ link'[<<"left", cur[p]>>] = 0 /\ link'[<<"right", cur[p]>>] = 0
  BY <1>1, <1>3, <1>4, <1>6, LinksOfTrees DEF JournalInd, WordsType
<1>8. /\ \A n \in N : node'[n] = node[n]
      /\ node'[cur[p]].ksz = 0
  BY <1>1, <1>3, <1>4, <1>5 DEF JournalInd, WordsType, Words
<1>9. Fresh(p)' /\ Works(p)'
  BY <1>1, <1>8 DEF Fresh, Works, Placing, Inserting
<1>10. \A l \in TreeLinks(N) : BaseOf(p)'[l] = BaseOf(p)[l]
  BY <1>1, <1>2, <1>3, <1>7, <1>9 DEF BaseOf
<1>11. EntryKey(p)' = EntryKey(p) /\ \A n \in N : NodeKey(n)' = NodeKey(n) /\ KeyOf'[n] = KeyOf[n]
  BY <1>1, <1>3, <1>8 DEF EntryKey, KeyOf, NodeKey
<1>12. Forest(p, N, D)'
  <2>1. IsTree(N, D, BaseOf(p)', KeyOf')
    BY <1>10, <1>11, SameTree DEF TreeFor, Forest
  <2>. QED BY <1>1, <1>8, <2>1 DEF TreeFor, Forest, NodesOK
<1>13. Placed(p, N, D)'
  BY <1>1, <1>3, <1>11 DEF Placed
<1>14. HasNew(p, N)'
  BY <1>1, <1>3, <1>4, <1>7, <1>9 DEF HasNew
<1>15. HasRecords(p)'
  BY <1>1 DEF TreeFor, Where, HasRecords, Placing, Inserting
<1>16. Pending(p, N, D)'
  <2>1. Pending(p, N, D)
    BY DEF TreeFor, Where
  <2>. QED BY <1>1, <1>2, <1>10, <1>11, <2>1 DEF Pending
<1>. QED BY <1>1, <1>9, <1>12, <1>13, <1>14, <1>15, <1>16 DEF TreeFor, Where, HasNode, Vacant

(* The node of the process while its words are written.                     *)
LEMMA NodeAtHand ==
    ASSUME JournalInd, NEW p \in Procs, NEW N, NEW D, TreeFor(p, N, D), pc[p] \in {"log"} \cup Inserting
    PROVE  /\ cur[p] \in Offsets /\ cur[p] # 0
           /\ Fresh(p) => cur[p] \notin N /\ \A n \in N : n < cur[p]
           /\ ~Fresh(p) => cur[p] \in N /\ NodeKey(cur[p]) = EntryKey(p)
           /\ N \subseteq Offsets /\ TreeLinks(N) \subseteq Links
           /\ pnode[p] \in TreeLinks(N) /\ EntryKey(p) \in D[pnode[p]]
<1>1. N \subseteq Offsets
  BY DEF TreeFor, Forest, IsTree
<1>2. TreeLinks(N) \subseteq Links /\ pnode[p] \in TreeLinks(N) /\ EntryKey(p) \in D[pnode[p]]
  <2>1. Works(p)
    BY DEF Works, Placing
  <2>. QED BY <1>1, <2>1, LinksOfForest DEF TreeFor, Where, Placed
<1>3. CASE Fresh(p)
  <2>1. cur[p] \in Offsets /\ \A n \in N : n < cur[p]
    BY <1>3 DEF TreeFor, Where, HasNew
  <2>2. cur[p] \notin N
    <3>1. cur[p] \in N => cur[p] < cur[p]
      BY <2>1
    <3>. QED BY <2>1, <3>1 DEF Offsets
  <2>. QED BY <1>1, <1>2, <1>3, <2>1, <2>2 DEF Offsets
<1>4. CASE ~Fresh(p)
  <2>1. cur[p] \in N /\ NodeKey(cur[p]) = EntryKey(p)
    BY <1>4 DEF TreeFor, Where, HasNode
  <2>2. cur[p] \in Offsets
    BY <1>1, <2>1
  <2>3. cur[p] # 0
    BY <2>2 DEF Offsets
  <2>. QED BY <1>1, <1>2, <1>4, <2>1, <2>2, <2>3
<1>. QED BY <1>3, <1>4

(* The records written by logJournal() lie above those of the trees.        *)
LEMMA LogRecords ==
    ASSUME JournalInd, NEW p \in Procs, LogJournal(p)
    PROVE  /\ off \in Int /\ off' \in Int /\ off < off'
           /\ \A n \in 1 .. off - 1 : recs'[n] = recs[n]
           /\ op[p].kind # "substitute" => off' = off + 1 /\ recs'[off].key = op[p].key
           /\ op[p].kind = "substitute" =>
                /\ off' = off + 2 /\ recs'[off].key = op[p].key
                /\ recs'[off + 1].key = op[p].key2 /\ recs'[off + 1].data = op[p].data
<1>1. pc[p] = "log" /\ off' = off + NumRecs(p)
  BY DEF LogJournal
<1>2. \/ op[p].kind \in {"store", "remove"} /\ stage[p] = "key" /\ NumRecs(p) = 1 /\ Left(p) = 1
      \/ op[p].kind = "substitute" /\ stage[p] = "key2" /\ NumRecs(p) = 2 /\ Left(p) = 3
  BY <1>1 DEF JournalInd, Stands, Shape, Placing, Searching, NumRecs, Need, Left
<1>3. off + Left(p) <= MaxOff + 1
  BY <1>1 DEF JournalInd, Stands, Room, Active
<1>4. off \in Int /\ off >= 1 /\ MaxOff \in Int
  BY RDBAssumption DEF JournalInd, WordsType
<1>5. off \in Offsets /\ (op[p].kind = "substitute" => off + 1 \in Offsets)
  BY <1>2, <1>3, <1>4 DEF Offsets
<1>6. recs \in [Offsets -> [key : Keys \cup {NoData}, data : Data \cup {NoData}]]
  BY DEF JournalInd, WordsType
<1>7. \A n \in 1 .. off - 1 : n # off /\ n # off + 1 /\ n \in Offsets
  BY <1>4, <1>5 DEF Offsets
<1>8. CASE op[p].kind = "store"
  <2>1. recs' = [recs EXCEPT ![off] = [key |-> op[p].key, data |-> op[p].data]]
    BY <1>8 DEF LogJournal
  <2>. QED BY <1>1, <1>2, <1>4, <1>5, <1>6, <1>7, <1>8, <2>1
<1>9. CASE op[p].kind = "remove"
  <2>1. recs' = [recs EXCEPT ![off] = [key |-> op[p].key, data |-> NoData]]
    BY <1>9 DEF LogJournal
  <2>. QED BY <1>1, <1>2, <1>4, <1>5, <1>6, <1>7, <1>9, <2>1
<1>10. CASE op[p].kind = "substitute"
  <2>1. recs' = [recs EXCEPT ![off]     = [key |-> op[p].key, data |-> NoData],
                             ![off + 1] = [key |-> op[p].key2, data |-> op[p].data]]
    BY <1>10 DEF LogJournal
  <2>2. off + 1 # off
    BY <1>4
  <2>. QED BY <1>1, <1>2, <1>4, <1>5, <1>6, <1>7, <1>10, <2>1, <2>2
<1>. QED BY <1>2, <1>8, <1>9, <1>10

LEMMA LogTree ==
    ASSUME JournalInd, NEW p \in Procs, NEW N, NEW D, TreeFor(p, N, D), LogJournal(p)
    PROVE  TreeFor(p, N, D)'
<1>1. /\ UNCHANGED <<link, node, op, pnode, cur, pnode1, cur1>>
      /\ pc[p] = "log" /\ pc'[p] = "ins1" /\ stage'[p] = "new" /\ jrec'[p] = off
  BY DEF LogJournal, call, find, saved1, Goto, JournalInd, LockInd, LockType, PointersType
<1>2. \/ op[p].kind \in {"store", "remove"} /\ stage[p] = "key"
      \/ op[p].kind = "substitute" /\ stage[p] = "key2"
  BY <1>1 DEF JournalInd, Stands, Shape, Placing
<1>3. /\ cur[p] \in Offsets /\ N \subseteq Offsets
      /\ pnode[p] \in TreeLinks(N) /\ EntryKey(p) \in D[pnode[p]]
  BY <1>1, NodeAtHand
<1>4. (Fresh(p)' <=> Fresh(p)) /\ Works(p) /\ Works(p)' /\ EntryKey(p)' = EntryKey(p)
  BY <1>1, <1>2 DEF Fresh, Works, EntryKey, Placing, Inserting
<1>5. /\ off \in Int /\ off' \in Int /\ off < off'
      /\ \A n \in 1 .. off - 1 : recs'[n] = recs[n]
  BY LogRecords
<1>6. \A n \in N : NodeKey(n)' = NodeKey(n)
  BY <1>1, <1>5 DEF TreeFor, Forest, NodesOK, NodeKey
<1>7. BaseOf(p)' = BaseOf(p)
  BY <1>1, <1>4 DEF BaseOf
<1>8. Forest(p, N, D)'
  <2>1. \A n \in N : KeyOf'[n] = KeyOf[n]
    BY <1>3, <1>6 DEF KeyOf
  <2>2. IsTree(N, D, BaseOf(p)', KeyOf')
    BY <1>7, <2>1, SameTree DEF TreeFor, Forest
  <2>3. NodesOK(N)'
    <3>1. \A n \in N : n \in Int /\ node[n].kptr \in Int
      BY <1>3 DEF JournalInd, WordsType, Words, Offsets
    <3>. QED BY <1>1, <1>5, <3>1 DEF TreeFor, Forest, NodesOK
  <2>. QED BY <2>2, <2>3 DEF Forest
<1>9. Placed(p, N, D)'
  BY <1>1, <1>3, <1>4 DEF Placed
<1>10. HasNode(p, N)'
  BY <1>1, <1>4, <1>6 DEF TreeFor, Where, HasNode, Inserting, NodeKey
<1>11. HasNew(p, N)'
  <2>1. HasNew(p, N)
    BY DEF TreeFor, Where
  <2>. QED BY <1>1, <1>3, <1>4, <1>5, <2>1 DEF HasNew, Offsets
<1>12. HasRecords(p)'
  BY <1>1, <1>2, <1>5, LogRecords DEF HasRecords
<1>13. Pending(p, N, D)'
  <2>1. Pending(p, N, D)
    BY DEF TreeFor, Where
  <2>. QED BY <1>1, <1>2, <1>4, <1>6, <1>7, <2>1 DEF Pending
<1>. QED BY <1>1, <1>8, <1>9, <1>10, <1>11, <1>12, <1>13 DEF TreeFor, Where, Vacant

(* A step of another process leaves it all alone.                           *)
LEMMA UntouchedTree ==
    ASSUME NEW p \in Procs, NEW N, NEW D, TreeFor(p, N, D), Untouched(p), cur1'[p] = cur1[p],
           UNCHANGED <<link, node, recs>>
    PROVE  TreeFor(p, N, D)'
<1>. USE DEF Untouched
<1>1. (Fresh(p)' <=> Fresh(p)) /\ (Works(p)' <=> Works(p)) /\ EntryKey(p)' = EntryKey(p)
  BY DEF Fresh, Works, EntryKey
<1>2. BaseOf(p)' = BaseOf(p) /\ KeyOf' = KeyOf
  BY <1>1 DEF BaseOf, KeyOf, NodeKey
<1>3. Forest(p, N, D)'
  BY <1>2 DEF TreeFor, Forest, NodesOK
<1>4. HasNode(p, N)' /\ Vacant(p)' /\ HasNew(p, N)' /\ HasRecords(p)'
  BY <1>1 DEF TreeFor, Where, HasNode, Vacant, HasNew, HasRecords, NodeKey, Loose, Leaf
<1>5. Placed(p, N, D)' /\ Pending(p, N, D)'
  BY <1>1, <1>2 DEF TreeFor, Where, Placed, Pending, NodeKey, Loose, Leaf
<1>. QED BY <1>3, <1>4, <1>5 DEF TreeFor, Where

(* The file grows.                                                          *)
LEMMA ResizeTree ==
    ASSUME Full \subseteq {"ftruncate"}, NEW p \in Procs, NEW N, NEW D, TreeFor(p, N, D),
           ResizeJournal(p)
    PROVE  TreeFor(p, N, D)' /\ UNCHANGED link
<1>1. UNCHANGED <<off, link, node, recs, op, stage, pnode, cur, pnode1, cur1, jrec, pc>>
  BY DEF ResizeJournal, Ftruncate, call, find, saved1
<1>. QED BY <1>1, UntouchedTree DEF Untouched

(* The words of htInsert(), one step for each.  The pointer to the key is   *)
(* that of a record with the same key.                                      *)
LEMMA InsertStep ==
    ASSUME JournalInd, NEW p \in Procs, NEW N, NEW D, TreeFor(p, N, D), HtInsert(p)
    PROVE  /\ UNCHANGED <<off, link, recs, op, stage, pnode, cur, pnode1, cur1, jrec>>
           /\ pc[p] \in Inserting
           /\ node' = [node EXCEPT ![cur[p]][WordName[pc[p]]] = NewWord(p)[WordName[pc[p]]]]
           /\ pc'[p] = AfterInsert(p)[pc[p]]
<1>1. pc[p] \in Inserting
  BY DEF HtInsert, WordName, Inserting
<1>2. cur[p] # 0
  BY <1>1, NodeAtHand
<1>3. /\ UNCHANGED <<off, link, recs, op, stage, pnode, cur, pnode1, cur1, jrec>>
      /\ node' = [node EXCEPT ![cur[p]][WordName[pc[p]]] = NewWord(p)[WordName[pc[p]]]]
  BY <1>2 DEF HtInsert, call, find, saved1
<1>4. pc'[p] = AfterInsert(p)[pc[p]]
  BY DEF HtInsert, Goto, JournalInd, LockInd, LockType
<1>. QED BY <1>1, <1>3, <1>4

LEMMA KeyWord ==
    ASSUME JournalInd, NEW p \in Procs, NEW N, NEW D, TreeFor(p, N, D), HtInsert(p), pc[p] = "ins1"
    PROVE  TreeFor(p, N, D)'
<1>1. /\ UNCHANGED <<off, link, recs, op, stage, pnode, cur, pnode1, cur1, jrec>>
      /\ node' = [node EXCEPT ![cur[p]]["kptr"] = NewWord(p)["kptr"]]
      /\ pc'[p] = "ins2"
  <2>1. WordName["ins1"] = "kptr" /\ AfterInsert(p)["ins1"] = "ins2"
    BY DEF WordName, AfterInsert
  <2>. QED BY <2>1, InsertStep
<1>2. /\ cur[p] \in Offsets /\ N \subseteq Offsets /\ cur[p] # 0
      /\ Fresh(p) => cur[p] \notin N
      /\ ~Fresh(p) => cur[p] \in N /\ NodeKey(cur[p]) = EntryKey(p)
      /\ pnode[p] \in TreeLinks(N) /\ EntryKey(p) \in D[pnode[p]]
  BY NodeAtHand DEF Inserting
<1>3. PICK r : r = NewWord(p)["kptr"]
  OBVIOUS
<1>4. r \in 1 .. off - 1 /\ recs[r].key = EntryKey(p)
  <2>1. /\ jrec[p] < off /\ recs[jrec[p]].key = op[p].key
        /\ op[p].kind = "substitute" => jrec[p] + 1 < off /\ recs[jrec[p] + 1].key = op[p].key2
    BY DEF TreeFor, Where, HasRecords, Inserting
  <2>2. jrec[p] \in Nat \ {0} /\ off \in Int
    BY WordsWritten DEF Inserting, JournalInd, WordsType
  <2>3. \/ op[p].kind # "substitute"
        \/ op[p].kind = "substitute" /\ stage[p] = "new"
        \/ op[p].kind = "substitute" /\ stage[p] = "old"
    BY DEF JournalInd, Stands, Shape, Inserting
  <2>4. CASE op[p].kind = "substitute" /\ stage[p] = "new"
    <3>1. r = jrec[p] + 1 /\ EntryKey(p) = op[p].key2
      BY <1>3, <2>4 DEF NewWord, EntryKey
    <3>. QED BY <2>1, <2>2, <2>4, <3>1
  <2>5. CASE ~(op[p].kind = "substitute" /\ stage[p] = "new")
    <3>1. r = jrec[p] /\ EntryKey(p) = op[p].key
      BY <1>3, <2>3, <2>5 DEF NewWord, EntryKey
    <3>. QED BY <2>1, <2>2, <3>1
  <2>. QED BY <2>4, <2>5
<1>5. /\ \A n \in Offsets : n # cur[p] => node'[n] = node[n]
      /\ node'[cur[p]].kptr = r /\ node'[cur[p]].ksz = node[cur[p]].ksz
  BY <1>1, <1>2, <1>3 DEF JournalInd, WordsType, Words
<1>6. (Fresh(p)' <=> Fresh(p)) /\ EntryKey(p)' = EntryKey(p)
  BY <1>1, <1>5 DEF Fresh, EntryKey
<1>7. BaseOf(p)' = BaseOf(p)
  BY <1>1, <1>6 DEF BaseOf
<1>8. NodeKey(cur[p])' = EntryKey(p) /\ \A n \in N : NodeKey(n)' = NodeKey(n)
  BY <1>1, <1>2, <1>4, <1>5 DEF NodeKey, Fresh
<1>9. Forest(p, N, D)'
  <2>1. \A n \in N : KeyOf'[n] = KeyOf[n]
    BY <1>2, <1>8 DEF KeyOf
  <2>2. IsTree(N, D, BaseOf(p)', KeyOf')
    BY <1>7, <2>1, SameTree DEF TreeFor, Forest
  <2>3. NodesOK(N)'
    BY <1>1, <1>2, <1>4, <1>5 DEF TreeFor, Forest, NodesOK
  <2>. QED BY <2>2, <2>3 DEF Forest
<1>10. Placed(p, N, D)'
  BY <1>1, <1>2, <1>6 DEF Placed
<1>11. HasNode(p, N)'
  BY <1>1, <1>2, <1>6, <1>8 DEF HasNode
<1>12. HasNew(p, N)'
  BY <1>1, <1>4, <1>5, <1>6, <1>8 DEF TreeFor, Where, HasNew
<1>13. HasRecords(p)'
  BY <1>1 DEF TreeFor, Where, HasRecords, Inserting
<1>14. Pending(p, N, D)'
  <2>1. Pending(p, N, D) /\ Works(p)
    BY DEF TreeFor, Where, Works, Inserting
  <2>. QED BY <1>1, <1>7, <1>8, <2>1 DEF Pending
<1>. QED BY <1>1, <1>9, <1>10, <1>11, <1>12, <1>13, <1>14 DEF TreeFor, Where, Vacant

(* The words of the data leave the trees alone.                             *)
LEMMA DataWord ==
    ASSUME JournalInd, NEW p \in Procs, NEW N, NEW D, TreeFor(p, N, D), HtInsert(p),
           pc[p] \in {"ins3", "ins4"}
    PROVE  TreeFor(p, N, D)'
<1>1. PICK w : w = WordName[pc[p]]
  OBVIOUS
<1>2. /\ UNCHANGED <<off, link, recs, op, stage, pnode, cur, pnode1, cur1, jrec>>
      /\ node' = [node EXCEPT ![cur[p]][w] = NewWord(p)[w]]
      /\ w \in {"dptr", "dsz"} /\ pc'[p] \in {"ins4", "count", "swap", "unlock"}
      /\ pc'[p] = "swap" => op[p].kind = "substitute" /\ stage[p] = "new"
  <2>1. WordName["ins3"] = "dptr" /\ WordName["ins4"] = "dsz"
    BY DEF WordName
  <2>2. /\ AfterInsert(p)["ins3"] = "ins4"
        /\ AfterInsert(p)["ins4"] \in {"count", "swap", "unlock"}
        /\ AfterInsert(p)["ins4"] = "swap" => op[p].kind = "substitute" /\ stage[p] = "new"
    BY DEF AfterInsert
  <2>3. /\ UNCHANGED <<off, link, recs, op, stage, pnode, cur, pnode1, cur1, jrec>>
        /\ node' = [node EXCEPT ![cur[p]][w] = NewWord(p)[w]] /\ pc'[p] = AfterInsert(p)[pc[p]]
    BY <1>1, InsertStep
  <2>4. w \in {"dptr", "dsz"}
    BY <1>1, <2>1
  <2>5. pc'[p] \in {"ins4", "count", "swap", "unlock"}
    BY <2>2, <2>3
  <2>6. pc'[p] = "swap" => op[p].kind = "substitute" /\ stage[p] = "new"
    BY <2>2, <2>3
  <2>. QED BY <2>3, <2>4, <2>5, <2>6
<1>3. cur[p] \in Offsets /\ cur[p] \in N /\ N \subseteq Offsets /\ NodeKey(cur[p]) = EntryKey(p)
  BY NodeAtHand DEF Inserting, Fresh
<1>4. \A n \in Offsets : node'[n].kptr = node[n].kptr /\ node'[n].ksz = node[n].ksz
  BY <1>2, <1>3 DEF JournalInd, WordsType, Words
<1>5. ~Fresh(p) /\ ~Fresh(p)'
  BY <1>2 DEF Fresh
<1>6. Forest(p, N, D)' /\ BaseOf(p)' = BaseOf(p)
  BY <1>2, <1>4, <1>5, QuietForest DEF TreeFor, JournalInd, WordsType, BaseOf
<1>7. EntryKey(p)' = EntryKey(p) /\ \A n \in N : NodeKey(n)' = NodeKey(n)
  BY <1>2, <1>3, <1>4 DEF EntryKey, NodeKey
<1>8. CASE pc'[p] \in {"count", "unlock"}
  BY <1>6, <1>8, IdleTree DEF TreeFor, Works, Searching, Placing, Inserting
<1>9. CASE pc'[p] \in {"ins4", "swap"}
  <2>1. Works(p)
    BY DEF Works, Inserting
  <2>2. Pending(p, N, D)'
    BY <1>2, <1>3, <1>4, <1>6, <1>9, <2>1, PendingQuiet DEF TreeFor, Where
  <2>3. Placed(p, N, D)'
    BY <1>2, <1>7, <2>1 DEF TreeFor, Where, Placed
  <2>4. HasNode(p, N)'
    BY <1>2, <1>3, <1>7 DEF HasNode, NodeKey, EntryKey
  <2>5. HasRecords(p)'
    BY <1>2 DEF TreeFor, Where, HasRecords, Inserting
  <2>. QED BY <1>5, <1>6, <1>9, <2>2, <2>3, <2>4, <2>5 DEF TreeFor, Where, Vacant, HasNew
<1>. QED BY <1>2, <1>8, <1>9

(* The size of the key makes a new node part of the trees.                  *)
LEMMA SizeWord ==
    ASSUME JournalInd, NEW p \in Procs, NEW N, NEW D, TreeFor(p, N, D), HtInsert(p), pc[p] = "ins2"
    PROVE  \E M, E : TreeFor(p, M, E)' /\ M \in {N, N \cup {cur[p]}}
<1>1. /\ UNCHANGED <<off, link, recs, op, stage, pnode, cur, pnode1, cur1, jrec>>
      /\ node' = [node EXCEPT ![cur[p]]["ksz"] = NewWord(p)["ksz"]]
      /\ pc'[p] = "ins3"
  <2>1. WordName["ins2"] = "ksz" /\ AfterInsert(p)["ins2"] = "ins3"
    BY DEF WordName, AfterInsert
  <2>. QED BY <2>1, InsertStep
<1>2. /\ cur[p] \in Offsets /\ N \subseteq Offsets /\ cur[p] # 0
      /\ Fresh(p) => cur[p] \notin N
      /\ ~Fresh(p) => cur[p] \in N
      /\ pnode[p] \in TreeLinks(N) /\ EntryKey(p) \in D[pnode[p]] /\ TreeLinks(N) \subseteq Links
  BY NodeAtHand DEF Inserting
<1>3. /\ \A n \in Offsets : n # cur[p] => node'[n] = node[n]
      /\ node'[cur[p]].kptr = node[cur[p]].kptr /\ node'[cur[p]].ksz = 1
  <2>1. NewWord(p)["ksz"] = 1
    BY DEF NewWord
  <2>. QED BY <1>1, <1>2, <2>1 DEF JournalInd, WordsType, Words
<1>4. ~Fresh(p)' /\ Works(p) /\ EntryKey(p)' = EntryKey(p)
  BY <1>1 DEF Fresh, EntryKey, Works, Inserting
<1>5. /\ \A n \in Offsets : NodeKey(n)' = NodeKey(n)
      /\ KeyOf' = KeyOf
  BY <1>1, <1>2, <1>3 DEF NodeKey, KeyOf
<1>6. NodeKey(cur[p]) = EntryKey(p) /\ node[cur[p]].kptr \in 1 .. off - 1 /\ HasRecords(p)'
  BY <1>1 DEF TreeFor, Where, HasNew, HasRecords, Inserting
<1>7. \A l \in Links : BaseOf(p)'[l] = link[l]
  BY <1>1, <1>4 DEF BaseOf
<1>8. ASSUME op[p].kind = "substitute", stage[p] = "new"
      PROVE  /\ pnode1[p] \in TreeLinks(N) /\ op[p].key \in D[pnode1[p]]
             /\ cur1[p] # 0 => cur1[p] \in N /\ NodeKey(cur1[p]) = op[p].key
             /\ cur1[p] = 0 => BaseOf(p)[pnode1[p]] = 0
             /\ pnode1[p] = pnode[p] => Hash[op[p].key] = Hash[op[p].key2]
  <2>1. /\ pnode1[p] \in TreeLinks(N) /\ op[p].key \in D[pnode1[p]]
        /\ cur1[p] # 0 => cur1[p] \in N /\ NodeKey(cur1[p]) = op[p].key
        /\ cur1[p] = 0 => BaseOf(p)[pnode1[p]] = 0
    BY <1>4, <1>8 DEF TreeFor, Where, Pending
  <2>2. EntryKey(p) = op[p].key2
    BY <1>8 DEF EntryKey
  <2>3. \A j, k \in D[pnode[p]] : Hash[j] = Hash[k]
    BY <1>2 DEF TreeFor, Forest, IsTree
  <2>. QED BY <1>2, <2>1, <2>2, <2>3
<1>9. stage[p] # "key2"
  BY DEF JournalInd, Stands, Shape, Inserting
<1>10. CASE ~Fresh(p)
  <2>1. \A l \in Links : BaseOf(p)[l] = link[l]
    BY <1>10 DEF BaseOf
  <2>2. Forest(p, N, D)'
    <3>1. \A l \in TreeLinks(N) : BaseOf(p)'[l] = BaseOf(p)[l]
      BY <1>2, <1>7, <2>1
    <3>2. IsTree(N, D, BaseOf(p)', KeyOf')
      BY <1>5, <3>1, SameTree DEF TreeFor, Forest
    <3>3. NodesOK(N)'
      BY <1>1, <1>2, <1>3 DEF TreeFor, Forest, NodesOK
    <3>. QED BY <3>2, <3>3 DEF Forest
  <2>3. Placed(p, N, D)' /\ HasNode(p, N)'
    BY <1>1, <1>2, <1>4, <1>5, <1>6, <1>10 DEF Placed, HasNode
  <2>4. Pending(p, N, D)'
    <3>1. cur1[p] = 0 /\ op[p].kind = "substitute" /\ stage[p] = "new" => link[pnode1[p]] = 0
      BY <1>2, <1>8, <2>1
    <3>. QED BY <1>1, <1>2, <1>5, <1>8, <1>9, <3>1 DEF Pending, Loose
  <2>. QED BY <1>1, <1>4, <1>6, <2>2, <2>3, <2>4 DEF TreeFor, Where, HasNew, Vacant
<1>11. CASE Fresh(p)
  <2>1. /\ BaseOf(p)[pnode[p]] = 0
        /\ \A l \in Links : l # pnode[p] => BaseOf(p)[l] = link[l]
    BY <1>2, <1>11 DEF BaseOf
  <2>2. /\ link[pnode[p]] = cur[p] /\ cur[p] < off
        /\ link[<<"left", cur[p]>>] = 0 /\ link[<<"right", cur[p]>>] = 0
    BY <1>11 DEF TreeFor, Where, HasNew
  <2>3. PICK E : Extends(N, D, N \cup {cur[p]}, E, BaseOf(p)', KeyOf)
    <3>1. IsTree(N, D, BaseOf(p), KeyOf)
      BY DEF TreeFor, Forest
    <3>2. KeyOf[cur[p]] \in D[pnode[p]]
      BY <1>2, <1>6 DEF KeyOf
    <3>3. /\ BaseOf(p)'[pnode[p]] = cur[p] /\ BaseOf(p)'[<<"left", cur[p]>>] = 0
          /\ BaseOf(p)'[<<"right", cur[p]>>] = 0
      BY <1>2, <1>7, <2>2, LinksOfTrees
    <3>4. \A j \in TreeLinks(N) : j # pnode[p] => BaseOf(p)'[j] = BaseOf(p)[j]
      BY <1>2, <1>7, <2>1
    <3>5. Adds(N, D, BaseOf(p), KeyOf, BaseOf(p)', pnode[p], cur[p])
      BY <1>2, <1>11, <2>1, <3>1, <3>2, <3>3, <3>4 DEF Adds
    <3>. QED BY <3>5, TreeGrows
  <2>4. PICK M : M = N \cup {cur[p]}
    OBVIOUS
  <2>. USE DEF Extends
  <2>5. TreeLinks(N) \subseteq TreeLinks(M) /\ M \subseteq Offsets /\ N \subseteq M /\ cur[p] \in M
    BY <1>2, <2>4 DEF TreeLinks
  <2>6. Forest(p, M, E)'
    <3>1. NodesOK(M)'
      <4>1. \A n \in N : n < off /\ node[n].ksz # 0 /\ node[n].kptr \in 1 .. off - 1
        BY DEF TreeFor, Forest, NodesOK
      <4>2. \A n \in N : node'[n] = node[n]
        BY <1>2, <1>3, <1>11
      <4>. QED BY <1>1, <1>3, <1>6, <2>2, <2>4, <4>1, <4>2 DEF NodesOK
    <3>. QED BY <1>5, <2>3, <2>4, <3>1 DEF Forest
  <2>7. Placed(p, M, E)' /\ HasNode(p, M)'
    BY <1>1, <1>2, <1>4, <1>5, <1>6, <2>3, <2>5 DEF Placed, HasNode
  <2>8. Pending(p, M, E)'
    <3>1. Leaf(pnode[p])'
      BY <1>1, <1>2, <2>2 DEF Leaf
    <3>2. cur1[p] = 0 /\ op[p].kind = "substitute" /\ stage[p] = "new" => Loose(p, pnode1[p])'
      BY <1>1, <1>2, <1>8, <2>1, <3>1 DEF Loose
    <3>. QED BY <1>1, <1>2, <1>5, <1>8, <1>9, <2>3, <2>5, <3>2 DEF Pending
  <2>9. TreeFor(p, M, E)'
    BY <1>1, <1>4, <1>6, <2>6, <2>7, <2>8 DEF TreeFor, Where, HasNew, Vacant
  <2>. QED BY <2>4, <2>9
<1>. QED BY <1>10, <1>11

(* The steps that only end the operation.                                   *)
LEMMA EndTree ==
    ASSUME JournalInd, NEW p \in Procs, NEW N, NEW D, TreeFor(p, N, D),
           \/ CountRecord(p) \/ Msync(p) \/ CallForAllEntry(p) \/ Reorganize(p) \/ ReorganizeFails(p)
    PROVE  TreeFor(p, N, D)' /\ UNCHANGED link
<1>1. /\ UNCHANGED <<off, link, recs>>
      /\ pc[p] \in {"count", "sync", "print", "reorg"}
      /\ pc'[p] \in {"unlock", "leave", "reset1"}
  BY DEF CountRecord, Msync, CallForAllEntry, Reorganize, ReorganizeFails, Finish, Goto, journal,
         JournalInd, LockInd, LockType
<1>2. \A n \in Offsets : node'[n].kptr = node[n].kptr /\ node'[n].ksz = node[n].ksz
  <2>1. CASE CallForAllEntry(p)
    <3>1. \/ node' = node
          \/ node' = [n \in Offsets |-> IF n \in Nodes THEN Repaired(n)[n] ELSE node[n]]
      BY <2>1 DEF CallForAllEntry
    <3>2. \A n \in Offsets : node'[n] = node[n] \/ node'[n] = Repaired(n)[n]
      BY <3>1
    <3>. QED BY <3>2, RepairQuiet DEF JournalInd
  <2>2. CASE ~CallForAllEntry(p)
    BY <2>2 DEF CountRecord, Msync, Reorganize, ReorganizeFails, journal
  <2>. QED BY <2>1, <2>2
<1>3. ~Fresh(p) /\ ~Fresh(p)' /\ ~Works(p)'
  BY <1>1 DEF Fresh, Works, Searching, Placing, Inserting
<1>4. Forest(p, N, D)'
  BY <1>1, <1>2, <1>3, QuietForest DEF TreeFor, JournalInd, WordsType
<1>. QED BY <1>1, <1>3, <1>4, IdleTree DEF TreeFor

(* reset() leaves empty trees.                                              *)
LEMMA ResetTree ==
    ASSUME JournalInd, NEW p \in Procs, ResetTable(p)
    PROVE  /\ \E D : TreeFor(p, {}, D)'
           /\ \A n \in Offsets, t \in Sides : link'[<<t, n>>] = link[<<t, n>>]
<1>1. link' = TableAfterReset /\ pc'[p] = "unlock"
  BY DEF ResetTable, Finish, Goto, JournalInd, LockInd, LockType
<1>2. \A n \in Offsets, t \in Sides : link'[<<t, n>>] = link[<<t, n>>]
  BY <1>1 DEF TableAfterReset, Links, Sides
<1>3. \A s \in Slots : <<"tab", s>> \in Links /\ link'[<<"tab", s>>] = 0
  BY <1>1 DEF TableAfterReset, Links
<1>4. ~Fresh(p)' /\ ~Works(p)'
  BY <1>1 DEF Fresh, Works, Searching, Placing, Inserting
<1>5. \A s \in Slots : BaseOf(p)'[<<"tab", s>>] = 0
  BY <1>3 DEF BaseOf
<1>6. PICK D : IsTree({}, D, BaseOf(p)', KeyOf')
  BY <1>5, EmptyTree
<1>7. Forest(p, {}, D)'
  BY <1>6 DEF Forest, NodesOK
<1>. QED BY <1>2, <1>4, <1>7, IdleTree DEF TreeFor

-----------------------------------------------------------------------------
(* The steps of an operation keep the trees.                                *)
LEMMA InsideTree ==
    ASSUME Full \subseteq {"ftruncate"}, JournalInd, NEW p \in Procs, Inside(p),
           pc[p] \notin {"reset2", "reset3"} => \E N, D : TreeFor(p, N, D),
           pc'[p] \notin {"reset2", "reset3"}
    PROVE  \E N, D : TreeFor(p, N, D)'
<1>1. CASE ResetTable(p)
  BY <1>1, ResetTree
<1>2. CASE ResetOff(p) \/ ResetCounters(p)
  BY <1>2 DEF ResetOff, ResetCounters, Goto, JournalInd, LockInd, LockType
<1>3. CASE ~ResetTable(p) /\ ~ResetOff(p) /\ ~ResetCounters(p)
  <2>1. pc[p] \notin {"reset2", "reset3"}
    BY <1>3 DEF Inside, FindStep, FindHit, FindMiss, Fetch, StoreHit, StoreMiss, RemoveHit, RemoveMiss,
       SubstituteOld, SubstituteNew, Swap, Alloc, LinkNode, ClearNode, LogJournal, ResizeJournal,
       HtInsert, WordName, CountRecord, Reorganize, ReorganizeFails, Msync, CallForAllEntry
  <2>2. PICK N, D : TreeFor(p, N, D)
    BY <2>1
  <2>3. CASE FindStep(p) \/ FindHit(p) \/ FindMiss(p)
    BY <2>2, <2>3, FindStepTree, FindHitTree, FindMissTree
  <2>4. CASE \/ Fetch(p) \/ StoreHit(p) \/ StoreMiss(p) \/ RemoveHit(p) \/ RemoveMiss(p)
             \/ SubstituteNew(p) \/ SubstituteOld(p)
    BY <2>2, <2>4, ResultTree, SubstituteOldTree
  <2>5. CASE Swap(p) \/ Alloc(p) \/ ClearNode(p) \/ LogJournal(p) \/ ResizeJournal(p)
    BY <2>2, <2>5, SwapTree, AllocTree, ClearTree, LogTree, ResizeTree
  <2>6. CASE LinkNode(p)
    BY <2>2, <2>6, LinkTree
  <2>7. CASE HtInsert(p)
    <3>1. pc[p] = "ins1" \/ pc[p] = "ins2" \/ pc[p] \in {"ins3", "ins4"}
      BY <2>7 DEF HtInsert, WordName
    <3>2. CASE pc[p] = "ins1"
      BY <2>2, <2>7, <3>2, KeyWord
    <3>3. CASE pc[p] = "ins2"
      BY <2>2, <2>7, <3>3, SizeWord
    <3>4. CASE pc[p] \in {"ins3", "ins4"}
      BY <2>2, <2>7, <3>4, DataWord
    <3>. QED BY <3>1, <3>2, <3>3, <3>4
  <2>8. CASE \/ CountRecord(p) \/ Msync(p) \/ CallForAllEntry(p) \/ Reorganize(p) \/ ReorganizeFails(p)
    BY <2>2, <2>8, EndTree
  <2>. QED BY <1>3, <2>3, <2>4, <2>5, <2>6, <2>7, <2>8 DEF Inside
<1>. QED BY <1>1, <1>2, <1>3

(* A node is linked below older ones only.                                  *)
LEMMA InsideAscending ==
    ASSUME Full \subseteq {"ftruncate"}, JournalInd, Ascending, NEW p \in Procs, Inside(p),
           pc[p] \notin {"reset2", "reset3"} => \E N, D : TreeFor(p, N, D)
    PROVE  Ascending'
<1>1. CASE \A n \in Offsets, t \in Sides :
              link'[<<t, n>>] \in {0, link[<<t, n>>]}
  BY <1>1 DEF Ascending
<1>2. CASE LinkNode(p)
  <2>1. PICK N, D : TreeFor(p, N, D)
    BY <1>2 DEF LinkNode
  <2>2. pc[p] = "link" /\ link' = [link EXCEPT ![pnode[p]] = cur[p]]
    BY <1>2 DEF LinkNode
  <2>3. pnode[p] \in TreeLinks(N) /\ \A n \in N : n < cur[p]
    BY <2>1, <2>2 DEF TreeFor, Where, Placed, HasNew, Works, Placing
  <2>4. ASSUME NEW n \in Offsets, NEW t \in Sides
        PROVE  link'[<<t, n>>] = 0 \/ n < link'[<<t, n>>]
    <3>1. CASE <<t, n>> = pnode[p]
      <4>1. n \in N
        BY <2>3, <2>4, <3>1 DEF TreeLinks, Sides
      <4>2. link'[<<t, n>>] = cur[p]
        BY <2>2, <2>4, <3>1, LinksOfTrees DEF Sides, JournalInd, WordsType
      <4>. QED BY <2>3, <4>1, <4>2
    <3>2. CASE <<t, n>> # pnode[p]
      <4>1. link'[<<t, n>>] = link[<<t, n>>]
        BY <2>2, <2>4, <3>2, LinksOfTrees DEF Sides, JournalInd, WordsType
      <4>. QED BY <4>1 DEF Ascending
    <3>. QED BY <3>1, <3>2
  <2>. QED BY <2>4 DEF Ascending
<1>3. CASE ClearNode(p)
  <2>1. link' = [link EXCEPT ![<<"left", cur[p]>>] = 0, ![<<"right", cur[p]>>] = 0]
    BY <1>3 DEF ClearNode
  <2>2. \A l \in Links : link'[l] \in {0, link[l]}
    BY <2>1 DEF JournalInd, WordsType
  <2>3. \A n \in Offsets, t \in Sides : <<t, n>> \in Links
    BY LinksOfTrees DEF Sides
  <2>. QED BY <1>1, <2>2, <2>3
<1>4. CASE FindMiss(p)
  <2>1. PICK N, D : TreeFor(p, N, D)
    BY <1>4 DEF FindMiss
  <2>2. link' = link
    BY <1>4, <2>1, FindMissTree
  <2>. QED BY <1>1, <2>2
<1>5. CASE ResetTable(p)
  BY <1>1, <1>5, ResetTree
<1>6. CASE ~LinkNode(p) /\ ~ClearNode(p) /\ ~FindMiss(p) /\ ~ResetTable(p)
  <2>1. link' = link
    BY <1>6 DEF Inside, FindStep, FindHit, Fetch, StoreHit, StoreMiss, RemoveHit, RemoveMiss,
       SubstituteOld, SubstituteNew, Swap, Alloc, LogJournal, ResizeJournal, Ftruncate,
       HtInsert, CountRecord, Reorganize, ReorganizeFails, ResetOff, ResetCounters, Msync,
       CallForAllEntry, journal
  <2>. QED BY <1>1, <2>1
<1>. QED BY <1>2, <1>3, <1>4, <1>5, <1>6

(* Nobody works on the trees: they are the same for everybody.              *)
LEMMA RestTree ==
    ASSUME NEW p \in Procs, NEW q \in Procs, NEW N, NEW D, Forest(p, N, D), ~Works(p), ~Works(q)',
           UNCHANGED <<off, link, node, recs>>
    PROVE  TreeFor(q, N, D)'
<1>1. ~Fresh(p) /\ ~Fresh(q)'
  BY DEF Fresh, Works, Placing, Inserting
<1>2. BaseOf(q)' = BaseOf(p) /\ KeyOf' = KeyOf
  BY <1>1 DEF BaseOf, KeyOf, NodeKey
<1>3. Forest(q, N, D)'
  BY <1>2 DEF Forest, NodesOK
<1>. QED BY <1>3, IdleTree DEF TreeFor

(* An operation starts its search at the root of its slot.                  *)
LEMMA LockTree ==
    ASSUME JournalInd, NEW p \in Procs, Lock(p), NEW N, NEW D, TreeFor(p, N, D)
    PROVE  TreeFor(p, N, D)'
<1>1. UNCHANGED <<off, link, node, recs, op>> /\ pc[p] = "lock" /\ op[p] \in Requests
  BY DEF Lock, journal, JournalInd, Requested
<1>2. ~Works(p)
  BY <1>1 DEF Works, Searching, Placing, Inserting
<1>3. CASE op[p].kind \in {"store", "remove", "fetch", "substitute"}
  <2>1. pc'[p] = "find" /\ stage'[p] = "key" /\ pnode'[p] = <<"tab", Hash[op[p].key]>>
    BY <1>3 DEF Lock, StartFind, Goto, JournalInd, LockInd, LockType, PointersType
  <2>2. op[p].key \in Keys /\ Hash[op[p].key] \in Slots
    BY <1>1, <1>3, RDBAssumption
  <2>3. pnode'[p] \in TreeLinks(N) /\ op[p].key \in D[pnode'[p]]
    <3>1. N \subseteq Offsets
      BY DEF TreeFor, Forest, IsTree
    <3>2. <<"tab", Hash[op[p].key]>> \in TreeLinks(N)
      BY <2>2, <3>1, LinksOfForest
    <3>. QED BY <2>1, <2>2, <3>2 DEF TreeFor, Forest, IsTree
  <2>4. ~Fresh(p) /\ ~Fresh(p)'
    BY <1>1, <2>1 DEF Fresh
  <2>5. Forest(p, N, D)'
    BY <1>1, <2>4, QuietForest DEF TreeFor, JournalInd, WordsType
  <2>6. EntryKey(p)' = op[p].key
    BY <1>1, <2>1 DEF EntryKey
  <2>. QED BY <2>1, <2>3, <2>4, <2>5, <2>6
           DEF TreeFor, Where, Placed, HasNode, Vacant, HasNew, HasRecords, Pending, Placing, Inserting
<1>4. CASE op[p].kind \notin {"store", "remove", "fetch", "substitute"}
  <2>1. pc'[p] \in {"reorg", "reset1", "sync", "print"}
    BY <1>4 DEF Lock, Goto, JournalInd, LockInd, LockType
  <2>2. ~Works(p)'
    BY <2>1 DEF Works, Searching, Placing, Inserting
  <2>. QED BY <1>1, <1>2, <2>2, RestTree DEF TreeFor
<1>. QED BY <1>3, <1>4

LEMMA InitTreeInd == Init => TreeInd
<1>. SUFFICES ASSUME Init PROVE TreeInd  OBVIOUS
<1>1. JournalInd
  BY InitJournalInd
<1>2. \A l \in Links : link[l] = 0
  BY DEF Init
<1>3. Ascending
  <2>1. \A n \in Offsets, t \in Sides : <<t, n>> \in Links
    BY LinksOfTrees DEF Sides
  <2>. QED BY <1>2, <2>1 DEF Ascending
<1>4. ASSUME NEW p \in Procs PROVE \E N, D : TreeFor(p, N, D)
  <2>1. pc[p] = "idle"
    BY DEF Init
  <2>2. ~Works(p) /\ ~Fresh(p)
    BY <2>1 DEF Works, Fresh, Searching, Placing, Inserting
  <2>3. \A s \in Slots : BaseOf(p)[<<"tab", s>>] = 0
    <3>1. \A s \in Slots : <<"tab", s>> \in Links
      BY DEF Links
    <3>. QED BY <1>2, <3>1 DEF BaseOf
  <2>4. PICK D : IsTree({}, D, BaseOf(p), KeyOf)
    BY <2>3, EmptyTree
  <2>5. Forest(p, {}, D)
    BY <2>4 DEF Forest, NodesOK
  <2>. QED BY <2>2, <2>5, IdleTree DEF TreeFor
<1>. QED BY <1>1, <1>3, <1>4 DEF TreeInd

\* There are processes, none of them dies, and a full journal file only grows.
Plain == Procs # {} /\ CrashOps = {} /\ Full \subseteq {"ftruncate"}

LEMMA NextTreeInd ==
    ASSUME Plain
    PROVE  TreeInd /\ [Next]_vars => TreeInd'
<1>. SUFFICES ASSUME TreeInd, [Next]_vars PROVE TreeInd'  OBVIOUS
<1>1. JournalInd /\ JournalInd' /\ Ascending
  <2>1. Roomy
    BY DEF Plain, Roomy
  <2>. QED BY <2>1, NextJournalInd DEF TreeInd
<1>2. OneActive /\ OneActive'
  <2>1. LockInd /\ LockInd'
    BY <1>1 DEF JournalInd
  <2>2. LockInd => OneActive
    BY LockIndOneActive
  <2>3. (LockInd => OneActive)'
    BY LockIndOneActive, PTL
  <2>. QED BY <2>1, <2>2, <2>3
<1>3. CASE UNCHANGED vars
  <2>1. Ascending'
    BY <1>1, <1>3 DEF Ascending, vars
  <2>2. ASSUME NEW p \in Procs, Alone(p)', pc'[p] \notin {"reset2", "reset3"}
        PROVE  \E N, D : TreeFor(p, N, D)'
    <3>1. Alone(p) /\ pc[p] \notin {"reset2", "reset3"}
      BY <1>3, <2>2 DEF Alone, Active, vars
    <3>2. PICK N, D : TreeFor(p, N, D)
      BY <3>1 DEF TreeInd
    <3>. QED BY <1>3, <3>2, UntouchedTree DEF vars, Untouched
  <2>. QED BY <1>1, <2>1, <2>2 DEF TreeInd
<1>4. ASSUME NEW p \in Procs, Step(p) PROVE TreeInd'
  <2>1. CASE \E o \in Requests : Call(p, o)
    <3>1. /\ UNCHANGED <<off, link, node, recs, stage, pnode, cur, pnode1, cur1, jrec>> /\ pc[p] = "idle"
          /\ \E o : op' = [op EXCEPT ![p] = o]
          /\ pc' = [pc EXCEPT ![p] = "lock"]
      BY <2>1 DEF Call, Goto, journal, find, saved1
    <3>2. pc'[p] = "lock" /\ \A q \in Procs : q # p => pc'[q] = pc[q] /\ op'[q] = op[q]
      BY <1>1, <3>1 DEF JournalInd, LockInd, LockType
    <3>3. Ascending'
      BY <1>1, <3>1 DEF Ascending
    <3>4. ASSUME NEW q \in Procs, Alone(q)', pc'[q] \notin {"reset2", "reset3"}
          PROVE  \E N, D : TreeFor(q, N, D)'
      <4>1. Alone(q) /\ pc[q] \notin {"reset2", "reset3"}
        BY <3>1, <3>2, <3>4 DEF Alone, Active
      <4>2. PICK N, D : TreeFor(q, N, D)
        BY <4>1 DEF TreeInd
      <4>3. CASE q = p
        <5>1. ~Works(p) /\ ~Works(p)'
          BY <3>1, <3>2 DEF Works, Searching, Placing, Inserting
        <5>. QED BY <3>1, <4>2, <4>3, <5>1, RestTree DEF TreeFor
      <4>4. CASE q # p
        BY <3>1, <3>2, <4>2, <4>4, UntouchedTree DEF Untouched
      <4>. QED BY <4>3, <4>4
    <3>. QED BY <1>1, <3>3, <3>4 DEF TreeInd
  <2>2. CASE Lock(p)
    <3>1. /\ UNCHANGED link /\ pc[p] = "lock"
          /\ \E l \in {"find", "reorg", "reset1", "sync", "print"} : pc' = [pc EXCEPT ![p] = l]
      BY <2>2 DEF Lock, StartFind, Goto, journal
    <3>2. pc'[p] \notin {"idle", "lock"} /\ \A q \in Procs : q # p => pc'[q] = pc[q]
      BY <1>1, <3>1 DEF JournalInd, LockInd, LockType
    <3>3. Ascending'
      BY <1>1, <3>1 DEF Ascending
    <3>4. ASSUME NEW q \in Procs, Alone(q)', pc'[q] \notin {"reset2", "reset3"}
          PROVE  \E N, D : TreeFor(q, N, D)'
      <4>1. q = p
        BY <3>2, <3>4 DEF Alone, Active
      <4>2. Alone(p) /\ pc[p] \notin {"reset2", "reset3"}
        BY <3>1, <3>2, <3>4, <4>1 DEF Alone, Active
      <4>3. PICK N, D : TreeFor(p, N, D)
        BY <4>2 DEF TreeInd
      <4>. QED BY <1>1, <2>2, <4>1, <4>3, LockTree
    <3>. QED BY <1>1, <3>3, <3>4 DEF TreeInd
  <2>3. CASE Inside(p)
    <3>1. Active(p) /\ Active(p)' /\ \A q \in Procs : q # p => ~Active(q)
      BY <1>1, <2>3, OneInside DEF JournalInd
    <3>2. pc[p] \notin {"reset2", "reset3"} => \E N, D : TreeFor(p, N, D)
      BY <3>1 DEF TreeInd, Alone
    <3>3. Ascending'
      BY <1>1, <2>3, <3>2, InsideAscending DEF Plain
    <3>4. ASSUME NEW q \in Procs, Alone(q)', pc'[q] \notin {"reset2", "reset3"}
          PROVE  \E N, D : TreeFor(q, N, D)'
      <4>1. q = p
        BY <3>1, <3>4 DEF Alone
      <4>. QED BY <1>1, <2>3, <3>2, <3>4, <4>1, InsideTree DEF Plain
    <3>. QED BY <1>1, <3>3, <3>4 DEF TreeInd
  <2>4. CASE Unlock(p)
    <3>1. /\ UNCHANGED <<off, link, node, recs>> /\ pc[p] \in {"unlock", "leave"}
          /\ pc' = [pc EXCEPT ![p] = "idle"]
      BY <2>4 DEF Unlock, Forget, Goto, journal
    <3>2. pc'[p] = "idle" /\ \A q \in Procs : q # p => pc'[q] = pc[q]
      BY <1>1, <3>1 DEF JournalInd, LockInd, LockType
    <3>3. Ascending'
      BY <1>1, <3>1 DEF Ascending
    <3>4. Alone(p)
      BY <1>2, <3>1 DEF Alone, OneActive, Active
    <3>5. PICK N, D : TreeFor(p, N, D)
      BY <3>1, <3>4 DEF TreeInd
    <3>6. ~Works(p) /\ \A q \in Procs : ~Works(q)'
      BY <3>1, <3>2, <3>4 DEF Works, Alone, Active, Searching, Placing, Inserting
    <3>7. ASSUME NEW q \in Procs PROVE TreeFor(q, N, D)'
      BY <3>1, <3>5, <3>6, RestTree DEF TreeFor
    <3>. QED BY <1>1, <3>3, <3>7 DEF TreeInd
  <2>5. CASE Crash(p)
    BY <2>5 DEF Crash, Plain
  <2>. QED BY <1>4, <2>1, <2>2, <2>3, <2>4, <2>5 DEF Step
<1>. QED BY <1>3, <1>4 DEF Next

-----------------------------------------------------------------------------
(* The last of a set of offsets, by inclusion of the initial intervals, and *)
(* the first, counted from the other end.                                   *)
LEMMA FirstOf ==
    ASSUME NEW T, T \subseteq Nat, T # {}
    PROVE  \E m \in T : \A k \in T : m <= k
<1>. DEFINE C == {0 .. n : n \in T}
<1>1. C \subseteq FiniteSubsetsOf(Nat)
  <2>1. \A n \in T : 0 .. n \in SUBSET Nat /\ IsFiniteSet(0 .. n)
    BY FS_Interval
  <2>. QED BY <2>1 DEF FiniteSubsetsOf
<1>2. C # {}
  OBVIOUS
<1>3. IsWellFoundedOn(StrictSubsetOrdering(Nat), FiniteSubsetsOf(Nat))
  BY FS_StrictSubsetOrderingWellFounded
<1>4. PICK x \in C : \A y \in C : ~(<<y, x>> \in StrictSubsetOrdering(Nat))
  <2>. HIDE DEF C
  <2>. QED BY <1>1, <1>2, <1>3, WFMin
<1>5. PICK m \in T : x = 0 .. m
  OBVIOUS
<1>6. ASSUME NEW k \in T, k < m PROVE FALSE
  <2>1. 0 .. k \in C
    OBVIOUS
  <2>2. (0 .. k) \subseteq 0 .. m /\ m \notin 0 .. k /\ m \in 0 .. m
    BY <1>6
  <2>3. <<0 .. k, x>> \in StrictSubsetOrdering(Nat)
    <3>1. 0 .. k \in SUBSET Nat /\ x \in SUBSET Nat
      BY <1>5
    <3>2. 0 .. k # x /\ (0 .. k) \subseteq x
      BY <1>5, <2>2
    <3>. QED BY <3>1, <3>2 DEF StrictSubsetOrdering
  <2>. QED BY <1>4, <2>1, <2>3
<1>. QED BY <1>6

LEMMA LastOf ==
    ASSUME NEW T, T \subseteq 0 .. MaxOff, T # {}
    PROVE  \E m \in T : \A k \in T : k <= m
<1>. DEFINE C == {MaxOff - n : n \in T}
<1>1. MaxOff \in Nat
  BY RDBAssumption
<1>2. C \subseteq Nat /\ C # {}
  <2>1. \A n \in T : MaxOff - n \in Nat
    BY <1>1
  <2>. QED BY <2>1
<1>3. PICK x \in C : \A y \in C : x <= y
  <2>. HIDE DEF C
  <2>. QED BY <1>2, FirstOf
<1>4. PICK m \in T : x = MaxOff - m
  OBVIOUS
<1>5. ASSUME NEW k \in T PROVE k <= m
  <2>1. MaxOff - k \in C
    OBVIOUS
  <2>2. MaxOff - m <= MaxOff - k
    <3>. HIDE DEF C
    <3>. QED BY <1>3, <1>4, <2>1
  <2>. QED BY <1>1, <2>2
<1>. QED BY <1>5

\* What the recursive functions of Walk and Nodes compute at an offset.
WalkRule(g, k, n) ==
    IF n = 0 THEN 0
    ELSE IF node[n].ksz = 0 THEN 0
    ELSE IF NodeKey(n) = k THEN n
    ELSE g[link[<<Side(k, n), n>>]]
NodesRule(g, n) ==
    IF n = 0 THEN {}
    ELSE {n} \cup g[link[<<"left", n>>]] \cup g[link[<<"right", n>>]]

IsWalk(g, k) == g = [n \in 0 .. MaxOff |-> WalkRule(g, k, n)]
IsVisit(g) == g = [n \in 0 .. MaxOff |-> NodesRule(g, n)]

\* g follows the rule from the offset a on.
WalksFrom(g, k, a) ==
    /\ DOMAIN g = 0 .. MaxOff /\ g = [n \in DOMAIN g |-> g[n]]
    /\ \A n \in 0 .. MaxOff : n = 0 \/ a <= n => g[n] = WalkRule(g, k, n)
VisitsFrom(g, a) ==
    /\ DOMAIN g = 0 .. MaxOff /\ g = [n \in DOMAIN g |-> g[n]]
    /\ \A n \in 0 .. MaxOff : n = 0 \/ a <= n => g[n] = NodesRule(g, n)

(* A walk is determined by the nodes that come after its start.             *)
LEMMA WalkExists ==
    ASSUME WordsType, Ascending, NEW k
    PROVE  \E g : IsWalk(g, k)
<1>1. MaxOff \in Nat /\ MaxOff + 1 \in Nat /\ MaxOff >= 1
  BY RDBAssumption
<1>2. ASSUME NEW n \in Offsets
      PROVE  link[<<Side(k, n), n>>] \in 0 .. MaxOff
             /\ (link[<<Side(k, n), n>>] = 0 \/ n < link[<<Side(k, n), n>>])
  <2>1. Side(k, n) \in Sides
    BY DEF Side, Sides
  <2>2. <<Side(k, n), n>> \in Links
    BY <2>1, LinksOfTrees DEF Sides
  <2>. QED BY <2>1, <2>2 DEF WordsType, Ascending
<1>. DEFINE T == {a \in 0 .. MaxOff : ~\E g : WalksFrom(g, k, a + 1)}
<1>3. T = {}
  <2>. SUFFICES ASSUME T # {} PROVE FALSE
    OBVIOUS
  <2>1. PICK a \in T : \A b \in T : b <= a
    <3>1. T \subseteq 0 .. MaxOff
      OBVIOUS
    <3>. HIDE DEF T
    <3>. QED BY <3>1, LastOf
  <2>2. a \in 0 .. MaxOff /\ ~\E g : WalksFrom(g, k, a + 1)
    OBVIOUS
  <2>3. CASE a = MaxOff
    <3>. DEFINE g == [n \in 0 .. MaxOff |-> 0]
    <3>1. \A n \in 0 .. MaxOff : n = 0 \/ a + 1 <= n => n = 0
      BY <1>1, <2>3
    <3>2. WalksFrom(g, k, a + 1)
      BY <3>1 DEF WalksFrom, WalkRule
    <3>. QED BY <2>2, <3>2
  <2>4. CASE a # MaxOff
    <3>1. a + 1 \in 0 .. MaxOff /\ a + 1 \notin T /\ a + 1 \in Offsets /\ a \in Nat
      BY <1>1, <2>1, <2>2, <2>4 DEF Offsets
    <3>2. PICK f : WalksFrom(f, k, (a + 1) + 1)
      BY <3>1
    <3>3. PICK v : v = WalkRule(f, k, a + 1)
      OBVIOUS
    <3>. DEFINE g == [n \in 0 .. MaxOff |-> IF n = a + 1 THEN v ELSE f[n]]
    <3>4. DOMAIN g = 0 .. MaxOff /\ g = [n \in DOMAIN g |-> g[n]]
      OBVIOUS
    <3>5. \A n \in 0 .. MaxOff : g[n] = IF n = a + 1 THEN v ELSE f[n]
      OBVIOUS
    <3>. HIDE DEF g
    <3>6. ASSUME NEW n \in 0 .. MaxOff, n = 0 \/ a + 1 <= n
          PROVE  g[n] = WalkRule(g, k, n) 
      <4>1. CASE n = 0
        <5>1. g[0] = f[0] /\ f[0] = 0
          <6>1. 0 \in 0 .. MaxOff /\ 0 # a + 1
            BY <1>1, <3>1
          <6>2. f[0] = WalkRule(f, k, 0)
            BY <3>2, <6>1 DEF WalksFrom
          <6>. QED BY <3>5, <6>1, <6>2 DEF WalkRule
        <5>. QED BY <4>1, <5>1 DEF WalkRule
      <4>2. CASE n # 0
        <5>1. n \in Offsets
          BY <3>6, <4>2 DEF Offsets
        <5>2. PICK j : j = link[<<Side(k, n), n>>]
          OBVIOUS
        <5>3. j \in 0 .. MaxOff /\ (j = 0 \/ n < j)
          BY <1>2, <5>1, <5>2
        <5>4. j # a + 1
          BY <3>1, <3>6, <4>2, <5>3
        <5>5. g[j] = f[j]
          BY <3>5, <5>3, <5>4
        <5>6. WalkRule(g, k, n) = WalkRule(f, k, n)
          BY <5>2, <5>5 DEF WalkRule
        <5>7. CASE n = a + 1
          BY <3>3, <3>5, <5>6, <5>7
        <5>8. CASE n # a + 1
          <6>1. (a + 1) + 1 <= n
            BY <3>1, <3>6, <4>2, <5>8
          <6>2. f[n] = WalkRule(f, k, n)
            BY <3>2, <3>6, <6>1 DEF WalksFrom
          <6>. QED BY <3>5, <3>6, <5>6, <5>8, <6>2
        <5>. QED BY <5>7, <5>8
      <4>. QED BY <4>1, <4>2
    <3>7. WalksFrom(g, k, a + 1)
      BY <3>4, <3>6 DEF WalksFrom
    <3>. QED BY <2>2, <3>7
  <2>. QED BY <2>3, <2>4
<1>4. 0 \notin T
  BY <1>3
<1>5. PICK g : WalksFrom(g, k, 0 + 1)
  BY <1>1, <1>4
<1>6. \A n \in 0 .. MaxOff : n = 0 \/ 0 + 1 <= n
  OBVIOUS
<1>7. \A n \in 0 .. MaxOff : g[n] = WalkRule(g, k, n)
  BY <1>5, <1>6 DEF WalksFrom
<1>8. IsWalk(g, k)
  BY <1>5, <1>7 DEF IsWalk, WalksFrom
<1>. QED BY <1>8

LEMMA VisitExists ==
    ASSUME WordsType, Ascending
    PROVE  \E g : IsVisit(g)
<1>1. MaxOff \in Nat /\ MaxOff + 1 \in Nat /\ MaxOff >= 1
  BY RDBAssumption
<1>2. ASSUME NEW n \in Offsets, NEW t \in Sides
      PROVE  link[<<t, n>>] \in 0 .. MaxOff /\ (link[<<t, n>>] = 0 \/ n < link[<<t, n>>])
  <2>1. <<t, n>> \in Links
    BY <1>2, LinksOfTrees DEF Sides
  <2>. QED BY <1>2, <2>1 DEF WordsType, Ascending
<1>. DEFINE T == {a \in 0 .. MaxOff : ~\E g : VisitsFrom(g, a + 1)}
<1>3. T = {}
  <2>. SUFFICES ASSUME T # {} PROVE FALSE
    OBVIOUS
  <2>1. PICK a \in T : \A b \in T : b <= a
    <3>1. T \subseteq 0 .. MaxOff
      OBVIOUS
    <3>. HIDE DEF T
    <3>. QED BY <3>1, LastOf
  <2>2. a \in 0 .. MaxOff /\ ~\E g : VisitsFrom(g, a + 1)
    OBVIOUS
  <2>3. CASE a = MaxOff
    <3>. DEFINE g == [n \in 0 .. MaxOff |-> {}]
    <3>1. \A n \in 0 .. MaxOff : n = 0 \/ a + 1 <= n => n = 0
      BY <1>1, <2>3
    <3>2. VisitsFrom(g, a + 1)
      BY <3>1 DEF VisitsFrom, NodesRule
    <3>. QED BY <2>2, <3>2
  <2>4. CASE a # MaxOff
    <3>1. a + 1 \in 0 .. MaxOff /\ a + 1 \notin T /\ a + 1 \in Offsets /\ a \in Nat
      BY <1>1, <2>1, <2>2, <2>4 DEF Offsets
    <3>2. PICK f : VisitsFrom(f, (a + 1) + 1)
      BY <3>1
    <3>3. PICK v : v = NodesRule(f, a + 1)
      OBVIOUS
    <3>. DEFINE g == [n \in 0 .. MaxOff |-> IF n = a + 1 THEN v ELSE f[n]]
    <3>4. DOMAIN g = 0 .. MaxOff /\ g = [n \in DOMAIN g |-> g[n]]
      OBVIOUS
    <3>5. \A n \in 0 .. MaxOff : g[n] = IF n = a + 1 THEN v ELSE f[n]
      OBVIOUS
    <3>. HIDE DEF g
    <3>6. ASSUME NEW n \in 0 .. MaxOff, n = 0 \/ a + 1 <= n
          PROVE  g[n] = NodesRule(g, n)
      <4>1. CASE n = 0
        <5>1. 0 \in 0 .. MaxOff /\ 0 # a + 1
          BY <1>1, <3>1
        <5>2. f[0] = NodesRule(f, 0)
          BY <3>2, <5>1 DEF VisitsFrom
        <5>. QED BY <3>5, <4>1, <5>1, <5>2 DEF NodesRule
      <4>2. CASE n # 0
        <5>1. n \in Offsets
          BY <3>6, <4>2 DEF Offsets
        <5>2. \A t \in Sides : g[link[<<t, n>>]] = f[link[<<t, n>>]]
          <6>. SUFFICES ASSUME NEW t \in Sides PROVE g[link[<<t, n>>]] = f[link[<<t, n>>]]
            OBVIOUS
          <6>1. PICK j : j = link[<<t, n>>]
            OBVIOUS
          <6>2. j \in 0 .. MaxOff /\ (j = 0 \/ n < j)
            BY <1>2, <5>1, <6>1
          <6>3. j # a + 1
            BY <3>1, <3>6, <4>2, <6>2
          <6>. QED BY <3>5, <6>1, <6>2, <6>3
        <5>3. NodesRule(g, n) = NodesRule(f, n)
          BY <5>2 DEF NodesRule, Sides
        <5>4. CASE n = a + 1
          BY <3>3, <3>5, <5>3, <5>4
        <5>5. CASE n # a + 1
          <6>1. (a + 1) + 1 <= n
            BY <3>1, <3>6, <4>2, <5>5
          <6>2. f[n] = NodesRule(f, n)
            BY <3>2, <3>6, <6>1 DEF VisitsFrom
          <6>. QED BY <3>5, <3>6, <5>3, <5>5, <6>2
        <5>. QED BY <5>4, <5>5
      <4>. QED BY <4>1, <4>2
    <3>7. VisitsFrom(g, a + 1)
      BY <3>4, <3>6 DEF VisitsFrom
    <3>. QED BY <2>2, <3>7
  <2>. QED BY <2>3, <2>4
<1>4. 0 \notin T
  BY <1>3
<1>5. PICK g : VisitsFrom(g, 0 + 1)
  BY <1>1, <1>4
<1>6. \A n \in 0 .. MaxOff : n = 0 \/ 0 + 1 <= n
  OBVIOUS
<1>7. \A n \in 0 .. MaxOff : g[n] = NodesRule(g, n)
  BY <1>5, <1>6 DEF VisitsFrom
<1>8. IsVisit(g)
  BY <1>5, <1>7 DEF IsVisit, VisitsFrom
<1>. QED BY <1>8

(* The search for a key follows the rule from the root of its slot.         *)
LEMMA WalkDef ==
    ASSUME WordsType, Ascending, NEW k
    PROVE  \E g : /\ Walk(k) = g[link[<<"tab", Hash[k]>>]]
                  /\ \A n \in 0 .. MaxOff : g[n] = WalkRule(g, k, n)
<1>. DEFINE w == CHOOSE g : IsWalk(g, k)
<1>1. IsWalk(w, k)
  BY WalkExists
<1>2. Walk(k) = w[link[<<"tab", Hash[k]>>]]
  BY DEF Walk, IsWalk, WalkRule
<1>. HIDE DEF w
<1>3. \A n \in 0 .. MaxOff : w[n] = WalkRule(w, k, n)
  BY <1>1 DEF IsWalk
<1>. QED BY <1>2, <1>3

LEMMA VisitDef ==
    ASSUME WordsType, Ascending
    PROVE  \E g : /\ Nodes = UNION {g[link[<<"tab", s>>]] : s \in Slots}
                  /\ \A n \in 0 .. MaxOff : g[n] = NodesRule(g, n)
<1>. DEFINE w == CHOOSE g : IsVisit(g)
<1>1. IsVisit(w)
  BY VisitExists
<1>2. Nodes = UNION {w[link[<<"tab", s>>]] : s \in Slots}
  BY DEF Nodes, IsVisit, NodesRule
<1>. HIDE DEF w
<1>3. \A n \in 0 .. MaxOff : w[n] = NodesRule(w, n)
  BY <1>1 DEF IsVisit
<1>. QED BY <1>2, <1>3

(* The search for a key ends at the node that has it, if there is one, and  *)
(* there is none when a link through which the key is searched is empty.    *)
LEMMA WalkFinds ==
    ASSUME WordsType, Ascending, NEW N, NEW D, IsTree(N, D, link, KeyOf), NodesOK(N), NEW k \in Keys
    PROVE  /\ Walk(k) = 0 \/ (Walk(k) \in N /\ NodeKey(Walk(k)) = k)
           /\ \A n \in N : NodeKey(n) = k => Walk(k) = n
           /\ \A l \in TreeLinks(N) : link[l] = 0 /\ k \in D[l] => Walk(k) = 0
<1>1. PICK g : /\ Walk(k) = g[link[<<"tab", Hash[k]>>]]
               /\ \A n \in 0 .. MaxOff : g[n] = WalkRule(g, k, n)
  BY WalkDef
<1>2. /\ N \subseteq Offsets /\ N \subseteq 0 .. MaxOff /\ N \subseteq Nat /\ 0 \in 0 .. MaxOff /\ 0 \notin N
      /\ \A n \in N : n # 0
  <2>1. N \subseteq Offsets
    BY DEF IsTree
  <2>. QED BY <2>1, RDBAssumption DEF Offsets
<1>3. g[0] = 0
  BY <1>1, <1>2 DEF WalkRule
<1>4. \A n \in N : g[n] = IF NodeKey(n) = k THEN n ELSE g[link[<<Side(k, n), n>>]]
  BY <1>1, <1>2 DEF WalkRule, NodesOK
<1>5. \A l \in TreeLinks(N) : link[l] \in N \cup {0}
  BY DEF IsTree
<1>6. \A n \in N : <<Side(k, n), n>> \in TreeLinks(N)
  BY <1>2, LinksOfForest DEF Side, Sides
<1>7. \A n \in N : KeyOf[n] = NodeKey(n) /\ Side(k, n) = SideOf(k, KeyOf[n])
  BY <1>2 DEF KeyOf, Side, SideOf
<1>8. Hash[k] \in Slots /\ <<"tab", Hash[k]>> \in TreeLinks(N)
  <2>1. Hash[k] \in Slots
    BY RDBAssumption
  <2>. QED BY <1>2, <2>1, LinksOfForest
\* A walk stays in the trees: the last node where it would not.
<1>9. \A n \in N : g[n] = 0 \/ (g[n] \in N /\ NodeKey(g[n]) = k)
  <2>. DEFINE T == {n \in N : ~(g[n] = 0 \/ (g[n] \in N /\ NodeKey(g[n]) = k))}
  <2>. SUFFICES ASSUME T # {} PROVE FALSE
    OBVIOUS
  <2>1. PICK n \in T : \A j \in T : j <= n
    <3>1. T \subseteq 0 .. MaxOff
      BY <1>2
    <3>. HIDE DEF T
    <3>. QED BY <3>1, LastOf
  <2>2. n \in N /\ ~(g[n] = 0 \/ (g[n] \in N /\ NodeKey(g[n]) = k))
    OBVIOUS
  <2>3. NodeKey(n) # k
    BY <1>4, <2>2
  <2>4. PICK j : j = link[<<Side(k, n), n>>]
    OBVIOUS
  <2>5. g[n] = g[j] /\ j \in N \cup {0}
    BY <1>4, <1>5, <1>6, <2>2, <2>3, <2>4
  <2>6. j \in N /\ j \in T
    BY <1>3, <2>2, <2>5
  <2>7. n < j
    <3>1. Side(k, n) \in Sides /\ n \in Offsets /\ j # 0
      BY <1>2, <2>2, <2>6 DEF Side, Sides
    <3>. QED BY <2>4, <3>1 DEF Ascending
  <2>8. j <= n
    <3>. HIDE DEF T
    <3>. QED BY <2>1, <2>6
  <2>. QED BY <1>2, <2>2, <2>6, <2>7, <2>8
\* A node is met by the searches for the keys of the link that leads to it:
\* the first node that is not.
<1>10. \A n \in N : \A l \in TreeLinks(N) : link[l] = n /\ k \in D[l] => Walk(k) = g[n]
  <2>. DEFINE Met(n) == \A l \in TreeLinks(N) : link[l] = n /\ k \in D[l] => Walk(k) = g[n]
              T == {n \in N : ~Met(n)}
  <2>. SUFFICES ASSUME T # {} PROVE FALSE
    OBVIOUS
  <2>1. PICK n \in T : \A j \in T : n <= j
    <3>1. T \subseteq Nat
      BY <1>2
    <3>. HIDE DEF T
    <3>. QED BY <3>1, FirstOf
  <2>2. PICK l \in TreeLinks(N) : n \in N /\ link[l] = n /\ k \in D[l] /\ Walk(k) # g[n]
    OBVIOUS
  <2>3. (\E s \in Slots : l = <<"tab", s>>) \/ (\E t \in Sides, m \in N : l = <<t, m>>)
    BY <2>2 DEF TreeLinks
  <2>4. CASE \E s \in Slots : l = <<"tab", s>>
    <3>1. PICK s \in Slots : l = <<"tab", s>>
      BY <2>4
    <3>2. s = Hash[k]
      BY <2>2, <3>1 DEF IsTree
    <3>. QED BY <1>1, <2>2, <3>1, <3>2
  <2>5. CASE \E t \in Sides, m \in N : l = <<t, m>>
    <3>1. PICK t \in Sides, m \in N : l = <<t, m>>
      BY <2>5
    <3>2. m < n /\ m \in Offsets
      BY <1>2, <2>2, <3>1 DEF Ascending
    <3>3. m \notin T
      <4>1. m \in T => n <= m
        <5>. HIDE DEF T
        <5>. QED BY <2>1
      <4>. QED BY <1>2, <2>2, <3>2, <4>1
    <3>4. Met(m)
      BY <3>1, <3>3
    <3>5. PICK j \in TreeLinks(N) : link[j] = m
      BY <3>1 DEF IsTree
    <3>6. D[<<t, m>>] = {x \in D[j] : x # KeyOf[m] /\ SideOf(x, KeyOf[m]) = t}
      BY <1>2, <3>1, <3>5 DEF IsTree
    <3>7. k \in D[j] /\ k # NodeKey(m) /\ Side(k, m) = t
      BY <1>7, <2>2, <3>1, <3>6
    <3>8. Walk(k) = g[m]
      BY <3>4, <3>5, <3>7
    <3>. QED BY <1>4, <2>2, <3>1, <3>7, <3>8
  <2>. QED BY <2>3, <2>4, <2>5
<1>11. Walk(k) = 0 \/ (Walk(k) \in N /\ NodeKey(Walk(k)) = k)
  <2>1. link[<<"tab", Hash[k]>>] \in N \cup {0}
    BY <1>5, <1>8
  <2>. QED BY <1>1, <1>3, <1>9, <2>1
<1>12. ASSUME NEW n \in N, NodeKey(n) = k PROVE Walk(k) = n
  <2>1. PICK l \in TreeLinks(N) : link[l] = n
    BY <1>12 DEF IsTree
  <2>2. KeyOf[n] \in D[l]
    BY <1>2, <2>1 DEF IsTree
  <2>. QED BY <1>4, <1>7, <1>10, <1>12, <2>1, <2>2
<1>13. ASSUME NEW l \in TreeLinks(N), link[l] = 0, k \in D[l] PROVE Walk(k) = 0
  <2>1. (\E s \in Slots : l = <<"tab", s>>) \/ (\E t \in Sides, m \in N : l = <<t, m>>)
    BY <1>13 DEF TreeLinks
  <2>2. CASE \E s \in Slots : l = <<"tab", s>>
    <3>1. PICK s \in Slots : l = <<"tab", s>>
      BY <2>2
    <3>2. s = Hash[k]
      BY <1>13, <3>1 DEF IsTree
    <3>. QED BY <1>1, <1>3, <1>13, <3>1, <3>2
  <2>3. CASE \E t \in Sides, m \in N : l = <<t, m>>
    <3>1. PICK t \in Sides, m \in N : l = <<t, m>>
      BY <2>3
    <3>2. PICK j \in TreeLinks(N) : link[j] = m
      BY <3>1 DEF IsTree
    <3>3. D[<<t, m>>] = {x \in D[j] : x # KeyOf[m] /\ SideOf(x, KeyOf[m]) = t}
      BY <1>2, <3>1, <3>2 DEF IsTree
    <3>4. k \in D[j] /\ k # NodeKey(m) /\ Side(k, m) = t
      BY <1>7, <1>13, <3>1, <3>3
    <3>5. Walk(k) = g[m]
      BY <1>10, <3>1, <3>2, <3>4
    <3>. QED BY <1>3, <1>4, <1>13, <3>1, <3>4, <3>5
  <2>. QED BY <2>1, <2>2, <2>3
<1>. QED BY <1>11, <1>12, <1>13

(* call() visits the nodes of the trees.                                    *)
LEMMA NodesAre ==
    ASSUME WordsType, Ascending, NEW N, NEW D, IsTree(N, D, link, KeyOf)
    PROVE  Nodes = N
<1>1. PICK g : /\ Nodes = UNION {g[link[<<"tab", s>>]] : s \in Slots}
               /\ \A n \in 0 .. MaxOff : g[n] = NodesRule(g, n)
  BY VisitDef
<1>2. /\ N \subseteq Offsets /\ N \subseteq 0 .. MaxOff /\ N \subseteq Nat /\ 0 \in 0 .. MaxOff /\ 0 \notin N
      /\ \A n \in N : n # 0
  <2>1. N \subseteq Offsets
    BY DEF IsTree
  <2>. QED BY <2>1, RDBAssumption DEF Offsets
<1>3. g[0] = {}
  BY <1>1, <1>2 DEF NodesRule
<1>4. \A n \in N : g[n] = {n} \cup g[link[<<"left", n>>]] \cup g[link[<<"right", n>>]]
  BY <1>1, <1>2 DEF NodesRule
<1>5. \A l \in TreeLinks(N) : link[l] \in N \cup {0}
  BY DEF IsTree
<1>6. \A n \in N : <<"left", n>> \in TreeLinks(N) /\ <<"right", n>> \in TreeLinks(N)
  BY <1>2, LinksOfForest DEF Sides
<1>7. \A s \in Slots : <<"tab", s>> \in TreeLinks(N)
  BY <1>2, LinksOfForest
<1>8. \A n \in N : g[n] \subseteq N
  <2>. DEFINE T == {n \in N : ~(g[n] \subseteq N)}
  <2>. SUFFICES ASSUME T # {} PROVE FALSE
    OBVIOUS
  <2>1. PICK n \in T : \A j \in T : j <= n
    <3>1. T \subseteq 0 .. MaxOff
      BY <1>2
    <3>. HIDE DEF T
    <3>. QED BY <3>1, LastOf
  <2>2. n \in N /\ ~(g[n] \subseteq N)
    OBVIOUS
  <2>3. ASSUME NEW t \in Sides PROVE g[link[<<t, n>>]] \subseteq N
    <3>1. PICK j : j = link[<<t, n>>]
      OBVIOUS
    <3>2. j \in N \cup {0}
      BY <1>5, <1>6, <2>2, <2>3, <3>1 DEF Sides
    <3>3. CASE j = 0
      BY <1>3, <3>1, <3>3
    <3>4. CASE j # 0
      <4>1. j \in N /\ n < j
        BY <1>2, <2>2, <3>1, <3>2, <3>4 DEF Ascending
      <4>2. j \notin T
        <5>1. j \in T => j <= n
          <6>. HIDE DEF T
          <6>. QED BY <2>1
        <5>2. j \in Nat /\ n \in Nat
          BY <1>2, <2>2, <4>1
        <5>. HIDE DEF T
        <5>. QED BY <4>1, <5>1, <5>2
      <4>. QED BY <3>1, <4>1, <4>2
    <3>. QED BY <3>3, <3>4
  <2>. QED BY <1>4, <2>2, <2>3 DEF Sides
<1>9. \A n \in N : g[n] \subseteq Nodes
  <2>. DEFINE T == {n \in N : ~(g[n] \subseteq Nodes)}
  <2>. SUFFICES ASSUME T # {} PROVE FALSE
    OBVIOUS
  <2>1. PICK n \in T : \A j \in T : n <= j
    <3>1. T \subseteq Nat
      BY <1>2
    <3>. HIDE DEF T
    <3>. QED BY <3>1, FirstOf
  <2>2. n \in N /\ ~(g[n] \subseteq Nodes)
    OBVIOUS
  <2>3. PICK l \in TreeLinks(N) : link[l] = n
    BY <2>2 DEF IsTree
  <2>4. (\E s \in Slots : l = <<"tab", s>>) \/ (\E t \in Sides, m \in N : l = <<t, m>>)
    BY <2>3 DEF TreeLinks
  <2>5. CASE \E s \in Slots : l = <<"tab", s>>
    BY <1>1, <2>2, <2>3, <2>5
  <2>6. CASE \E t \in Sides, m \in N : l = <<t, m>>
    <3>1. PICK t \in Sides, m \in N : l = <<t, m>>
      BY <2>6
    <3>2. m < n /\ m \in Offsets
      BY <1>2, <2>2, <2>3, <3>1 DEF Ascending
    <3>3. m \notin T
      <4>1. m \in T => n <= m
        <5>. HIDE DEF T
        <5>. QED BY <2>1
      <4>. QED BY <1>2, <2>2, <3>2, <4>1
    <3>4. g[m] \subseteq Nodes
      BY <3>1, <3>3
    <3>5. g[n] \subseteq g[m]
      <4>1. link[<<t, m>>] = n /\ (t = "left" \/ t = "right")
        BY <2>3, <3>1 DEF Sides
      <4>2. g[m] = {m} \cup g[link[<<"left", m>>]] \cup g[link[<<"right", m>>]]
        BY <1>4, <3>1
      <4>3. CASE t = "left"
        BY <4>1, <4>2, <4>3
      <4>4. CASE t = "right"
        BY <4>1, <4>2, <4>4
      <4>. QED BY <4>1, <4>3, <4>4
    <3>. QED BY <2>2, <3>4, <3>5
  <2>. QED BY <2>4, <2>5, <2>6
<1>10. N \subseteq Nodes
  BY <1>4, <1>9
<1>11. Nodes \subseteq N
  <2>1. \A s \in Slots : g[link[<<"tab", s>>]] \subseteq N
    BY <1>3, <1>5, <1>7, <1>8
  <2>. QED BY <1>1, <2>1
<1>. QED BY <1>10, <1>11

(* Between operations the trees of the journal are search trees.            *)
LEMMA TreesAtRest ==
    ASSUME JournalInd, Ascending, NEW p \in Procs, ~Works(p), NEW N, NEW D, TreeFor(p, N, D)
    PROVE  /\ IsTree(N, D, link, KeyOf) /\ NodesOK(N) /\ Nodes = N
           /\ \A k \in Keys : /\ Walk(k) = 0 \/ (Walk(k) \in N /\ NodeKey(Walk(k)) = k)
                              /\ \A n \in N : NodeKey(n) = k => Walk(k) = n
<1>1. ~Fresh(p)
  BY DEF Fresh, Works, Placing, Inserting
<1>2. BaseOf(p) = link
  BY <1>1 DEF BaseOf, JournalInd, WordsType
<1>3. WordsType /\ IsTree(N, D, link, KeyOf) /\ NodesOK(N)
  BY <1>2 DEF TreeFor, Forest, JournalInd
<1>. QED BY <1>3, WalkFinds, NodesAre

(* The keys of the nodes are keys.                                          *)
LEMMA KeysOfNodes ==
    ASSUME NEW N, NEW D, NEW lk, NEW kf, IsTree(N, D, lk, kf), NEW n \in N
    PROVE  kf[n] \in Keys
<1>1. PICK l \in TreeLinks(N) : lk[l] = n
  BY DEF IsTree
<1>2. n # 0 /\ N \subseteq Offsets
  BY DEF IsTree, Offsets
<1>3. l \in Links
  BY <1>2, LinksOfForest
<1>. QED BY <1>1, <1>2, <1>3 DEF IsTree

(* While no process dies and a full journal file only grows, every node of  *)
(* the journal lies below off, has a key, and is the one that htLookup()    *)
(* finds for its key, whatever stores, removals, substitutions,             *)
(* transactions and failed reorganizations came before.                     *)
THEOREM RDBSearchable ==
    ASSUME Plain
    PROVE  Spec => []Searchable
<1>1. TreeInd => Searchable
  <2>. SUFFICES ASSUME TreeInd, ~Busy, NEW n \in Nodes
                PROVE  n < off /\ node[n].ksz # 0 /\ Walk(NodeKey(n)) = n
    BY DEF Searchable
  <2>2. ASSUME NEW p \in Procs PROVE n < off /\ node[n].ksz # 0 /\ Walk(NodeKey(n)) = n
    <3>1. pc[p] \in {"idle", "lock"} /\ Alone(p)
      BY <2>2 DEF Busy, Active, Alone
    <3>2. PICK N, D : TreeFor(p, N, D)
      BY <2>2, <3>1 DEF TreeInd
    <3>3. ~Works(p)
      BY <3>1 DEF Works, Searching, Placing, Inserting
    <3>4. /\ IsTree(N, D, link, KeyOf) /\ NodesOK(N) /\ Nodes = N
          /\ \A k \in Keys : \A m \in N : NodeKey(m) = k => Walk(k) = m
      BY <2>2, <3>2, <3>3, TreesAtRest DEF TreeInd
    <3>5. NodeKey(n) \in Keys
      <4>1. KeyOf[n] \in Keys /\ n \in Offsets
        BY <3>4, KeysOfNodes DEF IsTree
      <4>. QED BY <4>1 DEF KeyOf
    <3>. QED BY <3>4, <3>5 DEF NodesOK
  <2>. QED BY <2>2 DEF Plain
<1>. QED BY <1>1, InitTreeInd, NextTreeInd, PTL DEF Spec
=============================================================================
