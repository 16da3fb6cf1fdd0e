---------------------------- MODULE CacheProofs ----------------------------
(***************************************************************************)
(* Proofs about UCache, for every size of the cache and of its entries.    *)
(*                                                                         *)
(* The layout comes first: the entries tile their two regions.  Then the   *)
(* lists: the walk of get() through the link words meets the entries of a  *)
(* bucket, each once, newest first, and ends.                              *)
(*                                                                         *)
(* Chains is about a walk, which a proof of preservation cannot follow.    *)
(* Linked says the same word by word: what each link combines are the next *)
(* newer and the next older position of the list.  Every step of the cache *)
(* preserves Linked; that Linked implies Chains is an induction over the   *)
(* hops, by the least hop that goes wrong.                                 *)
(*                                                                         *)
(* The second half shows that the cache implements the queue of FifoCache. *)
(* The rank of an entry numbers the entries without gaps; every step is    *)
(* one of the queue because it changes the ranks in one of four ways.      *)
(***************************************************************************)
EXTENDS Cache, FiniteSetTheorems, TLAPS

EntryType == [key : Keys, data : Data, expire : Int]
Answers == [key : Keys, data : Data \cup {NoData}]

\* No entry reaches into another one.
Apart == \A p, r \in DOMAIN ent : p < r => Behind(p) <= r

\* Without old entries the free space reaches to the end.
EmptyAtEnd == oldest = unused => unused = size

ArgType ==
    /\ todo \in Seq(Args)
    /\ \A p \in DOMAIN ent : p \in Nat

CacheInd == TypeOK /\ Layout /\ Apart /\ EmptyAtEnd /\ ArgType

(* An entry has a positive length.                                          *)
LEMMA EntryLenType ==
    ASSUME NEW e, e.key \in Keys, e.data \in Data
    PROVE  EntryLen(e) \in Nat \ {0}
BY CacheAssumption DEF EntryLen

(* The places of the entries and the length of the one to be added.         *)
LEMMA Lengths ==
    ASSUME CacheInd
    PROVE  /\ \A p \in DOMAIN ent : p \in Nat /\ Behind(p) \in Nat /\ p < Behind(p)
           /\ arg # NoArg => arg \in Args /\ EntryLen(arg) \in Nat \ {0}
<1>1. ASSUME NEW p \in DOMAIN ent PROVE p \in Nat /\ Behind(p) \in Nat /\ p < Behind(p)
  <2>1. p \in Nat /\ ent[p].key \in Keys /\ ent[p].data \in Data
    BY DEF CacheInd, ArgType, TypeOK
  <2> QED BY <2>1, EntryLenType DEF Behind
<1>2. ASSUME arg # NoArg PROVE arg \in Args /\ EntryLen(arg) \in Nat \ {0}
  <2>1. arg \in Args
    BY <1>2 DEF CacheInd, TypeOK
  <2>2. arg.key \in Keys /\ arg.data \in Data
    BY <2>1 DEF Args
  <2> QED BY <2>1, <2>2, EntryLenType
<1> QED BY <1>1, <1>2

(* open() makes a cache without entries.                                    *)
LEMMA InitInd == Init => CacheInd
BY CacheAssumption DEF Init, Undefined, CacheInd, TypeOK, Layout, Consecutive, Apart, EmptyAtEnd,
    ArgType, Behind, Heads

(* The call of add() only takes its arguments.                              *)
LEMMA AddCallInd == ASSUME CacheInd, NEW a \in Requests, AddCall(a) PROVE CacheInd'
BY CacheAssumption DEF AddCall, CacheInd, TypeOK, Layout, Consecutive, Apart, EmptyAtEnd,
   ArgType, Behind, info

(* add() exits and leaves the file as it is.                                *)
LEMMA CacheExhaustedInd == ASSUME CacheInd, CacheExhausted PROVE CacheInd'
BY CacheAssumption DEF CacheExhausted, CacheInd, TypeOK, Layout, Consecutive, Apart, EmptyAtEnd,
    ArgType, Behind, info

(* The clock changes no place of an entry.                                  *)
LEMMA TickInd == ASSUME CacheInd, Tick PROVE CacheInd'
BY CacheAssumption DEF Tick, CacheInd, TypeOK, Layout, Consecutive, Apart, EmptyAtEnd,
   ArgType, Behind, info

(* Opening the file again changes no place of an entry.                     *)
LEMMA ReopenInd == ASSUME CacheInd, Reopen PROVE CacheInd'
BY CacheAssumption DEF Reopen, Undefined, CacheInd, TypeOK, Layout, Consecutive, Apart, EmptyAtEnd,
    ArgType, Behind, info

(* The call of loadContentOf() only takes its files.                        *)
LEMMA LoadContentOfInd == ASSUME CacheInd, NEW s \in Loads, LoadContentOf(s) PROVE CacheInd'
BY CacheAssumption DEF LoadContentOf, CacheInd, TypeOK, Layout, Consecutive, Apart, EmptyAtEnd,
    ArgType, Behind, info

(* loadContentOf() cuts off what is behind the writer.                            *)
LEMMA TruncateInd == ASSUME CacheInd, Truncate PROVE CacheInd'
<1>1. CASE UNCHANGED <<size, oldest, unused, ent, link>>
  BY <1>1, CacheAssumption DEF Truncate, CacheInd, TypeOK, Layout, Consecutive, Apart, EmptyAtEnd,
     ArgType, Behind, info
<1>2. CASE /\ writer < size /\ size' = writer /\ oldest' = writer /\ unused' = writer
           /\ ent' = [p \in {q \in DOMAIN ent : q < writer} |-> ent[p]]
           /\ link' = [p \in {q \in DOMAIN link : q < writer} |-> link[p]]
  <2>1. /\ DOMAIN ent' = {q \in DOMAIN ent : q < writer}
        /\ DOMAIN link' = {q \in DOMAIN link : q < writer}
        /\ \A p \in DOMAIN ent' : ent'[p] = ent[p]
        /\ UNCHANGED <<writer, clock, start, arg, todo, ret, ttl>> /\ pc' = "idle"
    BY <1>2 DEF Truncate
  <2>2. /\ HSize \in Nat /\ writer \in Nat /\ HSize <= writer /\ writer \in 0 .. CacheSize
        /\ \A p \in DOMAIN ent : p \in Nat /\ Behind(p) \in Nat
    BY CacheAssumption, Lengths DEF CacheInd, TypeOK, Layout
  <2>3. \A p \in DOMAIN ent' : Behind(p)' = Behind(p)
    BY <2>1 DEF Behind, EntryLen
  <2>4. DOMAIN link' = Heads \cup DOMAIN ent'
    <3>1. \A h \in Heads : h < writer
      BY <2>2, CacheAssumption DEF Heads
    <3> QED BY <2>1, <3>1 DEF CacheInd, TypeOK
  <2>5. TypeOK'
    <3>1. Heads' = Heads
      BY DEF Heads
    <3> QED BY <1>2, <2>1, <2>2, <2>4, <3>1 DEF CacheInd, TypeOK
  <2>6. Layout'
    <3>1. \A p \in DOMAIN ent' : HSize <= p /\ p < writer /\ p \in DOMAIN ent
      BY <2>1, <2>2 DEF CacheInd, Layout, TypeOK
    <3>2. Consecutive(HSize, writer)'
      <4>1. HSize < writer => HSize \in DOMAIN ent'
        BY <2>1, <2>2 DEF CacheInd, Layout, Consecutive
      <4>2. \A p \in DOMAIN ent' :
              Behind(p) = writer \/ (Behind(p) < writer /\ Behind(p) \in DOMAIN ent')
        <5> SUFFICES ASSUME NEW p \in DOMAIN ent'
                     PROVE Behind(p) = writer \/ (Behind(p) < writer /\ Behind(p) \in DOMAIN ent')
          OBVIOUS
        <5>1. Behind(p) = writer \/ (Behind(p) < writer /\ Behind(p) \in DOMAIN ent)
          BY <2>2, <3>1 DEF CacheInd, Layout, Consecutive
        <5> QED BY <2>1, <5>1
      <4> QED BY <2>1, <2>2, <2>3, <4>1, <4>2, CacheAssumption DEF Consecutive
    <3>3. Consecutive(oldest, unused)'
      BY <1>2, <2>2, <3>1 DEF Consecutive
    <3> QED BY <1>2, <2>1, <2>2, <3>1, <3>2, <3>3 DEF Layout
  <2> QED BY <1>2, <2>1, <2>3, <2>5, <2>6 DEF CacheInd, Apart, EmptyAtEnd, ArgType
<1> QED BY <1>1, <1>2 DEF Truncate

(* loadContentOf() takes up an entry.                                       *)
LEMMA LoadNextInd == ASSUME CacheInd, LoadNext PROVE CacheInd'
<1>1. todo \in Seq(Args) /\ Head(todo) \in Args /\ Tail(todo) \in Seq(Args)
  BY DEF CacheInd, ArgType, LoadNext
<1> QED BY <1>1, CacheAssumption DEF LoadNext, CacheInd, TypeOK, Layout, Consecutive, Apart,
           EmptyAtEnd, ArgType, Behind, info

(* get() changes at most the expiration of an entry.                        *)
LEMMA GetInd == ASSUME CacheInd, NEW k \in Keys, Get(k) PROVE CacheInd'
<1> USE CacheAssumption
<1>1. PICK x \in DOMAIN ent \cup {-1} :
        \/ UNCHANGED ent /\ ret' \in Answers /\ ttl' \in Int
        \/ x \in DOMAIN ent /\ ent' = [ent EXCEPT ![x] = Marked(@)] /\ ret' = Answer(k, NoData) /\ UNCHANGED ttl
  <2>1. CASE ret' = Answer(k, NoData) /\ UNCHANGED <<ent, ttl>>
    BY <2>1 DEF CacheInd, TypeOK, Answer, Answers
  <2>2. ASSUME NEW i \in Matches(k),
               LET p == Walk(Bucket[k], Hops)[i] IN
               \/ ent' = [ent EXCEPT ![p] = Marked(@)] /\ ret' = Answer(k, NoData) /\ UNCHANGED ttl
               \/ ret' = Answer(k, ent[p].data) /\ ttl' = ent[p].expire /\ UNCHANGED ent
        PROVE  \E x \in DOMAIN ent :
                 \/ UNCHANGED ent /\ ret' \in Answers /\ ttl' \in Int
                 \/ ent' = [ent EXCEPT ![x] = Marked(@)] /\ ret' = Answer(k, NoData) /\ UNCHANGED ttl
    <3> DEFINE p == Walk(Bucket[k], Hops)[i]
    <3>1. p \in DOMAIN ent
      BY DEF Matches
    <3>2. ent[p].data \in Data /\ ent[p].expire \in Int
      BY <3>1 DEF CacheInd, TypeOK
    <3> HIDE DEF p
    <3> QED BY <2>2, <3>1, <3>2 DEF p, Answer, Answers
  <2> QED BY <2>1, <2>2 DEF Get
<1>2. /\ DOMAIN ent' = DOMAIN ent
      /\ \A p \in DOMAIN ent : ent'[p].key = ent[p].key /\ ent'[p].data = ent[p].data
      /\ \A p \in DOMAIN ent : ent'[p] \in EntryType
  <2>1. \A p \in DOMAIN ent : ent[p] \in EntryType
    BY DEF CacheInd, TypeOK, EntryType
  <2>2. CASE UNCHANGED ent
    BY <2>1, <2>2
  <2>3. CASE x \in DOMAIN ent /\ ent' = [ent EXCEPT ![x] = Marked(@)]
    <3>1. /\ DOMAIN ent' = DOMAIN ent
          /\ ent'[x] = Marked(ent[x])
          /\ \A p \in DOMAIN ent : p # x => ent'[p] = ent[p]
      BY <2>3
    <3>2. /\ Marked(ent[x]) \in EntryType
          /\ Marked(ent[x]).key = ent[x].key
          /\ Marked(ent[x]).data = ent[x].data
      BY <2>1, <2>3 DEF EntryType, Marked
    <3> QED BY <2>1, <3>1, <3>2
  <2> QED BY <1>1, <2>2, <2>3
<1>3. \A p : Behind(p)' = Behind(p)
  BY <1>2 DEF Behind, EntryLen
<1>4. TypeOK'
  <2>1. UNCHANGED <<info, link, clock, start, pc, arg, todo>>
    BY DEF Get
  <2>2. Answer(k, NoData) \in Answers
    BY DEF Answer, Answers
  <2>3. ttl \in Int
    BY DEF CacheInd, TypeOK
  <2>4. ret' \in Answers /\ ttl' \in Int
    BY <1>1, <2>2, <2>3
  <2> QED BY <1>2, <2>1, <2>4 DEF CacheInd, TypeOK, EntryType, Answers, info
<1> QED BY <1>2, <1>3, <1>4 DEF Get, CacheInd, Layout, Consecutive, Apart, EmptyAtEnd, ArgType, info

(* add() writes its entry into the free space, behind the newest one.       *)
LEMMA InsertInd == ASSUME CacheInd, Insert PROVE CacheInd'
<1> DEFINE len == EntryLen(arg)
           new == [key |-> arg.key, data |-> arg.data,
                   expire |-> IF arg.ttl = 0 THEN NO_TTL ELSE GetTime + arg.ttl]
<1>1. /\ arg \in Args /\ len \in Nat \ {0} /\ writer + len <= oldest
      /\ arg.key \in Keys /\ arg.data \in Data /\ arg.ttl \in Nat
  BY Lengths, CacheAssumption DEF Insert, Room, Args
<1>2. /\ HSize \in Nat \ {0} /\ size \in Nat /\ writer \in Nat /\ oldest \in Nat /\ unused \in Nat
      /\ clock \in Nat /\ start \in Nat
  BY CacheAssumption DEF CacheInd, TypeOK
<1>3. writer \notin DOMAIN ent
  BY <1>1, <1>2 DEF CacheInd, Layout
<1>4. new \in EntryType
  BY <1>1, <1>2 DEF EntryType, NO_TTL, GetTime
<1>5. /\ DOMAIN ent' = DOMAIN ent \cup {writer}
      /\ ent'[writer] = new
      /\ \A p \in DOMAIN ent : ent'[p] = ent[p]
  BY <1>3 DEF Insert
<1>6. EntryLen(new) = len
  BY DEF EntryLen
<1> HIDE DEF new, len
<1>7. \A p \in DOMAIN ent \cup {writer} :
        Behind(p)' = IF p = writer THEN writer + len ELSE Behind(p)
  BY <1>3, <1>5, <1>6 DEF Behind, EntryLen
<1>8. /\ writer' = writer + len
      /\ UNCHANGED <<size, oldest, unused, clock, start, todo, ret, ttl>>
      /\ arg' = NoArg /\ pc' = IF pc = "add" THEN "idle" ELSE pc
  BY DEF Insert, len
<1>9. Layout'
  <2>1. HSize <= writer' /\ writer' <= oldest' /\ oldest' <= unused' /\ unused' <= size'
    BY <1>1, <1>2, <1>8 DEF CacheInd, Layout
  <2>2. Consecutive(HSize, writer)'
    BY <1>1, <1>2, <1>5, <1>7, <1>8, Lengths DEF CacheInd, Layout, Consecutive
  <2>3. Consecutive(oldest, unused)'
    BY <1>1, <1>2, <1>5, <1>7, <1>8, Lengths DEF CacheInd, Layout, Consecutive
  <2>4. \A p \in DOMAIN ent' :
          (HSize <= p /\ p < writer') \/ (oldest' <= p /\ p < unused')
    BY <1>1, <1>2, <1>5, <1>8, Lengths DEF CacheInd, Layout
  <2> QED BY <2>1, <2>2, <2>3, <2>4 DEF Layout
<1>10. Apart'
  <2>1. \A p \in DOMAIN ent : p < writer => Behind(p) <= writer
    BY <1>1, <1>2, Lengths DEF CacheInd, Layout, Consecutive
  <2>2. \A p \in DOMAIN ent : writer < p => writer + len <= p
    BY <1>1, <1>2, Lengths DEF CacheInd, Layout
  <2> QED BY <1>1, <1>2, <1>5, <1>7, <2>1, <2>2, Lengths DEF CacheInd, Apart
<1>11. TypeOK'
  <2>1. DOMAIN link' = Heads \cup DOMAIN ent'
    BY <1>5 DEF Insert, CacheInd, TypeOK
  <2>2. \A p \in DOMAIN ent' : ent'[p] \in EntryType
    BY <1>4, <1>5 DEF CacheInd, TypeOK, EntryType
  <2> QED BY <1>1, <1>2, <1>8, <2>1, <2>2, CacheAssumption DEF CacheInd, TypeOK, EntryType, Layout, Heads
<1>12. ArgType' /\ EmptyAtEnd'
  BY <1>2, <1>5, <1>8 DEF CacheInd, ArgType, EmptyAtEnd
<1> QED BY <1>9, <1>10, <1>11, <1>12 DEF CacheInd

(* The turn of the loop of add() that removes the oldest entry: it is at    *)
(* the left of the entries behind the free space or, when there are none,   *)
(* of those before it, which then are the old ones.                         *)
LEMMA EvictInd == ASSUME CacheInd, Evict PROVE CacheInd'
<1> DEFINE wrap == oldest = unused
           o == IF wrap THEN HSize ELSE oldest
           u == IF wrap THEN writer ELSE unused
           n == Behind(o)
<1>1. /\ HSize \in Nat \ {0} /\ size \in Nat /\ writer \in Nat /\ oldest \in Nat /\ unused \in Nat
      /\ HSize <= writer /\ writer <= oldest /\ oldest <= unused /\ unused <= size
      /\ size <= CacheSize /\ CacheSize \in Nat
  BY CacheAssumption DEF CacheInd, TypeOK, Layout
<1>2. /\ writer' = IF wrap THEN HSize ELSE writer
      /\ oldest' = IF n = u THEN size ELSE n
      /\ unused' = IF n = u THEN size ELSE u
      /\ DOMAIN link' = DOMAIN link \ {o}
      /\ DOMAIN ent' = DOMAIN ent \ {o}
      /\ \A p \in DOMAIN ent' : ent'[p] = ent[p]
      /\ UNCHANGED <<size, clock, start, pc, arg, todo, ret, ttl>>
  BY DEF Evict, NextOldest
<1>3. o \in DOMAIN ent /\ o \in Nat /\ u \in Nat /\ n \in Nat /\ HSize <= o /\ o < u /\ u <= size
  <2>1. wrap => HSize < writer
    BY <1>1 DEF Evict, Exhausted
  <2>2. o \in DOMAIN ent /\ o < u
    BY <1>1, <2>1 DEF CacheInd, Layout, Consecutive
  <2> QED BY <1>1, <2>2, Lengths
<1>4. /\ n = u \/ (n < u /\ n \in DOMAIN ent)
      /\ o < n
  <2>1. Consecutive(o, u)
    BY DEF CacheInd, Layout
  <2> QED BY <1>1, <1>3, <2>1, Lengths DEF Consecutive
\* The entries that remain.
<1>5. \A p \in DOMAIN ent' :
        /\ p \in DOMAIN ent /\ p # o /\ p \in Nat
        /\ (HSize <= p /\ p < writer' /\ ~wrap) \/ (n <= p /\ p < u)
  <2> SUFFICES ASSUME NEW p \in DOMAIN ent, p # o
               PROVE (HSize <= p /\ p < writer' /\ ~wrap) \/ (n <= p /\ p < u)
    BY <1>2, Lengths
  <2>1. o < p => n <= p
    BY <1>3 DEF CacheInd, Apart
  <2>2. (HSize <= p /\ p < writer) \/ (oldest <= p /\ p < unused)
    BY DEF CacheInd, Layout
  <2> QED BY <1>1, <1>2, <1>3, <2>1, <2>2, Lengths
<1>6. \A p \in DOMAIN ent' : Behind(p)' = Behind(p)
  BY <1>2, <1>5 DEF Behind, EntryLen
<1> HIDE DEF n
<1>7. Layout'
  <2>1. HSize <= writer' /\ writer' <= oldest' /\ oldest' <= unused' /\ unused' <= size'
    BY <1>1, <1>2, <1>3, <1>4
  <2>2. Consecutive(HSize, writer)'
    <3>1. CASE wrap
      BY <1>1, <1>2, <3>1, <1>5 DEF Consecutive
    <3>2. CASE ~wrap
      <4>1. Consecutive(HSize, writer) /\ writer' = writer /\ writer <= o
        BY <1>1, <1>2, <3>2 DEF CacheInd, Layout
      <4>2. \A p \in DOMAIN ent : p < writer => p \in DOMAIN ent'
        BY <1>1, <1>2, <1>3, <4>1, Lengths
      <4> QED BY <1>1, <1>2, <1>5, <1>6, <4>1, <4>2, Lengths DEF Consecutive
    <3> QED BY <3>1, <3>2
  <2>3. Consecutive(oldest, unused)'
    <3>1. CASE n = u
      BY <1>1, <1>2, <3>1, <1>5 DEF Consecutive
    <3>2. CASE n # u
      <4>1. Consecutive(o, u)
        BY DEF CacheInd, Layout
      <4>2. oldest' = n /\ unused' = u /\ n \in DOMAIN ent' /\ n < u
        BY <1>2, <1>3, <1>4, <3>2
      <4>3. \A p \in DOMAIN ent : n <= p => p \in DOMAIN ent'
        BY <1>2, <1>3, <1>4, Lengths
      <4>4. \A p \in DOMAIN ent' : n <= p /\ p < u =>
              Behind(p) = u \/ (Behind(p) < u /\ Behind(p) \in DOMAIN ent' )
        BY <1>3, <1>4, <1>5, <4>1, <4>3, Lengths DEF Consecutive
      <4> QED BY <1>6, <4>2, <4>4 DEF Consecutive
    <3> QED BY <3>1, <3>2
  <2>4. \A p \in DOMAIN ent' :
          (HSize <= p /\ p < writer') \/ (oldest' <= p /\ p < unused')
    BY <1>1, <1>2, <1>3, <1>4, <1>5
  <2> QED BY <2>1, <2>2, <2>3, <2>4 DEF Layout
<1>8. Apart'
  BY <1>5, <1>6 DEF CacheInd, Apart
<1>9. TypeOK'
  <2>1. o \notin Heads
    BY <1>1, <1>3, CacheAssumption DEF Heads
  <2>2. DOMAIN link' = Heads \cup DOMAIN ent'
    BY <1>2, <2>1 DEF CacheInd, TypeOK
  <2>3. \A p \in DOMAIN ent' : ent'[p] \in EntryType
    BY <1>2, <1>5 DEF CacheInd, TypeOK, EntryType
  <2>4. /\ writer' \in 0 .. CacheSize /\ oldest' \in 0 .. CacheSize
        /\ unused' \in 0 .. CacheSize
    BY <1>1, <1>2, <1>3, <1>4
  <2>5. Heads' = Heads
    BY DEF Heads
  <2> QED BY <1>2, <2>2, <2>3, <2>4, <2>5 DEF CacheInd, TypeOK, EntryType
<1>10. ArgType' /\ EmptyAtEnd'
  BY <1>1, <1>2, <1>3, <1>4, <1>5 DEF CacheInd, ArgType, EmptyAtEnd
<1> QED BY <1>7, <1>8, <1>9, <1>10 DEF CacheInd

(* No step of the cache breaks the inductive invariant.                     *)
LEMMA NextInd == ASSUME CacheInd, [Next]_vars PROVE CacheInd'
<1>1. CASE UNCHANGED vars
  BY <1>1 DEF vars, CacheInd, TypeOK, Layout, Consecutive, Apart, EmptyAtEnd, ArgType,
     Behind, Heads
<1>2. CASE Next
  BY <1>2, AddCallInd, CacheExhaustedInd, EvictInd, InsertInd, GetInd, LoadContentOfInd,
     LoadNextInd, TruncateInd, ReopenInd, TickInd DEF Next, AddStep
<1> QED BY <1>1, <1>2

(* In every state, whatever the sizes of the cache and of its entries, the  *)
(* positions of cache_info are in order and the entries of UCache tile the  *)
(* two regions that they delimit: add() never writes over an entry that it  *)
(* has not removed, and never removes what is not an entry.                 *)
THEOREM CacheLayout == Spec => [](TypeOK /\ Layout)
<1>1. CacheInd => TypeOK /\ Layout
  BY DEF CacheInd
<1> QED BY <1>1, InitInd, NextInd, PTL DEF Spec

-----------------------------------------------------------------------------
(* The lists.                                                               *)

\* y follows x in the list of the head h, which begins at h and ends at 0.
Adjacent(h, x, y) ==
    LET b == InBucket(h) IN
    /\ x \in b \cup {h} /\ y \in b \cup {0}
    /\ x \in b /\ y \in b => Older(y, x)
    /\ \A r \in b : (x \in b => Older(r, x)) => ~(y \in b => Older(y, r))

HeadLinked(h) == \E y : Adjacent(h, h, y) /\ link[h] = W(y)

EntryLinked(h, p) ==
    \E x, y : Adjacent(h, x, p) /\ Adjacent(h, p, y) /\ link[p] = Xor(W(x), W(y))

Linked ==
    \A h \in Heads : HeadLinked(h) /\ \A p \in InBucket(h) : EntryLinked(h, p)

\* What loadContentOf() has still to add fits behind the writer.
Loadable ==
    /\ pc \in {"idle", "exit"} => arg = NoArg
    /\ pc = "load" =>
         /\ oldest = unused
         /\ writer + Len(todo) * FileLen + (IF arg = NoArg THEN 0 ELSE FileLen) <= size
         /\ \A i \in DOMAIN todo : EntryLen(todo[i]) <= FileLen
         /\ arg # NoArg => EntryLen(arg) <= FileLen

ChainInd == CacheInd /\ Loadable /\ Linked

-----------------------------------------------------------------------------
(* Every set of natural numbers that is not empty has a least element: its  *)
(* initial intervals are finite sets, on which inclusion is well-founded.   *)
LEMMA LeastNatural ==
    ASSUME NEW T, T \subseteq Nat, T # {}
    PROVE  \E m \in T : \A k \in T : m <= k
<1>. DEFINE C == {0 .. n : n \in T}
<1>1. C \subseteq FiniteSubsetsOf(Nat)
  <2>1. \A n \in T : 0 .. n \in SUBSET Nat /\ IsFiniteSet(0 .. n)
    BY FS_Interval
  <2>. QED BY <2>1 DEF FiniteSubsetsOf
<1>2. C # {}
  OBVIOUS
<1>3. IsWellFoundedOn(StrictSubsetOrdering(Nat), FiniteSubsetsOf(Nat))
  BY FS_StrictSubsetOrderingWellFounded
<1>4. PICK x \in C : \A y \in C : ~(<<y, x>> \in StrictSubsetOrdering(Nat))
  <2>. HIDE DEF C
  <2>. QED BY <1>1, <1>2, <1>3, WFMin
<1>5. PICK m \in T : x = 0 .. m
  OBVIOUS
<1>6. ASSUME NEW k \in T, k < m PROVE FALSE
  <2>1. 0 .. k \in C
    OBVIOUS
  <2>2. (0 .. k) \subseteq 0 .. m /\ m \notin 0 .. k /\ m \in 0 .. m
    BY <1>6
  <2>3. <<0 .. k, x>> \in StrictSubsetOrdering(Nat)
    <3>1. 0 .. k \in SUBSET Nat /\ x \in SUBSET Nat
      BY <1>5
    <3>2. 0 .. k # x /\ (0 .. k) \subseteq x
      BY <1>5, <2>2
    <3>. QED BY <3>1, <3>2 DEF StrictSubsetOrdering
  <2>. QED BY <1>4, <2>1, <2>3
<1>. QED BY <1>6

\* One hop of get(), from <<previous position, position>> to the next pair.
Hop(w) == IF w[2] <= 0 THEN w ELSE <<w[2], Pos(Xor(W(w[1]), Link(w[2])))>>

IsWalk(g, h, n) == g = [i \in 0 .. n |-> IF i = 0 THEN <<h, Pos(link[h])>> ELSE Hop(g[i - 1])]

(* The recursion of Walk has a solution for every number of hops.           *)
LEMMA WalkExists ==
    ASSUME NEW h, NEW n \in Nat
    PROVE  \E g : IsWalk(g, h, n)
<1>. DEFINE T == {m \in Nat : ~\E g : IsWalk(g, h, m)}
<1>. SUFFICES ASSUME T # {} PROVE FALSE
  OBVIOUS
<1>1. PICK m \in T : \A k \in T : m <= k
  <2>1. T \subseteq Nat
    OBVIOUS
  <2>. HIDE DEF T
  <2>. QED BY <2>1, LeastNatural
<1>2. m \in Nat /\ ~\E g : IsWalk(g, h, m)
  OBVIOUS
<1>3. CASE m = 0
  <2>. DEFINE g == [i \in 0 .. m |-> <<h, Pos(link[h])>>]
  <2>1. \A i \in 0 .. m : i = 0
    BY <1>3
  <2>2. IsWalk(g, h, m)
    BY <2>1 DEF IsWalk
  <2>. QED BY <1>2, <2>2
<1>4. CASE m # 0
  <2>1. m - 1 \in Nat /\ m - 1 \notin T
    BY <1>1, <1>2, <1>4
  <2>2. PICK f : IsWalk(f, h, m - 1)
    BY <2>1
  <2>. DEFINE g == [i \in 0 .. m |-> IF i = m THEN Hop(f[m - 1]) ELSE f[i]]
  <2>3. \A i \in 0 .. m : g[i] = IF i = 0 THEN <<h, Pos(link[h])>> ELSE Hop(g[i - 1])
    <3>. SUFFICES ASSUME NEW i \in 0 .. m
                  PROVE g[i] = IF i = 0 THEN <<h, Pos(link[h])>> ELSE Hop(g[i - 1])
      OBVIOUS
    <3>1. CASE i = m
      <4>1. g[i] = Hop(f[m - 1])
        BY <3>1
      <4>2. g[i - 1] = f[m - 1]
        BY <3>1, <1>2, <1>4
      <4>. QED BY <3>1, <1>4, <4>1, <4>2
    <3>2. CASE i # m
      <4>1. i \in 0 .. m - 1
        BY <3>2, <1>2
      <4>2. f[i] = IF i = 0 THEN <<h, Pos(link[h])>> ELSE Hop(f[i - 1])
        BY <2>2, <4>1 DEF IsWalk
      <4>3. g[i] = f[i]
        BY <3>2
      <4>4. i # 0 => g[i - 1] = f[i - 1]
        BY <4>1, <1>2
      <4>. QED BY <4>2, <4>3, <4>4
    <3>. QED BY <3>1, <3>2
  <2>4. DOMAIN g = 0 .. m /\ g = [i \in 0 .. m |-> g[i]]
    OBVIOUS
  <2>. HIDE DEF g
  <2>5. IsWalk(g, h, m)
    BY <2>3, <2>4 DEF IsWalk
  <2>. QED BY <1>2, <2>5
<1>. QED BY <1>3, <1>4

\* g are the pairs of the walk of n hops from h.
Hopping(g, h, n) ==
    /\ Walk(h, n) = [i \in 0 .. n |-> g[i][2]]
    /\ g[0] = <<h, Pos(link[h])>>
    /\ \A i \in 1 .. n : g[i] = Hop(g[i - 1])

(* The hops of Walk, as facts about each of them.                           *)
LEMMA WalkDef ==
    ASSUME NEW h, NEW n \in Nat
    PROVE  \E g : Hopping(g, h, n)
<1>. DEFINE at == CHOOSE g : IsWalk(g, h, n)
<1>1. IsWalk(at, h, n)
  BY WalkExists
<1>2. Walk(h, n) = [i \in 0 .. n |-> at[i][2]]
  BY DEF Walk, IsWalk, Hop
<1>. HIDE DEF at
<1>3. \A i \in 0 .. n : at[i] = IF i = 0 THEN <<h, Pos(link[h])>> ELSE Hop(at[i - 1])
  BY <1>1 DEF IsWalk
<1>4. at[0] = <<h, Pos(link[h])>>
  BY <1>3
<1>5. \A i \in 1 .. n : at[i] = Hop(at[i - 1])
  BY <1>3
<1>. QED BY <1>2, <1>4, <1>5 DEF Hopping

-----------------------------------------------------------------------------
(* A word that combines one position leads to it, and a word decoded with   *)
(* one of its two positions leads to the other.                             *)
LEMMA Words ==
    ASSUME NEW x \in Nat, NEW y \in Nat
    PROVE  /\ Pos(W(y)) = y
           /\ Xor(W(x), Xor(W(x), W(y))) = W(y)
           /\ W(y) = {} <=> y = 0
<1>1. Pos(W(y)) = y
  <2>1. CASE y = 0
    BY <2>1 DEF Pos, W
  <2>2. CASE y # 0
    <3>1. W(y) = {y} /\ {y} # {}
      BY <2>2 DEF W
    <3>2. (\E p \in {y} : {y} = {p}) /\ (CHOOSE p \in {y} : TRUE) = y
      OBVIOUS
    <3>. QED BY <3>1, <3>2 DEF Pos
  <2>. QED BY <2>1, <2>2
<1>2. Xor(W(x), Xor(W(x), W(y))) = W(y)
  BY DEF Xor
<1>3. W(y) = {} <=> y = 0
  BY DEF W
<1>. QED BY <1>1, <1>2, <1>3

(* The entries are in a strict linear order from the oldest to the newest;  *)
(* heads are no entries.                                                    *)
LEMMA OlderOrder ==
    ASSUME CacheInd
    PROVE  /\ \A p \in DOMAIN ent : p \in Nat /\ p # 0 /\ p \notin Heads /\ ~Older(p, p)
           /\ \A p, r \in DOMAIN ent : p = r \/ Older(p, r) \/ Older(r, p)
           /\ \A p, r \in DOMAIN ent : ~(Older(p, r) /\ Older(r, p))
           /\ \A p, r, s \in DOMAIN ent : Older(p, r) /\ Older(r, s) => Older(p, s)
<1>1. /\ HSize \in Nat \ {0} /\ oldest \in Nat /\ HSize <= oldest
      /\ \A p \in DOMAIN ent : p \in Nat /\ HSize <= p
  BY CacheAssumption, Lengths DEF CacheInd, TypeOK, Layout
<1>2. \A h \in Heads : h \in Nat /\ h < HSize
  BY <1>1, CacheAssumption DEF Heads
<1>3. \A p \in DOMAIN ent : p \in Nat /\ p # 0 /\ p \notin Heads /\ ~Older(p, p)
  BY <1>1, <1>2 DEF Older
<1>4. \A p, r \in DOMAIN ent : p = r \/ Older(p, r) \/ Older(r, p)
  BY <1>1 DEF Older
<1>5. \A p, r \in DOMAIN ent : ~(Older(p, r) /\ Older(r, p))
  BY <1>1 DEF Older
<1>6. \A p, r, s \in DOMAIN ent : Older(p, r) /\ Older(r, s) => Older(p, s)
  BY <1>1 DEF Older
<1>. QED BY <1>3, <1>4, <1>5, <1>6

(* Positions of a list are numbers; its ends are the head and 0.            *)
LEMMA ListTypes ==
    ASSUME CacheInd, NEW h \in Heads
    PROVE  /\ h \in Nat /\ h \in DOMAIN link /\ InBucket(h) \subseteq DOMAIN ent
           /\ InBucket(h) \subseteq Nat \ {0} /\ h \notin InBucket(h)
           /\ \A p \in InBucket(h) : p \in DOMAIN link
           /\ \A x, y : Adjacent(h, x, y) => x \in Nat /\ y \in Nat
<1>1. h \in Nat
  BY CacheAssumption DEF Heads
<1>2. DOMAIN link = Heads \cup DOMAIN ent
  BY DEF CacheInd, TypeOK
<1>3. InBucket(h) \subseteq DOMAIN ent /\ InBucket(h) \subseteq Nat \ {0} /\ h \notin InBucket(h)
  BY OlderOrder DEF InBucket
<1>. QED BY <1>1, <1>2, <1>3 DEF Adjacent

(* A position has one successor and one predecessor in a list.              *)
LEMMA AdjacentUnique ==
    ASSUME CacheInd, NEW h \in Heads
    PROVE  /\ \A x, y, z : Adjacent(h, x, y) /\ Adjacent(h, x, z) => y = z
           /\ \A x, y, z : y \in InBucket(h) /\ Adjacent(h, x, y) /\ Adjacent(h, z, y) => x = z
<1>. DEFINE b == InBucket(h)
<1>1. /\ b \subseteq DOMAIN ent /\ h \notin b /\ 0 \notin b
  BY ListTypes
<1>2. /\ \A p, r \in b : p = r \/ Older(p, r) \/ Older(r, p)
      /\ \A p, r \in b : ~(Older(p, r) /\ Older(r, p))
  BY <1>1, OlderOrder
<1>3. ASSUME NEW x, NEW y, NEW z, Adjacent(h, x, y), Adjacent(h, x, z) PROVE y = z
  <2>1. /\ x \in b \cup {h} /\ y \in b \cup {0} /\ z \in b \cup {0}
        /\ x \in b /\ y \in b => Older(y, x)
        /\ x \in b /\ z \in b => Older(z, x)
        /\ \A r \in b : (x \in b => Older(r, x)) => ~(y \in b => Older(y, r))
        /\ \A r \in b : (x \in b => Older(r, x)) => ~(z \in b => Older(z, r))
    BY <1>3 DEF Adjacent
  <2>. HIDE DEF b
  <2>. QED BY <1>1, <1>2, <2>1
<1>4. ASSUME NEW x, NEW y \in b, NEW z, Adjacent(h, x, y), Adjacent(h, z, y) PROVE x = z
  <2>1. /\ x \in b \cup {h} /\ z \in b \cup {h}
        /\ x \in b => Older(y, x)
        /\ z \in b => Older(y, z)
        /\ \A r \in b : (x \in b => Older(r, x)) => ~Older(y, r)
        /\ \A r \in b : (z \in b => Older(r, z)) => ~Older(y, r)
    BY <1>4 DEF Adjacent
  <2>. HIDE DEF b
  <2>. QED BY <1>1, <1>2, <2>1
<1>. QED BY <1>3, <1>4

-----------------------------------------------------------------------------
\* The entries of the list that come before p, and how many they are.
NewerThan(h, p) == {r \in InBucket(h) : Older(p, r)}
Depth(h, p) == Cardinality(NewerThan(h, p))

(* The buckets are finite, and the depth grows by one along a list.         *)
LEMMA Depths ==
    ASSUME CacheInd, NEW h \in Heads
    PROVE  /\ IsFiniteSet(InBucket(h)) /\ Cardinality(InBucket(h)) \in Nat
           /\ \A p \in InBucket(h) : Depth(h, p) \in Nat /\ Depth(h, p) < Cardinality(InBucket(h))
           /\ \A p \in InBucket(h) : Adjacent(h, h, p) => Depth(h, p) = 0
           /\ \A a, p \in InBucket(h) : Adjacent(h, a, p) => Depth(h, p) = Depth(h, a) + 1
           /\ \A p \in InBucket(h) : Adjacent(h, p, 0) => Cardinality(InBucket(h)) = Depth(h, p) + 1
<1>. DEFINE b == InBucket(h)
<1>1. b \subseteq DOMAIN ent /\ h \notin b /\ 0 \notin b
  BY ListTypes
<1>2. IsFiniteSet(b) /\ Cardinality(b) \in Nat
  <2>1. \A p \in DOMAIN ent : p \in 0 .. CacheSize
    <3>1. /\ size \in 0 .. CacheSize /\ writer \in Nat /\ oldest \in Nat /\ unused \in Nat
          /\ writer <= size /\ unused <= size /\ CacheSize \in Nat
      BY CacheAssumption DEF CacheInd, Layout, TypeOK
    <3>2. \A p \in DOMAIN ent : p \in Nat /\ (p < writer \/ p < unused)
      BY Lengths DEF CacheInd, Layout
    <3>. QED BY <3>1, <3>2
  <2>2. IsFiniteSet(0 .. CacheSize)
    BY FS_Interval, CacheAssumption
  <2>3. b \subseteq 0 .. CacheSize
    BY <1>1, <2>1
  <2>. QED BY <2>2, <2>3, FS_Subset, FS_CardinalityType
<1>3. /\ \A p, r \in b : p = r \/ Older(p, r) \/ Older(r, p)
      /\ \A p, r \in b : ~(Older(p, r) /\ Older(r, p))
      /\ \A p \in b : ~Older(p, p)
      /\ \A p, r, s \in b : Older(p, r) /\ Older(r, s) => Older(p, s)
  BY <1>1, OlderOrder
<1>4. ASSUME NEW p \in b
      PROVE  /\ IsFiniteSet(NewerThan(h, p)) /\ Depth(h, p) \in Nat
             /\ Cardinality(NewerThan(h, p) \cup {p}) = Depth(h, p) + 1
             /\ Depth(h, p) + 1 <= Cardinality(b)
  <2>1. NewerThan(h, p) \subseteq b /\ p \notin NewerThan(h, p) /\ NewerThan(h, p) \cup {p} \subseteq b
    BY <1>3 DEF NewerThan
  <2>2. IsFiniteSet(NewerThan(h, p)) /\ Depth(h, p) \in Nat
    BY <1>2, <2>1, FS_Subset, FS_CardinalityType DEF Depth
  <2>3. Cardinality(NewerThan(h, p) \cup {p}) = Depth(h, p) + 1
    BY <2>1, <2>2, FS_AddElement DEF Depth
  <2>4. Cardinality(NewerThan(h, p) \cup {p}) <= Cardinality(b)
    BY <1>2, <2>1, FS_Subset
  <2>. QED BY <2>2, <2>3, <2>4
<1>5. ASSUME NEW p \in b, Adjacent(h, h, p) PROVE Depth(h, p) = 0
  <2>1. NewerThan(h, p) = {}
    BY <1>1, <1>5 DEF Adjacent, NewerThan
  <2>. QED BY <2>1, FS_EmptySet DEF Depth
<1>6. ASSUME NEW a \in b, NEW p \in b, Adjacent(h, a, p) PROVE Depth(h, p) = Depth(h, a) + 1
  <2>1. Older(p, a) /\ \A r \in b : Older(r, a) => ~Older(p, r)
    BY <1>6 DEF Adjacent
  <2>2. \A r \in b : Older(p, r) <=> (Older(a, r) \/ r = a)
    <3>. HIDE DEF b
    <3>. QED BY <1>3, <2>1
  <2>3. NewerThan(h, p) = NewerThan(h, a) \cup {a}
    BY <2>2 DEF NewerThan
  <2>. QED BY <1>4, <2>3 DEF Depth
<1>7. ASSUME NEW p \in b, Adjacent(h, p, 0) PROVE Cardinality(b) = Depth(h, p) + 1
  <2>1. \A r \in b : ~Older(r, p)
    BY <1>1, <1>7 DEF Adjacent
  <2>2. \A r \in b : Older(p, r) \/ r = p
    BY <1>3, <2>1
  <2>3. b = NewerThan(h, p) \cup {p}
    BY <2>2 DEF NewerThan
  <2>. QED BY <1>4, <2>3
<1>8. \A p \in b : Depth(h, p) \in Nat /\ Depth(h, p) < Cardinality(b)
  <2>. SUFFICES ASSUME NEW p \in b PROVE Depth(h, p) \in Nat /\ Depth(h, p) < Cardinality(b)
    OBVIOUS
  <2>1. Depth(h, p) \in Nat /\ Depth(h, p) + 1 <= Cardinality(b)
    BY <1>4
  <2>. HIDE DEF b
  <2>. QED BY <1>2, <2>1
<1>. QED BY <1>2, <1>5, <1>6, <1>7, <1>8

(* Where the links are right, the walk of get() goes along the list: after  *)
(* as many hops as newer entries of the bucket it is at an entry, and it    *)
(* ends behind the last.                                                    *)
LEMMA LinkedChains == ASSUME CacheInd, Linked PROVE Chains
<1>. SUFFICES ASSUME NEW h \in Heads
              PROVE  /\ Walk(h, Cardinality(InBucket(h)))[Cardinality(InBucket(h))] = 0
                     /\ \A p \in InBucket(h) :
                          Walk(h, Cardinality(InBucket(h)))[Cardinality({r \in InBucket(h) : Older(p, r)})] = p
  BY DEF Chains
<1>. DEFINE b == InBucket(h)
            n == Cardinality(b)
<1>1. n \in Nat /\ \A p \in b : Depth(h, p) \in Nat /\ Depth(h, p) < n
  BY Depths
<1>2. /\ h \in Nat /\ b \subseteq Nat \ {0} /\ b \subseteq DOMAIN link
      /\ \A x, y : Adjacent(h, x, y) => x \in Nat /\ y \in Nat
  BY ListTypes
<1>walk. PICK g : Hopping(g, h, n)
  <2>. HIDE DEF n
  <2>. QED BY <1>1, WalkDef
<1>3. /\ Walk(h, n) = [i \in 0 .. n |-> g[i][2]]
      /\ g[0] = <<h, Pos(link[h])>>
      /\ \A i \in 1 .. n : g[i] = Hop(g[i - 1])
  BY <1>walk DEF Hopping
<1>. DEFINE At(p) == \E x : Adjacent(h, x, p) /\ g[Depth(h, p)] = <<x, p>>
<1>4. ASSUME NEW y, Adjacent(h, h, y) PROVE g[0] = <<h, y>>
  <2>1. PICK z : Adjacent(h, h, z) /\ link[h] = W(z)
    BY DEF Linked, HeadLinked
  <2>2. z = y /\ z \in Nat
    BY <1>2, <1>4, <2>1, AdjacentUnique
  <2>. QED BY <1>3, <2>1, <2>2, Words
\* A hop goes from an entry to the one that follows.
<1>5. ASSUME NEW a \in b, At(a), NEW y, Adjacent(h, a, y)
      PROVE  g[Depth(h, a) + 1] = <<a, y>>
  <2>1. PICK x : Adjacent(h, x, a) /\ g[Depth(h, a)] = <<x, a>>
    BY <1>5
  <2>2. PICK v, z : Adjacent(h, v, a) /\ Adjacent(h, a, z) /\ link[a] = Xor(W(v), W(z))
    BY DEF Linked, EntryLinked
  <2>3. v = x /\ z = y
    BY <1>5, <2>1, <2>2, AdjacentUnique
  <2>4. x \in Nat /\ y \in Nat /\ a \in Nat \ {0} /\ a \in DOMAIN link
    BY <1>2, <1>5, <2>1
  <2>5. Pos(Xor(W(x), Link(a))) = y
    BY <2>2, <2>3, <2>4, Words DEF Link
  <2>6. Hop(<<x, a>>) = <<a, y>>
    BY <2>4, <2>5 DEF Hop
  <2>7. Depth(h, a) + 1 \in 1 .. n /\ (Depth(h, a) + 1) - 1 = Depth(h, a)
    <3>1. Depth(h, a) \in Nat /\ Depth(h, a) < n
      BY <1>1
    <3>. HIDE DEF n
    <3>. QED BY <1>1, <3>1
  <2>. QED BY <1>3, <2>1, <2>6, <2>7
\* The least depth at which the walk were not at its entry.
<1>6. ASSUME NEW q \in b PROVE At(q)
  <2>. DEFINE T == {i \in Nat : \E p \in b : i = Depth(h, p) /\ ~At(p)}
  <2>. SUFFICES ASSUME T # {} PROVE FALSE
    BY <1>1
  <2>1. PICK m \in T : \A k \in T : m <= k
    <3>1. T \subseteq Nat
      OBVIOUS
    <3>. HIDE DEF T
    <3>. QED BY <3>1, LeastNatural
  <2>2. PICK p \in b : m = Depth(h, p) /\ ~At(p)
    OBVIOUS
  <2>3. PICK a, y : Adjacent(h, a, p) /\ Adjacent(h, p, y)
    BY DEF Linked, EntryLinked
  <2>4. a \in b \cup {h}
    BY <2>3 DEF Adjacent
  <2>5. CASE a = h
    <3>1. Depth(h, p) = 0 /\ g[0] = <<h, p>>
      BY <1>4, <2>3, <2>5, Depths
    <3>. QED BY <2>2, <2>3, <2>5, <3>1
  <2>6. CASE a \in b
    <3>1. Depth(h, p) = Depth(h, a) + 1 /\ Depth(h, a) \in Nat
      BY <1>1, <2>3, <2>6, Depths
    <3>2. Depth(h, a) \notin T
      <4>1. ~(m <= Depth(h, a)) /\ m \in Nat
        BY <2>2, <3>1
      <4>. HIDE DEF T
      <4>. QED BY <2>1, <4>1
    <3>3. At(a)
      BY <2>6, <3>1, <3>2
    <3>4. g[Depth(h, p)] = <<a, p>>
      BY <1>5, <2>3, <2>6, <3>1, <3>3
    <3>. QED BY <2>2, <2>3, <3>4
  <2>. QED BY <2>4, <2>5, <2>6
<1>7. Walk(h, n)[n] = 0
  <2>1. CASE b = {}
    <3>1. n = 0
      BY <2>1, FS_EmptySet
    <3>2. PICK y : Adjacent(h, h, y)
      BY DEF Linked, HeadLinked
    <3>3. y = 0
      BY <2>1, <3>2 DEF Adjacent
    <3>4. g[0] = <<h, 0>>
      BY <1>4, <3>2, <3>3
    <3>. HIDE DEF n
    <3>. QED BY <1>3, <3>1, <3>4
  <2>2. CASE b # {}
    <3>. DEFINE S == {i \in Nat : \E p \in b : i = n - Depth(h, p)}
    <3>1. \A p \in b : n - Depth(h, p) \in Nat
      <4>. HIDE DEF n
      <4>. QED BY <1>1
    <3>2. S \subseteq Nat /\ S # {}
      BY <2>2, <3>1
    <3>3. PICK m \in S : \A k \in S : m <= k
      <4>. HIDE DEF S
      <4>. QED BY <3>2, LeastNatural
    <3>4. PICK p \in b : m = n - Depth(h, p)
      OBVIOUS
    <3>5. PICK x, y : Adjacent(h, x, p) /\ Adjacent(h, p, y)
      BY DEF Linked, EntryLinked
    <3>6. ASSUME y \in b PROVE FALSE
      <4>1. Depth(h, y) = Depth(h, p) + 1
        BY <3>5, <3>6, Depths
      <4>2. n - Depth(h, y) \in S
        BY <3>1, <3>6
      <4>3. m <= n - Depth(h, y)
        <5>. HIDE DEF S
        <5>. QED BY <3>3, <4>2
      <4>4. Depth(h, p) \in Nat
        BY <1>1
      <4>. HIDE DEF n, S
      <4>. QED BY <1>1, <3>4, <4>1, <4>3, <4>4
    <3>7. y = 0
      BY <3>5, <3>6 DEF Adjacent
    <3>8. n = Depth(h, p) + 1
      BY <3>5, <3>7, Depths
    <3>9. g[Depth(h, p) + 1] = <<p, 0>>
      BY <1>5, <1>6, <3>5, <3>7
    <3>. HIDE DEF n
    <3>. QED BY <1>1, <1>3, <3>8, <3>9
  <2>. QED BY <2>1, <2>2
<1>8. ASSUME NEW p \in b PROVE Walk(h, n)[Depth(h, p)] = p
  <2>1. g[Depth(h, p)][2] = p
    BY <1>6
  <2>2. Depth(h, p) \in 0 .. n
    <3>1. Depth(h, p) \in Nat /\ Depth(h, p) < n
      BY <1>1
    <3>. HIDE DEF n
    <3>. QED BY <1>1, <3>1
  <2>. QED BY <1>3, <2>1, <2>2
<1>. QED BY <1>7, <1>8 DEF Depth, NewerThan

-----------------------------------------------------------------------------
(* A step that changes neither words nor buckets nor the order of the       *)
(* entries leaves the lists as they are.                                    *)
LEMMA SameLists ==
    ASSUME Linked, \A l \in Heads \cup DOMAIN ent : link'[l] = link[l],
           \A h \in Heads : InBucket(h)' = InBucket(h),
           \A p, r \in DOMAIN ent : Older(p, r)' <=> Older(p, r)
    PROVE  Linked'
<1>1. ASSUME NEW h \in Heads, NEW x, NEW y PROVE Adjacent(h, x, y)' <=> Adjacent(h, x, y)
  <2>1. InBucket(h)' = InBucket(h)
    OBVIOUS
  <2>2. \A p, r \in InBucket(h) : Older(p, r)' <=> Older(p, r)
    BY DEF InBucket
  <2>. QED BY <2>1, <2>2 DEF Adjacent
<1>2. Heads' = Heads
  BY DEF Heads
<1>3. ASSUME NEW h \in Heads PROVE HeadLinked(h)'
  BY <1>1 DEF Linked, HeadLinked
<1>4. ASSUME NEW h \in Heads, NEW p \in InBucket(h) PROVE EntryLinked(h, p)'
  <2>1. PICK x, y : Adjacent(h, x, p) /\ Adjacent(h, p, y) /\ link[p] = Xor(W(x), W(y))
    BY <1>4 DEF Linked, EntryLinked
  <2>2. p \in DOMAIN ent
    BY <1>4 DEF InBucket
  <2>3. Adjacent(h, x, p)' /\ Adjacent(h, p, y)' /\ link'[p] = Xor(W(x), W(y))
    BY <1>1, <2>1, <2>2
  <2>. QED BY <2>3 DEF EntryLinked
<1>. QED BY <1>2, <1>3, <1>4 DEF Linked

(* A step that leaves the file as it is leaves the lists as they are.       *)
LEMMA SameFile ==
    ASSUME CacheInd, Linked, UNCHANGED <<oldest, link, ent>>
    PROVE  Linked'
BY SameLists DEF InBucket, Older

(* open() makes empty lists.                                                *)
LEMMA InitLinked == Init => Linked /\ Loadable
<1>. SUFFICES ASSUME Init PROVE Linked /\ Loadable
  OBVIOUS
<1>1. ASSUME NEW h \in Heads PROVE InBucket(h) = {} /\ HeadLinked(h)
  <2>1. InBucket(h) = {} /\ link[h] = W(0)
    BY DEF Init, InBucket, W
  <2>2. Adjacent(h, h, 0)
    BY <2>1 DEF Adjacent
  <2>. QED BY <2>1, <2>2 DEF HeadLinked
<1>. QED BY <1>1 DEF Linked, Loadable, Init

(* get() changes no key.                                                    *)
LEMMA GetLinked == ASSUME CacheInd, Linked, NEW k \in Keys, Get(k) PROVE Linked'
<1>1. /\ DOMAIN ent' = DOMAIN ent /\ link' = link /\ oldest' = oldest
      /\ \A p \in DOMAIN ent : ent'[p].key = ent[p].key
  <2>1. CASE UNCHANGED ent
    BY <2>1 DEF Get, info
  <2>2. CASE \E p : ent' = [ent EXCEPT ![p] = Marked(@)]
    BY <2>2 DEF Get, info, Marked
  <2>. QED BY <2>1, <2>2 DEF Get
<1>2. \A h : InBucket(h)' = InBucket(h)
  BY <1>1 DEF InBucket
<1>3. \A p, r : Older(p, r)' <=> Older(p, r)
  BY <1>1 DEF Older
<1>. QED BY <1>1, <1>2, <1>3, SameLists

(* The cut at the end of loadContentOf() removes nothing when the files     *)
(* did fit: all entries are before the writer.                              *)
LEMMA TruncateLinked == ASSUME CacheInd, Loadable, Linked, Truncate PROVE Linked'
<1>1. CASE UNCHANGED <<size, oldest, unused, ent, link>>
  BY <1>1, SameFile
<1>2. CASE /\ oldest' = writer
           /\ ent' = [p \in {q \in DOMAIN ent : q < writer} |-> ent[p]]
           /\ link' = [p \in {q \in DOMAIN link : q < writer} |-> link[p]]
  <2>1. /\ HSize \in Nat \ {0} /\ writer \in Nat /\ oldest \in Nat /\ unused \in Nat
        /\ HSize <= writer /\ writer <= oldest /\ oldest = unused
        /\ \A p \in DOMAIN ent : p \in Nat
    BY CacheAssumption, Lengths DEF CacheInd, Layout, TypeOK, Loadable, Truncate
  <2>2. \A p \in DOMAIN ent : p < writer /\ p < oldest
    BY <2>1 DEF CacheInd, Layout
  <2>3. \A h \in Heads : h < writer
    BY <2>1, CacheAssumption DEF Heads
  <2>4. DOMAIN link = Heads \cup DOMAIN ent
    BY DEF CacheInd, TypeOK
  <2>5. DOMAIN ent' = DOMAIN ent /\ \A p \in DOMAIN ent : ent'[p] = ent[p]
    BY <1>2, <2>2
  <2>6. \A l \in Heads \cup DOMAIN ent : link'[l] = link[l]
    BY <1>2, <2>2, <2>3, <2>4
  <2>7. \A h : InBucket(h)' = InBucket(h)
    BY <2>5 DEF InBucket
  <2>8. \A p, r \in DOMAIN ent : Older(p, r)' <=> Older(p, r)
    BY <1>2, <2>1, <2>2 DEF Older
  <2>. QED BY <2>6, <2>7, <2>8, SameLists
<1>. QED BY <1>1, <1>2 DEF Truncate

-----------------------------------------------------------------------------
(* add() puts the new entry between the head and the entry that was the     *)
(* newest, whose link had combined the head.                                *)
LEMMA InsertLinked == ASSUME CacheInd, Linked, Insert PROVE Linked'
<1>0. PICK k, w : k = Bucket[arg.key] /\ w = writer
  OBVIOUS
<1>1. /\ arg \in Args /\ EntryLen(arg) \in Nat \ {0} /\ k \in Heads
      /\ HSize \in Nat \ {0} /\ w \in Nat /\ oldest \in Nat /\ HSize <= w /\ w < oldest
  <2>1. arg \in Args /\ EntryLen(arg) \in Nat \ {0} /\ arg.key \in Keys
    BY Lengths DEF Insert, Args
  <2>2. HSize \in Nat \ {0} /\ w \in Nat /\ oldest \in Nat /\ HSize <= w
    BY <1>0, CacheAssumption DEF CacheInd, TypeOK, Layout
  <2>3. w + EntryLen(arg) <= oldest
    BY <1>0 DEF Insert, Room
  <2>. QED BY <1>0, <2>1, <2>2, <2>3 DEF Heads
<1>2. /\ \A p \in DOMAIN ent : p \in Nat /\ (p < w \/ oldest <= p)
      /\ \A h \in Heads : h \in Nat /\ h < HSize
  <2>1. \A p \in DOMAIN ent : p \in Nat /\ (p < w \/ oldest <= p)
    BY <1>0, Lengths DEF CacheInd, Layout
  <2>. QED BY <1>1, <2>1, CacheAssumption DEF Heads
<1>3. w \notin DOMAIN ent /\ w \notin Heads /\ w # 0
  BY <1>1, <1>2
<1>4. /\ \A r \in DOMAIN ent : Older(r, w) /\ ~Older(w, r)
      /\ ~Older(w, w)
  BY <1>1, <1>2 DEF Older
<1>5. \A p, r : Older(p, r)' <=> Older(p, r)
  BY DEF Insert, Older
<1>6. DOMAIN link = Heads \cup DOMAIN ent
  BY DEF CacheInd, TypeOK
<1>7. /\ DOMAIN ent' = DOMAIN ent \cup {w} /\ ent'[w].key = arg.key
      /\ \A p \in DOMAIN ent : ent'[p] = ent[p]
  BY <1>0, <1>3 DEF Insert
<1>8. InBucket(k)' = InBucket(k) \cup {w} /\ \A h \in Heads : h # k => InBucket(h)' = InBucket(h)
  BY <1>0, <1>7 DEF InBucket
<1>9. PICK y : Adjacent(k, k, y) /\ link[k] = W(y)
  BY <1>1 DEF Linked, HeadLinked
<1>10. y \in Nat /\ k \in Nat /\ k \notin InBucket(k) /\ 0 \notin InBucket(k)
  BY <1>1, <1>9, ListTypes
<1>11. /\ link'[w] = Xor(W(k), W(y)) /\ link'[k] = W(w)
       /\ y # 0 => link'[y] = Xor(link[y], Xor(W(k), W(w)))
       /\ \A l \in Heads \cup DOMAIN ent : l # k /\ ~(y # 0 /\ l = y) => link'[l] = link[l]
  <2>1. link' = [p \in DOMAIN link \cup {w} |->
                   IF p = w THEN Xor(link[k], W(k)) ELSE IF p = k THEN W(w) ELSE Second(k)[p]]
    BY <1>0 DEF Insert
  <2>2. link'[w] = Xor(link[k], W(k)) /\ link'[k] = W(w)
    BY <1>1, <1>3, <1>6, <2>1
  <2>3. Xor(W(y), W(k)) = Xor(W(k), W(y))
    BY DEF Xor
  <2>4. \A l \in Heads \cup DOMAIN ent : l # k => link'[l] = Second(k)[l]
    BY <1>3, <1>6, <2>1
  <2>5. CASE y = 0
    <3>1. Second(k) = link
      BY <1>9, <2>5 DEF Second, W
    <3>. QED BY <1>9, <2>2, <2>3, <2>4, <2>5, <3>1
  <2>6. CASE y # 0
    <3>1. link[k] # {} /\ Pos(link[k]) = y
      BY <1>9, <1>10, <2>6, Words
    <3>2. Second(k) = [l \in DOMAIN link |->
                         IF l = y THEN Xor(link[l], Xor(W(k), W(w))) ELSE link[l]]
      BY <1>0, <3>1 DEF Second, Replaced
    <3>3. y \in InBucket(k) /\ y # k /\ y \in DOMAIN ent
      BY <1>9, <1>10, <2>6 DEF Adjacent, InBucket
    <3>4. link'[y] = Xor(link[y], Xor(W(k), W(w)))
      BY <1>6, <2>4, <3>2, <3>3
    <3>5. \A l \in Heads \cup DOMAIN ent : l # k /\ l # y => link'[l] = link[l]
      BY <1>6, <2>4, <3>2
    <3>6. link'[w] = Xor(W(k), W(y)) /\ link'[k] = W(w)
      BY <1>9, <2>2, <2>3
    <3>. QED BY <2>6, <3>4, <3>5, <3>6
  <2>. QED BY <2>5, <2>6
\* What is not between the head and the newest entry stays as it was.
<1>12. ASSUME NEW h \in Heads, NEW x, NEW z, Adjacent(h, x, z), h = k => x # k
       PROVE  Adjacent(h, x, z)'
  <2>1. CASE h # k
    <3>1. InBucket(h)' = InBucket(h)
      BY <1>8, <2>1
    <3>. QED BY <1>5, <1>12, <3>1 DEF Adjacent
  <2>2. CASE h = k
    <3>. DEFINE b == InBucket(k)
    <3>1. /\ x \in b /\ z \in b \cup {0} /\ (z \in b => Older(z, x))
          /\ \A r \in b : Older(r, x) => ~(z \in b => Older(z, r))
      BY <1>12, <2>2 DEF Adjacent
    <3>2. x # w /\ z # w /\ ~Older(w, x)
      BY <1>3, <1>4, <3>1 DEF InBucket
    <3>3. InBucket(k)' = b \cup {w}
      BY <1>8
    <3>. HIDE DEF b
    <3>. QED BY <1>5, <2>2, <3>1, <3>2, <3>3 DEF Adjacent
  <2>. QED BY <2>1, <2>2
<1>13. Adjacent(k, k, w)' /\ Adjacent(k, w, y)'
  <2>. DEFINE b == InBucket(k)
  <2>1. InBucket(k)' = b \cup {w}
    BY <1>8
  <2>2. /\ y \in b \cup {0} /\ y # w /\ k # w /\ k \notin b /\ 0 \notin b /\ w \notin b
        /\ \A r \in b : ~(y \in b => Older(y, r))
    BY <1>1, <1>3, <1>9, <1>10 DEF Adjacent, InBucket
  <2>3. (\A r \in b : Older(r, w) /\ ~Older(w, r)) /\ ~Older(w, w)
    BY <1>4 DEF InBucket
  <2>. HIDE DEF b
  <2>4. Adjacent(k, k, w)'
    BY <1>5, <2>1, <2>2, <2>3 DEF Adjacent
  <2>5. Adjacent(k, w, y)'
    BY <1>5, <2>1, <2>2, <2>3 DEF Adjacent
  <2>. QED BY <2>4, <2>5
<1>14. ASSUME NEW h \in Heads PROVE HeadLinked(h)'
  <2>1. CASE h = k
    BY <1>11, <1>13, <2>1 DEF HeadLinked
  <2>2. CASE h # k
    <3>1. PICK z : Adjacent(h, h, z) /\ link[h] = W(z)
      BY <1>14 DEF Linked, HeadLinked
    <3>2. ~(y # 0 /\ h = y)
      <4>1. y # 0 => y \in DOMAIN ent
        BY <1>9 DEF Adjacent, InBucket
      <4>. QED BY <4>1, OlderOrder
    <3>3. Adjacent(h, h, z)' /\ link'[h] = W(z)
      BY <1>11, <1>12, <2>2, <3>1, <3>2
    <3>. QED BY <3>3 DEF HeadLinked
  <2>. QED BY <2>1, <2>2
<1>15. ASSUME NEW h \in Heads, NEW p \in InBucket(h)' PROVE EntryLinked(h, p)'
  <2>1. CASE p = w
    <3>1. h = k
      BY <1>3, <1>8, <1>15, <2>1 DEF InBucket
    <3>. QED BY <1>11, <1>13, <2>1, <3>1 DEF EntryLinked
  <2>2. CASE p # w
    <3>1. p \in InBucket(h) /\ p \in DOMAIN ent /\ p # k
      <4>1. p \in InBucket(h)
        BY <1>8, <1>15, <2>2
      <4>. QED BY <1>1, <4>1, OlderOrder DEF InBucket
    <3>2. PICK x, z : Adjacent(h, x, p) /\ Adjacent(h, p, z) /\ link[p] = Xor(W(x), W(z))
      BY <3>1 DEF Linked, EntryLinked
    <3>3. Adjacent(h, p, z)'
      BY <1>12, <3>1, <3>2
    <3>4. CASE y # 0 /\ p = y
      <4>1. h = k
        <5>1. y \in InBucket(k)
          BY <1>9, <3>4 DEF Adjacent
        <5>. QED BY <3>1, <3>4, <5>1 DEF InBucket
      <4>2. x = k
        BY <1>9, <3>1, <3>2, <3>4, <4>1, AdjacentUnique
      <4>3. link'[p] = Xor(Xor(W(k), W(z)), Xor(W(k), W(w)))
        BY <1>11, <3>2, <3>4, <4>2
      <4>4. Xor(Xor(W(k), W(z)), Xor(W(k), W(w))) = Xor(W(w), W(z))
        BY DEF Xor
      <4>5. Adjacent(h, w, p)'
        BY <1>13, <3>4, <4>1
      <4>. QED BY <3>3, <4>3, <4>4, <4>5 DEF EntryLinked
    <3>5. CASE ~(y # 0 /\ p = y)
      <4>1. link'[p] = link[p]
        BY <1>11, <3>1, <3>5
      <4>2. h = k => x # k
        <5>1. ASSUME h = k, x = k PROVE FALSE
          <6>1. p = y
            BY <1>1, <1>9, <3>2, <5>1, AdjacentUnique
          <6>. QED BY <1>10, <3>1, <3>5, <5>1, <6>1
        <5>. QED BY <5>1
      <4>3. Adjacent(h, x, p)'
        BY <1>12, <3>2, <4>2
      <4>. QED BY <3>2, <3>3, <4>1, <4>3 DEF EntryLinked
    <3>. QED BY <3>4, <3>5
  <2>. QED BY <2>1, <2>2
<1>16. Heads' = Heads
  BY DEF Heads
<1>. QED BY <1>14, <1>15, <1>16 DEF Linked

-----------------------------------------------------------------------------
(* The entry that add() removes is older than all others, and the others    *)
(* keep their order, also when the writer starts again at the left.         *)
LEMMA OldestEvicted ==
    ASSUME CacheInd, Evict
    PROVE  \E o : /\ o \in DOMAIN ent /\ DOMAIN ent' = DOMAIN ent \ {o}
                  /\ \A p \in DOMAIN ent \ {o} : ent'[p] = ent[p]
                  /\ \A p \in DOMAIN ent : ~Older(p, o)
                  /\ \A p, r \in DOMAIN ent \ {o} : Older(p, r)' <=> Older(p, r)
                  /\ \A l \in DOMAIN link \ {o} : link'[l] = Unlinked(o)[l]
<1>. DEFINE wrap == oldest = unused
            o == IF wrap THEN HSize ELSE oldest
            u == IF wrap THEN writer ELSE unused
            n == Behind(o)
<1>1. /\ HSize \in Nat \ {0} /\ size \in Nat /\ writer \in Nat /\ oldest \in Nat /\ unused \in Nat
      /\ HSize <= writer /\ writer <= oldest /\ oldest <= unused /\ unused <= size
  BY CacheAssumption DEF CacheInd, TypeOK, Layout
<1>2. /\ oldest' = IF n = u THEN size ELSE n
      /\ DOMAIN ent' = DOMAIN ent \ {o}
      /\ \A p \in DOMAIN ent \ {o} : ent'[p] = ent[p]
      /\ \A l \in DOMAIN link \ {o} : link'[l] = Unlinked(o)[l]
  BY DEF Evict, NextOldest
<1>3. o \in DOMAIN ent /\ o < u /\ o \in Nat /\ n \in Nat /\ o < n
  <2>1. wrap => HSize < writer
    BY <1>1 DEF Evict, Exhausted
  <2>2. o \in DOMAIN ent /\ o < u
    BY <1>1, <2>1 DEF CacheInd, Layout, Consecutive
  <2>. QED BY <2>2, Lengths
<1>4. n = u \/ n < u
  <2>1. Consecutive(o, u)
    BY DEF CacheInd, Layout
  <2>. QED BY <1>3, <2>1 DEF Consecutive
<1>5. \A p \in DOMAIN ent :
        /\ p \in Nat
        /\ (HSize <= p /\ p < writer) \/ (oldest <= p /\ p < unused)
        /\ p # o /\ ~(p < o) => n <= p
  <2>1. \A p \in DOMAIN ent : p \in Nat
    BY Lengths
  <2>2. \A p \in DOMAIN ent : o < p => n <= p
    BY <1>3 DEF CacheInd, Apart
  <2>. QED BY <1>3, <2>1, <2>2 DEF CacheInd, Layout
<1>. HIDE DEF n
<1>6. \A p \in DOMAIN ent : ~Older(p, o)
  BY <1>1, <1>3, <1>5 DEF Older
<1>7. \A p, r \in DOMAIN ent \ {o} : Older(p, r)' <=> Older(p, r)
  <2>1. CASE wrap
    BY <1>1, <1>2, <1>3, <1>4, <1>5, <2>1 DEF Older
  <2>2. CASE ~wrap
    BY <1>1, <1>2, <1>3, <1>4, <1>5, <2>2 DEF Older
  <2>. QED BY <2>1, <2>2
<1>8. PICK e : e = o
  OBVIOUS
<1>. HIDE DEF o
<1>. QED BY <1>2, <1>3, <1>6, <1>7, <1>8

(* add() removes the last entry of a list: its link holds the position of   *)
(* its neighbour, which becomes the last.                                   *)
LEMMA EvictLinked == ASSUME CacheInd, Linked, Evict PROVE Linked'
<1>1. PICK o : /\ o \in DOMAIN ent /\ DOMAIN ent' = DOMAIN ent \ {o}
               /\ \A p \in DOMAIN ent \ {o} : ent'[p] = ent[p]
               /\ \A p \in DOMAIN ent : ~Older(p, o)
               /\ \A p, r \in DOMAIN ent \ {o} : Older(p, r)' <=> Older(p, r)
               /\ \A l \in DOMAIN link \ {o} : link'[l] = Unlinked(o)[l]
  BY OldestEvicted
<1>2. PICK k : k = Bucket[ent[o].key] /\ k \in Heads
  <2>1. ent[o].key \in Keys
    BY <1>1 DEF CacheInd, TypeOK
  <2>. QED BY <2>1 DEF Heads
<1>3. o \in InBucket(k) /\ \A h \in Heads : h # k => o \notin InBucket(h)
  BY <1>1, <1>2 DEF InBucket
<1>4. \A h \in Heads : InBucket(h)' = InBucket(h) \ {o}
  BY <1>1 DEF InBucket
<1>5. DOMAIN link = Heads \cup DOMAIN ent /\ o \notin Heads
  BY <1>1, OlderOrder DEF CacheInd, TypeOK
<1>6. PICK a, c : Adjacent(k, a, o) /\ Adjacent(k, o, c) /\ link[o] = Xor(W(a), W(c))
  BY <1>2, <1>3 DEF Linked, EntryLinked
<1>7. /\ c = 0 /\ a \in Nat /\ a # o /\ a \in InBucket(k) \cup {k} /\ a \in DOMAIN link
      /\ a \in InBucket(k) => a \in DOMAIN ent
  <2>1. c = 0
    BY <1>1, <1>3, <1>6 DEF Adjacent, InBucket
  <2>2. a \in Nat /\ a \in InBucket(k) \cup {k}
    BY <1>2, <1>6, ListTypes DEF Adjacent
  <2>3. a # o
    <3>1. ~Older(o, o)
      BY <1>1
    <3>. QED BY <1>3, <1>6, <3>1 DEF Adjacent
  <2>. QED BY <1>2, <1>5, <2>1, <2>2, <2>3 DEF InBucket
<1>8. Pos(Link(o)) = a
  <2>1. Link(o) = Xor(W(a), W(0))
    BY <1>1, <1>5, <1>6, <1>7 DEF Link
  <2>2. Xor(W(a), W(0)) = W(a)
    BY DEF Xor, W
  <2>. QED BY <1>7, <2>1, <2>2, Words
<1>9. /\ link'[a] = Xor(link[a], W(o))
      /\ \A l \in DOMAIN link : l # o /\ l # a => link'[l] = link[l]
  BY <1>1, <1>7, <1>8 DEF Unlinked, Replaced
\* Two positions that are left and follow each other still do.
<1>10. ASSUME NEW h \in Heads, NEW x, NEW z, Adjacent(h, x, z), x # o, z # o
       PROVE  Adjacent(h, x, z)'
  <2>. DEFINE b == InBucket(h)
  <2>1. InBucket(h)' = b \ {o}
    BY <1>4
  <2>2. \A p, r \in b \ {o} : Older(p, r)' <=> Older(p, r)
    BY <1>1 DEF InBucket
  <2>3. /\ x \in b \cup {h} /\ z \in b \cup {0} /\ (x \in b /\ z \in b => Older(z, x))
        /\ \A r \in b : (x \in b => Older(r, x)) => ~(z \in b => Older(z, r))
    BY <1>10 DEF Adjacent
  <2>. HIDE DEF b
  <2>. QED BY <1>10, <2>1, <2>2, <2>3 DEF Adjacent
\* The neighbour is the last one.
<1>11. Adjacent(k, a, 0)'
  <2>. DEFINE b == InBucket(k)
  <2>1. InBucket(k)' = b \ {o} /\ b \subseteq DOMAIN ent /\ 0 \notin b
    BY <1>2, <1>4, ListTypes
  <2>2. \A p, r \in b \ {o} : Older(p, r)' <=> Older(p, r)
    BY <1>1, <2>1
  <2>3. a \in b \cup {k} /\ \A r \in b : (a \in b => Older(r, a)) => ~Older(o, r)
    BY <1>3, <1>6 DEF Adjacent
  <2>4. \A r \in b \ {o} : Older(o, r)
    BY <1>1, <2>1, OlderOrder
  <2>. HIDE DEF b
  <2>. QED BY <1>7, <2>1, <2>2, <2>3, <2>4 DEF Adjacent
\* No position but the neighbour had the removed entry behind it.
<1>12. \A h \in Heads : \A x, z : Adjacent(h, x, z) /\ x # a => z # o
  <2>. SUFFICES ASSUME NEW h \in Heads, NEW x, Adjacent(h, x, o) PROVE x = a
    OBVIOUS
  <2>1. h = k
    <3>1. o \in InBucket(h)
      BY <1>1, OlderOrder DEF Adjacent
    <3>. QED BY <1>3, <3>1
  <2>. QED BY <1>2, <1>3, <1>6, <2>1, AdjacentUnique
<1>13. ASSUME NEW h \in Heads PROVE HeadLinked(h)'
  <2>1. PICK z : Adjacent(h, h, z) /\ link[h] = W(z)
    BY <1>13 DEF Linked, HeadLinked
  <2>2. CASE h = a
    <3>1. h = k
      <4>1. a \notin InBucket(k)
        BY <1>7, <1>13, <2>2, OlderOrder
      <4>. QED BY <1>7, <2>2, <4>1
    <3>2. z = o
      BY <1>2, <1>6, <2>1, <2>2, <3>1, AdjacentUnique
    <3>3. link'[h] = Xor(W(o), W(o))
      BY <1>9, <2>1, <2>2, <3>2
    <3>4. Xor(W(o), W(o)) = W(0)
      BY DEF Xor, W
    <3>. QED BY <1>11, <2>2, <3>1, <3>3, <3>4 DEF HeadLinked
  <2>3. CASE h # a
    <3>1. h # o /\ h \in DOMAIN link
      BY <1>5
    <3>2. z # o
      BY <1>12, <2>1, <2>3
    <3>3. Adjacent(h, h, z)' /\ link'[h] = W(z)
      BY <1>9, <1>10, <2>1, <2>3, <3>1, <3>2
    <3>. QED BY <3>3 DEF HeadLinked
  <2>. QED BY <2>2, <2>3
<1>14. ASSUME NEW h \in Heads, NEW p \in InBucket(h)' PROVE EntryLinked(h, p)'
  <2>1. p \in InBucket(h) /\ p # o /\ p \in DOMAIN ent /\ p \in DOMAIN link
    BY <1>4, <1>5, <1>14 DEF InBucket
  <2>2. PICK x, z : Adjacent(h, x, p) /\ Adjacent(h, p, z) /\ link[p] = Xor(W(x), W(z))
    BY <2>1 DEF Linked, EntryLinked
  <2>3. x # o
    <3>1. ~Older(p, o)
      BY <1>1, <2>1
    <3>2. x \in InBucket(h) => Older(p, x)
      BY <2>1, <2>2 DEF Adjacent
    <3>3. x \in InBucket(h) \/ x = h
      BY <2>2 DEF Adjacent
    <3>. QED BY <1>5, <3>1, <3>2, <3>3
  <2>4. Adjacent(h, x, p)'
    BY <1>10, <2>1, <2>2, <2>3
  <2>5. CASE p = a
    <3>1. h = k
      <4>1. a \in InBucket(k)
        BY <1>2, <1>7, <2>1, <2>5, OlderOrder
      <4>. QED BY <2>1, <2>5, <4>1 DEF InBucket
    <3>2. z = o
      BY <1>2, <1>6, <2>2, <2>5, <3>1, AdjacentUnique
    <3>3. link'[p] = Xor(Xor(W(x), W(o)), W(o))
      BY <1>9, <2>2, <2>5, <3>2
    <3>4. Xor(Xor(W(x), W(o)), W(o)) = Xor(W(x), W(0))
      BY DEF Xor, W
    <3>. QED BY <1>11, <2>4, <2>5, <3>1, <3>3, <3>4 DEF EntryLinked
  <2>6. CASE p # a
    <3>1. z # o
      BY <1>12, <2>2, <2>6
    <3>2. Adjacent(h, p, z)' /\ link'[p] = link[p]
      BY <1>9, <1>10, <2>1, <2>2, <2>6, <3>1
    <3>. QED BY <2>2, <2>4, <3>2 DEF EntryLinked
  <2>. QED BY <2>5, <2>6
<1>15. Heads' = Heads
  BY DEF Heads
<1>. QED BY <1>13, <1>14, <1>15 DEF Linked

-----------------------------------------------------------------------------
(* What loadContentOf() has to add fits, so that it removes nothing.        *)
LEMMA LoadableNext ==
    ASSUME LoadFits, CacheInd, Loadable, Next
    PROVE  Loadable' /\ (Evict => pc = "add")
<1>1. /\ writer \in Nat /\ size \in Nat /\ oldest \in Nat /\ unused \in Nat /\ FileLen \in Nat
      /\ todo \in Seq(Args) /\ pc \in {"idle", "add", "load", "exit"}
      /\ arg # NoArg => EntryLen(arg) \in Nat
      /\ oldest = unused => unused = size
  <2>1. arg # NoArg => EntryLen(arg) \in Nat
    BY Lengths
  <2>. QED BY <2>1, CacheAssumption DEF CacheInd, TypeOK, ArgType, EmptyAtEnd
<1>. DEFINE F == Len(todo) * FileLen
<1>2. Len(todo) \in Nat /\ F \in Nat
  BY <1>1
<1>3. Evict => pc = "add"
  <2>. SUFFICES ASSUME Evict, pc = "load" PROVE FALSE
    BY <1>1 DEF Evict, Loadable
  <2>1. arg # NoArg /\ writer + F + FileLen <= oldest /\ EntryLen(arg) <= FileLen
    BY <1>1 DEF Evict, Loadable
  <2>2. EntryLen(arg) \in Nat
    BY <1>1, <2>1
  <2>. HIDE DEF F
  <2>3. writer + EntryLen(arg) <= oldest
    BY <1>1, <1>2, <2>1, <2>2
  <2>. QED BY <2>3 DEF Evict, Room
<1>4. ASSUME Evict PROVE Loadable'
  BY <1>3, <1>4 DEF Evict, Loadable
<1>5. ASSUME Insert PROVE Loadable'
  <2>1. CASE pc = "load"
    <3>1. /\ oldest = unused /\ writer + F + FileLen <= size /\ arg # NoArg
          /\ EntryLen(arg) <= FileLen /\ \A i \in DOMAIN todo : EntryLen(todo[i]) <= FileLen
      BY <1>5, <2>1 DEF Insert, Loadable
    <3>2. /\ writer' = writer + EntryLen(arg) /\ arg' = NoArg /\ pc' = "load"
          /\ UNCHANGED <<size, oldest, unused, todo>>
      BY <1>5, <2>1 DEF Insert
    <3>3. (Len(todo) * FileLen)' = F
      BY <3>2
    <3>. HIDE DEF F
    <3>4. writer' + (Len(todo) * FileLen)' + 0 <= size'
      BY <1>1, <1>2, <3>1, <3>2, <3>3
    <3>5. \A i \in DOMAIN todo' : EntryLen(todo'[i]) <= FileLen
      BY <3>1, <3>2
    <3>. QED BY <3>1, <3>2, <3>4, <3>5 DEF Loadable, EntryLen
  <2>2. CASE pc # "load"
    BY <1>5, <2>2 DEF Insert, Loadable
  <2>. QED BY <2>1, <2>2
<1>6. ASSUME NEW s \in Loads, LoadContentOf(s) PROVE Loadable'
  <2>1. /\ oldest = unused /\ writer + Len(s) * FileLen <= size /\ pc = "idle" /\ pc' = "load"
        /\ todo' = s /\ arg' = arg /\ UNCHANGED <<size, writer, oldest, unused>>
    BY <1>6 DEF LoadContentOf, info
  <2>2. s \in Seq(Args) /\ Len(s) \in Nat /\ Len(s) * FileLen \in Nat
    BY <1>1, CacheAssumption
  <2>3. arg = NoArg /\ \A i \in DOMAIN s : EntryLen(s[i]) <= FileLen
    BY <2>1, CacheAssumption DEF Loadable
  <2>4. writer + Len(s) * FileLen + 0 <= size
    BY <1>1, <2>1, <2>2
  <2>. QED BY <2>1, <2>3, <2>4 DEF Loadable, EntryLen
<1>7. ASSUME LoadNext PROVE Loadable'
  <2>1. /\ oldest = unused /\ writer + F + 0 <= size /\ todo # << >>
        /\ \A i \in DOMAIN todo : EntryLen(todo[i]) <= FileLen
    BY <1>7 DEF LoadNext, Loadable
  <2>2. /\ arg' = Head(todo) /\ todo' = Tail(todo) /\ pc' = "load"
        /\ UNCHANGED <<size, writer, oldest, unused>>
    BY <1>7 DEF LoadNext, info
  <2>3. /\ Head(todo) = todo[1] /\ 1 \in DOMAIN todo /\ Tail(todo) \in Seq(Args)
        /\ Len(Tail(todo)) = Len(todo) - 1 /\ Head(todo) \in Args
        /\ \A i \in DOMAIN Tail(todo) : i + 1 \in DOMAIN todo /\ Tail(todo)[i] = todo[i + 1]
    BY <1>1, <2>1
  <2>4. Len(Tail(todo)) * FileLen = F - FileLen
    <3>1. \A n, f \in Nat : (n - 1) * f = n * f - f
      OBVIOUS
    <3>. QED BY <1>1, <1>2, <2>3, <3>1
  <2>5. Head(todo) # NoArg
    BY <2>3, CacheAssumption
  <2>6. EntryLen(Head(todo)) <= FileLen /\ \A i \in DOMAIN Tail(todo) : EntryLen(Tail(todo)[i]) <= FileLen
    BY <2>1, <2>3
  <2>7. writer + Len(Tail(todo)) * FileLen + FileLen <= size
    <3>. HIDE DEF F
    <3>. QED BY <1>1, <1>2, <2>1, <2>4
  <2>. QED BY <2>1, <2>2, <2>5, <2>6, <2>7 DEF Loadable, EntryLen
<1>8. ASSUME NEW a \in Requests, AddCall(a) PROVE Loadable'
  BY <1>8 DEF AddCall, Loadable
<1>9. ASSUME CacheExhausted PROVE Loadable'
  BY <1>9 DEF CacheExhausted, Loadable
<1>10. ASSUME NEW k \in Keys, Get(k) PROVE Loadable'
  <2>1. pc = "idle" /\ UNCHANGED <<pc, arg>>
    BY <1>10 DEF Get
  <2>. QED BY <2>1 DEF Loadable
<1>11. ASSUME Truncate PROVE Loadable'
  <2>1. arg' = NoArg /\ pc' = "idle"
    BY <1>11 DEF Truncate
  <2>. QED BY <2>1 DEF Loadable
<1>12. ASSUME Reopen PROVE Loadable'
  <2>1. pc = "idle" /\ UNCHANGED <<pc, arg>>
    BY <1>12 DEF Reopen
  <2>. QED BY <2>1 DEF Loadable
<1>13. ASSUME Tick PROVE Loadable'
  BY <1>13 DEF Tick, Loadable, EntryLen, info
<1>. QED BY <1>3, <1>4, <1>5, <1>6, <1>7, <1>8, <1>9, <1>10, <1>11, <1>12, <1>13 DEF Next, AddStep

(* No step of the cache breaks a list.                                      *)
LEMMA ChainNext == ASSUME LoadFits, ChainInd, [Next]_vars PROVE ChainInd'
<1>1. CacheInd'
  BY NextInd DEF ChainInd
<1>2. CASE UNCHANGED vars
  <2>1. Linked'
    BY <1>2, SameFile DEF vars, ChainInd
  <2>2. Loadable'
    BY <1>2 DEF vars, ChainInd, Loadable, EntryLen
  <2>. QED BY <1>1, <2>1, <2>2 DEF ChainInd
<1>3. CASE Next
  <2>1. Loadable'
    BY <1>3, LoadableNext DEF ChainInd
  <2>2. ASSUME UNCHANGED <<oldest, link, ent>> PROVE Linked'
    BY <2>2, SameFile DEF ChainInd
  <2>3. ASSUME NEW a \in Requests, AddCall(a) PROVE Linked'
    BY <2>2, <2>3 DEF AddCall, info
  <2>4. ASSUME CacheExhausted PROVE Linked'
    BY <2>2, <2>4 DEF CacheExhausted, info
  <2>5. ASSUME NEW s \in Loads, LoadContentOf(s) PROVE Linked'
    BY <2>2, <2>5 DEF LoadContentOf, info
  <2>6. ASSUME LoadNext \/ Reopen \/ Tick PROVE Linked'
    BY <2>2, <2>6 DEF LoadNext, Reopen, Tick, info
  <2>7. Linked'
    BY <1>3, <2>3, <2>4, <2>5, <2>6, EvictLinked, InsertLinked, GetLinked, TruncateLinked
       DEF Next, AddStep, ChainInd
  <2>. QED BY <1>1, <2>1, <2>7 DEF ChainInd
<1>. QED BY <1>2, <1>3

(* As long as loadContentOf() is only called for what fits, the list of     *)
(* every bucket holds exactly its entries, newest first, and ends: get()    *)
(* reaches every entry of its key and no removed one, whatever the sizes of *)
(* the cache and of its entries and however often the writer has started    *)
(* again at the left.                                                       *)
THEOREM CacheChains ==
    ASSUME LoadFits
    PROVE  Spec => []Chains
<1>1. Init => ChainInd
  BY InitInd, InitLinked DEF ChainInd
<1>2. ChainInd /\ [Next]_vars => ChainInd'
  BY ChainNext
<1>3. ChainInd => Chains
  BY LinkedChains DEF ChainInd
<1>. QED BY <1>1, <1>2, <1>3, PTL DEF Spec

-----------------------------------------------------------------------------
(* The queue, as a function of the entries e and of the place old at which  *)
(* the old ones begin.                                                      *)
OlderAt(old, p, r) == IF (p >= old) = (r >= old) THEN p < r ELSE p >= old

BelowAt(S, old, p) == {r \in S : OlderAt(old, r, p)}
RankAt(S, old, p) == Cardinality(BelowAt(S, old, p)) + 1

Item(e) == [key |-> e.key, data |-> e.data, dead |-> e.expire = 0]

QueueAt(e, old) ==
    [i \in 1 .. Cardinality(DOMAIN e) |->
       Item(e[CHOOSE p \in DOMAIN e : RankAt(DOMAIN e, old, p) = i])]

Places(S, old) == old \in Nat /\ S \subseteq Nat /\ IsFiniteSet(S)

(* The rank numbers the entries without gaps from the oldest to the newest. *)
LEMMA Ranks ==
    ASSUME NEW S, NEW old, Places(S, old)
    PROVE  /\ Cardinality(S) \in Nat
           /\ \A p \in S : RankAt(S, old, p) \in 1 .. Cardinality(S)
           /\ \A p, r \in S : OlderAt(old, p, r) <=> RankAt(S, old, p) < RankAt(S, old, r)
           /\ \A p, r \in S : RankAt(S, old, p) = RankAt(S, old, r) => p = r
           /\ \A i \in 1 .. Cardinality(S) : \E p \in S : RankAt(S, old, p) = i
<1>. DEFINE n == Cardinality(S)
            B(p) == BelowAt(S, old, p)
<1>1. /\ \A p, r \in S : p = r \/ OlderAt(old, p, r) \/ OlderAt(old, r, p)
      /\ \A p, r \in S : ~(OlderAt(old, p, r) /\ OlderAt(old, r, p))
      /\ \A p \in S : ~OlderAt(old, p, p)
      /\ \A p, r, s \in S : OlderAt(old, p, r) /\ OlderAt(old, r, s) => OlderAt(old, p, s)
  BY DEF Places, OlderAt
<1>2. IsFiniteSet(S) /\ n \in Nat
  BY FS_CardinalityType DEF Places
<1>3. ASSUME NEW p \in S
      PROVE  /\ IsFiniteSet(B(p)) /\ Cardinality(B(p)) \in Nat
             /\ IsFiniteSet(B(p) \cup {p}) /\ Cardinality(B(p) \cup {p}) = Cardinality(B(p)) + 1
             /\ Cardinality(B(p)) + 1 <= n
  <2>1. B(p) \subseteq S /\ p \notin B(p) /\ B(p) \cup {p} \subseteq S
    BY <1>1 DEF BelowAt
  <2>. HIDE DEF B
  <2>2. IsFiniteSet(B(p)) /\ Cardinality(B(p)) \in Nat
    BY <1>2, <2>1, FS_Subset, FS_CardinalityType
  <2>3. IsFiniteSet(B(p) \cup {p}) /\ Cardinality(B(p) \cup {p}) = Cardinality(B(p)) + 1
    BY <2>1, <2>2, FS_AddElement
  <2>4. Cardinality(B(p) \cup {p}) <= n
    BY <1>2, <2>1, FS_Subset
  <2>. QED BY <2>2, <2>3, <2>4
<1>4. ASSUME NEW p \in S, NEW r \in S, OlderAt(old, p, r)
      PROVE  RankAt(S, old, p) < RankAt(S, old, r)
  <2>1. B(p) \cup {p} \in SUBSET B(r)
    BY <1>1, <1>4 DEF BelowAt
  <2>2. RankAt(S, old, p) = Cardinality(B(p)) + 1 /\ RankAt(S, old, r) = Cardinality(B(r)) + 1
    BY DEF RankAt
  <2>3. /\ Cardinality(B(p) \cup {p}) = Cardinality(B(p)) + 1 /\ IsFiniteSet(B(r))
        /\ Cardinality(B(p)) \in Nat /\ Cardinality(B(r)) \in Nat
    BY <1>3
  <2>. HIDE DEF B
  <2>4. Cardinality(B(p) \cup {p}) <= Cardinality(B(r))
    BY <2>1, <2>3, FS_Subset
  <2>. QED BY <2>2, <2>3, <2>4
<1>5. ASSUME NEW p \in S PROVE RankAt(S, old, p) \in 1 .. n
  <2>1. Cardinality(B(p)) \in Nat /\ Cardinality(B(p)) + 1 <= n
    BY <1>3
  <2>2. RankAt(S, old, p) = Cardinality(B(p)) + 1
    BY DEF RankAt
  <2>. HIDE DEF B, n
  <2>. QED BY <1>2, <2>1, <2>2
<1>6. \A p, r \in S : RankAt(S, old, p) \in Nat /\ RankAt(S, old, r) \in Nat
  BY <1>2, <1>5
<1>7. \A p, r \in S : RankAt(S, old, p) = RankAt(S, old, r) => p = r
  BY <1>1, <1>4, <1>6
<1>8. \A p, r \in S : OlderAt(old, p, r) <=> RankAt(S, old, p) < RankAt(S, old, r)
  BY <1>1, <1>4, <1>6
<1>9. \A i \in 1 .. n : \E p \in S : RankAt(S, old, p) = i
  <2>. DEFINE f == [p \in S |-> RankAt(S, old, p)]
  <2>. HIDE DEF n
  <2>1. f \in [S -> 1 .. n] /\ \A p \in S : f[p] = RankAt(S, old, p)
    BY <1>5
  <2>2. \A p, r \in S : f[p] = f[r] => p = r
    BY <1>7
  <2>. HIDE DEF f
  <2>3. f \in Injection(S, 1 .. n)
    BY <2>1, <2>2 DEF Injection, IsInjective
  <2>4. IsFiniteSet(1 .. n) /\ Cardinality(1 .. n) = n
    BY <1>2, FS_Interval
  <2>5. PICK T : T = 1 .. n
    OBVIOUS
  <2>6. f \in Injection(S, T) /\ IsFiniteSet(T) /\ Cardinality(S) = Cardinality(T)
    BY <2>3, <2>4, <2>5 DEF n
  <2>7. f \in Surjection(S, T)
    BY ONLY <2>6, FS_Injection
  <2>. QED BY <2>1, <2>5, <2>7 DEF Surjection
<1>. QED BY <1>2, <1>5, <1>7, <1>8, <1>9

EntryFile(e, old) ==
    Places(DOMAIN e, old) /\ \A p \in DOMAIN e : e[p] \in EntryType

(* The queue has the entry of rank i at its place i.                        *)
LEMMA QueueFacts ==
    ASSUME NEW e, NEW old, EntryFile(e, old)
    PROVE  /\ QueueAt(e, old) \in Seq(Fifo!Entries)
           /\ Len(QueueAt(e, old)) = Cardinality(DOMAIN e)
           /\ \A p \in DOMAIN e : QueueAt(e, old)[RankAt(DOMAIN e, old, p)] = Item(e[p])
<1>. DEFINE S == DOMAIN e
            n == Cardinality(S)
            C(i) == CHOOSE p \in S : RankAt(S, old, p) = i
<1>1. /\ n \in Nat /\ \A p \in S : RankAt(S, old, p) \in 1 .. n
      /\ \A p, r \in S : RankAt(S, old, p) = RankAt(S, old, r) => p = r
      /\ \A i \in 1 .. n : \E p \in S : RankAt(S, old, p) = i
  BY Ranks DEF EntryFile
<1>2. QueueAt(e, old) = [i \in 1 .. n |-> Item(e[C(i)])]
  BY DEF QueueAt
<1>3. \A i \in 1 .. n : C(i) \in S /\ RankAt(S, old, C(i)) = i
  BY <1>1
<1>4. \A p \in S : Item(e[p]) \in Fifo!Entries
  BY DEF EntryFile, EntryType, Item, Fifo!Entries
<1>5. \A p \in S : C(RankAt(S, old, p)) = p
  <2>. HIDE DEF C
  <2>. QED BY <1>1, <1>3
<1>. HIDE DEF C, n
<1>6. \A i \in 1 .. n : Item(e[C(i)]) \in Fifo!Entries
  BY <1>3, <1>4
<1>7. QueueAt(e, old) \in Seq(Fifo!Entries) /\ Len(QueueAt(e, old)) = n
  BY <1>1, <1>2, <1>6
<1>8. \A p \in S : QueueAt(e, old)[RankAt(S, old, p)] = Item(e[p])
  BY <1>1, <1>2, <1>5
<1>. QED BY <1>7, <1>8 DEF n

(* The queue of the specification is that of its entries, before and after  *)
(* a step.                                                                  *)
LEMMA QueueIs ==
    /\ Queue = QueueAt(ent, oldest) /\ Queue' = QueueAt(ent', oldest')
    /\ \A p, r : Older(p, r) <=> OlderAt(oldest, p, r)
    /\ \A p, r : Older(p, r)' <=> OlderAt(oldest', p, r)
<1>1. Queue = QueueAt(ent, oldest)
  BY DEF Queue, Rank, Older, QueueAt, RankAt, BelowAt, OlderAt, Item
<1>2. Queue' = QueueAt(ent', oldest')
  BY DEF Queue, Rank, Older, QueueAt, RankAt, BelowAt, OlderAt, Item
<1>3. \A p, r : Older(p, r) <=> OlderAt(oldest, p, r)
  BY DEF Older, OlderAt
<1>4. \A p, r : Older(p, r)' <=> OlderAt(oldest', p, r)
  BY DEF Older, OlderAt
<1>. QED BY <1>1, <1>2, <1>3, <1>4

(* Two sequences are equal that have the same length and the same items.    *)
LEMMA SameQueue ==
    ASSUME NEW T, NEW s \in Seq(T), NEW t \in Seq(T), Len(s) = Len(t),
           \A i \in 1 .. Len(s) : s[i] = t[i]
    PROVE  s = t
OBVIOUS

(* The same entries in the same order are the same queue, wherever the old  *)
(* ones begin; marking one of them marks its item.                          *)
LEMMA QueueKept ==
    ASSUME NEW e, NEW old, EntryFile(e, old), NEW f, NEW new, EntryFile(f, new),
           DOMAIN f = DOMAIN e,
           \A p, r \in DOMAIN e : OlderAt(new, p, r) <=> OlderAt(old, p, r)
    PROVE  /\ Len(QueueAt(f, new)) = Len(QueueAt(e, old))
           /\ \A p \in DOMAIN e :
                /\ RankAt(DOMAIN e, old, p) \in 1 .. Len(QueueAt(e, old))
                /\ QueueAt(f, new)[RankAt(DOMAIN e, old, p)] = Item(f[p])
           /\ (\A p \in DOMAIN e : Item(f[p]) = Item(e[p])) => QueueAt(f, new) = QueueAt(e, old)
<1>. DEFINE S == DOMAIN e
<1>1. \A p \in S : RankAt(S, new, p) = RankAt(S, old, p)
  <2>1. \A p \in S : BelowAt(S, new, p) = BelowAt(S, old, p)
    BY DEF BelowAt
  <2>. QED BY <2>1 DEF RankAt
<1>2. /\ QueueAt(e, old) \in Seq(Fifo!Entries) /\ QueueAt(f, new) \in Seq(Fifo!Entries)
      /\ Len(QueueAt(e, old)) = Cardinality(S) /\ Len(QueueAt(f, new)) = Cardinality(S)
      /\ \A p \in S : QueueAt(e, old)[RankAt(S, old, p)] = Item(e[p])
      /\ \A p \in S : QueueAt(f, new)[RankAt(S, old, p)] = Item(f[p])
  <2>1. \A p \in S : QueueAt(f, new)[RankAt(S, new, p)] = Item(f[p])
    BY QueueFacts
  <2>. QED BY <1>1, <2>1, QueueFacts
<1>3. /\ \A i \in 1 .. Cardinality(S) : \E p \in S : RankAt(S, old, p) = i
      /\ \A p \in S : RankAt(S, old, p) \in 1 .. Cardinality(S)
  BY Ranks DEF EntryFile
<1>4. ASSUME \A p \in S : Item(f[p]) = Item(e[p]) PROVE QueueAt(f, new) = QueueAt(e, old)
  <2>1. \A i \in 1 .. Cardinality(S) : QueueAt(f, new)[i] = QueueAt(e, old)[i]
    BY <1>2, <1>3, <1>4
  <2>. QED BY <1>2, <2>1, SameQueue
<1>. QED BY <1>2, <1>3, <1>4

(* An entry that is newer than all others goes to the end of the queue.     *)
LEMMA QueueGrows ==
    ASSUME NEW e, NEW old, EntryFile(e, old), NEW f, EntryFile(f, old), NEW w, w \notin DOMAIN e,
           DOMAIN f = DOMAIN e \cup {w}, \A p \in DOMAIN e : f[p] = e[p],
           \A p \in DOMAIN e : OlderAt(old, p, w) /\ ~OlderAt(old, w, p), ~OlderAt(old, w, w)
    PROVE  QueueAt(f, old) = Append(QueueAt(e, old), Item(f[w]))
<1>. DEFINE S == DOMAIN e
            F == DOMAIN f
            n == Cardinality(S)
<1>1. /\ n \in Nat /\ IsFiniteSet(S)
      /\ \A i \in 1 .. n : \E p \in S : RankAt(S, old, p) = i
      /\ \A p \in S : RankAt(S, old, p) \in 1 .. n
  BY Ranks DEF EntryFile, Places
<1>2. /\ \A p \in S : RankAt(F, old, p) = RankAt(S, old, p)
      /\ RankAt(F, old, w) = n + 1
  <2>1. \A p \in S : BelowAt(F, old, p) = BelowAt(S, old, p)
    BY DEF BelowAt
  <2>2. BelowAt(F, old, w) = S
    BY DEF BelowAt
  <2>. QED BY <2>1, <2>2 DEF RankAt
<1>3. Cardinality(F) = n + 1
  BY <1>1, FS_AddElement
<1>4. /\ QueueAt(e, old) \in Seq(Fifo!Entries) /\ QueueAt(f, old) \in Seq(Fifo!Entries)
      /\ Len(QueueAt(e, old)) = n /\ Len(QueueAt(f, old)) = n + 1
      /\ \A p \in S : QueueAt(e, old)[RankAt(S, old, p)] = Item(e[p])
      /\ \A p \in F : QueueAt(f, old)[RankAt(F, old, p)] = Item(f[p])
  BY <1>3, QueueFacts
<1>5. \A i \in 1 .. n : QueueAt(f, old)[i] = QueueAt(e, old)[i]
  <2>1. \A p \in S : QueueAt(f, old)[RankAt(S, old, p)] = QueueAt(e, old)[RankAt(S, old, p)]
    BY <1>2, <1>4
  <2>. QED BY <1>1, <2>1
<1>6. QueueAt(f, old)[n + 1] = Item(f[w]) /\ Item(f[w]) \in Fifo!Entries
  <2>1. QueueAt(f, old)[n + 1] = Item(f[w])
    BY <1>2, <1>4
  <2>2. n + 1 \in 1 .. n + 1
    BY <1>1
  <2>. QED BY <1>4, <2>1, <2>2
<1>. DEFINE q == QueueAt(e, old)
            a == Append(q, Item(f[w]))
<1>7. q \in Seq(Fifo!Entries) /\ Len(q) = n
  BY <1>4
<1>. HIDE DEF q, n
<1>8. /\ a \in Seq(Fifo!Entries) /\ Len(a) = n + 1 /\ a[n + 1] = Item(f[w])
      /\ \A i \in 1 .. n : a[i] = q[i]
  BY <1>1, <1>6, <1>7
<1>. HIDE DEF a
<1>9. \A i \in 1 .. n + 1 : QueueAt(f, old)[i] = a[i]
  <2>1. \A i \in 1 .. n + 1 : i \in 1 .. n \/ i = n + 1
    BY <1>1
  <2>. QED BY <1>5, <1>6, <1>8, <2>1 DEF q
<1>10. QueueAt(f, old) = a
  BY <1>4, <1>8, <1>9, SameQueue
<1>. QED BY <1>10 DEF a, q

(* Without the entry that is older than all others the queue is its tail.   *)
LEMMA QueueShrinks ==
    ASSUME NEW e, NEW old, EntryFile(e, old), NEW f, NEW new, EntryFile(f, new), NEW o \in DOMAIN e,
           DOMAIN f = DOMAIN e \ {o}, \A p \in DOMAIN f : f[p] = e[p],
           \A p \in DOMAIN e : ~OlderAt(old, p, o),
           \A p, r \in DOMAIN f : OlderAt(new, p, r) <=> OlderAt(old, p, r)
    PROVE  QueueAt(e, old) # << >> /\ QueueAt(f, new) = Tail(QueueAt(e, old))
<1>. DEFINE S == DOMAIN e
            F == DOMAIN f
            n == Cardinality(S)
<1>1. /\ n \in Nat /\ IsFiniteSet(S)
      /\ \A i \in 1 .. n : \E p \in S : RankAt(S, old, p) = i
      /\ \A p \in S : RankAt(S, old, p) \in 1 .. n
      /\ \A p, r \in S : OlderAt(old, p, r) <=> RankAt(S, old, p) < RankAt(S, old, r)
      /\ \A p, r \in S : RankAt(S, old, p) = RankAt(S, old, r) => p = r
  BY Ranks DEF EntryFile, Places
<1>2. RankAt(S, old, o) = 1 /\ n \in Nat \ {0}
  <2>1. BelowAt(S, old, o) = {}
    BY DEF BelowAt
  <2>2. RankAt(S, old, o) = 1
    BY <2>1, FS_EmptySet DEF RankAt
  <2>3. RankAt(S, old, o) \in 1 .. n
    BY <1>1
  <2>. HIDE DEF n
  <2>. QED BY <1>1, <2>2, <2>3
<1>3. ASSUME NEW p \in F PROVE RankAt(S, old, p) = RankAt(F, new, p) + 1
  <2>1. OlderAt(old, o, p)
    <3>1. /\ RankAt(S, old, p) # RankAt(S, old, o) /\ RankAt(S, old, p) \in Nat
          /\ ~(RankAt(S, old, p) < RankAt(S, old, o)) /\ RankAt(S, old, o) \in Nat
      BY <1>1
    <3>2. RankAt(S, old, o) < RankAt(S, old, p)
      BY <3>1
    <3>. QED BY <1>1, <3>2
  <2>2. BelowAt(S, old, p) = BelowAt(F, new, p) \cup {o} /\ o \notin BelowAt(F, new, p)
    BY <2>1 DEF BelowAt
  <2>3. IsFiniteSet(BelowAt(F, new, p))
    <3>1. BelowAt(F, new, p) \in SUBSET S
      BY DEF BelowAt
    <3>. QED BY <1>1, <3>1, FS_Subset
  <2>4. Cardinality(BelowAt(S, old, p)) = Cardinality(BelowAt(F, new, p)) + 1
    BY <2>2, <2>3, FS_AddElement
  <2>. QED BY <2>4 DEF RankAt
<1>4. Cardinality(F) = n - 1
  BY <1>1, FS_RemoveElement
<1>5. /\ QueueAt(e, old) \in Seq(Fifo!Entries) /\ QueueAt(f, new) \in Seq(Fifo!Entries)
      /\ Len(QueueAt(e, old)) = n /\ Len(QueueAt(f, new)) = n - 1
      /\ \A p \in S : QueueAt(e, old)[RankAt(S, old, p)] = Item(e[p])
      /\ \A p \in F : QueueAt(f, new)[RankAt(F, new, p)] = Item(f[p])
  BY <1>4, QueueFacts
<1>. DEFINE q == QueueAt(e, old)
            t == Tail(q)
<1>. HIDE DEF q, n
<1>6. q # << >> /\ t \in Seq(Fifo!Entries) /\ Len(t) = n - 1 /\ \A i \in 1 .. n - 1 : t[i] = q[i + 1]
  <2>1. q \in Seq(Fifo!Entries) /\ Len(q) = n
    BY <1>5 DEF q
  <2>. QED BY <1>2, <2>1
<1>7. \A i \in 1 .. n - 1 : QueueAt(f, new)[i] = q[i + 1]
  <2>. SUFFICES ASSUME NEW i \in 1 .. n - 1 PROVE QueueAt(f, new)[i] = q[i + 1]
    OBVIOUS
  <2>1. i + 1 \in 1 .. n /\ i + 1 # 1
    BY <1>2
  <2>2. PICK p \in S : RankAt(S, old, p) = i + 1
    BY <1>1, <2>1
  <2>3. p \in F
    BY <1>2, <2>1, <2>2
  <2>4. RankAt(F, new, p) + 1 = i + 1 /\ RankAt(F, new, p) \in Int
    <3>1. RankAt(F, new, p) \in Int
      BY <2>3, Ranks DEF EntryFile
    <3>. QED BY <1>3, <2>2, <2>3, <3>1
  <2>5. RankAt(F, new, p) = i
    BY <2>4
  <2>. QED BY <1>5, <2>2, <2>3, <2>5 DEF q
<1>. HIDE DEF t
<1>8. QueueAt(f, new) = t
  <2>1. \A i \in 1 .. n - 1 : QueueAt(f, new)[i] = t[i]
    BY <1>6, <1>7
  <2>. QED BY <1>5, <1>6, <2>1, SameQueue
<1>. QED BY <1>6, <1>8 DEF q, t

-----------------------------------------------------------------------------
(* The newer of two entries of a bucket is met first.                       *)
LEMMA DepthOrder ==
    ASSUME CacheInd, NEW h \in Heads, NEW p \in InBucket(h), NEW r \in InBucket(h)
    PROVE  /\ Older(p, r) => Depth(h, r) < Depth(h, p)
           /\ Depth(h, p) = Depth(h, r) => p = r
<1>1. ASSUME NEW a \in InBucket(h), NEW c \in InBucket(h), Older(a, c) PROVE Depth(h, c) < Depth(h, a)
  <2>1. a \in DOMAIN ent /\ c \in DOMAIN ent /\ InBucket(h) \subseteq DOMAIN ent
    BY ListTypes
  <2>2. NewerThan(h, c) \in SUBSET NewerThan(h, a) /\ c \in NewerThan(h, a) /\ c \notin NewerThan(h, c)
    BY <1>1, <2>1, OlderOrder DEF NewerThan
  <2>3. IsFiniteSet(NewerThan(h, a))
    <3>1. NewerThan(h, a) \in SUBSET InBucket(h)
      BY DEF NewerThan
    <3>. QED BY <3>1, Depths, FS_Subset
  <2>4. /\ Cardinality(NewerThan(h, c)) <= Cardinality(NewerThan(h, a))
        /\ Cardinality(NewerThan(h, a)) # Cardinality(NewerThan(h, c))
    BY <2>2, <2>3, FS_Subset
  <2>5. Depth(h, a) \in Nat /\ Depth(h, c) \in Nat
    BY Depths
  <2>. QED BY <2>4, <2>5 DEF Depth
<1>2. p = r \/ Older(p, r) \/ Older(r, p)
  BY OlderOrder, ListTypes
<1>3. Depth(h, p) \in Nat /\ Depth(h, r) \in Nat
  BY Depths
<1>. QED BY <1>1, <1>2, <1>3

\* After i hops the walk g of the list of h is at the entry of the depth i, or behind the end.
AtHop(g, h, i) ==
    \/ g[i][2] = 0 /\ Cardinality(InBucket(h)) <= i
    \/ /\ g[i][2] \in InBucket(h) /\ Depth(h, g[i][2]) = i
       /\ \E x : Adjacent(h, x, g[i][2]) /\ g[i] = <<x, g[i][2]>>

(* Where the links are right, a walk of any number of hops is after i of    *)
(* them at the entry with i newer ones in its bucket, and behind the end    *)
(* when there is none.                                                      *)
LEMMA Reached ==
    ASSUME CacheInd, Linked, NEW h \in Heads, NEW n \in Nat
    PROVE  /\ \A i \in 0 .. n :
                \/ Walk(h, n)[i] = 0
                \/ Walk(h, n)[i] \in InBucket(h) /\ Depth(h, Walk(h, n)[i]) = i
           /\ \A p \in InBucket(h) : Depth(h, p) <= n => Walk(h, n)[Depth(h, p)] = p
<1>1. PICK g : Hopping(g, h, n)
  BY WalkDef
<1>2. /\ Walk(h, n) = [i \in 0 .. n |-> g[i][2]]
      /\ g[0] = <<h, Pos(link[h])>>
      /\ \A i \in 1 .. n : g[i] = Hop(g[i - 1])
  BY <1>1 DEF Hopping
<1>3. /\ h \in Nat /\ InBucket(h) \subseteq Nat \ {0}
      /\ \A p \in InBucket(h) : p \in DOMAIN link
      /\ \A x, y : Adjacent(h, x, y) => x \in Nat /\ y \in Nat
  BY ListTypes
<1>4. /\ IsFiniteSet(InBucket(h)) /\ Cardinality(InBucket(h)) \in Nat
      /\ \A p \in InBucket(h) : Depth(h, p) \in Nat /\ Depth(h, p) < Cardinality(InBucket(h))
  BY Depths
<1>5. AtHop(g, h, 0)
  <2>1. PICK y : Adjacent(h, h, y) /\ link[h] = W(y)
    BY DEF Linked, HeadLinked
  <2>2. y \in Nat /\ g[0] = <<h, y>>
    BY <1>2, <1>3, <2>1, Words
  <2>3. CASE y = 0
    <3>1. InBucket(h) = {}
      BY <1>3, <2>1, <2>3, ListTypes DEF Adjacent
    <3>2. Cardinality(InBucket(h)) <= 0
      BY <3>1, FS_EmptySet
    <3>. QED BY <2>2, <2>3, <3>2 DEF AtHop
  <2>4. CASE y # 0
    <3>1. y \in InBucket(h)
      BY <2>1, <2>4 DEF Adjacent
    <3>2. Depth(h, y) = 0
      BY <2>1, <3>1, Depths
    <3>. QED BY <2>1, <2>2, <3>1, <3>2 DEF AtHop
  <2>. QED BY <2>3, <2>4
<1>6. ASSUME NEW i \in 1 .. n, AtHop(g, h, i - 1) PROVE AtHop(g, h, i)
  <2>1. g[i] = Hop(g[i - 1]) /\ i \in Nat /\ i - 1 \in Nat
    BY <1>2
  <2>2. CASE g[i - 1][2] = 0 /\ Cardinality(InBucket(h)) <= i - 1
    <3>1. g[i] = g[i - 1]
      BY <2>1, <2>2 DEF Hop
    <3>2. Cardinality(InBucket(h)) <= i
      BY <1>4, <2>1, <2>2
    <3>. QED BY <2>2, <3>1, <3>2 DEF AtHop
  <2>3. ASSUME NEW p \in InBucket(h), Depth(h, p) = i - 1, NEW x, Adjacent(h, x, p), g[i - 1] = <<x, p>>
        PROVE  AtHop(g, h, i)
    <3>1. PICK v, y : Adjacent(h, v, p) /\ Adjacent(h, p, y) /\ link[p] = Xor(W(v), W(y))
      BY <2>3 DEF Linked, EntryLinked
    <3>2. v = x /\ x \in Nat /\ y \in Nat /\ p \in Nat \ {0} /\ p \in DOMAIN link
      BY <1>3, <2>3, <3>1, AdjacentUnique
    <3>3. Pos(Xor(W(x), Link(p))) = y
      BY <3>1, <3>2, Words DEF Link
    <3>4. g[i] = <<p, y>>
      <4>1. Hop(<<x, p>>) = <<p, y>>
        BY <3>2, <3>3 DEF Hop
      <4>. QED BY <2>1, <2>3, <4>1
    <3>5. CASE y = 0
      <4>1. Cardinality(InBucket(h)) = Depth(h, p) + 1
        BY <2>3, <3>1, <3>5, Depths
      <4>2. Cardinality(InBucket(h)) <= i
        BY <1>4, <2>1, <2>3, <4>1
      <4>. QED BY <3>4, <3>5, <4>2 DEF AtHop
    <3>6. CASE y # 0
      <4>1. y \in InBucket(h)
        BY <3>1, <3>6 DEF Adjacent
      <4>2. Depth(h, y) = Depth(h, p) + 1
        BY <2>3, <3>1, <4>1, Depths
      <4>3. Depth(h, y) = i
        BY <2>1, <2>3, <4>2
      <4>. QED BY <3>1, <3>4, <4>1, <4>3 DEF AtHop
    <3>. QED BY <3>5, <3>6
  <2>. QED BY <1>6, <2>2, <2>3 DEF AtHop
\* The least hop that went wrong.
<1>7. \A i \in 0 .. n : AtHop(g, h, i)
  <2>. DEFINE T == {i \in 0 .. n : ~AtHop(g, h, i)}
  <2>. SUFFICES ASSUME T # {} PROVE FALSE
    OBVIOUS
  <2>1. PICK m \in T : \A k \in T : m <= k
    <3>1. T \subseteq Nat
      OBVIOUS
    <3>. HIDE DEF T
    <3>. QED BY <3>1, LeastNatural
  <2>2. m \in 0 .. n /\ ~AtHop(g, h, m)
    OBVIOUS
  <2>3. m # 0
    BY <1>5, <2>2
  <2>4. m \in 1 .. n /\ m - 1 \in 0 .. n /\ ~(m <= m - 1)
    BY <2>2, <2>3
  <2>5. m - 1 \notin T
    <3>. HIDE DEF T
    <3>. QED BY <2>1, <2>4
  <2>6. AtHop(g, h, m - 1)
    BY <2>4, <2>5
  <2>. QED BY <1>6, <2>2, <2>4, <2>6
<1>8. \A i \in 0 .. n : Walk(h, n)[i] = g[i][2]
  BY <1>2
<1>9. ASSUME NEW i \in 0 .. n
      PROVE  \/ Walk(h, n)[i] = 0
             \/ Walk(h, n)[i] \in InBucket(h) /\ Depth(h, Walk(h, n)[i]) = i
  BY <1>7, <1>8 DEF AtHop
<1>10. ASSUME NEW p \in InBucket(h), Depth(h, p) <= n PROVE Walk(h, n)[Depth(h, p)] = p
  <2>1. PICK d : d = Depth(h, p)
    OBVIOUS
  <2>2. d \in 0 .. n /\ ~(Cardinality(InBucket(h)) <= d)
    BY <1>4, <1>10, <2>1
  <2>3. g[d][2] \in InBucket(h) /\ Depth(h, g[d][2]) = d
    BY <1>7, <2>2 DEF AtHop
  <2>4. g[d][2] = p
    BY <2>1, <2>3, DepthOrder
  <2>. QED BY <1>8, <2>1, <2>2, <2>4
<1>. QED BY <1>9, <1>10

(* The entries of a cache are a file in the sense of the queue.             *)
LEMMA CacheFile ==
    /\ CacheInd => EntryFile(ent, oldest)
    /\ CacheInd' => EntryFile(ent', oldest')
<1>1. IsFiniteSet(0 .. CacheSize) /\ CacheSize \in Nat
  BY FS_Interval, CacheAssumption
<1>2. ASSUME CacheInd PROVE EntryFile(ent, oldest)
  <2>1. /\ size \in 0 .. CacheSize /\ writer \in Nat /\ oldest \in Nat /\ unused \in Nat
        /\ writer <= size /\ unused <= size
    BY <1>1, <1>2 DEF CacheInd, Layout, TypeOK
  <2>2. \A p \in DOMAIN ent : p \in Nat /\ (p < writer \/ p < unused) /\ ent[p] \in EntryType
    BY <1>2 DEF CacheInd, Layout, TypeOK, ArgType, EntryType
  <2>3. DOMAIN ent \in SUBSET (0 .. CacheSize)
    BY <1>1, <2>1, <2>2
  <2>. QED BY <1>1, <2>1, <2>2, <2>3, FS_Subset DEF EntryFile, Places
<1>3. ASSUME CacheInd' PROVE EntryFile(ent', oldest')
  <2>1. /\ size' \in 0 .. CacheSize /\ writer' \in Nat /\ oldest' \in Nat /\ unused' \in Nat
        /\ writer' <= size' /\ unused' <= size'
    BY <1>1, <1>3 DEF CacheInd, Layout, TypeOK
  <2>2. \A p \in DOMAIN ent' : p \in Nat /\ (p < writer' \/ p < unused') /\ ent'[p] \in EntryType
    BY <1>3 DEF CacheInd, Layout, TypeOK, ArgType, EntryType
  <2>3. DOMAIN ent' \in SUBSET (0 .. CacheSize)
    BY <1>1, <2>1, <2>2
  <2>. QED BY <1>1, <2>1, <2>2, <2>3, FS_Subset DEF EntryFile, Places
<1>. QED BY <1>2, <1>3

\* The entries that may answer for the key k, and their place in the queue.
Candidates(k) == {p \in DOMAIN ent : ent[p].key = k /\ ent[p].expire # 0}
Place(p) == RankAt(DOMAIN ent, oldest, p)

(* get() looks at the candidates that are not deeper in their list than its *)
(* limit, each at its depth.                                                *)
LEMMA MatchesAre ==
    ASSUME CacheInd, Linked, NEW k \in Keys
    PROVE  /\ Bucket[k] \in Heads /\ Candidates(k) \subseteq InBucket(Bucket[k])
           /\ \A i \in Matches(k) :
                /\ Walk(Bucket[k], Hops)[i] \in Candidates(k)
                /\ i = Depth(Bucket[k], Walk(Bucket[k], Hops)[i])
           /\ \A p \in Candidates(k) :
                Depth(Bucket[k], p) <= LoopLimit => Depth(Bucket[k], p) \in Matches(k)
<1>. DEFINE h == Bucket[k]
<1>1. h \in Heads /\ Candidates(k) \subseteq InBucket(h)
  BY DEF Heads, Candidates, InBucket
<1>2. Hops = LoopLimit /\ Hops \in Nat
  BY CacheAssumption DEF Hops
<1>3. \A i \in Matches(k) :
        i \in 0 .. Hops /\ Walk(h, Hops)[i] \in DOMAIN ent /\ Walk(h, Hops)[i] \in Candidates(k)
  BY DEF Matches, Candidates
<1>4. 0 \notin DOMAIN ent
  BY OlderOrder
<1>5. \A i \in 0 .. Hops :
        \/ Walk(h, Hops)[i] = 0
        \/ Walk(h, Hops)[i] \in InBucket(h) /\ Depth(h, Walk(h, Hops)[i]) = i
  BY <1>1, <1>2, Reached
<1>6. \A p \in InBucket(h) : Depth(h, p) <= Hops => Walk(h, Hops)[Depth(h, p)] = p
  BY <1>1, <1>2, Reached
<1>7. \A i \in Matches(k) : i = Depth(h, Walk(h, Hops)[i])
  BY <1>3, <1>4, <1>5
<1>8. ASSUME NEW p \in Candidates(k), Depth(h, p) <= Hops PROVE Depth(h, p) \in Matches(k)
  <2>1. Depth(h, p) \in 0 .. Hops
    BY <1>1, <1>2, <1>8, Depths
  <2>2. Walk(h, Hops)[Depth(h, p)] = p
    BY <1>1, <1>6, <1>8
  <2>3. p \in DOMAIN ent /\ ent[p].key = k /\ ent[p].expire # 0
    BY DEF Candidates
  <2>. QED BY <2>1, <2>2, <2>3 DEF Matches
<1>. QED BY <1>1, <1>2, <1>3, <1>7, <1>8

(* The candidates are what the queue knows of the key.                      *)
LEMMA AliveAre ==
    ASSUME CacheInd, NEW k \in Keys
    PROVE  /\ \A p \in Candidates(k) : Place(p) \in Fifo!Alive(k)
           /\ \A i \in Fifo!Alive(k) : \E p \in Candidates(k) : Place(p) = i
<1>1. EntryFile(ent, oldest)
  BY CacheFile
<1>2. /\ \A p \in DOMAIN ent : Place(p) \in 1 .. Cardinality(DOMAIN ent)
      /\ \A i \in 1 .. Cardinality(DOMAIN ent) : \E p \in DOMAIN ent : Place(p) = i
  BY <1>1, Ranks DEF EntryFile, Place
<1>3. /\ Len(Queue) = Cardinality(DOMAIN ent)
      /\ \A p \in DOMAIN ent : Queue[Place(p)] = Item(ent[p])
  BY <1>1, QueueFacts, QueueIs DEF Place
<1>4. \A p \in DOMAIN ent : Item(ent[p]).key = ent[p].key /\ (Item(ent[p]).dead <=> ent[p].expire = 0)
  BY DEF Item
<1>5. \A p \in DOMAIN ent : Place(p) \in Fifo!Alive(k) <=> p \in Candidates(k)
  BY <1>2, <1>3, <1>4 DEF Fifo!Alive, Candidates
<1>6. \A i \in Fifo!Alive(k) : i \in 1 .. Cardinality(DOMAIN ent)
  BY <1>3 DEF Fifo!Alive
<1>7. \A p \in Candidates(k) : p \in DOMAIN ent
  BY DEF Candidates
<1>. QED BY <1>2, <1>5, <1>6, <1>7

(* The newest candidate is the newest of the queue.                         *)
LEMMA NewestIs ==
    ASSUME CacheInd, NEW k \in Keys, NEW p \in Candidates(k),
           \A r \in Candidates(k) : ~Older(p, r)
    PROVE  Fifo!Alive(k) # {} /\ Fifo!Newest(k) = Place(p)
<1>1. EntryFile(ent, oldest)
  BY CacheFile
<1>2. /\ \A r, s \in DOMAIN ent : Older(r, s) <=> Place(r) < Place(s)
      /\ \A r \in DOMAIN ent : Place(r) \in Nat
  BY <1>1, Ranks, QueueIs DEF EntryFile, Place
<1>3. \A r \in Candidates(k) : r \in DOMAIN ent
  BY DEF Candidates
<1>4. \A r \in Candidates(k) : Place(r) <= Place(p)
  BY <1>2, <1>3
<1>5. Place(p) \in Fifo!Alive(k) /\ \A j \in Fifo!Alive(k) : j <= Place(p) /\ j \in Nat
  BY <1>2, <1>3, <1>4, AliveAre
<1>6. \A i \in Fifo!Alive(k) : (\A j \in Fifo!Alive(k) : j <= i) => i = Place(p)
  BY <1>5
<1>7. Fifo!Newest(k) = CHOOSE i \in Fifo!Alive(k) : \A j \in Fifo!Alive(k) : j <= i
  BY DEF Fifo!Newest
<1>8. PICK A : A = Fifo!Alive(k)
  OBVIOUS
<1>. QED BY <1>5, <1>6, <1>7, <1>8

(* get() that finds no candidate within its limit.                          *)
LEMMA FifoMiss ==
    ASSUME CacheInd, Linked, NEW k \in Keys, Matches(k) = {}, Fifo!Alive(k) # {}
    PROVE  Len(Queue) - Fifo!Newest(k) > LoopLimit
<1>. DEFINE h == Bucket[k]
            D == {Depth(h, p) : p \in Candidates(k)}
<1>1. /\ h \in Heads /\ Candidates(k) \subseteq InBucket(h) /\ InBucket(h) \subseteq DOMAIN ent
      /\ LoopLimit \in Nat
  BY MatchesAre, ListTypes, CacheAssumption
<1>2. \A p \in InBucket(h) : Depth(h, p) \in Nat
  BY <1>1, Depths
<1>3. D \subseteq Nat /\ D # {}
  BY <1>1, <1>2, AliveAre
<1>4. PICK d \in D : \A c \in D : d <= c
  <2>. HIDE DEF D
  <2>. QED BY <1>3, LeastNatural
<1>5. PICK p \in Candidates(k) : d = Depth(h, p)
  OBVIOUS
<1>6. \A r \in Candidates(k) : ~Older(p, r)
  <2>. SUFFICES ASSUME NEW r \in Candidates(k), Older(p, r) PROVE FALSE
    OBVIOUS
  <2>1. Depth(h, r) < Depth(h, p) /\ Depth(h, r) \in Nat /\ Depth(h, p) \in Nat
    BY <1>1, <1>2, DepthOrder
  <2>2. Depth(h, r) \in D
    OBVIOUS
  <2>3. d <= Depth(h, r)
    <3>. HIDE DEF D
    <3>. QED BY <1>4, <2>2
  <2>. QED BY <1>5, <2>1, <2>3
<1>7. Fifo!Newest(k) = Place(p)
  BY <1>6, NewestIs
<1>8. Depth(h, p) > LoopLimit
  <2>1. ~(Depth(h, p) <= LoopLimit)
    BY MatchesAre
  <2>. QED BY <1>1, <1>2, <2>1
\* All entries of the bucket that are newer come behind p in the queue.
<1>9. Len(Queue) - Place(p) >= Depth(h, p)
  <2>. DEFINE S == DOMAIN ent
              B == BelowAt(S, oldest, p) \cup {p}
  <2>1. EntryFile(ent, oldest) /\ IsFiniteSet(S) /\ p \in S
    BY <1>1, CacheFile DEF EntryFile, Places
  <2>2. Len(Queue) = Cardinality(S)
    BY <2>1, QueueFacts, QueueIs
  <2>3. B \in SUBSET S /\ p \notin BelowAt(S, oldest, p) /\ NewerThan(h, p) \in SUBSET (S \ B)
    <3>1. \A r \in S : OlderAt(oldest, r, p) <=> Older(r, p)
      BY QueueIs
    <3>2. /\ ~Older(p, p) /\ \A r \in S : ~(Older(p, r) /\ Older(r, p))
      BY <2>1, OlderOrder
    <3>. QED BY <1>1, <2>1, <3>1, <3>2 DEF BelowAt, NewerThan
  <2>4. IsFiniteSet(BelowAt(S, oldest, p)) /\ Cardinality(BelowAt(S, oldest, p)) \in Nat
    <3>1. BelowAt(S, oldest, p) \in SUBSET S
      BY <2>3
    <3>. QED BY <2>1, <3>1, FS_Subset, FS_CardinalityType
  <2>5. Cardinality(B) = Place(p) /\ IsFiniteSet(B) /\ Place(p) \in Nat
    BY <2>3, <2>4, FS_AddElement DEF Place, RankAt
  <2>. HIDE DEF B
  <2>6. IsFiniteSet(S \ B) /\ Cardinality(S \ B) = Cardinality(S) - Cardinality(B)
    <3>1. S \cap B = B
      BY <2>3
    <3>. QED BY <2>1, <3>1, FS_Difference
  <2>7. Cardinality(NewerThan(h, p)) <= Cardinality(S \ B)
    BY <2>3, <2>6, FS_Subset
  <2>. QED BY <2>2, <2>5, <2>6, <2>7 DEF Depth
<1>10. Len(Queue) \in Nat /\ Place(p) \in Nat /\ Depth(h, p) \in Nat
  <2>1. EntryFile(ent, oldest) /\ p \in DOMAIN ent
    BY <1>1, CacheFile
  <2>2. Cardinality(DOMAIN ent) \in Nat /\ Place(p) \in Nat /\ Len(Queue) = Cardinality(DOMAIN ent)
    BY <2>1, Ranks, QueueFacts, QueueIs DEF EntryFile, Place
  <2>. QED BY <1>1, <1>2, <2>2
<1>. HIDE DEF D, h
<1>. QED BY <1>1, <1>7, <1>8, <1>9, <1>10

-----------------------------------------------------------------------------
(* get() answers as the queue does: the candidate it meets first is the     *)
(* newest.                                                                  *)
LEMMA GetFifo ==
    ASSUME CacheInd, CacheInd', Linked, NEW k \in Keys, Get(k)
    PROVE  Fifo!Miss(k) \/ Fifo!Hit(k) \/ Fifo!Expire(k)
<1>1. EntryFile(ent, oldest) /\ EntryFile(ent', oldest')
  BY CacheFile
<1>2. oldest' = oldest
  BY DEF Get, info
<1>3. CASE Matches(k) = {} /\ ret' = Answer(k, NoData) /\ UNCHANGED <<ent, ttl>>
  <2>1. Queue' = Queue
    BY <1>2, <1>3, QueueIs
  <2>2. Fifo!Alive(k) # {} => Len(Queue) - Fifo!Newest(k) > LoopLimit
    BY <1>3, FifoMiss
  <2>. QED BY <1>3, <2>1, <2>2 DEF Fifo!Miss, Answer
<1>4. ASSUME NEW i \in Matches(k), \A j \in Matches(k) : i <= j,
             NEW p, p = Walk(Bucket[k], Hops)[i],
             IF Expired(ent[p])
               THEN /\ ent' = [ent EXCEPT ![p] = Marked(@)]
                    /\ ret' = Answer(k, NoData)
               ELSE /\ ret' = Answer(k, ent[p].data)
                    /\ UNCHANGED ent
      PROVE  Fifo!Hit(k) \/ Fifo!Expire(k)
  <2>1. /\ p \in Candidates(k) /\ i = Depth(Bucket[k], p) /\ Bucket[k] \in Heads
        /\ Candidates(k) \subseteq InBucket(Bucket[k]) /\ p \in DOMAIN ent
    BY <1>4, MatchesAre DEF Candidates
  <2>2. \A r \in Candidates(k) : ~Older(p, r)
    <3>. SUFFICES ASSUME NEW r \in Candidates(k), Older(p, r) PROVE FALSE
      OBVIOUS
    <3>1. Depth(Bucket[k], r) < i /\ i \in Nat /\ Depth(Bucket[k], r) \in Nat
      BY <2>1, DepthOrder, Depths
    <3>2. i <= LoopLimit /\ LoopLimit \in Nat
      <4>1. i \in 0 .. Hops
        BY <1>4 DEF Matches
      <4>. QED BY <4>1, CacheAssumption DEF Hops
    <3>3. Depth(Bucket[k], r) \in Matches(k)
      <4>1. Depth(Bucket[k], r) <= LoopLimit
        BY <3>1, <3>2
      <4>. QED BY <4>1, MatchesAre
    <3>4. i <= Depth(Bucket[k], r)
      BY <1>4, <3>3
    <3>. QED BY <3>1, <3>4
  <2>3. Fifo!Alive(k) # {} /\ Fifo!Newest(k) = Place(p)
    BY <2>1, <2>2, NewestIs
  <2>4. /\ Queue[Place(p)] = Item(ent[p]) /\ Queue \in Seq(Fifo!Entries)
        /\ Place(p) \in 1 .. Len(Queue)
    <3>1. Place(p) \in 1 .. Cardinality(DOMAIN ent)
      BY <1>1, <2>1, Ranks DEF EntryFile, Place
    <3>. QED BY <1>1, <2>1, <3>1, QueueFacts, QueueIs DEF Place
  <2>5. CASE ~Expired(ent[p])
    <3>1. Queue' = Queue
      BY <1>2, <1>4, <2>5, QueueIs
    <3>2. Queue[Fifo!Newest(k)].data = ent[p].data
      BY <2>3, <2>4 DEF Item
    <3>. QED BY <1>4, <2>3, <2>5, <3>1, <3>2 DEF Fifo!Hit, Answer
  <2>6. CASE Expired(ent[p])
    <3>1. /\ DOMAIN ent' = DOMAIN ent /\ ent'[p] = Marked(ent[p])
          /\ \A r \in DOMAIN ent : r # p => ent'[r] = ent[r]
      BY <1>4, <2>1, <2>6
    <3>2. Item(ent'[p]) = [Item(ent[p]) EXCEPT !.dead = TRUE]
      <4>1. PICK e : e = Marked(ent[p])
        OBVIOUS
      <4>2. e.key = ent[p].key /\ e.data = ent[p].data /\ (e.expire = 0) = TRUE
        BY <4>1 DEF Marked
      <4>3. Item(e) = [key |-> ent[p].key, data |-> ent[p].data, dead |-> TRUE]
        BY <4>2, Zenon DEF Item
      <4>4. [Item(ent[p]) EXCEPT !.dead = TRUE] = [key |-> ent[p].key, data |-> ent[p].data, dead |-> TRUE]
        <5>1. PICK b, c : b = (ent[p].expire = 0) /\ c = TRUE
          BY Zenon
        <5>2. Item(ent[p]) = [key |-> ent[p].key, data |-> ent[p].data, dead |-> b]
          BY <5>1, Zenon DEF Item
        <5>3. PICK r : r = [key |-> ent[p].key, data |-> ent[p].data, dead |-> b]
          OBVIOUS
        <5>4. [r EXCEPT !.dead = c] = [key |-> ent[p].key, data |-> ent[p].data, dead |-> c]
          BY <5>3
        <5>5. r = Item(ent[p])
          BY <5>2, <5>3, Zenon
        <5>. QED BY <5>1, <5>4, <5>5, Zenon
      <4>. QED BY <3>1, <4>1, <4>3, <4>4
    <3>3. /\ Len(Queue') = Len(Queue) /\ Queue' \in Seq(Fifo!Entries)
          /\ \A r \in DOMAIN ent : Place(r) \in 1 .. Len(Queue) /\ Queue'[Place(r)] = Item(ent'[r])
      <4>1. \A r, s \in DOMAIN ent : OlderAt(oldest', r, s) <=> OlderAt(oldest, r, s)
        BY <1>2
      <4>2. Queue = QueueAt(ent, oldest) /\ Queue' = QueueAt(ent', oldest')
        BY QueueIs
      <4>. QED BY <1>1, <3>1, <4>1, <4>2, QueueKept, QueueFacts DEF Place
    <3>4. /\ \A r \in DOMAIN ent : Queue[Place(r)] = Item(ent[r])
          /\ \A j \in 1 .. Len(Queue) : \E r \in DOMAIN ent : Place(r) = j
          /\ \A r \in DOMAIN ent : Place(r) = Place(p) => r = p
      <4>1. Len(Queue) = Cardinality(DOMAIN ent) /\ \A r \in DOMAIN ent : Queue[Place(r)] = Item(ent[r])
        BY <1>1, QueueFacts, QueueIs DEF Place
      <4>. QED BY <1>1, <2>1, <4>1, Ranks DEF EntryFile, Place
    <3>. DEFINE m == [Queue EXCEPT ![Place(p)].dead = TRUE]
    <3>5. /\ \A j \in 1 .. Len(Queue) : j # Place(p) => m[j] = Queue[j]
          /\ m[Place(p)] = [Item(ent[p]) EXCEPT !.dead = TRUE]
          /\ m \in Seq(Fifo!Entries) /\ Len(m) = Len(Queue)
      <4>1. \A j \in 1 .. Len(Queue) : j # Place(p) => m[j] = Queue[j]
        BY <2>4
      <4>2. m[Place(p)] = [Item(ent[p]) EXCEPT !.dead = TRUE]
        BY <2>4
      <4>3. [Item(ent[p]) EXCEPT !.dead = TRUE] \in Fifo!Entries
        <5>1. Item(ent[p]) \in Fifo!Entries
          BY <2>4
        <5>. QED BY <5>1 DEF Fifo!Entries
      <4>4. m \in Seq(Fifo!Entries) /\ Len(m) = Len(Queue)
        BY <2>4, <4>3
      <4>. QED BY <4>1, <4>2, <4>4
    <3>6. \A j \in 1 .. Len(Queue) : Queue'[j] = m[j]
      <4>. SUFFICES ASSUME NEW j \in 1 .. Len(Queue) PROVE Queue'[j] = m[j]
        OBVIOUS
      <4>1. PICK r \in DOMAIN ent : Place(r) = j
        BY <3>4
      <4>2. CASE r = p
        BY <3>2, <3>3, <3>5, <4>1, <4>2
      <4>3. CASE r # p
        BY <3>1, <3>3, <3>4, <3>5, <4>1, <4>3
      <4>. QED BY <4>2, <4>3
    <3>. HIDE DEF m
    <3>7. Queue' = m
      BY <3>3, <3>5, <3>6, SameQueue
    <3>8. Queue' = [Queue EXCEPT ![Fifo!Newest(k)].dead = TRUE]
      BY <2>3, <3>7 DEF m
    <3>. QED BY <1>4, <2>3, <2>6, <3>8 DEF Fifo!Expire, Answer
  <2>. QED BY <2>5, <2>6
<1>. QED BY <1>3, <1>4 DEF Get

(* The end of add() appends its entry, which is alive.                      *)
LEMMA InsertFifo ==
    ASSUME CacheInd, CacheInd', Insert
    PROVE  \E e \in Fifo!Entries : Fifo!Add(e)
<1>1. EntryFile(ent, oldest) /\ EntryFile(ent', oldest') /\ oldest' = oldest /\ ret' = ret
  BY CacheFile DEF Insert
<1>2. PICK w : w = writer
  OBVIOUS
<1>3. /\ DOMAIN ent' = DOMAIN ent \cup {w} /\ \A p \in DOMAIN ent : p # w => ent'[p] = ent[p]
      /\ ent'[w] = [key |-> arg.key, data |-> arg.data,
                    expire |-> IF arg.ttl = 0 THEN NO_TTL ELSE GetTime + arg.ttl]
  BY <1>2 DEF Insert
<1>4. /\ w \in Nat /\ oldest \in Nat /\ w < oldest
      /\ \A p \in DOMAIN ent : p \in Nat /\ (p < w \/ oldest <= p)
  <2>1. arg # NoArg /\ writer + EntryLen(arg) <= oldest
    BY DEF Insert, Room
  <2>2. EntryLen(arg) \in Nat \ {0} /\ \A p \in DOMAIN ent : p \in Nat
    BY <2>1, Lengths
  <2>3. /\ writer \in Nat /\ oldest \in Nat
        /\ \A p \in DOMAIN ent : p < writer \/ oldest <= p
    BY CacheAssumption DEF CacheInd, Layout, TypeOK
  <2>. QED BY <1>2, <2>1, <2>2, <2>3
<1>5. /\ w \notin DOMAIN ent /\ ~OlderAt(oldest, w, w)
      /\ \A p \in DOMAIN ent : OlderAt(oldest, p, w) /\ ~OlderAt(oldest, w, p)
  BY <1>4 DEF OlderAt
<1>6. Queue' = Append(Queue, Item(ent'[w]))
  <2>1. \A p \in DOMAIN ent : ent'[p] = ent[p]
    BY <1>3, <1>5
  <2>2. QueueAt(ent', oldest) = Append(QueueAt(ent, oldest), Item(ent'[w]))
    <3>1. PICK f, d : f = ent' /\ d = ent
      OBVIOUS
    <3>2. QueueAt(f, oldest) = Append(QueueAt(d, oldest), Item(f[w]))
      BY <1>1, <1>3, <1>5, <2>1, <3>1, QueueGrows
    <3>. QED BY <3>1, <3>2
  <2>. QED BY <1>1, <2>2, QueueIs
<1>7. Item(ent'[w]) \in Fifo!Entries /\ ~Item(ent'[w]).dead
  <2>1. arg.ttl \in Nat /\ clock \in Nat /\ start \in Nat /\ start <= clock
    <3>1. arg \in Args
      BY Lengths DEF Insert
    <3>2. arg.ttl \in Nat
      BY <3>1, CacheAssumption DEF Args
    <3>3. clock \in 0 .. MaxTime /\ start \in 0 .. clock /\ MaxTime \in Nat
      BY CacheAssumption DEF CacheInd, TypeOK
    <3>. QED BY <3>2, <3>3
  <2>2. ent'[w].expire # 0
    BY <1>3, <2>1 DEF NO_TTL, GetTime
  <2>3. ent'[w] \in EntryType
    BY <1>1, <1>3 DEF EntryFile
  <2>. QED BY <2>2, <2>3 DEF Item, Fifo!Entries, EntryType
<1>. QED BY <1>1, <1>6, <1>7 DEF Fifo!Add

(* A turn of the loop of add() drops the first of the queue.                *)
LEMMA EvictFifo == ASSUME CacheInd, CacheInd', Evict PROVE Fifo!Drop
<1>1. EntryFile(ent, oldest) /\ EntryFile(ent', oldest') /\ ret' = ret
  BY CacheFile DEF Evict
<1>2. PICK o : /\ o \in DOMAIN ent /\ DOMAIN ent' = DOMAIN ent \ {o}
               /\ \A p \in DOMAIN ent \ {o} : ent'[p] = ent[p]
               /\ \A p \in DOMAIN ent : ~Older(p, o)
               /\ \A p, r \in DOMAIN ent \ {o} : Older(p, r)' <=> Older(p, r)
  BY OldestEvicted
<1>3. /\ \A p \in DOMAIN ent : ~OlderAt(oldest, p, o)
      /\ \A p, r \in DOMAIN ent' : OlderAt(oldest', p, r) <=> OlderAt(oldest, p, r)
      /\ \A p \in DOMAIN ent' : ent'[p] = ent[p]
  BY <1>2, QueueIs
<1>4. PICK e, old, f, new : e = ent /\ old = oldest /\ f = ent' /\ new = oldest'
  OBVIOUS
<1>5. QueueAt(e, old) # << >> /\ QueueAt(f, new) = Tail(QueueAt(e, old))
  BY <1>1, <1>2, <1>3, <1>4, QueueShrinks
<1>. QED BY <1>1, <1>4, <1>5, QueueIs DEF Fifo!Drop

(* loadContentOf() cuts the file behind all entries.                        *)
LEMMA TruncateFifo ==
    ASSUME CacheInd, CacheInd', Loadable, Truncate
    PROVE  Queue' = Queue /\ ret' = ret
<1>1. EntryFile(ent, oldest) /\ EntryFile(ent', oldest') /\ ret' = ret
  BY CacheFile DEF Truncate
<1>2. CASE UNCHANGED <<size, oldest, unused, ent, link>>
  BY <1>1, <1>2, QueueIs
<1>3. CASE /\ oldest' = writer
           /\ ent' = [p \in {q \in DOMAIN ent : q < writer} |-> ent[p]]
  <2>1. oldest = unused
    BY DEF Truncate, Loadable
  <2>2. /\ writer \in Nat /\ oldest \in Nat /\ writer <= oldest
        /\ \A p \in DOMAIN ent : p \in Nat /\ p < writer
    BY <2>1, Lengths DEF CacheInd, Layout, TypeOK
  <2>3. DOMAIN ent' = DOMAIN ent /\ \A p \in DOMAIN ent : ent'[p] = ent[p]
    BY <1>3, <2>2
  <2>4. \A p, r \in DOMAIN ent : OlderAt(oldest', p, r) <=> OlderAt(oldest, p, r)
    BY <1>3, <2>2 DEF OlderAt
  <2>5. PICK e, old, f, new : e = ent /\ old = oldest /\ f = ent' /\ new = oldest'
    OBVIOUS
  <2>6. QueueAt(f, new) = QueueAt(e, old)
    BY <1>1, <2>3, <2>4, <2>5, QueueKept
  <2>. QED BY <1>1, <2>5, <2>6, QueueIs
<1>. QED BY <1>2, <1>3 DEF Truncate

(* Every step of the cache is a step of the queue or leaves it as it is.    *)
LEMMA NextFifo ==
    ASSUME LoadFits, ChainInd, [Next]_vars
    PROVE  [Fifo!Next]_(Fifo!fifoVars)
<1>1. CacheInd /\ Linked /\ Loadable /\ CacheInd'
  BY ChainNext DEF ChainInd
<1>2. ASSUME UNCHANGED <<oldest, ent, ret>> PROVE UNCHANGED (Fifo!fifoVars)
  BY <1>2, QueueIs DEF Fifo!fifoVars
<1>3. ASSUME UNCHANGED <<oldest, ent>>, ret' = NoAnswer PROVE Fifo!Next
  BY <1>3, QueueIs DEF Fifo!Next, Fifo!Forget
<1>4. CASE UNCHANGED vars
  BY <1>2, <1>4 DEF vars
<1>5. ASSUME NEW a \in Requests, AddCall(a) PROVE Fifo!Next
  BY <1>3, <1>5 DEF AddCall, info
<1>6. ASSUME NEW s \in Loads, LoadContentOf(s) PROVE Fifo!Next
  BY <1>3, <1>6 DEF LoadContentOf, info
<1>7. ASSUME Reopen PROVE Fifo!Next
  BY <1>3, <1>7 DEF Reopen, info
<1>8. ASSUME LoadNext \/ Tick \/ CacheExhausted PROVE UNCHANGED (Fifo!fifoVars)
  BY <1>2, <1>8 DEF LoadNext, Tick, CacheExhausted, info
<1>9. ASSUME Truncate PROVE UNCHANGED (Fifo!fifoVars)
  BY <1>1, <1>9, TruncateFifo DEF Fifo!fifoVars
<1>10. ASSUME Insert PROVE Fifo!Next
  BY <1>1, <1>10, InsertFifo DEF Fifo!Next
<1>11. ASSUME Evict PROVE Fifo!Next
  BY <1>1, <1>11, EvictFifo DEF Fifo!Next
<1>12. ASSUME NEW k \in Keys, Get(k) PROVE Fifo!Next
  BY <1>1, <1>12, GetFifo DEF Fifo!Next
<1>. QED BY <1>4, <1>5, <1>6, <1>7, <1>8, <1>9, <1>10, <1>11, <1>12 DEF Next, AddStep

(* open() makes an empty queue.                                             *)
LEMMA InitFifo == Init => Fifo!Init
<1>. SUFFICES ASSUME Init PROVE Queue = << >> /\ ret = NoAnswer
  BY DEF Fifo!Init
<1>1. DOMAIN ent = {} /\ ret = NoAnswer
  BY DEF Init
<1>2. Cardinality(DOMAIN ent) = 0
  BY <1>1, FS_EmptySet
<1>3. DOMAIN Queue = {}
  BY <1>2 DEF Queue
<1>4. EntryFile(ent, oldest)
  BY InitInd, CacheFile
<1>5. Queue \in Seq(Fifo!Entries) /\ Len(Queue) = 0
  BY <1>2, <1>4, QueueFacts, QueueIs
<1>. QED BY <1>1, <1>5

(* As long as loadContentOf() is only called for what fits, the cache is a  *)
(* queue, whatever its size, its keys and the lengths of its entries: add() *)
(* appends, only the oldest entries make room, and get() answers with the   *)
(* newest entry of its key that was not found expired before, or gives up   *)
(* behind more than LoopLimit newer entries.                                *)
THEOREM CacheIsFifo ==
    ASSUME LoadFits
    PROVE  Spec => ImplementsFifo
<1>1. Init => ChainInd /\ Fifo!Init
  BY InitInd, InitLinked, InitFifo DEF ChainInd
<1>2. ChainInd /\ [Next]_vars => ChainInd' /\ [Fifo!Next]_(Fifo!fifoVars)
  BY ChainNext, NextFifo
<1>. QED BY <1>1, <1>2, PTL DEF Spec, ImplementsFifo, Fifo!Spec
=============================================================================
