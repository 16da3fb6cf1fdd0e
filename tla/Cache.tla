------------------------------- MODULE Cache -------------------------------
(***************************************************************************)
(* UCache: a fixed-size cache in a mapped file.                            *)
(*                                                                         *)
(*   0 .. hsize-1        the head links of the buckets                     *)
(*   hsize .. writer-1   consecutive entries, newest on the right          *)
(*   writer .. oldest-1  free space                                        *)
(*   oldest .. unused-1  consecutive entries, oldest on the left           *)
(*   unused .. size-1    unused                                            *)
(*                                                                         *)
(* A bucket is a list from its head link to its newest, second newest ...  *)
(* entry.  A link word is the exclusive or of the positions of its two     *)
(* neighbours: here the set of the nonzero positions it combines, on which *)
(* exclusive or is the symmetric difference.  The bytes of an entry (key,  *)
(* data, lengths, time_expire) are a record; an entry that was removed is  *)
(* no longer one, whatever its bytes.                                      *)
(***************************************************************************)
EXTENDS Integers, FiniteSets, Sequences

CONSTANTS
    Keys, Data,
    NoData,       \* the null string
    NoArg,        \* add() is not running
    NoAnswer,     \* no get() has returned since the last other call
    KeyLen,       \* [Keys -> Nat \ {0}]
    DataLen,      \* [Data -> Nat \ {0}], with the null-terminator of addContent()
    Bucket,       \* [Keys -> 0 .. HSize - 1], hash()
    Hdr,          \* sizeof(cache_hash_table_entry)
    Word,         \* sizeof(uint32_t)
    CacheSize,    \* the size passed to open() less that of cache_info
    TTLs,         \* the times to live that callers pass, 0 for none
    Requests,     \* the arguments with which add() may be called
    Loads,        \* sequences of entries: what loadContentOf() may find
    FileLen,      \* the greatest length of an entry that loadContentOf() adds
    LoadFits,     \* loadContentOf() is only called for what fits without a removal
    LoopLimit,    \* the number of hops after which get() gives up (100)
    MaxTime       \* bound: the clock

\* getHSize(): the first power of 2 from sizeof(uint32_t) above size / Hdr.
GetHSize(s) ==
    LET grow[h \in Nat] == IF h <= s \div Hdr THEN grow[2 * h] ELSE h IN grow[Word]

HSize == GetHSize(CacheSize)

NO_TTL == -1       \* U_NO_TTL

\* The constructor leaves ttl undefined; getTTL() is for use after get().
Undefined == -2

Args == [key : Keys, data : Data, ttl : TTLs]

EntryLen(e) == Hdr + KeyLen[e.key] + DataLen[e.data]

ASSUME CacheAssumption ==
    /\ Hdr \in Nat \ {0} /\ Word \in Nat \ {0} /\ CacheSize \in Nat
    /\ HSize \in Nat \ {0} /\ HSize <= CacheSize
    /\ KeyLen \in [Keys -> Nat \ {0}] /\ DataLen \in [Data -> Nat \ {0}]
    /\ Bucket \in [Keys -> 0 .. HSize - 1]
    /\ TTLs \subseteq Nat /\ Requests \subseteq Args /\ Loads \subseteq Seq(Args)
    /\ FileLen \in Nat /\ \A s \in Loads : \A i \in DOMAIN s : EntryLen(s[i]) <= FileLen
    /\ LoadFits \in BOOLEAN /\ LoopLimit \in Nat /\ MaxTime \in Nat
    /\ NoData \notin Data /\ NoArg \notin Args

VARIABLES
    size, writer, oldest, unused,   \* the fields of cache_info
    link,     \* the link words of the heads and of the entries, by position
    ent,      \* the entries, by position
    clock, start,
    pc,       \* "idle", "add", "load" (in loadContentOf()) or "exit"
    arg,      \* the arguments of add()
    todo,     \* the files loadContentOf() has not added yet
    ret, ttl  \* what get() returned and for which key, and UCache::ttl

info == <<size, writer, oldest, unused>>
vars == <<size, writer, oldest, unused, link, ent, clock, start, pc, arg, todo, ret, ttl>>

Heads == {Bucket[k] : k \in Keys}

-----------------------------------------------------------------------------
(* Words.                                                                   *)
W(p) == IF p = 0 THEN {} ELSE {p}

Xor(v, w) == (v \ w) \cup (w \ v)

\* The position in a word; -1 if it is none.
Pos(w) == IF w = {} THEN 0 ELSE IF \E p \in w : w = {p} THEN CHOOSE p \in w : TRUE ELSE -1

Link(p) == IF p \in DOMAIN link THEN link[p] ELSE {}

\* The links after replace(): the word w is combined into the one at p.
Replaced(p, w) == [l \in DOMAIN link |-> IF l = p THEN Xor(link[l], w) ELSE link[l]]

GetTime == clock - start

Init ==
    /\ size = CacheSize /\ oldest = CacheSize /\ unused = CacheSize
    /\ writer = HSize
    /\ link = [h \in Heads |-> {}]
    /\ ent = [p \in {} |-> NoData]
    /\ clock = 0 /\ start = 0
    /\ pc = "idle" /\ arg = NoArg /\ todo = << >>
    /\ ret = NoAnswer /\ ttl = Undefined

-----------------------------------------------------------------------------
(* add() is called.                                                         *)
AddCall(a) ==
    /\ pc = "idle"
    /\ arg' = a
    /\ pc' = "add"
    /\ ret' = NoAnswer
    /\ UNCHANGED <<info, link, ent, clock, start, todo, ttl>>

Room == writer + EntryLen(arg) <= oldest

\* Mutant: that nothing is left to remove is not noticed.
ExhaustedNever == FALSE

Exhausted == oldest = unused /\ writer <= HSize

(* The entry is longer than the cache: U_ERROR() exits.                     *)
CacheExhausted ==
    /\ arg # NoArg /\ ~Room /\ Exhausted
    /\ pc' = "exit" /\ arg' = NoArg /\ todo' = << >>
    /\ UNCHANGED <<info, link, ent, clock, start, ret, ttl>>

\* The position behind the entry at o.
Behind(o) == IF o \in DOMAIN ent THEN o + EntryLen(ent[o]) ELSE o

\* Mutant: the length of the data is forgotten.
NextOldestNoData(o) == o + Hdr + KeyLen[ent[o].key]

NextOldest(o) == Behind(o)

\* Mutant: the neighbour of the removed entry is not told.
UnlinkedNot(o) == link

\* The links after the entry at o, the last of its list, was removed.
Unlinked(o) == Replaced(Pos(Link(o)), W(o))

(* One turn of the loop of add(): the oldest entry is removed.  When there  *)
(* is none behind the free space, the writer starts again at the left.      *)
Evict ==
    /\ arg # NoArg /\ ~Room /\ ~Exhausted
    /\ LET wrap == oldest = unused
           o == IF wrap THEN HSize ELSE oldest
           u == IF wrap THEN writer ELSE unused
           n == NextOldest(o) IN
         /\ writer' = IF wrap THEN HSize ELSE writer
         /\ oldest' = IF n = u THEN size ELSE n
         /\ unused' = IF n = u THEN size ELSE u
         /\ link' = [p \in DOMAIN link \ {o} |-> Unlinked(o)[p]]
         /\ ent' = [p \in DOMAIN ent \ {o} |-> ent[p]]
    /\ UNCHANGED <<size, clock, start, pc, arg, todo, ret, ttl>>

\* Mutant: the second newest entry keeps the head as its neighbour.
SecondSame(h) == link

\* The links after the newest entry of the bucket h got the writer as its
\* neighbour in place of the head.
Second(h) == IF link[h] # {} THEN Replaced(Pos(link[h]), Xor(W(h), W(writer))) ELSE link

(* The end of add(): the entry is linked behind the head and written.       *)
Insert ==
    /\ arg # NoArg /\ Room
    /\ LET h == Bucket[arg.key] IN
         link' = [p \in DOMAIN link \cup {writer} |->
                    IF p = writer THEN Xor(link[h], W(h))
                    ELSE IF p = h THEN W(writer) ELSE Second(h)[p]]
    /\ ent' = [p \in DOMAIN ent \cup {writer} |->
                 IF p = writer
                   THEN [key |-> arg.key, data |-> arg.data,
                         expire |-> IF arg.ttl = 0 THEN NO_TTL ELSE GetTime + arg.ttl]
                   ELSE ent[p]]
    /\ writer' = writer + EntryLen(arg)
    /\ arg' = NoArg
    /\ pc' = IF pc = "add" THEN "idle" ELSE pc
    /\ UNCHANGED <<size, oldest, unused, clock, start, todo, ret, ttl>>

-----------------------------------------------------------------------------
(* get(): the walk from the head h, as pairs of the previous position and   *)
(* the position after i hops; the position is 0 behind the end.             *)
Walk(h, n) ==
    LET at[i \in 0 .. n] ==
          IF i = 0 THEN <<h, Pos(link[h])>>
          ELSE LET w == at[i - 1] IN
               IF w[2] <= 0 THEN w ELSE <<w[2], Pos(Xor(W(w[1]), Link(w[2])))>>
    IN [i \in 0 .. n |-> at[i][2]]

\* Mutant: one entry less is looked at.
HopsOneLess == IF LoopLimit > 0 THEN LoopLimit - 1 ELSE 0

Hops == LoopLimit

\* The hops after which an entry with the key is met that is not marked.
Matches(k) ==
    LET at == Walk(Bucket[k], Hops) IN
    {i \in 0 .. Hops : at[i] \in DOMAIN ent /\ ent[at[i]].key = k /\ ent[at[i]].expire # 0}

Expired(e) == e.expire # NO_TTL /\ GetTime >= e.expire

Marked(e) == [key |-> e.key, data |-> e.data, expire |-> 0]

Answer(k, d) == [key |-> k, data |-> d]

(* get(); an entry found expired is marked.                                 *)
Get(k) ==
    /\ pc = "idle"
    /\ \/ Matches(k) = {} /\ ret' = Answer(k, NoData) /\ UNCHANGED <<ent, ttl>>
       \/ \E i \in Matches(k) :
            /\ \A j \in Matches(k) : i <= j
            /\ LET p == Walk(Bucket[k], Hops)[i] IN
                 IF Expired(ent[p])
                   THEN /\ ent' = [ent EXCEPT ![p] = Marked(@)]
                        /\ ret' = Answer(k, NoData)
                        /\ UNCHANGED ttl
                   ELSE /\ ret' = Answer(k, ent[p].data)
                        /\ ttl' = ent[p].expire
                        /\ UNCHANGED ent
    /\ UNCHANGED <<info, link, clock, start, pc, arg, todo>>

-----------------------------------------------------------------------------
(* loadContentOf() is called.                                               *)
LoadContentOf(s) ==
    /\ pc = "idle"
    /\ LoadFits => oldest = unused /\ writer + Len(s) * FileLen <= size
    /\ pc' = "load" /\ todo' = s
    /\ ret' = NoAnswer
    /\ UNCHANGED <<info, link, ent, clock, start, arg, ttl>>

(* The next file is added.                                                  *)
LoadNext ==
    /\ pc = "load" /\ arg = NoArg /\ todo # << >>
    /\ arg' = Head(todo) /\ todo' = Tail(todo)
    /\ UNCHANGED <<info, link, ent, clock, start, pc, ret, ttl>>

(* The end of loadContentOf(): the file is cut at the writer and whatever   *)
(* was behind is lost, unless ftruncate() fails.                            *)
Truncate ==
    /\ pc = "load" /\ arg = NoArg /\ todo = << >>
    /\ \/ /\ writer < size
          /\ size' = writer /\ oldest' = writer /\ unused' = writer
          /\ ent' = [p \in {q \in DOMAIN ent : q < writer} |-> ent[p]]
          /\ link' = [p \in {q \in DOMAIN link : q < writer} |-> link[p]]
       \/ UNCHANGED <<size, oldest, unused, ent, link>>
    /\ pc' = "idle"
    /\ UNCHANGED <<writer, clock, start, arg, todo, ret, ttl>>

(* The file is closed and opened again: the time of reference becomes the   *)
(* time of its last modification.                                           *)
Reopen ==
    /\ pc = "idle"
    /\ \E t \in start .. clock : start' = t
    /\ ttl' = Undefined /\ ret' = NoAnswer
    /\ UNCHANGED <<info, link, ent, clock, pc, arg, todo>>

Tick ==
    /\ clock < MaxTime
    /\ clock' = clock + 1
    /\ UNCHANGED <<info, link, ent, start, pc, arg, todo, ret, ttl>>

AddStep == CacheExhausted \/ Evict \/ Insert

Next ==
    \/ \E a \in Requests : AddCall(a)
    \/ AddStep
    \/ \E k \in Keys : Get(k)
    \/ \E s \in Loads : LoadContentOf(s)
    \/ LoadNext \/ Truncate \/ Reopen \/ Tick

Spec == Init /\ [][Next]_vars

\* add() waits for nobody.
FairSpec == Spec /\ WF_vars(AddStep)

-----------------------------------------------------------------------------
(* Properties.                                                              *)

TypeOK ==
    /\ size \in 0 .. CacheSize /\ writer \in 0 .. CacheSize
    /\ oldest \in 0 .. CacheSize /\ unused \in 0 .. CacheSize
    /\ DOMAIN link = Heads \cup DOMAIN ent
    /\ \A p \in DOMAIN ent : ent[p] \in [key : Keys, data : Data, expire : Int]
    /\ clock \in 0 .. MaxTime /\ start \in 0 .. clock
    /\ pc \in {"idle", "add", "load", "exit"}
    /\ arg \in Args \cup {NoArg}
    /\ ret \in [key : Keys, data : Data \cup {NoData}] \cup {NoAnswer} /\ ttl \in Int

\* The bytes from a to b are consecutive entries.
Consecutive(a, b) ==
    /\ a < b => a \in DOMAIN ent
    /\ \A p \in DOMAIN ent :
         a <= p /\ p < b => Behind(p) = b \/ (Behind(p) < b /\ Behind(p) \in DOMAIN ent)

(* hsize <= writer <= oldest <= unused <= size, and the entries are         *)
(* consecutive from hsize to writer and from oldest to unused, nowhere else.*)
Layout ==
    /\ HSize <= writer /\ writer <= oldest /\ oldest <= unused /\ unused <= size
    /\ Consecutive(HSize, writer) /\ Consecutive(oldest, unused)
    /\ \A p \in DOMAIN ent : (HSize <= p /\ p < writer) \/ (oldest <= p /\ p < unused)

\* p was added before r.
Older(p, r) == IF (p >= oldest) = (r >= oldest) THEN p < r ELSE p >= oldest

InBucket(h) == {p \in DOMAIN ent : Bucket[ent[p].key] = h}

(* The list of every bucket holds its entries, each once, newest first, and *)
(* ends behind the oldest.                                                  *)
Chains ==
    \A h \in Heads :
       LET b == InBucket(h)
           at == Walk(h, Cardinality(b)) IN
       /\ at[Cardinality(b)] = 0
       /\ \A p \in b : at[Cardinality({r \in b : Older(p, r)})] = p

(* The cache is a queue of entries: add() appends, only the oldest entries  *)
(* are removed, and get() finds the newest of its key.                      *)
Rank(p) == Cardinality({r \in DOMAIN ent : Older(r, p)}) + 1

Queue ==
    [i \in 1 .. Cardinality(DOMAIN ent) |->
       LET e == ent[CHOOSE p \in DOMAIN ent : Rank(p) = i] IN
       [key |-> e.key, data |-> e.data, dead |-> e.expire = 0]]

Fifo == INSTANCE FifoCache WITH q <- Queue, Limit <- LoopLimit

ImplementsFifo == Fifo!Spec

(* add() returns (or exits), however many entries it has to remove.         *)
AddReturns == (arg # NoArg) ~> (arg = NoArg)
=============================================================================
