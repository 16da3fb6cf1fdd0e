--------------------------- MODULE RingBufferProofs ---------------------------
(***************************************************************************)
(* Proofs about RingBuffer, for every set of readers, every number of      *)
(* descriptors, every size of the ring and every stream: the types, what   *)
(* the bits and the counter say of the readers, when a scan leaves out a   *)
(* reader, and that a reader has the stream in order.                      *)
(***************************************************************************)
EXTENDS RingBuffer, FiniteSetTheorems, TLAPS

(* The distance from index a to index k, around the ring.                   *)
Off(a, k) == IF k - a < 0 THEN k - a + size ELSE k - a

-----------------------------------------------------------------------------
(* The inductive invariant.                                                 *)

Scans == [i : 0..FD_SETSIZE, n : Nat, cnt : Int, cur : Index, avail : -1..size - 1,
          pread : Index, moved : BOOLEAN]

(* The types of what TypeOK leaves out, and where a reader has a descriptor.*)
Locals ==
    /\ scan \in Scans /\ (fpc \in {"avail", "keep", "seen"} => scan.i \in Descs)
    /\ last \in [Readers -> Nat] /\ raced \in BOOLEAN
    /\ \A p \in Readers : pc[p] \notin {"idle", "uncount"} => readd[p] \in Descs

(* Readers whose bit is set, and readers that readd_cnt counts.             *)
Holding == {p \in Readers : pc[p] \in {"place", "count", "meta", "loop", "write", "write2", "clear"}}
Counted == {p \in Readers : pc[p] \in {"meta", "loop", "write", "write2", "clear", "uncount"}}

CensusInv ==
    /\ readers = {readd[p] : p \in Holding} \cup leaked
    /\ \A p, q \in Holding : readd[p] = readd[q] => p = q
    /\ \A p \in Holding : readd[p] \notin leaked
    /\ readd_cnt = Cardinality(Counted) + Cardinality(leaked)

(* The bytes that wait for p are the stream behind the last one it had.     *)
Intact(p) ==
    LET r == pread[readd[p]]
    IN  /\ Avail(r) = fed - last[p]
        /\ \A k \in Index : Off(r, k) < Avail(r) => ring[k] = last[p] + 1 + Off(r, k)

(* The steps of a scan, and what a scan that looked at p has found: as many *)
(* bytes as wait for p, or more.                                            *)
Scanning == {"scan", "avail", "keep", "seen"}
Seen(p) ==
    LET r == pread[readd[p]]
    IN  /\ (fpc \in Scanning /\ readd[p] < scan.i) => (Avail(r) <= scan.avail \/ Avail(r) = 0)
        /\ (fpc = "keep" /\ readd[p] = scan.i) => Avail(r) <= scan.cur
        /\ (fpc = "seen" /\ readd[p] = scan.i) => (Avail(r) <= scan.avail \/ Avail(r) = 0)

(* The feeder does not write over them, and p does not read behind them.    *)
Clear(p) ==
    LET r == pread[readd[p]]
    IN  /\ fpc \in {"read", "read2"} => Avail(r) + todo <= size - 1
        /\ pc[p] \in {"write", "write2"} => left[p] <= Avail(r)
        /\ Seen(p)

StreamInv ==
    \A p \in Readers : p \notin skipped =>
        /\ p \notin broken
        /\ pc[p] \in Placed => Intact(p) /\ Clear(p)

(* What a scan remembers is the place with as many bytes as it says, unless *)
(* its reader moved between the two reads of pread[i].                      *)
ScanInv ==
    /\ (fpc \in Scanning /\ scan.avail >= 0 /\ ~scan.moved) => scan.avail = Avail(scan.pread)
    /\ fpc = "keep" => scan.cur > scan.avail

IInv == TypeOK /\ Locals /\ ScanInv /\ (~raced => CensusInv /\ StreamInv)

-----------------------------------------------------------------------------
(* The arithmetic of the ring.                                              *)

(* A number below twice the size goes around at most once.                  *)
LEMMA ModSize ==
    ASSUME NEW x \in 0..2 * size - 1
    PROVE  x % size = IF x < size THEN x ELSE x - size
  BY RingAssumption

LEMMA AdvanceValue ==
    ASSUME NEW k \in Index, NEW n \in 0..size - 1
    PROVE  /\ Advance(k, n) = IF k + n < size THEN k + n ELSE k + n - size
           /\ Advance(k, n) \in Index
<1>1. k + n \in 0..2 * size - 1
  BY RingAssumption DEF Index
<1> QED
  BY <1>1, ModSize, RingAssumption DEF Advance, Index

LEMMA OffValue ==
    ASSUME NEW a \in Index, NEW k \in Index
    PROVE  Off(a, k) \in Index /\ (k - a + size) % size = Off(a, k)
<1>1. k - a + size \in 0..2 * size - 1
  BY RingAssumption DEF Index
<1> QED
  BY <1>1, ModSize, RingAssumption DEF Off, Index

(* Going n places from a comes to the index at distance n.                  *)
LEMMA OffAdvance ==
    ASSUME NEW a \in Index, NEW k \in Index, NEW n \in 0..size - 1
    PROVE  k = Advance(a, n) <=> Off(a, k) = n
<1>1. Advance(a, n) = IF a + n < size THEN a + n ELSE a + n - size
  BY AdvanceValue
<1> QED
  BY <1>1, RingAssumption DEF Off, Index

(* Distances from a place that is d further on.                             *)
LEMMA OffShift ==
    ASSUME NEW a \in Index, NEW b \in Index, NEW k \in Index
    PROVE  Off(b, k) = IF Off(a, k) >= Off(a, b) THEN Off(a, k) - Off(a, b)
                       ELSE Off(a, k) - Off(a, b) + size
  BY RingAssumption DEF Off, Index

(* The room up to a place, and the bytes that wait there.                   *)
LEMMA FreeValue ==
    ASSUME NEW r \in Index, pwrite \in Index
    PROVE  /\ Avail(r) \in Index /\ Avail(r) = Off(r, pwrite)
           /\ Free(r) \in Index /\ Free(r) = size - 1 - Avail(r)
  BY RingAssumption DEF Avail, Free, Off, Index

(* The first part of n bytes that go around the end is a part of them.      *)
LEMMA SplitValue ==
    ASSUME NEW k \in Index, NEW n \in Index
    PROVE  /\ Split(k, n) \in Index
           /\ Split(k, n) > 0 => Split(k, n) < n
  BY RingAssumption DEF Split, Index

(* What Take() does to the ring.                                            *)
LEMMA TakeEffect ==
    ASSUME TypeOK, NEW n \in 1..size - 1, Take(n)
    PROVE  /\ ring' = [k \in Index |-> IF Off(pwrite, k) < n THEN fed + 1 + Off(pwrite, k) ELSE ring[k]]
           /\ pwrite' \in Index /\ Off(pwrite, pwrite') = n
           /\ fed' = fed + n
<1>1. pwrite \in Index
  BY DEF TypeOK
<1>2. ASSUME NEW k \in Index
      PROVE  (\E j \in 0..n - 1 : k = Advance(pwrite, j)) <=> Off(pwrite, k) < n
  <2>1. \A j \in 0..n - 1 : k = Advance(pwrite, j) <=> Off(pwrite, k) = j
    BY <1>1, OffAdvance, RingAssumption
  <2>2. Off(pwrite, k) \in Index
    BY <1>1, OffValue
  <2> QED
    BY <2>1, <2>2, RingAssumption DEF Index
<1>3. \A k \in Index : (k - pwrite + size) % size = Off(pwrite, k)
  BY <1>1, OffValue
<1>4. pwrite' = Advance(pwrite, n) /\ n \in 0..size - 1 /\ fed' = fed + n
  BY RingAssumption DEF Take
<1>5. pwrite' \in Index /\ Off(pwrite, pwrite') = n
  BY <1>1, <1>4, AdvanceValue, OffAdvance
<1>6. ring' = [k \in Index |-> IF Off(pwrite, k) < n THEN fed + 1 + Off(pwrite, k) ELSE ring[k]]
  BY <1>2, <1>3 DEF Take
<1> QED
  BY <1>4, <1>5, <1>6

-----------------------------------------------------------------------------
(* Types.                                                                   *)

Types == TypeOK /\ Locals

LEMMA InitTypes == Init => Types
<1> SUFFICES ASSUME Init PROVE Types
  OBVIOUS
<1>1. 0 \in Index /\ 0 \in 0..MaxBytes /\ -1 \in -1..size /\ 0 \in 0..MaxOpens
  BY RingAssumption DEF Index
<1>2. NoScan \in Scans
  BY <1>1, RingAssumption DEF NoScan, Scans
<1>3. TypeOK
  <2>1. eof \in BOOLEAN /\ -1 \in Descs \cup {-1}
    BY DEF Init
  <2> QED
    BY <1>1, <2>1 DEF Init, TypeOK
<1>4. Locals
  BY <1>2 DEF Init, Locals
<1> QED
  BY <1>3, <1>4 DEF Types

LEMMA NoScanType == NoScan \in Scans
  BY RingAssumption DEF NoScan, Scans, Index

(* The end of a scan.                                                       *)
LEMMA MeasuredTypes ==
    ASSUME Types, NEW S \in SUBSET Readers, Measured(S)
    PROVE  /\ todo' \in Index /\ fpc' \in {"poll", "read"} /\ scan' \in Scans
           /\ skipped' \subseteq Readers
<1>1. scan.pread \in Index /\ pwrite \in Index /\ skipped \subseteq Readers
  BY DEF Types, TypeOK, Locals, Scans
<1> QED
  BY <1>1, FreeValue, NoScanType DEF Measured, Behind

(* A call of min_pread() sees one more descriptor, or ends.                 *)
LEMMA ScanTypes ==
    ASSUME Types, Scan
    PROVE  Types'
<1>1. /\ scan \in Scans /\ scan.i \in 0..FD_SETSIZE /\ scan.n \in Nat
      /\ pwrite \in Index /\ readers \subseteq Descs /\ pread \in [Descs -> Index]
      /\ todo \in Index /\ skipped \subseteq Readers
  BY DEF Types, TypeOK, Locals, Scans
<1>2. Beyond(scan.i) \in SUBSET Readers /\ {} \in SUBSET Readers
  BY DEF Beyond
<1>3. scan.i \in Descs => scan.i + 1 \in 0..FD_SETSIZE
  BY RingAssumption DEF Descs
<1>4. /\ todo' \in Index /\ skipped' \subseteq Readers /\ scan' \in Scans
      /\ fpc' \in {"poll", "scan", "avail", "keep", "seen", "read"}
      /\ fpc' \in {"avail", "keep", "seen"} => scan'.i \in Descs
  <2>1. CASE ScanBit
    <3>1. CASE Measured({})
      BY <1>2, <3>1, MeasuredTypes
    <3>2. CASE scan.i \in Descs \ readers /\ scan' = [scan EXCEPT !.i = @ + 1] /\ UNCHANGED <<fpc, todo, skipped>>
      <4>1. scan' \in Scans
        BY <1>1, <1>3, <3>2 DEF Scans
      <4> QED
        BY <1>1, <2>1, <3>2, <4>1 DEF ScanBit
    <3>3. CASE scan.i \in readers /\ fpc' = "avail" /\ UNCHANGED <<scan, todo, skipped>>
      BY <1>1, <3>3
    <3> QED
      BY <2>1, <3>1, <3>2, <3>3 DEF ScanBit
  <2>2. CASE ScanAvail
    <3>1. scan.i \in Descs /\ Avail(pread[scan.i]) \in Index
      BY <1>1, <2>2, FreeValue DEF ScanAvail, Types, Locals
    <3>2. scan' \in Scans /\ scan'.i = scan.i
      BY <1>1, <2>2, <3>1 DEF ScanAvail, Scans
    <3> QED
      BY <1>1, <2>2, <3>1, <3>2 DEF ScanAvail, history, record
  <2>3. CASE ScanKeep
    <3>1. scan.i \in Descs /\ pread[scan.i] \in Index /\ scan.cur \in -1..size - 1
      BY <1>1, <2>3, RingAssumption DEF ScanKeep, Types, Locals, Scans, Index
    <3>2. (Avail(pread[scan.i]) # scan.cur) \in BOOLEAN
      OBVIOUS
    <3>3. scan' \in Scans /\ scan'.i = scan.i
      BY <1>1, <2>3, <3>1, <3>2 DEF ScanKeep, Scans
    <3> QED
      BY <1>1, <2>3, <3>1, <3>3 DEF ScanKeep, history, record
  <2>4. CASE ScanSeen
    <3>1. CASE Measured(Beyond(scan.i))
      BY <1>2, <3>1, MeasuredTypes
    <3>2. CASE /\ scan' = [scan EXCEPT !.i = @ + 1, !.n = @ + 1, !.cur = 0]
               /\ fpc' = "scan" /\ UNCHANGED <<todo, skipped>>
      <4>1. scan.i \in Descs /\ 0 \in Index /\ scan.n + 1 \in Nat
        BY <1>1, <2>4, RingAssumption DEF ScanSeen, Types, Locals, Index
      <4>2. scan' \in Scans
        BY <1>1, <1>3, <3>2, <4>1 DEF Scans
      <4> QED
        BY <1>1, <3>2, <4>2
    <3> QED
      BY <2>4, <3>1, <3>2 DEF ScanSeen
  <2> QED
    BY <2>1, <2>2, <2>3, <2>4 DEF Scan
<1>5. UNCHANGED <<shared, nread, fed, eof, locals, last, broken, leaked, raced>>
  BY DEF Scan, ScanBit, ScanAvail, ScanKeep, ScanSeen, history, record
<1> QED
  BY <1>4, <1>5 DEF Types, TypeOK, Locals, shared, locals

(* Bytes that the feeder takes fit into the stream and the ring.            *)
LEMMA TakeTypes ==
    ASSUME TypeOK, NEW n \in 1..size - 1, fed + n <= MaxBytes, Take(n)
    PROVE  ring' \in [Index -> 0..MaxBytes] /\ fed' \in 0..MaxBytes /\ pwrite' \in Index
<1>1. /\ ring' = [k \in Index |-> IF Off(pwrite, k) < n THEN fed + 1 + Off(pwrite, k) ELSE ring[k]]
      /\ pwrite' \in Index /\ fed' = fed + n
  BY TakeEffect
<1>2. fed \in 0..MaxBytes /\ ring \in [Index -> 0..MaxBytes] /\ pwrite \in Index
  BY DEF TypeOK
<1>3. fed' \in 0..MaxBytes
  BY <1>1, <1>2, RingAssumption
<1>4. ASSUME NEW k \in Index
      PROVE  (IF Off(pwrite, k) < n THEN fed + 1 + Off(pwrite, k) ELSE ring[k]) \in 0..MaxBytes
  <2>1. Off(pwrite, k) \in Index
    BY <1>2, OffValue
  <2> QED
    BY <2>1, <1>2, RingAssumption DEF Index
<1> QED
  BY <1>1, <1>3, <1>4

(* How far the first read() of a call, and the second, may go.              *)
LEMMA ReadTypes ==
    ASSUME Types, Read \/ Read2
    PROVE  Types'
<1>1. pwrite \in Index /\ todo \in Index /\ nread \in -1..size /\ fed \in 0..MaxBytes
  BY DEF Types, TypeOK
<1>2. /\ Split(pwrite, todo) \in Index
      /\ Split(pwrite, todo) > 0 => Split(pwrite, todo) < todo
  BY <1>1, SplitValue
<1>3. /\ ring' \in [Index -> 0..MaxBytes] /\ fed' \in 0..MaxBytes /\ pwrite' \in Index
  <2>1. CASE UNCHANGED <<ring, fed, pwrite>>
    BY <2>1 DEF Types, TypeOK
  <2>2. CASE \E n \in 1..todo : fed + n <= MaxBytes /\ Take(n)
    <3>1. PICK n \in 1..todo : fed + n <= MaxBytes /\ Take(n)
      BY <2>2
    <3>2. n \in 1..size - 1
      BY <1>1, RingAssumption DEF Index
    <3> QED
      BY <3>1, <3>2, TakeTypes DEF Types
  <2>3. 1..(IF Split(pwrite, todo) > 0 THEN Split(pwrite, todo) ELSE todo) \subseteq 1..todo
    BY <1>1, <1>2, RingAssumption DEF Index
  <2> QED
    BY <2>1, <2>2, <2>3 DEF Read, Read2
<1>4. todo' \in Index /\ nread' \in -1..size /\ fpc' \in {"poll", "read2", "stopped"}
  <2>1. CASE \E n : Returns(n)
    BY <2>1, RingAssumption DEF Returns, Index
  <2>2. CASE fpc' = "read2" /\ \E n \in 1..(IF Split(pwrite, todo) > 0 THEN Split(pwrite, todo) ELSE todo) :
                n = Split(pwrite, todo) /\ todo' = todo - n /\ nread' = n
    BY <2>2, <1>1, <1>2, RingAssumption DEF Index
  <2> QED
    BY <2>1, <2>2 DEF Read, Read2
<1>5. UNCHANGED <<readers, readd_cnt, pread, scan, eof, locals, history>>
  BY DEF Read, Read2
<1> QED
  BY <1>3, <1>4, <1>5 DEF Types, TypeOK, Locals, locals, history, record

(* The bytes that a reader hands on are some of those it counted.           *)
LEMMA DeliverTypes ==
    ASSUME Types, NEW p \in Readers, pc[p] \in {"write", "write2"},
           NEW n \in 1..left[p], Deliver(p, n)
    PROVE  /\ pread' \in [Descs -> Index] /\ last' \in [Readers -> Nat]
           /\ broken' \subseteq Readers
<1>1. /\ readd[p] \in Descs /\ pread \in [Descs -> Index] /\ last \in [Readers -> Nat]
      /\ left[p] \in Index /\ broken \subseteq Readers
  BY DEF Types, TypeOK, Locals
<1>2. n \in 0..size - 1 /\ n \in Nat
  BY <1>1, RingAssumption DEF Index
<1>3. Advance(pread[readd[p]], n) \in Index
  BY <1>1, <1>2, AdvanceValue
<1> QED
  BY <1>1, <1>2, <1>3 DEF Deliver

LEMMA WriteTypes ==
    ASSUME Types, NEW p \in Readers, Write(p) \/ Write2(p)
    PROVE  /\ Types' /\ \E n \in 1..left[p] : Deliver(p, n)
           /\ pc[p] \in {"write", "write2"}
<1> DEFINE split == Split(pread[readd[p]], left[p])
<1>1. pc[p] \in {"write", "write2"} /\ readd[p] \in Descs /\ left[p] \in Index
  BY DEF Write, Write2, Types, TypeOK, Locals
<1>2. split \in Index /\ (split > 0 => split < left[p])
  BY <1>1, SplitValue DEF Types, TypeOK
<1>3. 1..(IF split > 0 THEN split ELSE left[p]) \subseteq 1..left[p]
  BY <1>1, <1>2, RingAssumption DEF Index
<1>4. PICK n \in 1..left[p] : Deliver(p, n)
  BY <1>3 DEF Write, Write2
<1>5. left' \in [Readers -> Index]
  <2>1. PICK m : /\ left' = [left EXCEPT ![p] = m]
                 /\ m = 0 \/ \E k \in 1..left[p] : m = left[p] - k
    BY <1>3 DEF Write, Write2
  <2>2. m \in Index
    BY <2>1, <1>1, RingAssumption DEF Index
  <2> QED
    BY <2>1, <2>2 DEF Types, TypeOK
<1>6. PICK w \in {"loop", "write2"} : pc' = [pc EXCEPT ![p] = w]
  BY DEF Write, Write2, Go
<1>7. UNCHANGED <<readers, readd_cnt, pwrite, ring, feeder, readd, opens, skipped, leaked, raced>>
  BY DEF Write, Write2
<1>8. /\ pread' \in [Descs -> Index] /\ last' \in [Readers -> Nat]
      /\ broken' \subseteq Readers
  BY <1>1, <1>4, DeliverTypes
<1>9. TypeOK'
  BY <1>5, <1>6, <1>7, <1>8 DEF Types, TypeOK, feeder
<1>10. Locals'
  BY <1>1, <1>6, <1>7, <1>8 DEF Types, TypeOK, Locals, feeder
<1> QED
  BY <1>1, <1>4, <1>9, <1>10 DEF Types

LEMMA OpenTypes ==
    ASSUME Types, NEW p \in Readers,
           OpenTest(p) \/ OpenFull(p) \/ OpenSet(p) \/ OpenPlace(p) \/ OpenCount(p)
           \/ Metadata(p) \/ MetadataFails(p)
    PROVE  Types'
<1>1. CASE OpenTest(p)
  <2>1. opens' \in 0..MaxOpens
    BY <1>1, RingAssumption DEF OpenTest, Types, TypeOK
  <2>2. PICK d \in Descs : readd' = [readd EXCEPT ![p] = d]
    BY <1>1 DEF OpenTest
  <2> QED
    BY <1>1, <2>1, <2>2 DEF OpenTest, Go, Types, TypeOK, Locals, shared, feeder, history, record
<1>2. CASE OpenFull(p)
  BY <1>2, RingAssumption DEF OpenFull, Types, TypeOK, Locals, shared, feeder, history, record
<1>3. CASE OpenSet(p)
  <2>1. readd[p] \in Descs /\ readers' \subseteq Descs /\ raced' \in BOOLEAN
    BY <1>3 DEF OpenSet, Updated, Types, TypeOK, Locals
  <2> QED
    BY <1>3, <2>1 DEF OpenSet, Go, Types, TypeOK, Locals, feeder, record
<1>4. CASE OpenPlace(p)
  <2>1. fed \in Nat
    BY RingAssumption DEF Types, TypeOK
  <2> QED
    BY <1>4, <2>1 DEF OpenPlace, Go, Types, TypeOK, Locals, feeder
<1>5. CASE OpenCount(p)
  <2>1. readd_cnt' \in Int
    BY <1>5 DEF OpenCount, Updated, Types, TypeOK
  <2>2. raced' \in BOOLEAN
    BY <1>5, Zenon DEF OpenCount, Updated, Types, Locals
  <2> QED
    BY <1>5, <2>1, <2>2 DEF OpenCount, Go, Types, TypeOK, Locals, feeder, record
<1>6. CASE Metadata(p)
  BY <1>6 DEF Metadata, Go, Types, TypeOK, Locals, shared, feeder, history, record
<1>7. CASE MetadataFails(p)
  <2>1. readd[p] \in Descs
    BY <1>7 DEF MetadataFails, Types, Locals
  <2> QED
    BY <1>7, <2>1 DEF MetadataFails, Go, Types, TypeOK, Locals, shared, feeder
<1> QED
  BY <1>1, <1>2, <1>3, <1>4, <1>5, <1>6, <1>7

LEMMA CloseTypes ==
    ASSUME Types, NEW p \in Readers,
           Loop(p) \/ WriteAgain(p) \/ Close(p) \/ CloseClear(p) \/ CloseCount(p)
    PROVE  Types'
<1>0. 0 \in Index
  BY RingAssumption DEF Index
<1>1. CASE Loop(p)
  <2>1. Avail(pread[readd[p]]) \in Index
    BY <1>1, FreeValue DEF Loop, Types, TypeOK, Locals
  <2> QED
    BY <1>1, <2>1 DEF Loop, Go, Types, TypeOK, Locals, shared, feeder, history, record
<1>2. CASE WriteAgain(p)
  BY <1>0, <1>2 DEF WriteAgain, Go, Types, TypeOK, Locals, shared, feeder, history, record
<1>3. CASE Close(p)
  BY <1>0, <1>3 DEF Close, Go, Types, TypeOK, Locals, shared, feeder, history, record
<1>4. CASE CloseClear(p)
  <2>1. readers' \subseteq Descs /\ raced' \in BOOLEAN
    BY <1>4 DEF CloseClear, Updated, Types, TypeOK, Locals
  <2> QED
    BY <1>4, <2>1 DEF CloseClear, Go, Types, TypeOK, Locals, feeder
<1>5. CASE CloseCount(p)
  <2>1. readd_cnt' \in Int
    BY <1>5 DEF CloseCount, Updated, Types, TypeOK
  <2>2. raced' \in BOOLEAN
    BY <1>5, Zenon DEF CloseCount, Updated, Types, Locals
  <2> QED
    BY <1>5, <2>1, <2>2 DEF CloseCount, Go, Types, TypeOK, Locals, feeder, record
<1> QED
  BY <1>1, <1>2, <1>3, <1>4, <1>5

LEMMA StepTypes == Types /\ [Next]_vars => Types'
<1> SUFFICES ASSUME Types, [Next]_vars PROVE Types'
  OBVIOUS
<1>1. CASE Poll
  <2>1. scan' \in Scans
    BY <1>1, NoScanType DEF Poll, Scans, Types, TypeOK
  <2> QED
    BY <1>1, <2>1 DEF Poll, Types, TypeOK, Locals, shared, locals, history, record
<1>2. CASE CommandEnds
  BY <1>2 DEF CommandEnds, Types, TypeOK, Locals, shared, locals, history, record
<1>3. CASE UNCHANGED vars
  BY <1>3 DEF Types, TypeOK, Locals, vars, shared, feeder, locals, history, record
<1> QED
  BY <1>1, <1>2, <1>3, ScanTypes, ReadTypes, WriteTypes, OpenTypes, CloseTypes
     DEF Next, Feeder, Serve, Send

-----------------------------------------------------------------------------
(* The bits and the counter.                                                *)

(* The readers are finitely many, wherever they are.                        *)
LEMMA ReadersFinite ==
    ASSUME NEW S \in SUBSET Readers
    PROVE  IsFiniteSet(S) /\ Cardinality(S) \in Nat
  BY FS_Subset, FS_CardinalityType, RingAssumption

LEMMA LeakedFinite ==
    ASSUME Types
    PROVE  IsFiniteSet(leaked) /\ Cardinality(leaked) \in Nat
<1>1. IsFiniteSet(Descs)
  BY FS_Interval, RingAssumption DEF Descs
<1> QED
  BY <1>1, FS_Subset, FS_CardinalityType DEF Types, TypeOK

(* A lost update is remembered.                                             *)
LEMMA RacedStays ==
    ASSUME [Next]_vars, ~raced'
    PROVE  ~raced
<1>1. CASE UNCHANGED raced
  BY <1>1
<1>2. CASE raced' = TRUE
  BY <1>2
<1> QED
  BY <1>1, <1>2, Zenon
     DEF Next, Feeder, Serve, Send, Poll, Scan, ScanBit, ScanAvail, ScanKeep, ScanSeen, Read, Read2,
         CommandEnds, OpenTest, OpenFull, OpenSet, OpenPlace, OpenCount, Metadata, MetadataFails,
         Loop, Write, Write2, WriteAgain, Close, CloseClear, CloseCount,
         Updated, vars, history

(* open() sets a bit that nobody else has, close() clears its own.          *)
LEMMA CensusBits ==
    ASSUME Types, CensusInv, ~raced', NEW p \in Readers, OpenSet(p) \/ CloseClear(p)
    PROVE  CensusInv'
<1>1. CASE OpenSet(p)
  <2>1. readd[p] \notin readers /\ readers' = readers \cup {readd[p]}
    BY <1>1 DEF OpenSet, Updated
  <2>2. UNCHANGED <<readd, readd_cnt, leaked>> /\ pc' = [pc EXCEPT ![p] = "place"] /\ pc[p] = "set"
    BY <1>1 DEF OpenSet, Go, record
  <2>3. Holding' = Holding \cup {p} /\ Counted' = Counted
    BY <2>2 DEF Holding, Counted, Types, TypeOK
  <2> QED
    BY <2>1, <2>2, <2>3 DEF CensusInv
<1>2. CASE CloseClear(p)
  <2>1. readers' = readers \ {readd[p]}
    BY <1>2 DEF CloseClear, Updated
  <2>2. /\ UNCHANGED <<readd_cnt, leaked>> /\ pc' = [pc EXCEPT ![p] = "uncount"] /\ pc[p] = "clear"
        /\ readd' = [readd EXCEPT ![p] = -1]
    BY <1>2 DEF CloseClear, Go
  <2>3. Holding' = Holding \ {p} /\ Counted' = Counted /\ p \in Holding
    BY <2>2 DEF Holding, Counted, Types, TypeOK
  <2>4. \A q \in Holding \ {p} : q \in Readers /\ readd'[q] = readd[q]
    BY <2>2 DEF Holding, Types, TypeOK
  <2> QED
    BY <2>1, <2>2, <2>3, <2>4 DEF CensusInv
<1> QED
  BY <1>1, <1>2

(* A reader is counted when it leaves open(), and until it leaves close().  *)
LEMMA CensusCount ==
    ASSUME Types, CensusInv, ~raced', NEW p \in Readers, OpenCount(p) \/ CloseCount(p)
    PROVE  CensusInv'
<1>0. Counted \in SUBSET Readers
  BY DEF Counted
<1>1. IsFiniteSet(Counted) /\ Cardinality(Counted) \in Nat
  BY <1>0, ReadersFinite
<1>4. Cardinality(leaked) \in Nat
  BY LeakedFinite
<1>2. CASE OpenCount(p)
  <2>1. readd_cnt' = readd_cnt + 1
    BY <1>2 DEF OpenCount, Updated
  <2>2. UNCHANGED <<readd, readers, leaked>> /\ pc' = [pc EXCEPT ![p] = "meta"] /\ pc[p] = "count"
    BY <1>2 DEF OpenCount, Go, record
  <2>3. Holding' = Holding /\ Counted' = Counted \cup {p} /\ p \notin Counted
    BY <2>2 DEF Holding, Counted, Types, TypeOK
  <2>4. Cardinality(Counted \cup {p}) = Cardinality(Counted) + 1
    BY <1>1, <2>3, FS_AddElement
  <2> QED
    BY <1>1, <1>4, <2>1, <2>2, <2>3, <2>4 DEF CensusInv
<1>3. CASE CloseCount(p)
  <2>1. readd_cnt' = readd_cnt - 1
    BY <1>3 DEF CloseCount, Updated
  <2>2. UNCHANGED <<readd, readers, leaked>> /\ pc' = [pc EXCEPT ![p] = "idle"] /\ pc[p] = "uncount"
    BY <1>3 DEF CloseCount, Go, record
  <2>3. Holding' = Holding /\ Counted' = Counted \ {p} /\ p \in Counted
    BY <2>2 DEF Holding, Counted, Types, TypeOK
  <2>4. Cardinality(Counted \ {p}) = Cardinality(Counted) - 1
    BY <1>1, <2>3, FS_RemoveElement
  <2> QED
    BY <1>1, <1>4, <2>1, <2>2, <2>3, <2>4 DEF CensusInv
<1> QED
  BY <1>2, <1>3

(* A descriptor that is not closed goes from its reader to those leaked.    *)
LEMMA CensusLeak ==
    ASSUME Types, CensusInv, NEW p \in Readers, MetadataFails(p)
    PROVE  CensusInv'
<1>1. /\ UNCHANGED <<readers, readd_cnt>> /\ pc[p] = "meta" /\ pc' = [pc EXCEPT ![p] = "idle"]
      /\ readd' = [readd EXCEPT ![p] = -1] /\ leaked' = leaked \cup {readd[p]}
  BY DEF MetadataFails, Go, shared
<1>2. Holding' = Holding \ {p} /\ Counted' = Counted \ {p} /\ p \in Holding /\ p \in Counted
  BY <1>1 DEF Holding, Counted, Types, TypeOK
<1>3. \A q \in Holding \ {p} : q \in Readers /\ readd'[q] = readd[q]
  BY <1>1 DEF Holding, Types, TypeOK
<1>4. /\ readers = {readd[q] : q \in Holding} \cup leaked /\ readd[p] \notin leaked
      /\ \A q, r \in Holding : readd[q] = readd[r] => q = r
      /\ \A q \in Holding : readd[q] \notin leaked
      /\ readd_cnt = Cardinality(Counted) + Cardinality(leaked)
  BY <1>2 DEF CensusInv
<1>5. readers' = {readd'[q] : q \in Holding'} \cup leaked'
  BY <1>1, <1>2, <1>3, <1>4
<1>6. /\ \A q, r \in Holding' : readd'[q] = readd'[r] => q = r
      /\ \A q \in Holding' : readd'[q] \notin leaked'
  BY <1>1, <1>2, <1>3, <1>4
<1>7. IsFiniteSet(Counted) /\ Cardinality(Counted) \in Nat
  <2>1. Counted \in SUBSET Readers
    BY DEF Counted
  <2> QED
    BY <2>1, ReadersFinite
<1>8. IsFiniteSet(leaked) /\ Cardinality(leaked) \in Nat
  BY LeakedFinite
<1>9. Cardinality(Counted \ {p}) = Cardinality(Counted) - 1
  BY <1>2, <1>7, FS_RemoveElement
<1>10. Cardinality(leaked \cup {readd[p]}) = Cardinality(leaked) + 1
  BY <1>4, <1>8, FS_AddElement
<1>11. readd_cnt' = Cardinality(Counted') + Cardinality(leaked')
  BY <1>1, <1>2, <1>4, <1>7, <1>8, <1>9, <1>10
<1> QED
  BY <1>5, <1>6, <1>11 DEF CensusInv

(* No other step changes who holds a bit and who is counted.                *)
LEMMA CensusKept ==
    ASSUME Types, CensusInv, UNCHANGED <<readers, readd_cnt, leaked>>,
           Holding' = Holding, Counted' = Counted,
           \A q \in Holding : readd'[q] = readd[q]
    PROVE  CensusInv'
  BY DEF CensusInv

LEMMA CensusStep ==
    ASSUME Types, CensusInv, [Next]_vars, ~raced'
    PROVE  CensusInv'
<1>1. CASE Feeder \/ CommandEnds \/ UNCHANGED vars
  <2>1. UNCHANGED <<readers, readd_cnt, pc, readd, leaked>>
    BY <1>1 DEF Feeder, Poll, Scan, ScanBit, ScanAvail, ScanKeep, ScanSeen, Read, Read2, CommandEnds,
                vars, shared, locals, history, record
  <2> QED
    BY <2>1 DEF CensusInv, Holding, Counted
<1>2. ASSUME NEW p \in Readers, OpenTest(p) \/ OpenFull(p)
      PROVE  CensusInv'
  <2>1. pc[p] = "idle" /\ UNCHANGED <<readers, readd_cnt, leaked>>
    BY <1>2 DEF OpenTest, OpenFull, shared, history, record
  <2>2. Holding' = Holding /\ Counted' = Counted
    BY <1>2 DEF OpenTest, OpenFull, Go, Holding, Counted, Types, TypeOK
  <2>3. \A q \in Holding : readd'[q] = readd[q]
    BY <1>2, <2>1 DEF OpenTest, OpenFull, Holding, Types, TypeOK
  <2> QED
    BY <2>1, <2>2, <2>3, CensusKept
<1>3. ASSUME NEW p \in Readers,
             OpenPlace(p) \/ Metadata(p) \/ Loop(p) \/ Write(p) \/ Write2(p) \/ WriteAgain(p) \/ Close(p)
      PROVE  CensusInv'
  <2>1. UNCHANGED <<readers, readd_cnt, readd, leaked>>
    BY <1>3 DEF OpenPlace, Metadata, Loop, Write, Write2, WriteAgain, Close, shared, history, record
  <2>2. \/ pc[p] = "place" /\ pc' = [pc EXCEPT ![p] = "count"]
        \/ /\ pc[p] \in {"meta", "loop", "write", "write2"}
           /\ \E w \in {"loop", "write", "write2", "clear"} : pc' = [pc EXCEPT ![p] = w]
    BY <1>3 DEF OpenPlace, Metadata, Loop, Write, Write2, WriteAgain, Close, Go
  <2>3. Holding' = Holding /\ Counted' = Counted
    BY <2>2 DEF Holding, Counted, Types, TypeOK
  <2> QED
    BY <2>1, <2>3, CensusKept
<1> QED
  BY <1>1, <1>2, <1>3, CensusBits, CensusCount, CensusLeak DEF Next, Serve, Send

-----------------------------------------------------------------------------
(* The feeder and the stream.                                               *)

(* What a scan remembers stays true while it runs: nobody moves pwrite.     *)
LEMMA ScanStep ==
    ASSUME Types, ScanInv, [Next]_vars
    PROVE  ScanInv'
<1>0. scan \in Scans
  BY DEF Types, Locals
<1>1. CASE Poll
  BY <1>1 DEF Poll, ScanInv, NoScan
<1>2. CASE Scan
  <2>1. pwrite' = pwrite /\ fpc \in Scanning
    BY <1>2 DEF Scan, ScanBit, ScanAvail, ScanKeep, ScanSeen, shared, Scanning
  <2>2. CASE ScanBit \/ ScanSeen
    <3>1. \/ fpc' \in {"poll", "read"}
          \/ /\ scan'.avail = scan.avail /\ scan'.pread = scan.pread /\ scan'.moved = scan.moved
             /\ fpc' \in {"scan", "avail"}
      BY <1>0, <2>2 DEF ScanBit, ScanSeen, Measured, Scans
    <3> QED
      BY <2>1, <3>1 DEF ScanInv, Avail, Scanning
  <2>3. CASE ScanAvail
    <3>1. /\ scan'.avail = scan.avail /\ scan'.pread = scan.pread /\ scan'.moved = scan.moved
          /\ fpc' = "keep" => scan'.cur > scan'.avail
      BY <1>0, <2>3 DEF ScanAvail, Farther, Scans
    <3> QED
      BY <2>1, <3>1 DEF ScanInv, Avail, Scanning
  <2>4. CASE ScanKeep
    <3>1. /\ fpc' = "seen" /\ scan'.avail = scan.cur /\ scan'.pread = pread[scan.i]
          /\ scan'.moved = (Avail(pread[scan.i]) # scan.cur)
      BY <1>0, <2>4 DEF ScanKeep, Scans
    <3> QED
      BY <2>1, <3>1 DEF ScanInv, Avail, Scanning
  <2> QED
    BY <1>2, <2>2, <2>3, <2>4 DEF Scan
<1>3. CASE Read \/ Read2
  BY <1>3 DEF Read, Read2, Returns, ScanInv, Scanning
<1>4. CASE UNCHANGED <<pwrite, fpc, scan>>
  BY <1>4 DEF ScanInv, Avail
<1> QED
  BY <1>1, <1>2, <1>3, <1>4
     DEF Next, Feeder, Serve, Send, CommandEnds, OpenTest, OpenFull, OpenSet, OpenPlace, OpenCount,
         Metadata, MetadataFails, Loop, Write, Write2, WriteAgain, Close, CloseClear, CloseCount,
         vars, feeder, shared

(* A reader that has its place holds its bit, and no other reader's.        *)
LEMMA PlacedBit ==
    ASSUME Types, CensusInv, NEW p \in Readers, pc[p] \in Placed
    PROVE  /\ readd[p] \in readers /\ readd[p] \in Descs /\ pread[readd[p]] \in Index
           /\ Avail(pread[readd[p]]) \in Index
           /\ \A q \in Readers : pc[q] \in Placed \cup {"place"} /\ readd[q] = readd[p] => q = p
<1>1. p \in Holding /\ \A q \in Readers : pc[q] \in Placed \cup {"place"} => q \in Holding
  BY DEF Placed, Holding
<1>2. readd[p] \in Descs /\ pread[readd[p]] \in Index /\ pwrite \in Index
  BY DEF Placed, Types, TypeOK, Locals
<1>3. Avail(pread[readd[p]]) \in Index
  BY <1>2, FreeValue
<1> QED
  BY <1>1, <1>2, <1>3 DEF CensusInv

(* The room that min_pread() leaves ends before every reader that it did    *)
(* not leave out: step by step, what the scan has found bounds what waits   *)
(* for the readers that it has looked at.                                   *)
LEMMA ScanStream ==
    ASSUME Types, CensusInv, ScanInv, StreamInv, Scan
    PROVE  StreamInv'
<1> DEFINE i == scan.i
<1>1. /\ UNCHANGED <<pread, pwrite, ring, fed, pc, readd, left, last, broken>>
      /\ skipped \subseteq skipped' /\ fpc \in Scanning
  BY DEF Scan, ScanBit, ScanAvail, ScanKeep, ScanSeen, Measured, Scanning, shared, locals, history, record
<1>2. SUFFICES ASSUME NEW p \in Readers, p \notin skipped', pc[p] \in Placed
               PROVE  Clear(p)'
  BY <1>1 DEF StreamInv, Intact, Avail
<1>3. p \notin skipped /\ Clear(p) /\ Seen(p)
  BY <1>1, <1>2 DEF StreamInv, Clear
<1> DEFINE d == readd[p]
           r == pread[d]
<1>4. d \in Descs /\ d \in Int /\ r \in Index /\ Avail(r) \in Index /\ Avail(r) \in Int
  BY <1>2, PlacedBit, RingAssumption DEF Descs, Index
<1>5. /\ scan \in Scans /\ i \in 0..FD_SETSIZE /\ i \in Int /\ scan.pread \in Index /\ scan.avail \in -1..size - 1
      /\ scan.cur \in Index /\ pwrite \in Index /\ pread \in [Descs -> Index]
  BY RingAssumption DEF Types, TypeOK, Locals, Scans
<1>6. d < i => Avail(r) <= scan.avail \/ Avail(r) = 0
  BY <1>1, <1>3 DEF Seen
<1>7. left[p] <= Avail(r) \/ pc[p] \notin {"write", "write2"}
  BY <1>3 DEF Clear
<1>8. pread'[readd'[p]] = r /\ Avail(r)' = Avail(r) /\ readd'[p] = d
  BY <1>1 DEF Avail
<1>9. ASSUME fpc' \notin {"read", "read2"}, Seen(p)'
      PROVE  Clear(p)'
  BY <1>1, <1>7, <1>8, <1>9 DEF Clear
<1>10. ASSUME NEW S, Measured(S), p \notin S, d < i \/ (fpc = "seen" /\ d = i)
       PROVE  Clear(p)'
  <2>1. Avail(r) <= scan.avail \/ Avail(r) = 0
    BY <1>3, <1>6, <1>10 DEF Seen
  <2>2. Avail(scan.pread) \in Index /\ Free(scan.pread) = size - 1 - Avail(scan.pread)
    BY <1>5, FreeValue
  <2>3. Avail(r) <= Avail(scan.pread) \/ Avail(r) = 0
    <3>1. CASE scan.moved
      <4>1. ~(Avail(r) > Avail(scan.pread))
        BY <1>2, <1>10, <3>1 DEF Measured, Behind
      <4> QED
        BY <1>4, <2>2, <4>1, RingAssumption DEF Index
    <3>2. CASE ~scan.moved
      BY <1>1, <1>4, <1>5, <2>1, <3>2, RingAssumption DEF ScanInv, Index
    <3> QED
      BY <3>1, <3>2
  <2>4. Avail(r) + Free(scan.pread) <= size - 1
    BY <1>4, <2>2, <2>3, RingAssumption DEF Index
  <2>5. todo' = Free(scan.pread) /\ fpc' \in {"poll", "read"}
    BY <1>10 DEF Measured
  <2> QED
    BY <1>1, <1>7, <1>8, <2>4, <2>5 DEF Clear, Seen, Scanning
<1>11. CASE ScanBit
  <2>1. CASE scan.i \in Descs \ readers /\ scan' = [scan EXCEPT !.i = @ + 1] /\ UNCHANGED <<fpc, todo, skipped>>
    <3>1. fpc' = "scan" /\ scan'.i = i + 1 /\ scan'.avail = scan.avail
      BY <1>5, <1>11, <2>1 DEF ScanBit, Scans
    <3>2. d < i + 1 => d < i
      <4>1. d # i
        BY <1>2, <2>1, PlacedBit
      <4> QED
        BY <1>4, <1>5, <4>1
    <3> QED
      BY <1>6, <1>8, <1>9, <3>1, <3>2 DEF Seen
  <2>2. CASE fpc' = "avail" /\ scan' = scan
    BY <1>6, <1>8, <1>9, <2>2 DEF Seen
  <2>3. CASE scan.i \notin Descs /\ Measured({})
    <3>1. d < i
      BY <1>4, <1>5, <2>3, RingAssumption DEF Descs
    <3> QED
      BY <1>10, <2>3, <3>1
  <2> QED
    BY <1>11, <2>1, <2>2, <2>3 DEF ScanBit
<1>12. CASE ScanAvail
  <2>1. /\ scan'.i = i /\ scan'.avail = scan.avail /\ scan'.cur = Avail(pread[i])
        /\ fpc' = IF Avail(pread[i]) > scan.avail THEN "keep" ELSE "seen"
    BY <1>5, <1>12 DEF ScanAvail, Farther, Scans
  <2>2. d = i => Avail(r) = Avail(pread[i])
    OBVIOUS
  <2> QED
    BY <1>4, <1>5, <1>6, <1>8, <1>9, <2>1, <2>2, RingAssumption DEF Seen
<1>13. CASE ScanKeep
  <2>1. fpc = "keep" /\ fpc' = "seen" /\ scan'.i = i /\ scan'.avail = scan.cur
    BY <1>5, <1>13 DEF ScanKeep, Scans
  <2>2. scan.cur > scan.avail /\ scan.cur \in Int
    BY <1>5, <2>1, RingAssumption DEF ScanInv, Index
  <2>3. d < i => Avail(r) <= scan.cur
    BY <1>4, <1>5, <1>6, <2>2, RingAssumption DEF Index
  <2>4. d = i => Avail(r) <= scan.cur
    BY <1>3, <2>1 DEF Seen
  <2> QED
    BY <1>8, <1>9, <2>1, <2>3, <2>4 DEF Seen
<1>14. CASE ScanSeen
  <2>1. CASE Measured(Beyond(i))
    <3>1. p \notin Beyond(i)
      BY <1>2, <2>1 DEF Measured
    <3>2. d < i \/ d = i
      BY <1>2, <1>4, <1>5, <3>1 DEF Beyond
    <3> QED
      BY <1>10, <1>14, <2>1, <3>1, <3>2 DEF ScanSeen
  <2>2. CASE scan' = [scan EXCEPT !.i = @ + 1, !.n = @ + 1, !.cur = 0] /\ fpc' = "scan"
    <3>1. scan'.i = i + 1 /\ scan'.avail = scan.avail
      BY <1>5, <2>2 DEF Scans
    <3>2. d < i + 1 => d < i \/ d = i
      BY <1>4, <1>5
    <3>3. d = i => Avail(r) <= scan.avail \/ Avail(r) = 0
      BY <1>3, <1>14 DEF Seen, ScanSeen
    <3> QED
      BY <1>6, <1>8, <1>9, <2>2, <3>1, <3>2, <3>3 DEF Seen
  <2> QED
    BY <1>14, <2>1, <2>2 DEF ScanSeen
<1> QED
  BY <1>11, <1>12, <1>13, <1>14 DEF Scan

(* Bytes that the feeder takes go behind those that wait for p.             *)
LEMMA TakeStream ==
    ASSUME Types, CensusInv, NEW p \in Readers, pc[p] \in Placed, Intact(p),
           NEW n \in 1..size - 1, Avail(pread[readd[p]]) + n <= size - 1,
           Take(n), UNCHANGED <<pread, readd, last>>
    PROVE  Intact(p)' /\ Avail(pread[readd[p]])' = Avail(pread[readd[p]]) + n
<1> DEFINE r == pread[readd[p]]
           a == Avail(r)
<1>1. /\ r \in Index /\ a \in Index /\ pwrite \in Index /\ fed \in Nat /\ last[p] \in Nat
      /\ Avail(r) = Off(r, pwrite)
  BY PlacedBit, FreeValue, RingAssumption DEF Types, TypeOK, Locals
<1>2. /\ ring' = [k \in Index |-> IF Off(pwrite, k) < n THEN fed + 1 + Off(pwrite, k) ELSE ring[k]]
      /\ pwrite' \in Index /\ Off(pwrite, pwrite') = n
      /\ fed' = fed + n
  BY TakeEffect DEF Types
<1>3. ASSUME NEW k \in Index
      PROVE  /\ Off(r, k) \in Index
             /\ Off(pwrite, k) = IF Off(r, k) >= a THEN Off(r, k) - a ELSE Off(r, k) - a + size
  <2>1. Off(r, k) \in Index
    BY <1>1, OffValue
  <2>2. Off(pwrite, k) = IF Off(r, k) >= Off(r, pwrite) THEN Off(r, k) - Off(r, pwrite)
                         ELSE Off(r, k) - Off(r, pwrite) + size
    BY <1>1, OffShift
  <2> QED
    BY <1>1, <2>1, <2>2
<1>4. Off(r, pwrite') = a + n
  <2>1. Off(r, pwrite') \in Index
    BY <1>2, <1>3
  <2>2. n = IF Off(r, pwrite') >= a THEN Off(r, pwrite') - a ELSE Off(r, pwrite') - a + size
    BY <1>2, <1>3
  <2> QED
    BY <1>1, <2>1, <2>2, RingAssumption DEF Index
<1>5. Avail(r)' = a + n
  BY <1>4 DEF Avail, Off
<1>6. Avail(r) = fed - last[p] /\ \A k \in Index : Off(r, k) < a => ring[k] = last[p] + 1 + Off(r, k)
  BY DEF Intact
<1>7. ASSUME NEW k \in Index, Off(r, k) < a + n
      PROVE  ring'[k] = last[p] + 1 + Off(r, k)
  <2>1. CASE Off(r, k) >= a
    <3>1. Off(pwrite, k) = Off(r, k) - a /\ Off(pwrite, k) < n
      BY <1>1, <1>3, <1>7, <2>1, RingAssumption DEF Index
    <3>2. ring'[k] = fed + 1 + Off(r, k) - a
      BY <1>1, <1>2, <1>3, <3>1 DEF Index
    <3> QED
      BY <1>1, <1>3, <1>6, <3>2 DEF Index
  <2>2. CASE Off(r, k) < a
    <3>1. ~(Off(pwrite, k) < n)
      BY <1>1, <1>3, <2>2, RingAssumption DEF Index
    <3> QED
      BY <1>2, <1>6, <2>2, <3>1
  <2> QED
    BY <1>1, <1>3, <2>1, <2>2 DEF Index
<1>8. fed' - last[p] = a + n
  BY <1>1, <1>2, <1>6
<1> QED
  BY <1>5, <1>7, <1>8 DEF Intact

(* The feeder writes only into the room that it measured.                   *)
LEMMA ReadStream ==
    ASSUME Types, CensusInv, StreamInv, Read \/ Read2
    PROVE  StreamInv'
<1>1. /\ UNCHANGED <<readers, readd_cnt, pread, scan, pc, readd, left, last, broken, skipped>>
      /\ fpc \in {"read", "read2"}
  BY DEF Read, Read2, locals, history, record
<1>2. SUFFICES ASSUME NEW p \in Readers, p \notin skipped, pc[p] \in Placed
               PROVE  Intact(p)' /\ Clear(p)'
  BY <1>1 DEF StreamInv
<1> DEFINE r == pread[readd[p]]
<1>3. Intact(p) /\ Avail(r) + todo <= size - 1
  BY <1>1, <1>2 DEF StreamInv, Clear
<1>4. pc[p] \in {"write", "write2"} => left[p] <= Avail(r)
  BY <1>2 DEF StreamInv, Clear
<1>5. r \in Index /\ Avail(r) \in Index /\ todo \in Index /\ pwrite \in Index /\ left[p] \in Index
  BY <1>2, PlacedBit DEF Types, TypeOK
<1>6. /\ Split(pwrite, todo) \in Index
      /\ Split(pwrite, todo) > 0 => Split(pwrite, todo) < todo
  BY <1>5, SplitValue
<1>7. 1..(IF Split(pwrite, todo) > 0 THEN Split(pwrite, todo) ELSE todo) \subseteq 1..todo
  BY <1>5, <1>6, RingAssumption DEF Index
<1>8. \/ UNCHANGED <<ring, fed, pwrite>> /\ fpc' \in {"poll", "stopped"}
      \/ \E n \in 1..todo : Take(n) /\ (fpc' \in {"poll", "stopped"} \/ (fpc' = "read2" /\ todo' = todo - n))
  <2>1. CASE Read
    BY <2>1, <1>7 DEF Read, Returns
  <2>2. CASE Read2
    BY <2>2 DEF Read2, Returns
  <2> QED
    BY <2>1, <2>2
<1>9. CASE UNCHANGED <<ring, fed, pwrite>> /\ fpc' \in {"poll", "stopped"}
  BY <1>1, <1>3, <1>4, <1>9 DEF Intact, Clear, Seen, Scanning, Avail
<1>10. ASSUME NEW n \in 1..todo, Take(n),
              fpc' \in {"poll", "stopped"} \/ (fpc' = "read2" /\ todo' = todo - n)
       PROVE  Intact(p)' /\ Clear(p)'
  <2>1. n \in 1..size - 1 /\ Avail(r) + n <= size - 1
    BY <1>3, <1>5, RingAssumption DEF Index
  <2>2. Intact(p)' /\ Avail(r)' = Avail(r) + n
    BY <1>1, <1>2, <1>3, <1>10, <2>1, TakeStream
  <2>3. left[p] <= Avail(r) => left[p] <= Avail(r) + n
    BY <1>5, RingAssumption DEF Index
  <2>4. fpc' = "read2" => Avail(r) + n + todo' <= size - 1
    BY <1>3, <1>5, <1>10, RingAssumption DEF Index
  <2>5. pread'[readd'[p]] = r /\ pread[readd[p]]' = r
    BY <1>1
  <2> QED
    BY <1>1, <1>4, <1>10, <2>2, <2>3, <2>4, <2>5 DEF Clear, Seen, Scanning
<1> QED
  BY <1>8, <1>9, <1>10

-----------------------------------------------------------------------------
(* The readers and the stream.                                              *)

(* The bytes that p hands on are the next ones, and the others still wait.  *)
LEMMA DeliverStream ==
    ASSUME Types, CensusInv, NEW p \in Readers, pc[p] \in {"write", "write2"},
           Intact(p), p \notin broken, left[p] <= Avail(pread[readd[p]]),
           NEW n \in 1..left[p], Deliver(p, n), UNCHANGED <<pwrite, ring, fed, readd>>
    PROVE  /\ Intact(p)' /\ broken' = broken
           /\ Avail(pread[readd[p]])' = Avail(pread[readd[p]]) - n
<1> DEFINE d == readd[p]
           r == pread[d]
           a == Avail(r)
           m == Advance(r, n)
<1>1. /\ d \in Descs /\ r \in Index /\ a \in Index /\ a = Off(r, pwrite)
      /\ pwrite \in Index /\ fed \in Nat /\ last \in [Readers -> Nat] /\ left[p] \in Index
      /\ pread \in [Descs -> Index] /\ ring \in [Index -> 0..MaxBytes]
  BY PlacedBit, FreeValue, RingAssumption DEF Placed, Types, TypeOK, Locals
<1>2. n \in 1..size - 1 /\ n \in 0..size - 1 /\ n <= a
  BY <1>1, RingAssumption DEF Index
<1>3. m \in Index
  BY <1>1, <1>2, AdvanceValue
<1>4. Off(r, m) = n
  BY <1>1, <1>2, <1>3, OffAdvance
<1>5. ASSUME NEW k \in Index
      PROVE  /\ Off(r, k) \in Index /\ Off(m, k) \in Index
             /\ Off(m, k) = IF Off(r, k) >= n THEN Off(r, k) - n ELSE Off(r, k) - n + size
  <2>1. Off(r, k) \in Index /\ Off(m, k) \in Index
    BY <1>1, <1>3, OffValue
  <2>2. Off(m, k) = IF Off(r, k) >= Off(r, m) THEN Off(r, k) - Off(r, m)
                    ELSE Off(r, k) - Off(r, m) + size
    BY <1>1, <1>3, OffShift
  <2> QED
    BY <1>4, <2>1, <2>2
<1>6. a = fed - last[p] /\ \A k \in Index : Off(r, k) < a => ring[k] = last[p] + 1 + Off(r, k)
  BY DEF Intact
<1>7. \A j \in 0..n - 1 : ring[Advance(r, j)] = last[p] + 1 + j
  <2>1. SUFFICES ASSUME NEW j \in 0..n - 1 PROVE ring[Advance(r, j)] = last[p] + 1 + j
    OBVIOUS
  <2>2. j \in 0..size - 1 /\ j < a
    BY <1>1, <1>2, RingAssumption DEF Index
  <2>3. Advance(r, j) \in Index
    BY <1>1, <2>2, AdvanceValue
  <2>4. Off(r, Advance(r, j)) = j
    BY <1>1, <2>2, <2>3, OffAdvance
  <2> QED
    BY <1>6, <2>2, <2>3, <2>4
<1>8. /\ pread' = [pread EXCEPT ![d] = m] /\ broken' = broken
      /\ last' = [last EXCEPT ![p] = last[p] + n]
  BY <1>7 DEF Deliver
<1>9. pread'[readd'[p]] = m /\ last'[p] = last[p] + n
  BY <1>1, <1>8
<1>10. Avail(m) = a - n
  <2>1. Avail(m) = Off(m, pwrite)
    BY <1>1, <1>3, FreeValue
  <2>2. Off(m, pwrite) = IF a >= n THEN a - n ELSE a - n + size
    BY <1>1, <1>5
  <2> QED
    BY <1>1, <1>2, <2>1, <2>2 DEF Index
<1>11. ASSUME NEW k \in Index, Off(m, k) < a - n
       PROVE  ring[k] = last[p] + n + 1 + Off(m, k)
  <2>1. /\ Off(r, k) \in Int /\ Off(r, k) >= 0 /\ Off(m, k) \in Int
        /\ Off(m, k) = IF Off(r, k) >= n THEN Off(r, k) - n ELSE Off(r, k) - n + size
    BY <1>5, RingAssumption DEF Index
  <2>2. a \in Int /\ a <= size - 1 /\ n \in Int /\ last[p] \in Int
    BY <1>1, <1>2, RingAssumption DEF Index
  <2>3. Off(r, k) = Off(m, k) + n /\ Off(r, k) < a
    BY <1>11, <2>1, <2>2, RingAssumption
  <2>4. ring[k] = last[p] + 1 + Off(r, k)
    BY <1>6, <2>3
  <2>5. last[p] + 1 + (Off(m, k) + n) = last[p] + n + 1 + Off(m, k)
    BY <2>1, <2>2
  <2> QED
    BY <2>3, <2>4, <2>5
<1>12. a - n = fed - (last[p] + n)
  BY <1>1, <1>2, <1>6
<1>13. Avail(pread[readd[p]])' = a - n
  BY <1>9, <1>10 DEF Avail
<1>14. Intact(p)'
  BY <1>9, <1>11, <1>12, <1>13 DEF Intact
<1> QED
  BY <1>8, <1>13, <1>14

(* What a step leaves alone keeps what waits for q.                         *)
LEMMA StreamKept ==
    ASSUME NEW q \in Readers, Intact(q), Clear(q),
           UNCHANGED <<pwrite, ring, fed, fpc, scan, todo>>,
           readd'[q] = readd[q], pread'[readd[q]] = pread[readd[q]], last'[q] = last[q],
           pc'[q] \in {"write", "write2"} => pc[q] \in {"write", "write2"} /\ left'[q] = left[q]
    PROVE  Intact(q)' /\ Clear(q)'
<1>1. pread'[readd'[q]] = pread[readd[q]] /\ Avail(pread[readd[q]])' = Avail(pread[readd[q]])
  BY DEF Avail
<1>2. Intact(q)'
  BY <1>1 DEF Intact
<1>3. Clear(q)'
  BY <1>1 DEF Clear, Seen
<1> QED
  BY <1>2, <1>3

(* A reader that hands bytes on moves its own index only.                   *)
LEMMA WriteStream ==
    ASSUME Types, CensusInv, StreamInv, NEW p \in Readers, Write(p) \/ Write2(p)
    PROVE  StreamInv'
<1>1. /\ UNCHANGED <<readers, readd_cnt, pwrite, ring, feeder, readd, opens, skipped>>
      /\ pc[p] \in {"write", "write2"}
  BY DEF Write, Write2
<1>2. PICK w \in {"loop", "write2"} : pc' = [pc EXCEPT ![p] = w]
  BY DEF Write, Write2, Go
<1>3. /\ Types' /\ readd[p] \in Descs /\ left[p] \in Index
      /\ Split(pread[readd[p]], left[p]) \in Index
      /\ Split(pread[readd[p]], left[p]) > 0 => Split(pread[readd[p]], left[p]) < left[p]
  BY <1>1, WriteTypes, SplitValue DEF Types, TypeOK, Locals
<1>4. PICK n \in 1..left[p] :
         /\ Deliver(p, n)
         /\ \/ left' = [left EXCEPT ![p] = 0] /\ w = "loop"
            \/ left' = [left EXCEPT ![p] = left[p] - n]
  <2>1. 1..(IF Split(pread[readd[p]], left[p]) > 0 THEN Split(pread[readd[p]], left[p]) ELSE left[p])
          \subseteq 1..left[p]
    BY <1>3, RingAssumption DEF Index
  <2>2. pc'[p] = w
    BY <1>2 DEF Types, TypeOK
  <2>3. CASE Write(p)
    BY <2>1, <2>2, <2>3 DEF Write, Go, Types, TypeOK
  <2>4. CASE Write2(p)
    BY <2>2, <2>4 DEF Write2, Go, Types, TypeOK
  <2> QED
    BY <2>3, <2>4
<1> DEFINE r == pread[readd[p]]
<1>5. pread' = [pread EXCEPT ![readd[p]] = Advance(r, n)]
  BY <1>4 DEF Deliver
<1>6. /\ \A q \in Readers \ {p} : /\ last'[q] = last[q] /\ left'[q] = left[q] /\ pc'[q] = pc[q]
                                  /\ q \in broken' <=> q \in broken
  BY <1>2, <1>4 DEF Deliver, Types, TypeOK, Locals
<1>7. ASSUME NEW q \in Readers \ {p}, q \notin skipped
      PROVE  q \notin broken' /\ (pc'[q] \in Placed => Intact(q)' /\ Clear(q)')
  <2>1. q \notin broken'
    BY <1>6, <1>7 DEF StreamInv
  <2>2. ASSUME pc'[q] \in Placed
        PROVE  Intact(q)' /\ Clear(q)'
    <3>1. pc[q] \in Placed /\ Intact(q) /\ Clear(q)
      BY <1>6, <1>7, <2>2 DEF StreamInv
    <3>2. readd[q] # readd[p]
      BY <1>1, <3>1, PlacedBit DEF Placed
    <3>3. pread'[readd[q]] = pread[readd[q]]
      BY <1>5, <3>1, <3>2, PlacedBit DEF Types, TypeOK
    <3> QED
      BY <1>1, <1>6, <3>1, <3>3, StreamKept DEF feeder
  <2> QED
    BY <2>1, <2>2
<1>8. ASSUME p \notin skipped
      PROVE  p \notin broken' /\ Intact(p)' /\ Clear(p)'
  <2>1. p \notin broken /\ Intact(p) /\ Clear(p) /\ left[p] <= Avail(r)
    BY <1>1, <1>8 DEF StreamInv, Placed, Clear
  <2>2. Intact(p)' /\ broken' = broken /\ Avail(pread[readd[p]])' = Avail(r) - n
    BY <1>1, <1>4, <2>1, DeliverStream DEF feeder
  <2>3. /\ Avail(r) \in Index /\ todo \in Index /\ scan.avail \in Int /\ scan.cur \in Int
        /\ n <= Avail(r)
    <3>1. Avail(r) \in Index
      BY <1>1, PlacedBit DEF Placed
    <3>2. todo \in Index /\ scan.avail \in Int /\ scan.cur \in Int
      BY RingAssumption DEF Types, TypeOK, Locals, Scans, Index
    <3> QED
      BY <1>3, <2>1, <3>1, <3>2, RingAssumption DEF Index
  <2>4. /\ todo' = todo /\ fpc' = fpc /\ scan' = scan /\ readd' = readd
        /\ left'[p] <= Avail(r) - n \/ pc'[p] = "loop"
    BY <1>1, <1>2, <1>3, <1>4, <2>1, <2>3, RingAssumption DEF feeder, Index, Types, TypeOK
  <2>5. Avail(r) + todo <= size - 1 => Avail(r) - n + todo <= size - 1
    BY <2>3, RingAssumption DEF Index
  <2>6. /\ Avail(r) <= scan.avail \/ Avail(r) = 0 => Avail(r) - n <= scan.avail \/ Avail(r) - n = 0
        /\ Avail(r) <= scan.cur => Avail(r) - n <= scan.cur
    BY <2>3, RingAssumption DEF Index
  <2>7. Clear(p)'
    BY <1>1, <2>1, <2>2, <2>4, <2>5, <2>6 DEF Clear, Seen, feeder
  <2> QED
    BY <2>1, <2>2, <2>7
<1> QED
  BY <1>1, <1>7, <1>8 DEF StreamInv

(* A step of p that leaves the ring and the indexes alone is only about p.  *)
LEMMA QuietStream ==
    ASSUME StreamInv, NEW p \in Readers, UNCHANGED <<pread, pwrite, ring, fed, fpc, scan, todo>>,
           \A q \in Readers \ {p} :
              /\ pc'[q] = pc[q] /\ readd'[q] = readd[q] /\ left'[q] = left[q] /\ last'[q] = last[q]
              /\ (q \in broken' <=> q \in broken) /\ (q \in skipped' <=> q \in skipped),
           p \notin skipped' => p \notin broken' /\ (pc'[p] \in Placed => Intact(p)' /\ Clear(p)')
    PROVE  StreamInv'
<1>1. ASSUME NEW q \in Readers \ {p}, q \notin skipped'
      PROVE  q \notin broken' /\ (pc'[q] \in Placed => Intact(q)' /\ Clear(q)')
  <2>1. q \notin skipped /\ q \notin broken' /\ (pc[q] \in Placed => Intact(q) /\ Clear(q))
    BY <1>1 DEF StreamInv
  <2> QED
    BY <2>1, StreamKept
<1> QED
  BY <1>1 DEF StreamInv

LEMMA OpenStream ==
    ASSUME Types, StreamInv, NEW p \in Readers,
           OpenTest(p) \/ OpenFull(p) \/ OpenSet(p) \/ OpenCount(p) \/ Metadata(p)
    PROVE  StreamInv'
<1>1. /\ UNCHANGED <<pread, pwrite, ring, fed, fpc, scan, todo, left, last, broken, skipped>>
      /\ \A q \in Readers \ {p} : pc'[q] = pc[q] /\ readd'[q] = readd[q]
  BY DEF OpenTest, OpenFull, OpenSet, OpenCount, Metadata, Go, shared, feeder, history, record, Types, TypeOK
<1>2. ASSUME p \notin skipped
      PROVE  p \notin broken /\ (pc'[p] \in Placed => Intact(p)' /\ Clear(p)')
  <2>1. p \notin broken
    BY <1>2 DEF StreamInv
  <2>2. CASE OpenCount(p) \/ Metadata(p)
    <3>1. pc[p] \in {"count", "meta"} /\ pc'[p] \in {"meta", "loop"} /\ readd'[p] = readd[p]
      BY <2>2 DEF OpenCount, Metadata, Go, Types, TypeOK
    <3>2. Intact(p) /\ Clear(p)
      BY <1>2, <3>1 DEF StreamInv, Placed
    <3> QED
      BY <1>1, <2>1, <3>1, <3>2, StreamKept
  <2>3. CASE ~(OpenCount(p) \/ Metadata(p))
    <3>1. pc'[p] \notin Placed
      BY <2>3 DEF OpenTest, OpenFull, OpenSet, Go, Placed, Types, TypeOK
    <3> QED
      BY <2>1, <3>1
  <2> QED
    BY <2>2, <2>3
<1> QED
  BY <1>1, <1>2, QuietStream

(* A reader that takes its place has nothing waiting, and its bit is its    *)
(* own: no other reader is moved.                                           *)
LEMMA PlaceStream ==
    ASSUME Types, CensusInv, StreamInv, NEW p \in Readers, OpenPlace(p)
    PROVE  StreamInv'
<1>1. /\ UNCHANGED <<pwrite, ring, fed, fpc, scan, todo, readd, left, broken, skipped>>
      /\ pc[p] = "place" /\ pc' = [pc EXCEPT ![p] = "count"]
      /\ pread' = [pread EXCEPT ![readd[p]] = pwrite] /\ last' = [last EXCEPT ![p] = fed]
  BY DEF OpenPlace, Go, feeder
<1>2. /\ readd[p] \in Descs /\ pwrite \in Index /\ todo \in Index /\ fed \in Nat
      /\ last'[p] = fed /\ pc'[p] = "count" /\ pread'[readd'[p]] = pwrite
  BY <1>1, RingAssumption DEF Types, TypeOK, Locals
<1>3. ASSUME NEW q \in Readers \ {p}, q \notin skipped
      PROVE  q \notin broken /\ (pc'[q] \in Placed => Intact(q)' /\ Clear(q)')
  <2>1. q \notin broken /\ pc'[q] = pc[q] /\ last'[q] = last[q]
    BY <1>1, <1>3 DEF StreamInv, Types, TypeOK, Locals
  <2>2. ASSUME pc[q] \in Placed
        PROVE  Intact(q)' /\ Clear(q)'
    <3>1. Intact(q) /\ Clear(q)
      BY <1>3, <2>2 DEF StreamInv
    <3>2. readd[q] # readd[p] /\ readd[q] \in Descs
      BY <1>1, <2>2, PlacedBit
    <3>3. pread'[readd[q]] = pread[readd[q]]
      BY <1>1, <3>2 DEF Types, TypeOK
    <3> QED
      BY <1>1, <2>1, <3>1, <3>3, StreamKept
  <2> QED
    BY <2>1, <2>2
<1>4. Avail(pread[readd[p]])' = 0
  BY <1>1, <1>2, RingAssumption DEF Avail, Index
<1>5. Intact(p)'
  <2>1. \A k \in Index : Off(pwrite, k) >= 0
    BY <1>2, OffValue, RingAssumption DEF Index
  <2> QED
    BY <1>1, <1>2, <1>4, <2>1, RingAssumption DEF Intact, Off, Index
<1>6. Clear(p)'
  <2>2. fpc = "keep" => 0 <= scan.cur
    BY RingAssumption DEF Types, Locals, Scans, Index
  <2>1. 0 + todo <= size - 1
    BY <1>2, RingAssumption DEF Index
  <2> QED
    BY <1>1, <1>2, <1>3, <1>4, <2>1, <2>2 DEF Clear, Seen
<1>7. p \notin skipped => p \notin broken
  BY DEF StreamInv
<1> QED
  BY <1>1, <1>3, <1>5, <1>6, <1>7 DEF StreamInv

LEMMA LoopStream ==
    ASSUME Types, CensusInv, StreamInv, NEW p \in Readers, Loop(p) \/ WriteAgain(p)
    PROVE  StreamInv'
<1>1. /\ UNCHANGED <<pread, pwrite, ring, fed, fpc, scan, todo, readd, last, broken, skipped>>
      /\ \A q \in Readers \ {p} : pc'[q] = pc[q] /\ left'[q] = left[q]
      /\ pc[p] \in Placed
  BY DEF Loop, WriteAgain, Go, Placed, shared, feeder, history, record, Types, TypeOK
<1>2. ASSUME p \notin skipped
      PROVE  p \notin broken /\ Intact(p)' /\ Clear(p)'
  <2>1. p \notin broken /\ Intact(p) /\ Clear(p)
    BY <1>1, <1>2 DEF StreamInv
  <2>2. CASE WriteAgain(p)
    <3>1. pc'[p] = "loop"
      BY <2>2 DEF WriteAgain, Go, Types, TypeOK
    <3> QED
      BY <1>1, <2>1, <3>1, StreamKept
  <2>3. CASE Loop(p)
    <3>1. left'[p] = Avail(pread[readd[p]]) /\ Avail(pread[readd[p]]) \in Int
      BY <1>1, <2>3, PlacedBit, RingAssumption DEF Loop, Types, TypeOK, Index
    <3>2. Avail(pread[readd[p]])' = Avail(pread[readd[p]])
      BY <1>1 DEF Avail
    <3>3. Intact(p)'
      BY <1>1, <2>1, <3>2 DEF Intact
    <3>4. Clear(p)'
      BY <1>1, <2>1, <3>1, <3>2 DEF Clear, Seen
    <3> QED
      BY <2>1, <3>3, <3>4
  <2> QED
    BY <2>2, <2>3
<1> QED
  BY <1>1, <1>2, QuietStream

LEMMA CloseStream ==
    ASSUME Types, StreamInv, NEW p \in Readers,
           Close(p) \/ CloseClear(p) \/ CloseCount(p) \/ MetadataFails(p)
    PROVE  StreamInv'
<1>1. /\ UNCHANGED <<pread, pwrite, ring, fed, fpc, scan, todo>>
      /\ \A q \in Readers \ {p} : /\ pc'[q] = pc[q] /\ left'[q] = left[q] /\ readd'[q] = readd[q]
                                  /\ last'[q] = last[q]
      /\ pc'[p] \notin Placed
  BY DEF Close, CloseClear, CloseCount, MetadataFails, Go, Placed, shared, feeder, history, record,
         Types, TypeOK, Locals
<1>2. \/ broken' = broken /\ skipped' = skipped
      \/ broken' = broken \ {p} /\ skipped' = skipped \ {p}
  BY DEF Close, CloseClear, CloseCount, MetadataFails, history, record
<1>3. p \notin skipped' => p \notin broken'
  BY <1>2 DEF StreamInv
<1> QED
  BY <1>1, <1>2, <1>3, QuietStream

LEMMA StreamStep ==
    ASSUME Types, CensusInv, ScanInv, StreamInv, [Next]_vars
    PROVE  StreamInv'
<1>1. CASE Poll
  <2>1. /\ UNCHANGED <<pread, pwrite, ring, fed, pc, readd, left, last, broken, skipped>>
        /\ fpc' = "scan" /\ scan'.i = 0
    BY <1>1 DEF Poll, NoScan, shared, locals, history, record
  <2>2. SUFFICES ASSUME NEW p \in Readers, p \notin skipped, pc[p] \in Placed
                 PROVE  Clear(p)'
    BY <2>1 DEF StreamInv, Intact, Avail
  <2>3. ~(readd[p] < 0) /\ Clear(p)
    BY <2>2, PlacedBit, RingAssumption DEF StreamInv, Descs
  <2> QED
    BY <2>1, <2>3 DEF Clear, Seen, Avail
<1>2. CASE CommandEnds \/ UNCHANGED vars
  <2>1. UNCHANGED <<pread, pwrite, ring, fed, fpc, scan, todo, pc, readd, left, last, broken, skipped>>
    BY <1>2 DEF CommandEnds, vars, shared, feeder, locals, history, record
  <2> QED
    BY <2>1 DEF StreamInv, Intact, Clear, Seen, Avail
<1> QED
  BY <1>1, <1>2, ScanStream, ReadStream, WriteStream, OpenStream, PlaceStream, LoopStream, CloseStream
     DEF Next, Feeder, Serve, Send

-----------------------------------------------------------------------------
(* The theorems.                                                            *)

LEMMA InitInvariant == Init => IInv
<1> SUFFICES ASSUME Init PROVE IInv
  OBVIOUS
<1>1. Types
  BY InitTypes
<1>2. ScanInv /\ StreamInv
  BY DEF Init, ScanInv, Scanning, StreamInv, Placed
<1>3. CensusInv
  <2>1. Holding = {} /\ Counted = {}
    BY DEF Init, Holding, Counted
  <2> QED
    BY <2>1, FS_EmptySet DEF Init, CensusInv
<1> QED
  BY <1>1, <1>2, <1>3 DEF IInv, Types

LEMMA StepInvariant == IInv /\ [Next]_vars => IInv'
<1> SUFFICES ASSUME IInv, [Next]_vars PROVE IInv'
  OBVIOUS
<1>1. Types /\ ScanInv
  BY DEF IInv, Types
<1>2. Types' /\ ScanInv'
  BY <1>1, StepTypes, ScanStep
<1>3. ASSUME ~raced' PROVE CensusInv' /\ StreamInv'
  <2>1. CensusInv /\ StreamInv
    BY <1>3, RacedStays DEF IInv
  <2> QED
    BY <1>1, <1>3, <2>1, CensusStep, StreamStep
<1> QED
  BY <1>2, <1>3 DEF IInv, Types

LEMMA RingInvariant == Spec => []IInv
  BY InitInvariant, StepInvariant, PTL DEF Spec

(* Each bit belongs to one reader, or was left behind by one.               *)
LEMMA BitsOfReaders ==
    ASSUME Types, CensusInv
    PROVE  /\ IsFiniteSet(Holding) /\ Cardinality(Holding) \in Nat
           /\ IsFiniteSet(readers) /\ Cardinality(leaked) \in Nat
           /\ Cardinality(readers) = Cardinality(Holding) + Cardinality(leaked)
<1>1. IsFiniteSet(Holding) /\ Cardinality(Holding) \in Nat
  <2>1. Holding \in SUBSET Readers
    BY DEF Holding
  <2> QED
    BY <2>1, ReadersFinite
<1> DEFINE f == [p \in Holding |-> readd[p]]
           Own == {readd[p] : p \in Holding}
<1>2. /\ readers = Own \cup leaked /\ Own \cap leaked = {}
      /\ \A p, q \in Holding : readd[p] = readd[q] => p = q
  BY DEF CensusInv
<1>3. f \in [Holding -> Own]
  OBVIOUS
<1>4. f \in Injection(Holding, Own)
  BY <1>2, <1>3 DEF Injection, IsInjective
<1>5. f \in Surjection(Holding, Own)
  BY <1>3 DEF Surjection
<1>6. ExistsBijection(Holding, Own)
  BY <1>4, <1>5 DEF ExistsBijection, Bijection
<1>7. IsFiniteSet(Own) /\ Cardinality(Own) = Cardinality(Holding)
  BY <1>1, <1>6, FS_Bijection
<1>8. IsFiniteSet(leaked) /\ Cardinality(leaked) \in Nat
  BY LeakedFinite
<1> HIDE DEF Own
<1>9. /\ IsFiniteSet(Own \cup leaked)
      /\ Cardinality(Own \cup leaked) = Cardinality(Own) + Cardinality(leaked) - Cardinality(Own \cap leaked)
  BY <1>7, <1>8, FS_Union
<1>10. Cardinality(Own \cap leaked) = 0
  BY <1>2, FS_EmptySet
<1> QED
  BY <1>1, <1>2, <1>7, <1>8, <1>9, <1>10

(* Holding a bit and being counted differ by those inside open() and        *)
(* close().                                                                 *)
LEMMA CountOfReaders ==
    Cardinality(Counted) = Cardinality(Holding) + Cardinality({p \in Readers : pc[p] \in {"uncount"}})
                           - Cardinality({p \in Readers : pc[p] \in {"place", "count"}})
<1> DEFINE Both == {p \in Readers : pc[p] \in {"meta", "loop", "write", "write2", "clear"}}
           In == {p \in Readers : pc[p] \in {"place", "count"}}
           Out == {p \in Readers : pc[p] \in {"uncount"}}
<1>1. Both \in SUBSET Readers /\ In \in SUBSET Readers /\ Out \in SUBSET Readers
  OBVIOUS
<1>2. /\ IsFiniteSet(Both) /\ IsFiniteSet(In) /\ IsFiniteSet(Out)
      /\ Cardinality(Both) \in Nat /\ Cardinality(In) \in Nat /\ Cardinality(Out) \in Nat
  BY <1>1, ReadersFinite
<1>3. /\ Holding = Both \cup In /\ Both \cap In = {}
      /\ Counted = Both \cup Out /\ Both \cap Out = {}
  BY DEF Holding, Counted
<1>4. Cardinality({}) = 0
  BY FS_EmptySet
<1> HIDE DEF Both, In, Out
<1>5. /\ Cardinality(Both \cup In) = Cardinality(Both) + Cardinality(In) - Cardinality(Both \cap In)
      /\ Cardinality(Both \cup Out) = Cardinality(Both) + Cardinality(Out) - Cardinality(Both \cap Out)
  BY <1>2, FS_Union
<1>6. /\ Cardinality(Holding) = Cardinality(Both) + Cardinality(In)
      /\ Cardinality(Counted) = Cardinality(Both) + Cardinality(Out)
  <2>1. /\ Cardinality(Holding) = Cardinality(Both \cup In) /\ Cardinality(Both \cap In) = 0
        /\ Cardinality(Counted) = Cardinality(Both \cup Out) /\ Cardinality(Both \cap Out) = 0
    BY <1>3, <1>4, Zenon
  <2> QED
    BY <1>2, <1>5, <2>1
<1>7. Cardinality(Counted) = Cardinality(Holding) + Cardinality(Out) - Cardinality(In)
  BY <1>2, <1>6
<1> QED
  BY <1>7 DEF In, Out

(* Indexes stay inside the ring and descriptors inside the set, for every   *)
(* size of the ring and every number of readers.                            *)
THEOREM RingTypes == Spec => []TypeOK
<1>1. IInv => TypeOK
  BY DEF IInv
<1> QED
  BY <1>1, RingInvariant, PTL

(* As long as no update is lost, the bits of open() and close() and         *)
(* readd_cnt tell the readers that there are and those whose descriptor     *)
(* handlerRequest left open, for any number of them.                        *)
THEOREM ReadersCounted == Spec => []Census
<1>1. IInv => Census
  <2> SUFFICES ASSUME Types, CensusInv PROVE
        LET with(places) == {p \in Readers : pc[p] \in places}
            bits == with({"place", "count", "meta", "loop", "write", "write2", "clear"})
            held == Cardinality(bits) + Cardinality(leaked)
        IN  /\ readers = {readd[p] : p \in bits} \cup leaked
            /\ Cardinality(readers) = held
            /\ readd_cnt = held + Cardinality(with({"uncount"}))
                           - Cardinality(with({"place", "count"}))
    BY DEF IInv, Census, Types
  <2> DEFINE Out == Cardinality({p \in Readers : pc[p] \in {"uncount"}})
             In == Cardinality({p \in Readers : pc[p] \in {"place", "count"}})
  <2>1. /\ readers = {readd[p] : p \in Holding} \cup leaked
        /\ readd_cnt = Cardinality(Counted) + Cardinality(leaked)
    BY DEF CensusInv
  <2>2. Cardinality(Counted) = Cardinality(Holding) + Out - In
    BY CountOfReaders
  <2>3. Cardinality(Holding) \in Nat /\ Cardinality(leaked) \in Nat
        /\ Cardinality(readers) = Cardinality(Holding) + Cardinality(leaked)
    BY BitsOfReaders
  <2>4. Out \in Nat /\ In \in Nat
    BY ReadersFinite
  <2> HIDE DEF Out, In
  <2>5. readd_cnt = Cardinality(Holding) + Cardinality(leaked) + Out - In
    BY <2>1, <2>2, <2>3, <2>4
  <2> QED
    BY <2>1, <2>3, <2>5 DEF Holding, Out, In
<1> QED
  BY <1>1, RingInvariant, PTL

(* A reader has the stream in order, whatever the size of the ring, the     *)
(* number of readers and the order of their steps and the feeder's: unless  *)
(* an update was lost or min_pread() left it out.                           *)
THEOREM StreamInOrder == Spec => []StreamIntact
<1>1. IInv => StreamIntact
  <2> SUFFICES ASSUME StreamInv, TypeOK PROVE broken \subseteq skipped
    BY DEF IInv, StreamIntact
  <2> QED
    BY DEF StreamInv, TypeOK
<1> QED
  BY <1>1, RingInvariant, PTL

(* When no reader is inside open(), readd_cnt is what it was, those that a  *)
(* scan counted still have their bits, and the index kept is the one        *)
(* compared, then the scan does not end before it has seen every reader.    *)
LEMMA ScanSeesAll ==
    ASSUME Types, CensusInv, Scan, skipped' \ skipped # {},
           ~\E q \in Readers : pc[q] \in {"place", "count"},
           readd_cnt = scan.cnt, ~scan.moved
    PROVE  scan.n + 1 > Cardinality({d \in readers : d <= scan.i})
<1> DEFINE i == scan.i
           A == {d \in readers : d <= i}
<1>1. scan.n + 1 >= readd_cnt /\ skipped' = skipped \cup Beyond(i)
  BY DEF Scan, ScanBit, ScanAvail, ScanKeep, ScanSeen, Measured, SeenAll, history, record
<1>2. PICK b \in Beyond(i) : TRUE
  BY <1>1
<1>3. readd[b] \in readers /\ readd[b] > i
  BY <1>2, PlacedBit DEF Beyond
<1>4. scan.n \in Nat /\ i \in Int /\ readers \subseteq Int
  BY RingAssumption DEF Types, TypeOK, Locals, Scans, Descs
<1>5. /\ IsFiniteSet(readers) /\ Cardinality(readers) = Cardinality(Holding) + Cardinality(leaked)
      /\ Cardinality(Holding) \in Nat /\ Cardinality(leaked) \in Nat
  BY BitsOfReaders
<1>6. Cardinality(Counted) >= Cardinality(Holding)
  <2>1. Cardinality({p \in Readers : pc[p] \in {"place", "count"}}) = 0
    <3>1. {p \in Readers : pc[p] \in {"place", "count"}} = {}
      OBVIOUS
    <3> QED
      BY <3>1, FS_EmptySet
  <2>2. Cardinality({p \in Readers : pc[p] \in {"uncount"}}) \in Nat
    BY ReadersFinite
  <2> QED
    BY <1>5, <2>1, <2>2, CountOfReaders
<1>7. A \in SUBSET readers /\ readd[b] \notin A
  <2>1. readd[b] \in Int
    BY <1>3, <1>4
  <2>2. ~(readd[b] <= i)
    BY <1>3, <1>4, <2>1
  <2> QED
    BY <2>2
<1>8. IsFiniteSet(A) /\ Cardinality(A) \in Nat
  BY <1>5, <1>7, FS_Subset, FS_CardinalityType
<1>9. Cardinality(A \cup {readd[b]}) = Cardinality(A) + 1
  BY <1>7, <1>8, FS_AddElement
<1>10. A \cup {readd[b]} \in SUBSET readers
  BY <1>3, <1>7
<1>11. Cardinality(A \cup {readd[b]}) <= Cardinality(readers)
  BY <1>5, <1>10, FS_Subset
<1>12. readd_cnt = Cardinality(Counted) + Cardinality(leaked)
  BY DEF CensusInv
<1>13. Cardinality(Counted) \in Nat
  <2>1. Counted \in SUBSET Readers
    BY DEF Counted
  <2> QED
    BY <2>1, ReadersFinite
<1> QED
  BY <1>1, <1>4, <1>5, <1>6, <1>8, <1>9, <1>11, <1>12, <1>13

(* min_pread() leaves a reader out only while another is inside open(),     *)
(* after readd_cnt changed or a reader that it has counted has closed, or   *)
(* after a reader moved between the two reads of its index: for any number  *)
(* of readers and descriptors.                                              *)
THEOREM SkippedOnlyOnChange == Spec => SkippedOnChange
<1>1. IInv /\ [Next]_vars =>
        [(skipped' \ skipped # {} /\ ~raced) =>
            \/ \E q \in Readers : pc[q] \in {"place", "count"}
            \/ readd_cnt # scan.cnt
            \/ scan.n + 1 > Cardinality({d \in readers : d <= scan.i})
            \/ scan.moved]_vars
  <2> SUFFICES ASSUME IInv, Next, skipped' \ skipped # {}, ~raced,
                      ~\E q \in Readers : pc[q] \in {"place", "count"},
                      readd_cnt = scan.cnt, ~scan.moved
               PROVE  scan.n + 1 > Cardinality({d \in readers : d <= scan.i})
    OBVIOUS
  <2>1. Types /\ CensusInv
    BY DEF IInv, Types
  <2>2. CASE Scan
    BY <2>1, <2>2, ScanSeesAll
  <2>3. CASE skipped' \subseteq skipped
    BY <2>3
  <2> QED
    BY <2>2, <2>3
       DEF Next, Feeder, Serve, Send, Poll, Read, Read2, CommandEnds, OpenTest, OpenFull, OpenSet,
           OpenPlace, OpenCount, Metadata, MetadataFails, Loop, Write, Write2, WriteAgain, Close,
           CloseClear, CloseCount, history, record
<1> QED
  BY <1>1, RingInvariant, PTL DEF Spec, SkippedOnChange
=============================================================================
