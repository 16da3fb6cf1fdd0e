----------------------------- MODULE RingBuffer -----------------------------
(***************************************************************************)
(* URingBuffer, a ring of bytes in memory that processes share, as         *)
(* mod_stream uses it: a feeder process copies a command's output into the *)
(* ring (handlerRun), and every server child that answers a request for    *)
(* the stream is a reader (handlerRequest).  The feeder takes no lock, and *)
(* the lock of the readers does not guard open(), close() or the feeder.   *)
(*                                                                         *)
(* A byte is its number in the stream.  A step is one access to the words  *)
(* that another process changes: pread[i], which min_pread() reads twice,  *)
(* is two.  The bit set and the counter of the readers are changed without *)
(* an atomic instruction: when two processes are at it, one update may be  *)
(* lost.  Copying bytes and moving the index behind them is one step: only *)
(* the owner moves an index, and it does so after the copy.                *)
(***************************************************************************)
EXTENDS Integers, FiniteSets

CONSTANTS
    Readers,    \* processes that read the stream
    FD_SETSIZE, \* descriptors of the ring
    size,       \* bytes of the ring
    MaxBytes,   \* bound: bytes of the stream
    MaxOpens    \* bound: calls of open()

ASSUME RingAssumption ==
    /\ IsFiniteSet(Readers)
    /\ FD_SETSIZE \in Nat \ {0} /\ size \in Nat \ {0, 1}
    /\ MaxBytes \in Nat /\ MaxOpens \in Nat

Descs == 0..FD_SETSIZE - 1
Index == 0..size - 1

VARIABLES
    readers, readd_cnt, pread, pwrite,  \* rbuf_data
    ring,       \* the bytes behind rbuf_data
    fpc, scan,  \* the feeder: where it is, and the locals of min_pread()
    todo,       \* the feeder: bytes it may still read in this call
    nread,      \* the feeder: what readFromFdAndWrite() has read, from -1
    pc,         \* a reader: where it is
    readd,      \* a reader: its descriptor
    left,       \* a reader: bytes it may still write in this call
    fed,        \* bytes of the stream that came
    eof,        \* the command closed its output
    opens,      \* calls of open(), counted against the bound
    last,       \* history: the last byte a reader had, or came before it
    broken,     \* history: readers that had a byte out of order
    skipped,    \* history: readers that a scan of the feeder left out
    leaked,     \* history: descriptors whose reader went without close()
    raced       \* history: an update was lost, or two have one descriptor

shared  == <<readers, readd_cnt, pread, pwrite, ring>>
feeder  == <<fpc, scan, todo, nread, fed, eof>>
locals  == <<pc, readd, left, opens>>
record  == <<last, broken, skipped, leaked>>
history == <<record, raced>>
vars    == <<shared, feeder, locals, history>>

\* i, _readd_cnt, readd_cnt as it was at the start, _avail, min_avail and
\* _min_pread; moved is history: the index kept is not the one compared.
NoScan == [i |-> 0, n |-> 0, cnt |-> 0, cur |-> 0, avail |-> -1, pread |-> 0, moved |-> FALSE]

Init ==
    /\ readers = {} /\ readd_cnt = 0 /\ pread = [d \in Descs |-> 0] /\ pwrite = 0
    /\ ring = [k \in Index |-> 0]
    /\ fpc = "poll" /\ scan = NoScan /\ todo = 0 /\ nread = -1 /\ fed = 0 /\ eof = FALSE
    /\ pc = [p \in Readers |-> "idle"] /\ readd = [p \in Readers |-> -1]
    /\ left = [p \in Readers |-> 0] /\ opens = 0
    /\ last = [p \in Readers |-> 0] /\ broken = {} /\ skipped = {}
    /\ leaked = {} /\ raced = FALSE

-----------------------------------------------------------------------------
(* The arithmetic of the ring.                                              *)

\* The bytes that wait for the reader whose index is r.
Avail(r) == IF pwrite - r < 0 THEN pwrite - r + size ELSE pwrite - r

\* The room up to the index r; one place stays free.
Free(r) == (IF r - pwrite <= 0 THEN r - pwrite + size ELSE r - pwrite) - 1

\* The part of n bytes from index k that lies before the end of the ring, when
\* they go around it, else 0.
Split(k, n) == IF k + n > size THEN size - k ELSE 0

\* Variant with a mistake: the end of the ring is missed.
AdvanceOver(k, n) == IF k + n > size THEN (k + n) % size ELSE k + n
Advance(k, n) == (k + n) % size

-----------------------------------------------------------------------------
(* The feeder.                                                              *)

\* waitForRead(): there is something to read, or the end.
Poll ==
    /\ fpc = "poll" /\ (fed < MaxBytes \/ eof)
    /\ fpc' = "scan" /\ scan' = [NoScan EXCEPT !.cnt = readd_cnt]
    /\ UNCHANGED <<shared, todo, nread, fed, eof, locals, history>>

CommandEnds ==
    /\ ~eof /\ fed = MaxBytes
    /\ eof' = TRUE
    /\ UNCHANGED <<shared, fpc, scan, todo, nread, fed, locals, history>>

\* Readers that have their place: those behind index i of the set, and those
\* with more bytes waiting than the reader whose index is r.
Placed == {"count", "meta", "loop", "write", "write2"}
Beyond(i) == {p \in Readers : pc[p] \in Placed /\ readd[p] > i}
Behind(r) == {p \in Readers : pc[p] \in Placed /\ Avail(pread[readd[p]]) > Avail(r)}

\* The end of min_pread(), in free(): go on with the room there is, or sleep.
\* Left out are the readers that were not looked at, and, when the index kept
\* is not the one compared, those that are behind it.
Measured(unseen) ==
    /\ todo' = Free(scan.pread)
    /\ fpc' = IF Free(scan.pread) = 0 THEN "poll" ELSE "read"
    /\ scan' = NoScan
    /\ skipped' = skipped \cup unseen \cup (IF scan.moved THEN Behind(scan.pread) ELSE {})

\* The tests of min_pread(): a bytes are more than for those seen before, and
\* as many readers are seen as are counted.
\* Variants with a mistake: the first reader counts, or one less is enough.
FartherFirst(a) == scan.avail = -1
Farther(a) == a > scan.avail
SeenOneLess(n, c) == n + 1 >= c
SeenAll(n, c) == n >= c

\* The loop of min_pread(), which looks for the reader with most bytes waiting:
\* the bit of an index, or the end of the set.
ScanBit ==
    /\ fpc = "scan"
    /\ \/ /\ scan.i \in Descs \ readers
          /\ scan' = [scan EXCEPT !.i = @ + 1] /\ UNCHANGED <<fpc, todo, skipped>>
       \/ /\ scan.i \in readers
          /\ fpc' = "avail" /\ UNCHANGED <<scan, todo, skipped>>
       \/ scan.i \notin Descs /\ Measured({})
    /\ UNCHANGED <<shared, nread, fed, eof, locals, last, broken, leaked, raced>>

\* avail(i): the first read of pread[i].
ScanAvail ==
    /\ fpc = "avail"
    /\ LET a == Avail(pread[scan.i])
       IN  scan' = [scan EXCEPT !.cur = a] /\ fpc' = IF Farther(a) THEN "keep" ELSE "seen"
    /\ UNCHANGED <<shared, todo, nread, fed, eof, locals, history>>

\* The second read of pread[i]: its reader may have moved since the first.
ScanKeep ==
    /\ fpc = "keep" /\ fpc' = "seen"
    /\ LET r == pread[scan.i]
       IN  scan' = [scan EXCEPT !.avail = scan.cur, !.pread = r, !.moved = Avail(r) # scan.cur]
    /\ UNCHANGED <<shared, todo, nread, fed, eof, locals, history>>

\* Are readd_cnt readers seen?  readd_cnt is read here, or, the loop storing
\* nothing, was read at its start by what the compiler made of it.
ScanSeen ==
    /\ fpc = "seen"
    /\ \E c \in {readd_cnt, scan.cnt} :
          \/ SeenAll(scan.n + 1, c) /\ Measured(Beyond(scan.i))
          \/ /\ ~SeenAll(scan.n + 1, c)
             /\ scan' = [scan EXCEPT !.i = @ + 1, !.n = @ + 1, !.cur = 0]
             /\ fpc' = "scan" /\ UNCHANGED <<todo, skipped>>
    /\ UNCHANGED <<shared, nread, fed, eof, locals, last, broken, leaked, raced>>

Scan == ScanBit \/ ScanAvail \/ ScanKeep \/ ScanSeen

\* n bytes from the command are written from pwrite on.
Take(n) ==
    /\ ring' = [k \in Index |-> IF \E j \in 0..n - 1 : k = Advance(pwrite, j)
                                THEN fed + 1 + ((k - pwrite + size) % size) ELSE ring[k]]
    /\ fed' = fed + n /\ pwrite' = Advance(pwrite, n)

\* readFromFdAndWrite() returns n: 0 is taken for the end, less for EAGAIN.
Returns(n) ==
    fpc' = (IF n = 0 THEN "stopped" ELSE "poll") /\ todo' = 0 /\ nread' = -1

\* read() up to the end of the ring, or, when the room does not go around, of
\* all the room; nread is then still -1 before it is added to.
Read ==
    /\ fpc = "read"
    /\ LET split == Split(pwrite, todo)
       IN  \/ \E n \in 1..(IF split > 0 THEN split ELSE todo) :
                 /\ fed + n <= MaxBytes /\ Take(n)
                 /\ \/ split = 0 /\ Returns(nread + n)
                    \/ 0 < split /\ n < split /\ Returns(n)
                    \/ n = split /\ fpc' = "read2" /\ todo' = todo - n /\ nread' = n
           \/ /\ eof \* read() returns 0
              /\ Returns(IF split > 0 THEN 0 ELSE nread)
              /\ UNCHANGED <<ring, fed, pwrite>>
    /\ UNCHANGED <<readers, readd_cnt, pread, scan, eof, locals, history>>

\* The second read(), from the start of the ring: that it fails is not seen.
Read2 ==
    /\ fpc = "read2"
    /\ \/ \E n \in 1..todo : fed + n <= MaxBytes /\ Take(n) /\ Returns(nread + n)
       \/ Returns(nread) /\ UNCHANGED <<ring, fed, pwrite>>
    /\ UNCHANGED <<readers, readd_cnt, pread, scan, eof, locals, history>>

-----------------------------------------------------------------------------
(* A reader.                                                                *)

\* Inside open() or close().
Window(p) == pc[p] \in {"set", "place", "count", "clear", "uncount"}

Go(p, where) == pc' = [pc EXCEPT ![p] = where]

\* An update of a shared word, from old to new, by p: it takes effect, or not
\* when another process is at the same word.
Updated(p, word, old, new, places) ==
    \/ word = new /\ UNCHANGED raced
    \/ /\ \E q \in Readers \ {p} : pc[q] \in places
       /\ word = old /\ raced' = TRUE

\* open() tests the bits, and takes the first that is clear.
OpenTest(p) ==
    /\ pc[p] = "idle" /\ opens < MaxOpens
    /\ opens' = opens + 1
    /\ \E d \in Descs \ readers :
          /\ \A c \in Descs : c < d => c \in readers
          /\ readd' = [readd EXCEPT ![p] = d]
    /\ Go(p, "set")
    /\ UNCHANGED <<shared, feeder, left, history>>

\* open() finds none.
OpenFull(p) ==
    /\ pc[p] = "idle" /\ opens < MaxOpens /\ Descs \subseteq readers
    /\ opens' = opens + 1
    /\ UNCHANGED <<shared, feeder, pc, readd, left, history>>

OpenSet(p) ==
    /\ pc[p] = "set"
    /\ \/ readd[p] \notin readers
          /\ Updated(p, readers', readers, readers \cup {readd[p]}, {"set", "clear"})
       \/ readd[p] \in readers /\ raced' = TRUE /\ UNCHANGED readers
    /\ Go(p, "place")
    /\ UNCHANGED <<readd_cnt, pread, pwrite, ring, feeder, readd, left, opens, record>>

OpenPlace(p) ==
    /\ pc[p] = "place"
    /\ pread' = [pread EXCEPT ![readd[p]] = pwrite]
    /\ last' = [last EXCEPT ![p] = fed]
    /\ Go(p, "count")
    /\ UNCHANGED <<readers, readd_cnt, pwrite, ring, feeder, readd, left, opens,
                   broken, skipped, leaked, raced>>

\* readd_cnt++
OpenCount(p) ==
    /\ pc[p] = "count"
    /\ Updated(p, readd_cnt', readd_cnt, readd_cnt + 1, {"count", "uncount"})
    /\ Go(p, "meta")
    /\ UNCHANGED <<readers, pread, pwrite, ring, feeder, readd, left, opens, record>>

\* handlerRequest after open(): the headers of the stream are sent, if there
\* are any.
Metadata(p) ==
    /\ pc[p] = "meta" /\ Go(p, "loop")
    /\ UNCHANGED <<shared, feeder, readd, left, opens, history>>

\* They cannot be sent: the request ends, and the descriptor is not closed.
MetadataFails(p) ==
    /\ pc[p] = "meta" /\ Go(p, "idle")
    /\ readd' = [readd EXCEPT ![p] = -1] /\ last' = [last EXCEPT ![p] = 0]
    /\ broken' = broken \ {p} /\ skipped' = skipped \ {p}
    /\ leaked' = leaked \cup {readd[p]}
    /\ UNCHANGED <<shared, feeder, left, opens, raced>>

\* Variant with a mistake: bytes before the index are not seen.
SomeAhead(p) == pwrite > pread[readd[p]]
NotEmpty(p) == pwrite # pread[readd[p]]

\* The loop of handlerRequest: when the ring is not empty, readAndWriteToFd().
Loop(p) ==
    /\ pc[p] = "loop" /\ NotEmpty(p)
    /\ left' = [left EXCEPT ![p] = Avail(pread[readd[p]])]
    /\ Go(p, "write")
    /\ UNCHANGED <<shared, feeder, readd, opens, history>>

\* n bytes from pread on go to the client.
Deliver(p, n) ==
    LET d == readd[p]
        ordered == p \notin broken /\ \A j \in 0..n - 1 : ring[Advance(pread[d], j)] = last[p] + 1 + j
    IN  /\ pread' = [pread EXCEPT ![d] = Advance(pread[d], n)]
        /\ last' = [last EXCEPT ![p] = IF ordered THEN last[p] + n ELSE 0]
        /\ broken' = IF ordered THEN broken ELSE broken \cup {p}

\* write() up to the end of the ring, or of all; a second one follows when the
\* first, up to the end, was not short.
Write(p) ==
    /\ pc[p] = "write"
    /\ LET split == Split(pread[readd[p]], left[p])
       IN  \E n \in 1..(IF split > 0 THEN split ELSE left[p]) :
              /\ Deliver(p, n)
              /\ Go(p, IF n = split THEN "write2" ELSE "loop")
              /\ left' = [left EXCEPT ![p] = IF n = split THEN left[p] - n ELSE 0]
    /\ UNCHANGED <<readers, readd_cnt, pwrite, ring, feeder, readd, opens, skipped, leaked, raced>>

Write2(p) ==
    /\ pc[p] = "write2"
    /\ \E n \in 1..left[p] : Deliver(p, n)
    /\ Go(p, "loop") /\ left' = [left EXCEPT ![p] = 0]
    /\ UNCHANGED <<readers, readd_cnt, pwrite, ring, feeder, readd, opens, skipped, leaked, raced>>

\* write() has EAGAIN; that the second write() fails is not seen.
WriteAgain(p) ==
    /\ pc[p] \in {"write", "write2"}
    /\ Go(p, "loop") /\ left' = [left EXCEPT ![p] = 0]
    /\ UNCHANGED <<shared, feeder, readd, opens, history>>

\* close(): the client is gone and write() fails, or the server ends (flag_loop).
Close(p) ==
    /\ pc[p] \in {"loop", "write"}
    /\ Go(p, "clear") /\ left' = [left EXCEPT ![p] = 0]
    /\ UNCHANGED <<shared, feeder, readd, opens, history>>

CloseClear(p) ==
    /\ pc[p] = "clear"
    /\ Updated(p, readers', readers, readers \ {readd[p]}, {"set", "clear"})
    /\ readd' = [readd EXCEPT ![p] = -1] /\ last' = [last EXCEPT ![p] = 0]
    /\ broken' = broken \ {p} /\ skipped' = skipped \ {p}
    /\ Go(p, "uncount")
    /\ UNCHANGED <<readd_cnt, pread, pwrite, ring, feeder, left, opens, leaked>>

\* readd_cnt--
\* Variant with a mistake: it is not done.
CloseCountsNot(p) ==
    /\ pc[p] = "uncount"
    /\ Go(p, "idle")
    /\ UNCHANGED <<shared, feeder, readd, left, opens, history>>
CloseCount(p) ==
    /\ pc[p] = "uncount"
    /\ Updated(p, readd_cnt', readd_cnt, readd_cnt - 1, {"count", "uncount"})
    /\ Go(p, "idle")
    /\ UNCHANGED <<readers, pread, pwrite, ring, feeder, readd, left, opens, record>>

Feeder == Poll \/ Scan \/ Read \/ Read2
Serve(p) == OpenSet(p) \/ OpenPlace(p) \/ OpenCount(p) \/ Metadata(p)
            \/ Loop(p) \/ CloseClear(p) \/ CloseCount(p)
Send(p) == Write(p) \/ Write2(p)

Next ==
    \/ Feeder \/ CommandEnds
    \/ \E p \in Readers : \/ Serve(p) \/ Send(p)
                          \/ OpenTest(p) \/ OpenFull(p) \/ WriteAgain(p) \/ Close(p)
                          \/ MetadataFails(p)

Spec == Init /\ [][Next]_vars

\* The processes run, and the clients keep reading.
FairSpec == /\ Spec /\ WF_vars(Feeder)
            /\ \A p \in Readers : WF_vars(Serve(p)) /\ SF_vars(Send(p))

-----------------------------------------------------------------------------
(* What is correct.                                                         *)

\* The type invariant: indexes stay inside the ring.
TypeOK ==
    /\ readers \subseteq Descs /\ readd_cnt \in Int
    /\ pread \in [Descs -> Index] /\ pwrite \in Index
    /\ ring \in [Index -> 0..MaxBytes] /\ fed \in 0..MaxBytes /\ eof \in BOOLEAN
    /\ fpc \in {"poll", "scan", "avail", "keep", "seen", "read", "read2", "stopped"} /\ todo \in Index
    /\ nread \in -1..size
    /\ pc \in [Readers -> {"idle", "set", "place", "count", "meta", "loop", "write",
                           "write2", "clear", "uncount"}]
    /\ readd \in [Readers -> Descs \cup {-1}] /\ left \in [Readers -> Index]
    /\ opens \in 0..MaxOpens /\ broken \subseteq Readers /\ skipped \subseteq Readers
    /\ leaked \subseteq Descs

\* A reader has every byte of the stream from where it began, in order, however
\* the feeder and the other readers run: unless an update of the bits or of the
\* counter was lost, two opens had one descriptor, or min_pread() left this
\* reader out, which SkippedOnChange limits.
StreamIntact ==
    raced \/ broken \subseteq skipped

\* min_pread() leaves a reader out only while another process is inside open(),
\* where its bit is set and readd_cnt does not count it yet, after readd_cnt
\* changed since the scan began, after a reader that the scan has counted is
\* gone from the bits, or when the index kept is not the one compared, because
\* its reader moved between the two reads of pread[i].
SkippedOnChange ==
    [][(skipped' \ skipped # {} /\ ~raced) =>
          \/ \E q \in Readers : pc[q] \in {"place", "count"}
          \/ readd_cnt # scan.cnt
          \/ scan.n + 1 > Cardinality({d \in readers : d <= scan.i})
          \/ scan.moved]_vars

\* The bits and the counter tell the readers that there are, each with a
\* descriptor of its own, and the descriptors that were left open, up to those
\* inside open() or close().
Census ==
    ~raced => LET with(places) == {p \in Readers : pc[p] \in places}
                  bits == with({"place", "count", "meta", "loop", "write", "write2", "clear"})
                  held == Cardinality(bits) + Cardinality(leaked)
              IN  /\ readers = {readd[p] : p \in bits} \cup leaked
                  /\ Cardinality(readers) = held
                  /\ readd_cnt = held + Cardinality(with({"uncount"}))
                                 - Cardinality(with({"place", "count"}))

\* The feeder is not held up by the ring: as long as there are readers whose
\* clients read, the whole stream goes through, unless a descriptor was left
\* open, whose index nobody moves, or the feeder takes a call that read one byte
\* for the end and stops.  (Without readers it waits at the last place of the
\* ring, because min_pread() is then 0.)
StreamFed ==
    []<>(fed = MaxBytes \/ fpc = "stopped" \/ readers = {} \/ leaked # {} \/ raced)
=============================================================================
