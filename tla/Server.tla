------------------------------- MODULE Server -------------------------------
(***************************************************************************)
(* One preforked child of UServer_Base: the loop of runLoop(), the events  *)
(* of UNotifier (epoll build), the accept loop of UServer_Base::handlerRead*)
(* (edge triggered, as in a build without SSL and with                     *)
(* U_HTTP_CACHE_REQUEST, the default) and the life of a                    *)
(* connection in a UClientImage_Base object, which is one of the           *)
(* preallocated slots and is used again for the next client.               *)
(*                                                                         *)
(* The process is single threaded: an action is a handler, or one turn of  *)
(* the accept loop.  Clients, the kernel and the clock run between them.   *)
(* A file that sendfile() sends has a size in parts; the connections of    *)
(* the kernel keep what a handler can see of them.                         *)
(***************************************************************************)
EXTENDS Integers, FiniteSets

CONSTANTS
    max_connection, \* UNotifier::max_connection after init()
    Burst,          \* turns of the accept loop for one event: 1000 in the code
    Idle,           \* REQ_TIMEOUT in ticks of the clock, 0 for none
    Parts,          \* parts of a file, which sendfile() sends by one or more
    MaxEvents,      \* bound: clients that connect, peers that go away, and
                    \* accept() calls that fail with clients waiting
    MaxFiles        \* bound: handlers that begin to send a file

ASSUME ServerAssumption ==
    /\ max_connection \in Nat \ {0, 1}
    /\ Burst \in Nat \ {0}
    /\ Idle \in Nat /\ Parts \in Nat \ {0}
    /\ MaxEvents \in Nat /\ MaxFiles \in Nat

min_connection == 1         \* the listening socket; no inotify handler
Slots  == 1..max_connection \* vClientImage
Fds    == 1..max_connection \* descriptors the kernel gives to connections
Server == 0                 \* pthis, the UEventFd of the listening socket

READ  == "U_READ_IN"        \* level triggered
WRITE == "U_WRITE_OUT"      \* EPOLLOUT | EPOLLET

VARIABLES
    num_connection, \* unsigned in the code: below 0 is above every bound
    fd,             \* UEventFd::fd of a slot, 0 when it is free
    image,          \* the rest of a slot: op_mask, count, bclose, age and dry
    lo_map_fd,      \* from descriptors to slots, 0 for none; with hi_map_fd
    pClientIndex,   \* where the accept loop looks for a free slot
    pc,             \* "wait" in epoll_wait, "dispatch", "accept", or "exit"
    batch,          \* events of the last epoll_wait that are not dispatched yet
    counter,        \* turns of the accept loop
    sock,           \* kernel: connections by descriptor
    epoll,          \* kernel: interest list by descriptor
    backlog,        \* kernel: clients that wait for accept
    edge,           \* kernel: the listening socket has an event to report
    quiet,          \* ticks in the present epoll_wait, at most Idle
    events, files,  \* counted against the bounds
    ghosts,         \* history: closes of slots that were free
    undrained       \* history: the accept loop returned with clients waiting

kernel == <<sock, epoll>>
loop   == <<pClientIndex, pc, batch, counter>>
listen == <<backlog, edge, undrained>>
vars   == <<num_connection, fd, image, lo_map_fd, kernel, loop, listen, quiet,
            events, files, ghosts>>

\* in: bytes to read; hup: the peer is gone; room: sendfile() can send; out:
\* room came since the last report of an edge-triggered write.
Shut == [open |-> FALSE, in |-> FALSE, hup |-> FALSE, room |-> FALSE, out |-> FALSE]
NoInterest == [ptr |-> 0, mask |-> READ]

\* dry is history: the file of sendfile() has, or is, less than count.
Fresh == [op_mask |-> READ, count |-> 0, bclose |-> FALSE, age |-> 0, dry |-> FALSE]

Busy == {s \in Slots : fd[s] # 0}

Init ==
    /\ num_connection = min_connection
    /\ fd = [s \in Slots |-> 0] /\ image = [s \in Slots |-> Fresh]
    /\ lo_map_fd = [f \in Fds |-> 0]
    /\ sock = [f \in Fds |-> Shut] /\ epoll = [f \in Fds |-> NoInterest]
    /\ pClientIndex = 1 /\ pc = "wait" /\ batch = {} /\ counter = 0
    /\ backlog = 0 /\ edge = FALSE /\ undrained = FALSE /\ quiet = 0
    /\ events = 0 /\ files = 0 /\ ghosts = 0

-----------------------------------------------------------------------------
(* The environment: clients, the kernel and the clock.                      *)

\* An event that is bounded happens, or not.
Counted(happens) ==
    /\ happens => events < MaxEvents
    /\ events' = IF happens THEN events + 1 ELSE events

\* A client reaches the listening socket, which reports it once.
Connect ==
    /\ Counted(TRUE)
    /\ backlog' = backlog + 1 /\ edge' = TRUE /\ undrained' = FALSE
    /\ UNCHANGED <<num_connection, fd, image, lo_map_fd, kernel, loop, quiet,
                   files, ghosts>>

PeerStep(f, c) ==
    /\ sock[f].open
    /\ sock' = [sock EXCEPT ![f] = c]
    /\ UNCHANGED <<num_connection, fd, image, lo_map_fd, epoll, loop, listen, quiet,
                   files, ghosts>>

\* The peer of a connection sends a request, closes, or reads, which makes room.
ClientSends(f) ==
    /\ ~sock[f].in /\ ~sock[f].hup
    /\ PeerStep(f, [sock[f] EXCEPT !.in = TRUE]) /\ UNCHANGED events

ClientCloses(f) ==
    /\ ~sock[f].hup
    /\ PeerStep(f, [sock[f] EXCEPT !.hup = TRUE]) /\ Counted(TRUE)

ClientReads(f) ==
    /\ ~sock[f].room
    /\ PeerStep(f, [sock[f] EXCEPT !.room = TRUE, !.out = (epoll[f].mask = WRITE)])
    /\ UNCHANGED events

Older(n) == IF n < Idle THEN n + 1 ELSE Idle

Tick ==
    /\ \/ \E s \in Busy : image[s].age < Idle
       \/ pc = "wait" /\ quiet < Idle
    /\ image' = [s \in Slots |-> IF s \in Busy
                                 THEN [image[s] EXCEPT !.age = Older(image[s].age)]
                                 ELSE image[s]]
    /\ quiet' = IF pc = "wait" THEN Older(quiet) ELSE quiet
    /\ UNCHANGED <<num_connection, fd, lo_map_fd, kernel, loop, listen, events, files,
                   ghosts>>

-----------------------------------------------------------------------------
(* The handlers of a connection, from the image i of its slot and its       *)
(* connection c to what they may leave behind.                              *)

\* mod: UNotifier::modify was called; file: a file was begun.
Outcome(r, i, c, m) == [ret |-> r, image |-> i, sock |-> c, mod |-> m, file |-> FALSE]

\* A part v of the file is sent and more is to come; c is the socket after it.
\* What was a reader becomes a writer.
PartSent(i, c, v) ==
    Outcome("OK", [i EXCEPT !.count = i.count - v, !.op_mask = WRITE], c, i.op_mask = READ)

\* The socket is full.
\* Variant with a mistake: it has room for more.
SentPartOnly(i, c, v) == PartSent(i, c, v)
SentPart(i, c, v) == PartSent(i, [c EXCEPT !.room = FALSE], v)

\* The file ends before count: less is sent than there is room for, or nothing,
\* which counts as EAGAIN when that is the errno of an earlier call.
SentShort(i, c) ==
    LET j == [i EXCEPT !.dry = TRUE]
    IN  {Outcome("OK", j, c, FALSE)} \cup {PartSent(j, c, v) : v \in 1..i.count - 1}

\* The rest is sent.  When the response closes the connection, op_mask stays what
\* it was; otherwise what was a writer becomes a reader.
\* Variant with a mistake: the kernel is not told.
SentAllForgets(i, c) ==
    IF i.bclose THEN Outcome("DELETE", [i EXCEPT !.count = 0, !.bclose = FALSE], c, FALSE)
                ELSE Outcome("OK", [i EXCEPT !.count = 0, !.op_mask = READ], c, FALSE)
SentAll(i, c) ==
    IF i.bclose THEN Outcome("DELETE", [i EXCEPT !.count = 0, !.bclose = FALSE], c, FALSE)
                ELSE Outcome("OK", [i EXCEPT !.count = 0, !.op_mask = READ], c,
                             i.op_mask = WRITE)

\* UClientImage_Base::handlerWrite.
handlerWrite(i, c) ==
    LET fails == {Outcome("DELETE", i, c, FALSE)}
        again == IF i.count = 0 \/ ~c.room THEN {Outcome("OK", i, c, FALSE)} ELSE {}
        sends == IF i.count > 0 /\ c.room
                 THEN {SentAll(i, c)} \cup {SentPart(i, c, v) : v \in 1..i.count - 1}
                      \cup SentShort(i, c)
                 ELSE {}
    IN  fails \cup again \cup sends

\* A request begins: sfd and bclose are reset, count is not.  A file that was
\* pending is then read from descriptor 0, which has what it has.
Begin(i) == [i EXCEPT !.bclose = FALSE, !.age = 0, !.dry = (i.count > 0)]

\* One request: it fails, its answer fits, it waits for more, or it is answered
\* with a file; a file that is pending is written on.
Request(i, c) ==
    LET j == Begin(i)
        header  == IF i.op_mask = WRITE THEN {c} ELSE {c, [c EXCEPT !.room = FALSE]}
        pending == IF i.count > 0 THEN {j} ELSE {}
        file    == IF files < MaxFiles
                   THEN {[j EXCEPT !.count = Parts, !.bclose = b, !.dry = FALSE] :
                            b \in BOOLEAN}
                   ELSE {}
        Written(images) == UNION {UNION {handlerWrite(k, h) : k \in images} : h \in header}
    IN  {Outcome("DELETE", j, c, FALSE), Outcome("OK", j, c, FALSE)}
        \cup Written(pending) \cup {[o EXCEPT !.file = TRUE] : o \in Written(file)}

\* What the next request of the same buffer finds after one with outcome o: its
\* failure is passed over.
Passed(o) == [o EXCEPT !.ret = "OK", !.image = Begin(o.image)]
Pipelined(o) ==
    {[p EXCEPT !.mod = p.mod \/ o.mod, !.file = p.file \/ o.file] :
        p \in Request(o.image, o.sock)}

\* UClientImage_Base::handlerRead: nothing to read, the end of the stream, one
\* request, or two in one buffer.
handlerRead(i, c) ==
    IF ~c.open THEN {Outcome("DELETE", i, c, FALSE)}
    ELSE IF ~c.in THEN {Outcome(IF c.hup THEN "DELETE" ELSE "OK", i, c, FALSE)}
    ELSE LET first == Request(i, [c EXCEPT !.in = FALSE])
         IN  first \cup UNION {Pipelined(o) : o \in {Passed(p) : p \in first}}

\* UClientImage_Base::handlerError.
\* Variant with a mistake: it never asks for the deletion.
handlerErrorIgnores(i, c) == {Outcome("OK", i, c, FALSE)}
handlerError(i, c) == {Outcome(IF c.open THEN "DELETE" ELSE "OK", i, c, FALSE)}

\* UClientImage_Base::handlerDelete; the age of a free slot is chosen by the next
\* client.
Deleted(i) == [i EXCEPT !.count = 0, !.bclose = FALSE, !.age = 0, !.dry = FALSE,
                        !.op_mask = IF i.count > 0 THEN READ ELSE i.op_mask]

Conn(s) == IF fd[s] = 0 THEN Shut ELSE sock[fd[s]]

-----------------------------------------------------------------------------
(* UNotifier and the loop of the child.                                     *)

\* UNotifier::handlerDelete of the slots in S, registered ones or a free one:
\* closing a descriptor takes it off the interest list.
handlerDelete(S) ==
    LET closed == {fd[s] : s \in S}
    IN  /\ num_connection' = num_connection - Cardinality(S)
        /\ ghosts' = ghosts + Cardinality(S \ Busy)
        /\ fd' = [s \in Slots |-> IF s \in S THEN 0 ELSE fd[s]]
        /\ lo_map_fd' = [f \in Fds |-> IF f \in closed THEN 0 ELSE lo_map_fd[f]]
        /\ sock' = [f \in Fds |-> IF f \in closed THEN Shut ELSE sock[f]]
        /\ epoll' = [f \in Fds |-> IF f \in closed THEN NoInterest ELSE epoll[f]]

\* EPOLL_CTL_ADD and EPOLL_CTL_MOD report an edge that is there already.
Interest(f, s, i, c) ==
    /\ epoll' = [epoll EXCEPT ![f] = [ptr |-> s, mask |-> i.op_mask]]
    /\ sock' = [sock EXCEPT ![f] = [c EXCEPT !.out = c.room /\ i.op_mask = WRITE]]

\* The outcome o of a handler of slot s: deletion, or what is left, with the
\* interest that UNotifier::modify has set.
handlerResult(s, o) ==
    /\ files' = IF o.file THEN files + 1 ELSE files
    /\ image' = [image EXCEPT ![s] = IF o.ret = "DELETE" THEN Deleted(o.image) ELSE o.image]
    /\ \/ /\ o.ret = "DELETE"
          /\ handlerDelete({s})
       \/ /\ o.ret = "OK" /\ fd[s] # 0
          /\ \/ o.mod /\ Interest(fd[s], s, o.image, o.sock)
             \/ ~o.mod /\ sock' = [sock EXCEPT ![fd[s]] = o.sock] /\ UNCHANGED epoll
          /\ UNCHANGED <<num_connection, fd, lo_map_fd, ghosts>>
       \/ /\ o.ret = "OK" /\ fd[s] = 0
          /\ UNCHANGED <<num_connection, fd, lo_map_fd, kernel, ghosts>>

\* The events that epoll_wait has for descriptor f.
Ready == {f \in Fds : /\ epoll[f].ptr # 0
                      /\ \/ sock[f].hup
                         \/ epoll[f].mask = READ /\ sock[f].in
                         \/ epoll[f].mask = WRITE /\ sock[f].out}
Event(f) == [ptr |-> epoll[f].ptr, bread |-> epoll[f].mask = READ, bexcept |-> sock[f].hup]
Accepting == [ptr |-> Server, bread |-> TRUE, bexcept |-> FALSE]

\* epoll_wait returns what is ready; it is dispatched in any order.
waitForEvent ==
    /\ pc = "wait" /\ (Ready # {} \/ edge)
    /\ batch' = {Event(f) : f \in Ready} \cup (IF edge THEN {Accepting} ELSE {})
    /\ edge' = FALSE /\ quiet' = 0
    /\ sock' = [f \in Fds |-> IF f \in Ready THEN [sock[f] EXCEPT !.out = FALSE] ELSE sock[f]]
    /\ pc' = "dispatch"
    /\ UNCHANGED <<num_connection, fd, image, lo_map_fd, epoll, pClientIndex, counter,
                   backlog, undrained, events, files, ghosts>>

\* There are connections to time out.
\* Variant with a mistake: the last one is not seen.
AnyConnectionButOne == num_connection > min_connection + 1
AnyConnection == num_connection > min_connection \/ num_connection < 0

\* It times out: handlerTime closes every registered connection, and the loop
\* waits again unless nothing is registered.
handlerTime ==
    /\ pc = "wait" /\ Idle > 0 /\ quiet = Idle /\ Ready = {} /\ ~edge
    /\ quiet' = 0
    /\ LET closed == IF AnyConnection
                     THEN {lo_map_fd[f] : f \in Fds} \ {0} ELSE {}
       IN  /\ handlerDelete(closed)
           /\ image' = [s \in Slots |-> IF s \in closed THEN Deleted(image[s]) ELSE image[s]]
    /\ pc' = IF num_connection' = 0 THEN "exit" ELSE "wait"
    /\ UNCHANGED <<pClientIndex, batch, counter, listen, events, files>>

\* After the last event runLoop() looks for registered events and waits again.
Resume(rest) ==
    pc' = IF rest # {} THEN "dispatch" ELSE IF num_connection' = 0 THEN "exit" ELSE "wait"

\* UNotifier::handlerResult of an event of a connection.
Dispatch(e) ==
    /\ pc = "dispatch" /\ e \in batch /\ e.ptr # Server
    /\ batch' = batch \ {e}
    /\ LET s == e.ptr
       IN  \E o \in IF e.bexcept THEN handlerError(image[s], Conn(s))
                    ELSE IF e.bread THEN handlerRead(image[s], Conn(s))
                    ELSE handlerWrite(image[s], Conn(s)) :
              handlerResult(s, o)
    /\ Resume(batch')
    /\ UNCHANGED <<pClientIndex, counter, listen, quiet, events>>

-----------------------------------------------------------------------------
(* UServer_Base::handlerRead, the accept loop, turn by turn.                *)

\* The slot after s, from the last one to the first.
After(s) == IF s = max_connection THEN 1 ELSE s + 1

AcceptBegin ==
    /\ pc = "dispatch" /\ Accepting \in batch
    /\ batch' = batch \ {Accepting} /\ pc' = "accept" /\ counter' = 0
    /\ UNCHANGED <<num_connection, fd, image, lo_map_fd, kernel, pClientIndex, listen,
                   quiet, events, files, ghosts>>

Turn == pc = "accept"
TimedOut == Idle > 0 /\ counter = 0 /\ image[pClientIndex].age >= Idle

\* A slot in use is passed over, or closed when it is idle and the loop has not
\* accepted yet.
AcceptSkips ==
    /\ Turn /\ fd[pClientIndex] # 0 /\ ~TimedOut
    /\ pClientIndex' = After(pClientIndex)
    /\ UNCHANGED <<num_connection, fd, image, lo_map_fd, kernel, pc, batch, counter,
                   listen, quiet, events, files, ghosts>>

AcceptErasesIdle ==
    /\ Turn /\ fd[pClientIndex] # 0 /\ TimedOut
    /\ handlerDelete({pClientIndex})
    /\ image' = [image EXCEPT ![pClientIndex] = Deleted(image[pClientIndex])]
    /\ UNCHANGED <<loop, listen, quiet, events, files>>

\* accept() fails: EAGAIN when nobody waits, or for another reason.
AcceptFails ==
    /\ Turn /\ fd[pClientIndex] = 0
    /\ Counted(backlog > 0)
    /\ undrained' = (backlog > 0)
    /\ UNCHANGED <<num_connection, fd, image, lo_map_fd, kernel, pClientIndex, batch,
                   counter, backlog, edge, quiet, files, ghosts>>
    /\ Resume(batch)

\* check: the next slot, or back to the notifier.
\* Variants with a mistake: a turn too many, or one client for each event, as if
\* it were level triggered.
CheckOneMore ==
    /\ backlog' = backlog - 1 /\ counter' = counter + 1
    /\ IF counter' <= Burst
       THEN pClientIndex' = After(pClientIndex) /\ UNCHANGED <<pc, undrained>>
       ELSE undrained' = (backlog' > 0) /\ Resume(batch) /\ UNCHANGED pClientIndex
CheckOnce ==
    /\ backlog' = backlog - 1 /\ counter' = counter + 1
    /\ Resume(batch) /\ UNCHANGED <<pClientIndex, undrained>>
Check ==
    /\ backlog' = backlog - 1
    /\ counter' = counter + 1
    /\ \/ /\ counter' < Burst
          /\ pClientIndex' = After(pClientIndex) /\ UNCHANGED <<pc, undrained>>
       \/ /\ counter' >= Burst
          /\ undrained' = (backlog' > 0)
          /\ Resume(batch) /\ UNCHANGED pClientIndex

\* Variant with a mistake: the limit is passed before it is seen.
FullLate == num_connection + 1 > max_connection
Full == num_connection + 1 >= max_connection \/ num_connection + 1 < 0

\* Variant with a mistake: a client that is turned away stays counted.
AcceptDeniesCounts ==
    /\ Turn /\ fd[pClientIndex] = 0 /\ backlog > 0
    /\ Full /\ num_connection' = num_connection + 1
    /\ Check
    /\ UNCHANGED <<fd, image, lo_map_fd, kernel, batch, edge, quiet, events, files, ghosts>>

\* A client is turned away: by an access list, or for the connections there are.
AcceptDenies ==
    /\ Turn /\ fd[pClientIndex] = 0 /\ backlog > 0
    /\ \/ UNCHANGED num_connection
       \/ Full /\ num_connection' = (num_connection + 1) - 1
    /\ Check
    /\ UNCHANGED <<fd, image, lo_map_fd, kernel, batch, edge, quiet, events, files, ghosts>>

\* The lowest descriptor that is not in use.
NewFd == {f \in Fds : ~sock[f].open /\ \A g \in Fds : g < f => sock[g].open}

\* A client is taken: newConnection(), then handlerRead() at once, then
\* UNotifier::insert unless that closed the connection.  Its request, or its end,
\* may be there already.  Without a log newConnection() does not set last_event,
\* which is then what the last client of the slot left.
AcceptClient ==
    /\ Turn /\ fd[pClientIndex] = 0 /\ backlog > 0 /\ ~Full
    /\ \E f \in NewFd, in \in BOOLEAN, hup \in BOOLEAN, age \in 0..Idle :
       LET s == pClientIndex
           c == [open |-> TRUE, in |-> in, hup |-> hup, room |-> TRUE, out |-> FALSE]
       IN  \E o \in handlerRead([image[s] EXCEPT !.age = age], c) :
              /\ Counted(hup) /\ files' = IF o.file THEN files + 1 ELSE files
              /\ \/ /\ o.ret = "DELETE"
                    /\ num_connection' = (num_connection + 1) - 1
                    /\ image' = [image EXCEPT ![s] = Deleted(o.image)]
                    /\ UNCHANGED <<fd, lo_map_fd, kernel>>
                 \/ /\ o.ret = "OK"
                    /\ num_connection' = num_connection + 1
                    /\ fd' = [fd EXCEPT ![s] = f]
                    /\ image' = [image EXCEPT ![s] = o.image]
                    /\ lo_map_fd' = [lo_map_fd EXCEPT ![f] = s]
                    /\ Interest(f, s, o.image, o.sock)
    /\ Check
    /\ UNCHANGED <<batch, edge, quiet, ghosts>>

ServerNext ==
    \/ waitForEvent \/ handlerTime \/ AcceptBegin
    \/ \E e \in batch : Dispatch(e)
    \/ AcceptSkips \/ AcceptErasesIdle \/ AcceptFails \/ AcceptDenies \/ AcceptClient

Next ==
    \/ ServerNext \/ Connect \/ Tick
    \/ \E f \in Fds : ClientSends(f) \/ ClientCloses(f) \/ ClientReads(f)

Spec == Init /\ [][Next]_vars

\* The kernel gives the process the processor, and time passes.
FairSpec == Spec /\ WF_vars(ServerNext) /\ WF_vars(Tick)

-----------------------------------------------------------------------------
(* What is correct.                                                         *)

Images == [op_mask : {READ, WRITE}, count : 0..Parts, bclose : BOOLEAN, age : 0..Idle,
           dry : BOOLEAN]
Conns  == [open : BOOLEAN, in : BOOLEAN, hup : BOOLEAN, room : BOOLEAN, out : BOOLEAN]

\* The type invariant: every slot, descriptor and event is one there is.
TypeOK ==
    /\ num_connection \in Int /\ ghosts \in Nat
    /\ fd \in [Slots -> Fds \cup {0}] /\ image \in [Slots -> Images]
    /\ lo_map_fd \in [Fds -> Slots \cup {0}]
    /\ sock \in [Fds -> Conns]
    /\ epoll \in [Fds -> [ptr : Slots \cup {0}, mask : {READ, WRITE}]]
    /\ pClientIndex \in Slots /\ pc \in {"wait", "dispatch", "accept", "exit"}
    /\ batch \subseteq [ptr : Slots \cup {Server}, bread : BOOLEAN, bexcept : BOOLEAN]
    /\ counter \in 0..Burst /\ backlog \in 0..MaxEvents /\ edge \in BOOLEAN
    /\ quiet \in 0..Idle /\ undrained \in BOOLEAN
    /\ events \in 0..MaxEvents /\ files \in 0..MaxFiles

\* num_connection, which decides on new clients, on the timeout and on the end
\* of the child, counts the slots in use; it is short by one for every event
\* dispatched to a slot that an idle check had freed (server.cpp 1666-1672).
Accounting ==
    num_connection = min_connection + Cardinality(Busy) - ghosts

\* The accept loop looks for a free slot without an end (goto loop).  There is
\* one: at most max_connection - min_connection - 1 are in use, one less than
\* MAX_KEEP_ALIVE, and one more for every close that was counted twice.
Capacity ==
    Cardinality(Busy) <= max_connection - min_connection - 1 + ghosts

\* The slots, lo_map_fd and the interest list of the kernel agree: a connection
\* is registered once, under its slot, for what its slot waits for.
Registered ==
    /\ \A s \in Busy : /\ lo_map_fd[fd[s]] = s /\ sock[fd[s]].open
                       /\ epoll[fd[s]] = [ptr |-> s, mask |-> image[s].op_mask]
    /\ \A f \in Fds : /\ lo_map_fd[f] # 0 => fd[lo_map_fd[f]] = f
                      /\ lo_map_fd[f] = 0 => epoll[f] = NoInterest /\ ~sock[f].open

\* The listening socket is edge triggered, so a client that waits must have an
\* event under way, or the loop must still be accepting: only a failed accept()
\* and the limit of a burst leave clients behind.
EdgeKept ==
    backlog > 0 => edge \/ Accepting \in batch \/ pc = "accept" \/ undrained

\* A connection that still owes a part of a file and waits for room hears of
\* the room: the edge is reported, dispatched, or the room is still to come.
\* The events of the batch may be stale (an idle check), then the slot is new.
\* Not so when the file was shorter than its count, or another request has set
\* sfd to 0: sendfile() then may send less than there is room for.
WriteEdgeKept ==
    \A s \in Busy : (image[s].count > 0 /\ image[s].op_mask = WRITE /\ ~image[s].dry) =>
        \/ ~sock[fd[s]].room \/ sock[fd[s]].out \/ sock[fd[s]].hup
        \/ \E e \in batch : e.ptr = s

\* Every request of a connection that waits for requests is read, however many
\* others keep sending: epoll_wait reports all that is ready, and the accept
\* loop ends.
Unread(f) == sock[f].in /\ epoll[f].mask = READ
RequestRead ==
    \A f \in Fds : []<>(~Unread(f) \/ pc = "exit")

\* With REQ_TIMEOUT set, the slots come free when the clients fall silent: if
\* from some time on no request comes, a pass of the accept loop or the timeout
\* of epoll_wait closes all connections, unless a close counted twice makes the
\* timeout see none.  One client that goes on sending is enough to keep the
\* silent ones: every return of epoll_wait starts the timeout again.
Silent == <>[][\A f \in Fds : sock'[f].in => sock[f].in]_vars
SilentReleased ==
    (Idle > 0 /\ Silent) => []<>(Busy = {} \/ ghosts > 0 \/ pc = "exit")
=============================================================================
