---------------------------- MODULE ServerProofs ----------------------------
(***************************************************************************)
(* Proofs about Server, for every number of slots and every bound: what    *)
(* num_connection counts, that the accept loop finds a free slot, that the *)
(* tables of slots, descriptors and interests agree, and that the edges of *)
(* the listening socket and of writable connections are not lost.          *)
(***************************************************************************)
EXTENDS Server, FiniteSetTheorems, TLAPS

(* The types that the arguments need, and no more.                          *)
Shape ==
    /\ num_connection \in Int /\ ghosts \in Nat
    /\ fd \in [Slots -> Fds \cup {0}]
    /\ lo_map_fd \in [Fds -> Slots \cup {0}]
    /\ \A f \in Fds : epoll[f].ptr \in Slots \cup {0}
    /\ DOMAIN epoll = Fds
    /\ pClientIndex \in Slots
    /\ \A e \in batch : e.ptr \in Slots \cup {0}

(* num_connection stays below max_connection: the accept loop tests the     *)
(* value before it keeps it.                                                *)
Below == num_connection < max_connection

CountInv == Shape /\ Accounting /\ Below

-----------------------------------------------------------------------------
(* The slots are finitely many, and so are those in use.                    *)
LEMMA SlotsFinite == IsFiniteSet(Slots) /\ IsFiniteSet(Busy) /\ Cardinality(Busy) \in Nat
<1>1. IsFiniteSet(Slots)
  BY FS_Interval, ServerAssumption DEF Slots
<1>2. Busy \in SUBSET Slots
  BY DEF Busy
<1>3. IsFiniteSet(Busy)
  BY <1>1, <1>2, FS_Subset
<1> QED
  BY <1>1, <1>3, FS_CardinalityType

(* UNotifier::handlerDelete keeps the account, whatever slots it is asked   *)
(* to close: those in use are no longer, and the others become ghosts.      *)
LEMMA DeleteKeepsCount ==
    ASSUME Shape, Accounting, Below, NEW S \in SUBSET Slots, handlerDelete(S)
    PROVE  /\ num_connection' \in Int /\ ghosts' \in Nat
           /\ fd' \in [Slots -> Fds \cup {0}]
           /\ lo_map_fd' \in [Fds -> Slots \cup {0}]
           /\ \A f \in Fds : epoll'[f].ptr \in Slots \cup {0}
           /\ DOMAIN epoll' = Fds
           /\ Accounting' /\ Below'
<1>1. IsFiniteSet(S) /\ Cardinality(S) \in Nat
  BY SlotsFinite, FS_Subset, FS_CardinalityType
<1>2. IsFiniteSet(Busy) /\ Cardinality(Busy) \in Nat
  BY SlotsFinite
<1>3. /\ IsFiniteSet(S \ Busy)
      /\ Cardinality(S \ Busy) = Cardinality(S) - Cardinality(S \cap Busy)
  BY <1>1, FS_Difference
<1>4. Cardinality(Busy \ S) = Cardinality(Busy) - Cardinality(Busy \cap S)
  BY <1>2, FS_Difference
<1>5. Cardinality(S \ Busy) \in Nat
  BY <1>3, FS_CardinalityType
<1>6. IsFiniteSet(S \cap Busy)
  BY <1>1, FS_Intersection
<1>7. Cardinality(S \cap Busy) \in Nat
  BY <1>6, FS_CardinalityType
<1>8. S \cap Busy = Busy \cap S
  OBVIOUS
<1>9. /\ num_connection' = num_connection - Cardinality(S)
      /\ ghosts' = ghosts + Cardinality(S \ Busy)
      /\ fd' = [s \in Slots |-> IF s \in S THEN 0 ELSE fd[s]]
  BY DEF handlerDelete
<1>10. fd' \in [Slots -> Fds \cup {0}]
  BY <1>9 DEF Shape
<1>11. Busy' = Busy \ S
  BY <1>9 DEF Busy, Shape
<1>12. lo_map_fd' \in [Fds -> Slots \cup {0}]
  BY DEF handlerDelete, Shape
<1>13. (\A f \in Fds : epoll'[f].ptr \in Slots \cup {0}) /\ DOMAIN epoll' = Fds
  <2>1. epoll' = [f \in Fds |-> IF f \in {fd[s] : s \in S} THEN NoInterest ELSE epoll[f]]
    BY DEF handlerDelete
  <2> QED
    BY <2>1 DEF Shape, NoInterest
<1>14. num_connection' \in Int /\ ghosts' \in Nat
  BY <1>1, <1>5, <1>9 DEF Shape
<1>15. Accounting'
  <2>1. num_connection' = min_connection + Cardinality(Busy \ S) - ghosts'
    <3> DEFINE a == Cardinality(S)  b == Cardinality(Busy)  m == Cardinality(S \cap Busy)
               u == Cardinality(Busy \ S)  v == Cardinality(S \ Busy)
    <3>1. a \in Nat /\ b \in Nat /\ m \in Nat /\ num_connection \in Int /\ ghosts \in Nat
      BY <1>1, <1>2, <1>7 DEF Shape
    <3>2. v = a - m /\ u = b - m
      BY <1>3, <1>4, <1>8
    <3>3. num_connection = 1 + b - ghosts /\ num_connection' = num_connection - a
          /\ ghosts' = ghosts + v
      BY <1>9 DEF Accounting, min_connection
    <3> HIDE DEF a, b, m, u, v
    <3>4. num_connection' = 1 + u - ghosts'
      BY <3>1, <3>2, <3>3
    <3> QED
      BY <3>4 DEF u, min_connection
  <2> QED
    BY <2>1, <1>11 DEF Accounting, min_connection
<1>16. Below'
  BY <1>1, <1>9, ServerAssumption DEF Below, Shape
<1> QED
  BY <1>10, <1>12, <1>13, <1>14, <1>15, <1>16

(* A step that leaves the slots, the counters and the tables alone.         *)
LEMMA CountUnchanged ==
    ASSUME CountInv, UNCHANGED <<num_connection, fd, ghosts, lo_map_fd, epoll>>,
           pClientIndex' \in Slots, \A e \in batch' : e.ptr \in Slots \cup {0}
    PROVE  CountInv'
<1>1. Busy' = Busy
  BY DEF Busy
<1> QED
  BY <1>1 DEF CountInv, Shape, Accounting, Below, min_connection

(* The slot after a slot is a slot. *)
LEMMA AfterInSlots == ASSUME NEW s \in Slots PROVE After(s) \in Slots
  BY ServerAssumption DEF After, Slots

-----------------------------------------------------------------------------
(* The slots in use are one more when a client is taken.                    *)
LEMMA BusyGrows ==
    ASSUME Shape, NEW s \in Slots, NEW f \in Fds, fd[s] = 0, fd' = [fd EXCEPT ![s] = f]
    PROVE  Cardinality(Busy') = Cardinality(Busy) + 1
<1>1. Busy' = Busy \cup {s}
  BY ServerAssumption DEF Busy, Shape, Fds, Slots
<1>2. s \notin Busy
  BY DEF Busy
<1> QED
  BY <1>1, <1>2, SlotsFinite, FS_AddElement

(* A turn of the accept loop ends on a slot and leaves the batch.           *)
LEMMA CheckEnds ==
    ASSUME pClientIndex \in Slots, Check
    PROVE  pClientIndex' \in Slots
  BY AfterInSlots DEF Check

(* The invariant is preserved by every step.                                *)
LEMMA CountStep == ASSUME CountInv, [Next]_vars PROVE CountInv'
<1> USE DEF kernel, loop, listen
<1>0. /\ pClientIndex \in Slots
      /\ \A e \in batch : e.ptr \in Slots \cup {0}
  BY DEF CountInv, Shape
<1>1. CASE waitForEvent
  <2>1. \A e \in batch' : e.ptr \in Slots \cup {0}
    BY <1>1 DEF waitForEvent, Event, Accepting, Server, Ready, CountInv, Shape
  <2> QED
    BY <1>0, <1>1, <2>1, CountUnchanged DEF waitForEvent
<1>2. CASE handlerTime
  <2>1. PICK S \in SUBSET Slots : handlerDelete(S)
    BY <1>2 DEF handlerTime, CountInv, Shape
  <2>2. UNCHANGED <<pClientIndex, batch>>
    BY <1>2 DEF handlerTime
  <2> QED
    BY <1>0, <2>1, <2>2, DeleteKeepsCount DEF CountInv, Shape
<1>3. CASE AcceptBegin
  BY <1>0, <1>3, CountUnchanged DEF AcceptBegin
<1>4. ASSUME NEW e \in batch, Dispatch(e) PROVE CountInv'
  <2>1. e.ptr \in Slots
    BY <1>0, <1>4 DEF Dispatch, Server
  <2>2. UNCHANGED pClientIndex /\ batch' = batch \ {e}
    BY <1>4 DEF Dispatch
  <2>3. PICK o : handlerResult(e.ptr, o)
    BY <1>4 DEF Dispatch
  <2>4. CASE handlerDelete({e.ptr})
    <3>1. {e.ptr} \in SUBSET Slots
      BY <2>1
    <3> QED
      BY <1>0, <2>2, <2>4, <3>1, DeleteKeepsCount DEF CountInv, Shape
  <2>5. CASE /\ fd[e.ptr] # 0 /\ Interest(fd[e.ptr], e.ptr, o.image, o.sock)
             /\ UNCHANGED <<num_connection, fd, lo_map_fd, ghosts>>
    <3>1. fd[e.ptr] \in Fds
      BY <2>1, <2>5 DEF CountInv, Shape
    <3>2. epoll' = [epoll EXCEPT ![fd[e.ptr]] = [ptr |-> e.ptr, mask |-> o.image.op_mask]]
      BY <2>5 DEF Interest
    <3>3. (\A f \in Fds : epoll'[f].ptr \in Slots \cup {0}) /\ DOMAIN epoll' = Fds
      BY <2>1, <3>1, <3>2 DEF CountInv, Shape
    <3>4. Busy' = Busy
      BY <2>5 DEF Busy
    <3> QED
      BY <1>0, <2>2, <2>5, <3>3, <3>4 DEF CountInv, Shape, Accounting, Below, min_connection
  <2>6. CASE UNCHANGED <<num_connection, fd, lo_map_fd, epoll, ghosts>>
    BY <1>0, <2>2, <2>6, CountUnchanged
  <2> QED
    BY <2>3, <2>4, <2>5, <2>6 DEF handlerResult
<1>5. CASE AcceptSkips
  BY <1>0, <1>5, CountUnchanged, AfterInSlots DEF AcceptSkips
<1>6. CASE AcceptErasesIdle
  <2>1. {pClientIndex} \in SUBSET Slots /\ handlerDelete({pClientIndex})
    BY <1>0, <1>6 DEF AcceptErasesIdle
  <2>2. UNCHANGED <<pClientIndex, batch>>
    BY <1>6 DEF AcceptErasesIdle
  <2> QED
    BY <1>0, <2>1, <2>2, DeleteKeepsCount DEF CountInv, Shape
<1>7. CASE AcceptFails
  BY <1>0, <1>7, CountUnchanged DEF AcceptFails
<1>8. CASE AcceptDenies
  <2>1. num_connection' = num_connection
    BY <1>8 DEF AcceptDenies, CountInv, Shape
  <2>2. pClientIndex' \in Slots
    BY <1>0, <1>8, CheckEnds DEF AcceptDenies
  <2> QED
    BY <1>0, <1>8, <2>1, <2>2, CountUnchanged DEF AcceptDenies
<1>9. CASE AcceptClient
  <2>1. pClientIndex' \in Slots /\ UNCHANGED <<batch, ghosts>> /\ ~Full /\ fd[pClientIndex] = 0
    BY <1>0, <1>9, CheckEnds DEF AcceptClient
  <2>2. CASE num_connection' = (num_connection + 1) - 1 /\ UNCHANGED <<fd, lo_map_fd, kernel>>
    <3>1. num_connection' = num_connection
      BY <2>2 DEF CountInv, Shape
    <3> QED
      BY <1>0, <2>1, <2>2, <3>1, CountUnchanged
  <2>3. ASSUME NEW f \in Fds, NEW i, NEW c,
               num_connection' = num_connection + 1,
               fd' = [fd EXCEPT ![pClientIndex] = f],
               lo_map_fd' = [lo_map_fd EXCEPT ![f] = pClientIndex],
               Interest(f, pClientIndex, i, c)
        PROVE  CountInv'
    <3>1. Cardinality(Busy') = Cardinality(Busy) + 1
      BY <1>0, <2>1, <2>3, BusyGrows DEF CountInv
    <3>2. Cardinality(Busy) \in Nat
      BY SlotsFinite
    <3>3. epoll' = [epoll EXCEPT ![f] = [ptr |-> pClientIndex, mask |-> i.op_mask]]
      BY <2>3 DEF Interest
    <3>4. (\A g \in Fds : epoll'[g].ptr \in Slots \cup {0}) /\ DOMAIN epoll' = Fds
      BY <1>0, <2>3, <3>3 DEF CountInv, Shape
    <3>5. Accounting'
      BY <2>1, <2>3, <3>1, <3>2 DEF CountInv, Shape, Accounting, min_connection
    <3>6. Below'
      BY <2>1, <2>3, ServerAssumption DEF CountInv, Shape, Below, Full
    <3>7. Shape'
      BY <1>0, <2>1, <2>3, <3>4 DEF CountInv, Shape
    <3> QED
      BY <3>5, <3>6, <3>7 DEF CountInv
  <2> QED
    <3>1. PICK f \in Fds : \E o :
             \/ num_connection' = (num_connection + 1) - 1 /\ UNCHANGED <<fd, lo_map_fd, kernel>>
             \/ /\ num_connection' = num_connection + 1
                /\ fd' = [fd EXCEPT ![pClientIndex] = f]
                /\ lo_map_fd' = [lo_map_fd EXCEPT ![f] = pClientIndex]
                /\ Interest(f, pClientIndex, o.image, o.sock)
      BY <1>9 DEF AcceptClient, NewFd
    <3> QED
      BY <2>2, <2>3, <3>1
<1>10. CASE Connect
  BY <1>0, <1>10, CountUnchanged DEF Connect
<1>11. CASE Tick
  BY <1>0, <1>11, CountUnchanged DEF Tick
<1>12. ASSUME NEW f \in Fds, ClientSends(f) \/ ClientCloses(f) \/ ClientReads(f)
       PROVE  CountInv'
  BY <1>0, <1>12, CountUnchanged DEF ClientSends, ClientCloses, ClientReads, PeerStep
<1>13. CASE UNCHANGED vars
  BY <1>0, <1>13, CountUnchanged DEF vars
<1> QED
  BY <1>1, <1>2, <1>3, <1>4, <1>5, <1>6, <1>7, <1>8, <1>9, <1>10, <1>11, <1>12, <1>13
     DEF Next, ServerNext

-----------------------------------------------------------------------------
(* The invariant holds in a child that was just forked.                     *)
LEMMA CountInit == ASSUME Init PROVE CountInv
<1>1. Busy = {}
  BY DEF Init, Busy
<1>2. Accounting
  BY <1>1, FS_EmptySet DEF Init, Accounting, min_connection
<1>3. Shape
  BY ServerAssumption DEF Init, Shape, Slots, NoInterest, min_connection
<1> QED
  BY <1>2, <1>3, ServerAssumption DEF Init, CountInv, Below, min_connection

(* num_connection counts the slots in use, less the closes of free slots,   *)
(* for any number of slots, clients, requests and failures.                 *)
THEOREM ConnectionsCounted == Spec => []Accounting
<1>1. Init => CountInv
  BY CountInit
<1>2. CountInv /\ [Next]_vars => CountInv'
  BY CountStep
<1>3. CountInv => Accounting
  BY DEF CountInv
<1> QED
  BY <1>1, <1>2, <1>3, PTL DEF Spec

(* The slots are never all in use while at most one close was counted       *)
(* twice: the loop of the accept handler over the slots ends.               *)
THEOREM SlotsSuffice == Spec => []Capacity
<1>1. Init => CountInv
  BY CountInit
<1>2. CountInv /\ [Next]_vars => CountInv'
  BY CountStep
<1>3. CountInv => Capacity
  <2> SUFFICES ASSUME CountInv PROVE Capacity
    OBVIOUS
  <2>1. Cardinality(Busy) \in Nat
    BY SlotsFinite
  <2> QED
    BY <2>1, ServerAssumption DEF CountInv, Shape, Accounting, Below, Capacity, min_connection
<1> QED
  BY <1>1, <1>2, <1>3, PTL DEF Spec

-----------------------------------------------------------------------------
(* epoll_wait is called again only when the batch is done.                  *)
EdgeInv == EdgeKept /\ (pc = "wait" => batch = {})

(* Every step keeps the edge, or records that clients are left behind.      *)
LEMMA EdgeStep == ASSUME EdgeInv, [Next]_vars PROVE EdgeInv'
<1> USE DEF kernel, loop, listen
<1>1. CASE waitForEvent
  BY <1>1 DEF waitForEvent, EdgeInv, EdgeKept
<1>2. CASE handlerTime
  BY <1>2 DEF handlerTime, EdgeInv, EdgeKept
<1>3. CASE AcceptBegin
  BY <1>3 DEF AcceptBegin, EdgeInv, EdgeKept
<1>4. ASSUME NEW e \in batch, Dispatch(e) PROVE EdgeInv'
  <2>1. pc = "dispatch" /\ batch' = batch \ {e} /\ e # Accepting /\ UNCHANGED listen
    BY <1>4 DEF Dispatch, Accepting, Server
  <2>2. Accepting \in batch => Accepting \in batch'
    BY <2>1
  <2>3. pc' = "wait" => batch' = {}
    BY <1>4 DEF Dispatch, Resume
  <2>4. EdgeKept'
    BY <2>1, <2>2 DEF EdgeInv, EdgeKept, Accepting
  <2> QED
    BY <2>3, <2>4 DEF EdgeInv
<1>5. CASE AcceptSkips
  BY <1>5 DEF AcceptSkips, EdgeInv, EdgeKept, Turn
<1>6. CASE AcceptErasesIdle
  BY <1>6 DEF AcceptErasesIdle, EdgeInv, EdgeKept, Turn
<1>7. CASE AcceptFails
  BY <1>7 DEF AcceptFails, EdgeInv, EdgeKept, Resume
<1>8. ASSUME Turn, Check, UNCHANGED <<batch, edge>> PROVE EdgeInv'
  BY <1>8 DEF Turn, Check, EdgeInv, EdgeKept, Resume
<1>9. CASE AcceptDenies
  BY <1>8, <1>9 DEF AcceptDenies
<1>10. CASE AcceptClient
  BY <1>8, <1>10 DEF AcceptClient
<1>11. CASE Connect
  BY <1>11 DEF Connect, EdgeInv, EdgeKept
<1>12. CASE Tick
  BY <1>12 DEF Tick, EdgeInv, EdgeKept
<1>13. ASSUME NEW f \in Fds, ClientSends(f) \/ ClientCloses(f) \/ ClientReads(f)
       PROVE  EdgeInv'
  BY <1>13 DEF ClientSends, ClientCloses, ClientReads, PeerStep, EdgeInv, EdgeKept
<1>14. CASE UNCHANGED vars
  BY <1>14 DEF vars, EdgeInv, EdgeKept
<1> QED
  BY <1>1, <1>2, <1>3, <1>4, <1>5, <1>6, <1>7, <1>9, <1>10, <1>11, <1>12, <1>13, <1>14
     DEF Next, ServerNext

(* A client that waits for accept() has an event under way unless accept()  *)
(* failed or a burst reached its limit after the last client arrived.       *)
THEOREM WaitingClientsAnnounced == Spec => []EdgeKept
<1>1. Init => EdgeInv
  BY DEF Init, EdgeInv, EdgeKept
<1>2. EdgeInv /\ [Next]_vars => EdgeInv'
  BY EdgeStep
<1>3. EdgeInv => EdgeKept
  BY DEF EdgeInv
<1> QED
  BY <1>1, <1>2, <1>3, PTL DEF Spec

-----------------------------------------------------------------------------
(* What the handlers of a connection leave behind.                          *)

(* The outcome o of a handler that began with the image i and the           *)
(* connection c: the handler does not open, close or hang up, and tells the *)
(* kernel when it changed what the slot waits for.                          *)
Sound(o, i, c) ==
    /\ o.ret \in {"OK", "DELETE"} /\ o.image \in Images /\ o.sock \in Conns
    /\ o.sock.open = c.open
    /\ o.mod \in BOOLEAN /\ (~o.mod => o.image.op_mask = i.op_mask)
    /\ o.file \in BOOLEAN /\ (o.file => files < MaxFiles)

(* A slot that waits on does not owe a part that it could send, unless its  *)
(* file is too short.                                                       *)
Drained(o) == o.ret = "OK" => o.image.count = 0 \/ ~o.sock.room \/ o.image.dry

LEMMA OutcomeFields ==
    ASSUME NEW r, NEW i, NEW c, NEW m
    PROVE  /\ Outcome(r, i, c, m).ret = r /\ Outcome(r, i, c, m).image = i
           /\ Outcome(r, i, c, m).sock = c /\ Outcome(r, i, c, m).mod = m
           /\ Outcome(r, i, c, m).file = FALSE
  BY DEF Outcome

(* An outcome is sound when it tells the kernel what it has to.             *)
LEMMA SoundOutcome ==
    ASSUME NEW r \in {"OK", "DELETE"}, NEW i, NEW j \in Images, NEW c \in Conns, NEW m \in BOOLEAN,
           ~m => j.op_mask = i.op_mask
    PROVE  /\ Sound(Outcome(r, j, c, m), i, c)
           /\ (r = "OK" => (j.count = 0 \/ ~c.room \/ j.dry)) => Drained(Outcome(r, j, c, m))
<1> DEFINE o == Outcome(r, j, c, m)
<1>1. o.ret = r /\ o.image = j /\ o.sock = c /\ o.mod = m /\ o.file = FALSE
  BY DEF Outcome
<1> HIDE DEF o
<1>2. o.file \in BOOLEAN /\ ~o.file
  BY <1>1, Zenon
<1>3. Sound(o, i, c)
  BY <1>1, <1>2 DEF Sound
<1>4. (r = "OK" => (j.count = 0 \/ ~c.room \/ j.dry)) => Drained(o)
  BY <1>1 DEF Drained
<1> QED
  BY <1>3, <1>4 DEF o

(* The same for an outcome that does not tell it anything.                  *)
LEMMA QuietOutcome ==
    ASSUME NEW r \in {"OK", "DELETE"}, NEW i, NEW j \in Images, NEW c \in Conns,
           j.op_mask = i.op_mask
    PROVE  /\ Sound(Outcome(r, j, c, FALSE), i, c)
           /\ (r = "OK" => (j.count = 0 \/ ~c.room \/ j.dry)) => Drained(Outcome(r, j, c, FALSE))
           /\ Outcome(r, j, c, FALSE).ret = r /\ Outcome(r, j, c, FALSE).image = j
           /\ Outcome(r, j, c, FALSE).sock = c /\ ~Outcome(r, j, c, FALSE).mod
<1>1. PICK m \in BOOLEAN : m = FALSE
  BY Zenon
<1>2. /\ Sound(Outcome(r, j, c, m), i, c)
      /\ (r = "OK" => (j.count = 0 \/ ~c.room \/ j.dry)) => Drained(Outcome(r, j, c, m))
  BY SoundOutcome
<1>3. /\ Outcome(r, j, c, m).ret = r /\ Outcome(r, j, c, m).image = j
      /\ Outcome(r, j, c, m).sock = c /\ Outcome(r, j, c, m).mod = m
  BY DEF Outcome
<1>4. Outcome(r, j, c, m) = Outcome(r, j, c, FALSE)
  BY <1>1, Zenon
<1>5. ~m
  BY <1>1, Zenon
<1>6. ~Outcome(r, j, c, m).mod
  BY <1>3, <1>5, Zenon
<1> QED
  BY <1>2, <1>3, <1>4, <1>6, Zenon

(* A part of the file is sent: what waited for requests is modified.        *)
LEMMA PartOutcome ==
    ASSUME NEW i \in Images, NEW c \in Conns, NEW v \in 1..i.count - 1,
           i.dry \/ ~c.room
    PROVE  Sound(PartSent(i, c, v), i, c) /\ Drained(PartSent(i, c, v))
<1> DEFINE j == [i EXCEPT !.count = i.count - v, !.op_mask = WRITE]
           o == PartSent(i, c, v)
<1>1. i.count \in 0..Parts
  BY DEF Images
<1>2. i.count - v \in 0..Parts
  BY <1>1, ServerAssumption
<1>3. j \in Images /\ j.op_mask = WRITE /\ j.dry = i.dry
  BY <1>2 DEF Images
<1>4. PICK m \in BOOLEAN : m = (i.op_mask = READ)
  BY Zenon
<1>5. ~m => j.op_mask = i.op_mask
  BY <1>3, <1>4 DEF Images
<1>6. o = Outcome("OK", j, c, m)
  BY <1>4, Zenon DEF PartSent
<1> HIDE DEF j, o
<1>7. Sound(o, i, c) /\ Drained(o)
  BY <1>3, <1>5, <1>6, SoundOutcome
<1> QED
  BY <1>7 DEF o

LEMMA WriteOutcome ==
    ASSUME NEW i \in Images, NEW c \in Conns, NEW o \in handlerWrite(i, c)
    PROVE  Sound(o, i, c) /\ Drained(o)
<1>1. i.count \in 0..Parts /\ 0 \in 0..Parts /\ i.op_mask \in {READ, WRITE}
  BY ServerAssumption DEF Images
<1>2. CASE o = Outcome("DELETE", i, c, FALSE)
  BY <1>2, QuietOutcome
<1>3. CASE o = Outcome("OK", i, c, FALSE) /\ (i.count = 0 \/ ~c.room)
  BY <1>3, QuietOutcome
<1>4. CASE o = SentAll(i, c)
  <2>1. CASE i.bclose
    <3> DEFINE k == [i EXCEPT !.count = 0, !.bclose = FALSE]
    <3>1. k \in Images /\ k.op_mask = i.op_mask
      BY <1>1 DEF Images
    <3>2. o = Outcome("DELETE", k, c, FALSE)
      BY <1>4, <2>1 DEF SentAll
    <3> HIDE DEF k
    <3> QED
      BY <3>1, <3>2, QuietOutcome
  <2>2. CASE ~i.bclose
    <3> DEFINE k == [i EXCEPT !.count = 0, !.op_mask = READ]
    <3>1. k \in Images /\ k.op_mask = READ /\ k.count = 0
      BY <1>1 DEF Images
    <3>2. o = Outcome("OK", k, c, i.op_mask = WRITE)
      BY <1>4, <2>2 DEF SentAll
    <3>3. PICK m \in BOOLEAN : m = (i.op_mask = WRITE)
      BY Zenon
    <3>4. ~m => k.op_mask = i.op_mask
      BY <1>1, <3>1, <3>3
    <3>5. o = Outcome("OK", k, c, m)
      BY <3>2, <3>3, Zenon
    <3> HIDE DEF k
    <3> QED
      BY <3>1, <3>4, <3>5, SoundOutcome
  <2> QED
    BY <2>1, <2>2
<1>5. ASSUME NEW v \in 1..i.count - 1, o = SentPart(i, c, v)
      PROVE  Sound(o, i, c) /\ Drained(o)
  <2> DEFINE d == [c EXCEPT !.room = FALSE]
  <2>1. d \in Conns /\ ~d.room /\ d.open = c.open
    BY DEF Conns
  <2>2. o = PartSent(i, d, v)
    BY <1>5 DEF SentPart
  <2> HIDE DEF d
  <2>3. Sound(o, i, d) /\ Drained(o)
    BY <2>1, <2>2, PartOutcome
  <2> QED
    BY <2>1, <2>3 DEF Sound
<1>6. ASSUME o \in SentShort(i, c)
      PROVE  Sound(o, i, c) /\ Drained(o)
  <2> DEFINE j == [i EXCEPT !.dry = TRUE]
  <2>1. j \in Images /\ j.dry /\ j.op_mask = i.op_mask /\ j.count = i.count
    BY DEF Images
  <2>2. o = Outcome("OK", j, c, FALSE) \/ \E v \in 1..i.count - 1 : o = PartSent(j, c, v)
    BY <1>6 DEF SentShort
  <2> HIDE DEF j
  <2>3. CASE o = Outcome("OK", j, c, FALSE)
    BY <2>1, <2>3, QuietOutcome
  <2>4. ASSUME NEW v \in 1..i.count - 1, o = PartSent(j, c, v)
        PROVE  Sound(o, i, c) /\ Drained(o)
    <3>1. v \in 1..j.count - 1
      BY <2>1
    <3>2. Sound(o, j, c) /\ Drained(o)
      BY <2>1, <2>4, <3>1, PartOutcome
    <3> QED
      BY <2>1, <3>2 DEF Sound
  <2> QED
    BY <2>2, <2>3, <2>4
<1> QED
  BY <1>2, <1>3, <1>4, <1>5, <1>6 DEF handlerWrite

(* What a request begins with: the rest of a file may be owed, and is dry.  *)
LEMMA BeginImage ==
    ASSUME NEW i \in Images
    PROVE  /\ Begin(i) \in Images /\ Begin(i).count = i.count /\ Begin(i).op_mask = i.op_mask
           /\ Begin(i).dry = (i.count > 0)
<1>1. 0 \in 0..Idle /\ (i.count > 0) \in BOOLEAN
  BY ServerAssumption
<1> QED
  BY <1>1 DEF Begin, Images

LEMMA RequestOutcome ==
    ASSUME NEW i \in Images, NEW c \in Conns, NEW o \in Request(i, c)
    PROVE  Sound(o, i, c) /\ Drained(o)
<1> DEFINE j == Begin(i)
           header  == IF i.op_mask = WRITE THEN {c} ELSE {c, [c EXCEPT !.room = FALSE]}
           pending == IF i.count > 0 THEN {j} ELSE {}
           file    == IF files < MaxFiles
                      THEN {[j EXCEPT !.count = Parts, !.bclose = b, !.dry = FALSE] :
                               b \in BOOLEAN}
                      ELSE {}
           Written(images) == UNION {UNION {handlerWrite(k, h) : k \in images} : h \in header}
<1>1. Parts \in 0..Parts /\ i.count \in 0..Parts
  BY ServerAssumption DEF Images
<1>2. j \in Images /\ j.count = i.count /\ j.op_mask = i.op_mask /\ j.dry = (i.count > 0)
  BY BeginImage
<1>3. \A k \in file \cup pending : k \in Images /\ k.op_mask = i.op_mask
  <2> HIDE DEF j
  <2> QED
    BY <1>1, <1>2 DEF Images
<1>4. \A h \in header : h \in Conns /\ h.open = c.open
  BY DEF Conns
<1>5. CASE o = Outcome("DELETE", j, c, FALSE)
  BY <1>2, <1>5, QuietOutcome
<1>6. CASE o = Outcome("OK", j, c, FALSE)
  <2> HIDE DEF j
  <2>1. i.count = 0 \/ i.count > 0
    BY <1>1, ServerAssumption
  <2>2. CASE i.count = 0
    BY <1>2, <1>6, <2>2, QuietOutcome
  <2>3. CASE i.count > 0
    <3>1. j.dry
      BY <1>2, <2>3, Zenon
    <3> QED
      BY <1>2, <1>6, <3>1, QuietOutcome
  <2> QED
    BY <2>1, <2>2, <2>3
<1>7. ASSUME NEW k \in file \cup pending, NEW h \in header, NEW w \in handlerWrite(k, h)
      PROVE  Sound(w, i, c) /\ Drained(w)
  <2> HIDE DEF file, pending, header
  <2>1. Sound(w, k, h) /\ Drained(w)
    BY <1>3, <1>4, <1>7, WriteOutcome
  <2> QED
    BY <1>3, <1>4, <2>1 DEF Sound
<1>8. \A w \in Written(file) : Sound(w, i, c) /\ Drained(w) /\ files < MaxFiles
  <2> SUFFICES ASSUME NEW w \in Written(file)
               PROVE  Sound(w, i, c) /\ Drained(w) /\ files < MaxFiles
    BY Zenon
  <2>1. PICK k \in file, h \in header : w \in handlerWrite(k, h)
    <3> HIDE DEF file, header
    <3> QED
      OBVIOUS
  <2>2. files < MaxFiles
    BY <2>1, Zenon
  <2> QED
    <3> HIDE DEF file, pending, header
    <3> QED
      BY <1>7, <2>1, <2>2
<1>9. \A w \in Written(pending) : Sound(w, i, c) /\ Drained(w)
  <2> HIDE DEF file, pending, header
  <2> QED
    BY <1>7
<1> HIDE DEF j, header, file, pending, Written
<1>10. o \in {Outcome("DELETE", j, c, FALSE), Outcome("OK", j, c, FALSE)}
             \cup Written(pending) \cup {[w EXCEPT !.file = TRUE] : w \in Written(file)}
  BY ZenonT(60) DEF Request, j, header, file, pending, Written
<1>11. ASSUME NEW w \in Written(file), o = [w EXCEPT !.file = TRUE]
       PROVE  Sound(o, i, c) /\ Drained(o)
  <2>1. Sound(w, i, c) /\ Drained(w) /\ files < MaxFiles
    BY <1>8
  <2>2. o.ret = w.ret /\ o.image = w.image /\ o.sock = w.sock /\ o.mod = w.mod /\ o.file \in BOOLEAN
    BY <1>11
  <2> QED
    BY <2>1, <2>2 DEF Sound, Drained
<1> QED
  BY <1>5, <1>6, <1>9, <1>10, <1>11

LEMMA ReadOutcome ==
    ASSUME NEW i \in Images, NEW c \in Conns, NEW o \in handlerRead(i, c)
    PROVE  Sound(o, i, c) /\ (Drained(o) \/ (o.image = i /\ o.sock = c /\ ~o.mod))
<1> DEFINE d == [c EXCEPT !.in = FALSE]
<1>1. CASE o \in {Outcome("DELETE", i, c, FALSE), Outcome("OK", i, c, FALSE)}
  <2>1. PICK r \in {"OK", "DELETE"} : o = Outcome(r, i, c, FALSE)
    BY <1>1, Zenon
  <2> QED
    BY <2>1, QuietOutcome
<1>2. d \in Conns /\ d.open = c.open
  BY DEF Conns
<1> HIDE DEF d
<1>3. \A p \in Request(i, d) : Sound(p, i, c) /\ Drained(p)
  BY <1>2, RequestOutcome DEF Sound
<1>4. ASSUME NEW p \in Request(i, d), o \in Pipelined(Passed(p))
      PROVE  Sound(o, i, c) /\ Drained(o)
  <2> DEFINE q == Passed(p)
  <2>1. Sound(p, i, c)
    BY <1>3
  <2>2. /\ q.image = Begin(p.image) /\ q.sock = p.sock /\ q.mod = p.mod /\ q.file = p.file
    BY DEF Passed
  <2>3. /\ q.image \in Images /\ q.image.op_mask = p.image.op_mask
        /\ q.sock \in Conns /\ q.sock.open = c.open
    BY <2>1, <2>2, BeginImage DEF Sound
  <2>4. PICK w \in Request(q.image, q.sock) :
           o = [w EXCEPT !.mod = w.mod \/ q.mod, !.file = w.file \/ q.file]
    BY <1>4 DEF Pipelined
  <2> HIDE DEF q
  <2>5. Sound(w, q.image, q.sock) /\ Drained(w)
    BY <2>3, <2>4, RequestOutcome
  <2>6. o.ret = w.ret /\ o.image = w.image /\ o.sock = w.sock
    BY <2>4
  <2>7. o.mod = (w.mod \/ q.mod) /\ o.file = (w.file \/ q.file)
    BY <2>4
  <2>8. o.mod \in BOOLEAN /\ o.file \in BOOLEAN /\ (o.file => files < MaxFiles)
    BY <2>1, <2>2, <2>5, <2>7 DEF Sound
  <2>9. ~o.mod => o.image.op_mask = i.op_mask
    BY <2>1, <2>2, <2>3, <2>5, <2>6, <2>7 DEF Sound
  <2> QED
    BY <2>3, <2>5, <2>6, <2>8, <2>9 DEF Sound, Drained
<1>5. \/ o \in {Outcome("DELETE", i, c, FALSE), Outcome("OK", i, c, FALSE)}
      \/ o \in Request(i, d) \/ \E p \in Request(i, d) : o \in Pipelined(Passed(p))
  BY DEF handlerRead, d
<1> QED
  BY <1>1, <1>3, <1>4, <1>5

LEMMA ErrorOutcome ==
    ASSUME NEW i \in Images, NEW c \in Conns, NEW o \in handlerError(i, c)
    PROVE  /\ Sound(o, i, c) /\ o.image = i /\ o.sock = c /\ ~o.mod
           /\ (c.open => o.ret = "DELETE")
<1>1. PICK r \in {"OK", "DELETE"} : o = Outcome(r, i, c, FALSE) /\ (c.open => r = "DELETE")
  BY Zenon DEF handlerError
<1>2. i.op_mask = i.op_mask /\ r \in {"OK", "DELETE"}
  OBVIOUS
<1>3. Sound(o, i, c)
  BY <1>1, <1>2, QuietOutcome
<1>4. o.image = i /\ o.sock = c /\ o.ret = r
  BY <1>1 DEF Outcome
<1>5. ~o.mod
  BY <1>1, <1>2, QuietOutcome
<1> QED
  BY <1>1, <1>3, <1>4, <1>5

LEMMA DeletedImage == ASSUME NEW i \in Images PROVE Deleted(i) \in Images
<1>1. 0 \in 0..Parts /\ 0 \in 0..Idle
  BY ServerAssumption
<1>2. (IF i.count > 0 THEN READ ELSE i.op_mask) \in {READ, WRITE}
  BY DEF Images
<1> QED
  BY <1>1, <1>2 DEF Deleted, Images

-----------------------------------------------------------------------------
(* The tables of the slots, and the edges of writable connections.          *)

(* Clients that wait are some of those that came, and a burst that is under *)
(* way has not reached its limit.                                           *)
Bounded == backlog <= events /\ (pc = "accept" => counter < Burst)

(* WriteEdgeKept, with what an event must be that brings the room: a stale  *)
(* event for reading does not.                                              *)
RoomHeard(s) ==
    (image[s].count > 0 /\ image[s].op_mask = WRITE /\ ~image[s].dry) =>
        \/ ~sock[fd[s]].room \/ sock[fd[s]].out \/ sock[fd[s]].hup
        \/ \E e \in batch : e.ptr = s /\ ~e.bread
WriteInv == \A s \in Busy : RoomHeard(s)

TableInv == TypeOK /\ Bounded /\ Registered /\ WriteInv

(* The types of the tables, apart from those of the loop.                   *)
TableTypes ==
    /\ num_connection \in Int /\ ghosts \in Nat
    /\ fd \in [Slots -> Fds \cup {0}] /\ image \in [Slots -> Images]
    /\ lo_map_fd \in [Fds -> Slots \cup {0}]
    /\ sock \in [Fds -> Conns]
    /\ epoll \in [Fds -> [ptr : Slots \cup {0}, mask : {READ, WRITE}]]

LoopTypes ==
    /\ pClientIndex \in Slots /\ pc \in {"wait", "dispatch", "accept", "exit"}
    /\ batch \subseteq [ptr : Slots \cup {Server}, bread : BOOLEAN, bexcept : BOOLEAN]
    /\ counter \in 0..Burst /\ backlog \in 0..MaxEvents /\ edge \in BOOLEAN
    /\ quiet \in 0..Idle /\ undrained \in BOOLEAN
    /\ events \in 0..MaxEvents /\ files \in 0..MaxFiles
    /\ Bounded

LEMMA TypeParts ==
    /\ (TypeOK /\ Bounded) <=> (TableTypes /\ LoopTypes)
    /\ (TypeOK /\ Bounded)' <=> (TableTypes /\ LoopTypes)'
  BY DEF TypeOK, TableTypes, LoopTypes

LEMMA ConstantTypes ==
    /\ NoInterest \in [ptr : Slots \cup {0}, mask : {READ, WRITE}]
    /\ Shut \in Conns /\ Fresh \in Images /\ 0 \notin Slots /\ 0 \notin Fds
    /\ NoInterest.ptr = 0 /\ ~Shut.open
<1>1. NoInterest \in [ptr : Slots \cup {0}, mask : {READ, WRITE}] /\ NoInterest.ptr = 0
  BY DEF NoInterest
<1>2. Shut \in Conns /\ ~Shut.open
  BY DEF Shut, Conns
<1>3. Fresh \in Images
  BY ServerAssumption DEF Fresh, Images
<1>4. 0 \notin Slots /\ 0 \notin Fds
  BY ServerAssumption DEF Slots, Fds
<1> QED
  BY <1>1, <1>2, <1>3, <1>4

(* A slot in use has a descriptor, and no other slot has it.                *)
LEMMA BusyFd ==
    ASSUME TableTypes, Registered, NEW s \in Slots, fd[s] # 0
    PROVE  /\ fd[s] \in Fds /\ s \in Busy /\ sock[fd[s]].open /\ lo_map_fd[fd[s]] = s
           /\ epoll[fd[s]] = [ptr |-> s, mask |-> image[s].op_mask]
           /\ \A t \in Slots : fd[t] = fd[s] => t = s
<1>1. fd[s] \in Fds /\ s \in Busy
  BY DEF TableTypes, Busy
<1>2. ASSUME NEW t \in Slots, fd[t] = fd[s] PROVE t = s
  <2>1. t \in Busy
    BY <1>2 DEF Busy
  <2>2. lo_map_fd[fd[t]] = t /\ lo_map_fd[fd[s]] = s
    BY <1>1, <2>1 DEF Registered
  <2> QED
    BY <1>2, <2>2
<1> QED
  BY <1>1, <1>2 DEF Registered

(* UNotifier::handlerDelete closes what its slots have, and nothing else.   *)
LEMMA DeleteTables ==
    ASSUME TableTypes, Registered, NEW S \in SUBSET Slots, handlerDelete(S),
           image' \in [Slots -> Images], \A s \in Slots \ S : image'[s] = image[s]
    PROVE  /\ TableTypes' /\ Registered'
           /\ \A s \in Busy' : s \in Busy /\ s \notin S /\ fd'[s] = fd[s] /\ sock'[fd[s]] = sock[fd[s]]
<1> DEFINE closed == {fd[s] : s \in S}
<1>1. /\ fd' = [s \in Slots |-> IF s \in S THEN 0 ELSE fd[s]]
      /\ lo_map_fd' = [f \in Fds |-> IF f \in closed THEN 0 ELSE lo_map_fd[f]]
      /\ sock' = [f \in Fds |-> IF f \in closed THEN Shut ELSE sock[f]]
      /\ epoll' = [f \in Fds |-> IF f \in closed THEN NoInterest ELSE epoll[f]]
  BY DEF handlerDelete
<1>2. num_connection' \in Int /\ ghosts' \in Nat
  <2>1. S \ Busy \in SUBSET Slots
    OBVIOUS
  <2>2. IsFiniteSet(S) /\ IsFiniteSet(S \ Busy)
    BY <2>1, SlotsFinite, FS_Subset
  <2>3. Cardinality(S) \in Nat /\ Cardinality(S \ Busy) \in Nat
    BY <2>2, FS_CardinalityType
  <2> QED
    BY <2>3 DEF handlerDelete, TableTypes
<1>3. TableTypes'
  BY <1>1, <1>2, ConstantTypes DEF TableTypes
<1>4. ASSUME NEW s \in Slots, fd'[s] # 0
      PROVE  s \in Busy /\ s \notin S /\ fd'[s] = fd[s] /\ fd[s] \notin closed /\ fd[s] \in Fds
  <2>1. s \notin S /\ fd'[s] = fd[s] /\ fd[s] # 0
    BY <1>1, <1>4
  <2>2. s \in Busy /\ fd[s] \in Fds /\ \A t \in Slots : fd[t] = fd[s] => t = s
    BY <2>1, BusyFd
  <2> QED
    BY <2>1, <2>2
<1>5. \A s \in Busy' : s \in Slots /\ fd'[s] # 0
  BY DEF Busy
<1>6. ASSUME NEW s \in Busy'
      PROVE  /\ lo_map_fd'[fd'[s]] = s /\ sock'[fd'[s]].open
             /\ epoll'[fd'[s]] = [ptr |-> s, mask |-> image'[s].op_mask]
             /\ s \in Busy /\ s \notin S /\ fd'[s] = fd[s] /\ sock'[fd[s]] = sock[fd[s]]
  <2>1. s \in Slots /\ s \in Busy /\ s \notin S /\ fd'[s] = fd[s] /\ fd[s] \notin closed /\ fd[s] \in Fds
    BY <1>4, <1>5
  <2>2. /\ lo_map_fd'[fd[s]] = lo_map_fd[fd[s]] /\ sock'[fd[s]] = sock[fd[s]]
        /\ epoll'[fd[s]] = epoll[fd[s]] /\ image'[s] = image[s]
    BY <1>1, <2>1
  <2> QED
    BY <2>1, <2>2 DEF Registered
<1>7. ASSUME NEW f \in Fds, lo_map_fd'[f] # 0
      PROVE  fd'[lo_map_fd'[f]] = f
  <2>1. f \notin closed /\ lo_map_fd'[f] = lo_map_fd[f] /\ lo_map_fd[f] \in Slots /\ fd[lo_map_fd[f]] = f
    BY <1>1, <1>7 DEF TableTypes, Registered
  <2>2. lo_map_fd[f] \notin S
    BY <2>1
  <2> QED
    BY <1>1, <2>1, <2>2
<1>8. ASSUME NEW f \in Fds, lo_map_fd'[f] = 0
      PROVE  epoll'[f] = NoInterest /\ ~sock'[f].open
  <2>1. CASE f \in closed
    BY <1>1, <2>1, ConstantTypes
  <2>2. CASE f \notin closed
    BY <1>1, <1>8, <2>2 DEF Registered
  <2> QED
    BY <2>1, <2>2
<1>9. Registered'
  BY <1>6, <1>7, <1>8 DEF Registered
<1> QED
  BY <1>3, <1>6, <1>9

(* UNotifier::insert and UNotifier::modify register slot s, which has the   *)
(* descriptor f now, for what its image i waits for.                        *)
LEMMA InterestTables ==
    ASSUME TableTypes, Registered, NEW s \in Slots, NEW f \in Fds,
           NEW i \in Images, NEW c \in Conns, c.open, Interest(f, s, i, c),
           \/ fd[s] = f /\ UNCHANGED <<fd, lo_map_fd>>
           \/ /\ fd[s] = 0 /\ ~sock[f].open
              /\ fd' = [fd EXCEPT ![s] = f] /\ lo_map_fd' = [lo_map_fd EXCEPT ![f] = s],
           image' = [image EXCEPT ![s] = i], num_connection' \in Int, ghosts' \in Nat
    PROVE  /\ TableTypes' /\ Registered' /\ Busy' = Busy \cup {s} /\ fd'[s] = f
           /\ \A t \in Busy \ {s} : fd'[t] = fd[t] /\ sock'[fd[t]] = sock[fd[t]] /\ image'[t] = image[t]
           /\ (i.op_mask = WRITE /\ sock'[f].room) => sock'[f].out
<1>0. f # 0 /\ s # 0
  BY ConstantTypes
<1>1. /\ fd' \in [Slots -> Fds \cup {0}] /\ lo_map_fd' \in [Fds -> Slots \cup {0}]
      /\ fd'[s] = f /\ lo_map_fd'[f] = s
      /\ \A t \in Slots \ {s} : fd'[t] = fd[t]
      /\ \A g \in Fds \ {f} : lo_map_fd'[g] = lo_map_fd[g]
  <2>1. CASE fd[s] = f /\ UNCHANGED <<fd, lo_map_fd>>
    BY <1>0, <2>1, BusyFd DEF TableTypes
  <2>2. CASE fd' = [fd EXCEPT ![s] = f] /\ lo_map_fd' = [lo_map_fd EXCEPT ![f] = s]
    BY <2>2 DEF TableTypes
  <2> QED
    BY <2>1, <2>2
<1>2. /\ epoll' = [epoll EXCEPT ![f] = [ptr |-> s, mask |-> i.op_mask]]
      /\ [ptr |-> s, mask |-> i.op_mask] \in [ptr : Slots \cup {0}, mask : {READ, WRITE}]
  BY DEF Interest, Images
<1> DEFINE d == [c EXCEPT !.out = c.room /\ i.op_mask = WRITE]
<1>3. d \in Conns /\ d.open
  BY DEF Conns
<1>4. sock'[f] \in Conns /\ sock'[f].open /\ sock' \in [Fds -> Conns]
      /\ \A g \in Fds \ {f} : sock'[g] = sock[g]
  BY <1>3 DEF Interest, TableTypes
<1>5. TableTypes'
  BY <1>1, <1>2, <1>4 DEF TableTypes
<1>6. Busy' = Busy \cup {s}
  BY <1>0, <1>1 DEF Busy
<1>7. ASSUME NEW t \in Busy \ {s}
      PROVE  t \in Slots /\ fd[t] \in Fds \ {f} /\ fd'[t] = fd[t] /\ image'[t] = image[t]
  <2>1. t \in Slots /\ fd[t] # 0
    BY DEF Busy
  <2>2. fd[t] \in Fds /\ sock[fd[t]].open /\ (fd[s] = fd[t] => s = t)
    BY <2>1, BusyFd
  <2> QED
    BY <1>1, <2>1, <2>2 DEF TableTypes
<1>8. ASSUME NEW t \in Busy'
      PROVE  /\ lo_map_fd'[fd'[t]] = t /\ sock'[fd'[t]].open
             /\ epoll'[fd'[t]] = [ptr |-> t, mask |-> image'[t].op_mask]
  <2>1. CASE t = s
    BY <1>1, <1>2, <1>4, <2>1 DEF TableTypes
  <2>2. CASE t \in Busy \ {s}
    <3>1. lo_map_fd[fd[t]] = t /\ sock[fd[t]].open /\ epoll[fd[t]] = [ptr |-> t, mask |-> image[t].op_mask]
      BY <2>2 DEF Registered
    <3>2. epoll'[fd[t]] = epoll[fd[t]]
      BY <1>2, <1>7, <2>2 DEF TableTypes
    <3> QED
      BY <1>1, <1>4, <1>7, <2>2, <3>1, <3>2
  <2> QED
    BY <1>6, <2>1, <2>2
<1>9. ASSUME NEW g \in Fds
      PROVE  /\ lo_map_fd'[g] # 0 => fd'[lo_map_fd'[g]] = g
             /\ lo_map_fd'[g] = 0 => epoll'[g] = NoInterest /\ ~sock'[g].open
  <2>1. CASE g = f
    BY <1>0, <1>1, <2>1
  <2>2. CASE g # f
    <3>1. lo_map_fd'[g] = lo_map_fd[g] /\ epoll'[g] = epoll[g] /\ sock'[g] = sock[g]
      BY <1>1, <1>2, <1>4, <2>2 DEF TableTypes
    <3>2. ASSUME lo_map_fd[g] # 0 PROVE fd'[lo_map_fd[g]] = g
      <4>1. lo_map_fd[g] \in Slots /\ fd[lo_map_fd[g]] = g
        BY <3>2 DEF Registered, TableTypes
      <4>2. lo_map_fd[g] # s
        BY <2>2, <4>1, ConstantTypes
      <4> QED
        BY <1>1, <4>1, <4>2
    <3> QED
      BY <3>1, <3>2 DEF Registered
  <2> QED
    BY <2>1, <2>2
<1>10. Registered'
  BY <1>8, <1>9 DEF Registered
<1>11. (i.op_mask = WRITE /\ sock'[f].room) => sock'[f].out
  <2>1. sock'[f] = d
    BY DEF Interest, TableTypes
  <2>2. d.room = c.room /\ ((c.room /\ i.op_mask = WRITE) => d.out)
    BY DEF Conns
  <2> HIDE DEF d
  <2> QED
    BY <2>1, <2>2
<1> QED
  BY <1>1, <1>4, <1>5, <1>6, <1>7, <1>10, <1>11

(* A slot that a step leaves alone hears of the room as before.             *)
LEMMA RoomKept ==
    ASSUME NEW s, RoomHeard(s), fd'[s] = fd[s], sock'[fd[s]] = sock[fd[s]],
           image'[s].count = image[s].count, image'[s].op_mask = image[s].op_mask,
           image'[s].dry = image[s].dry,
           \A e \in batch : e.ptr = s /\ ~e.bread => e \in batch'
    PROVE  RoomHeard(s)'
  BY DEF RoomHeard

(* A step that leaves alone the tables, what slots in use wait for, and     *)
(* their events.                                                            *)
LEMMA TablesKept ==
    ASSUME TableInv, UNCHANGED <<fd, lo_map_fd, sock, epoll>>, num_connection' \in Int, ghosts' \in Nat,
           image' \in [Slots -> Images],
           \A s \in Busy : /\ image'[s].op_mask = image[s].op_mask /\ image'[s].count = image[s].count
                           /\ image'[s].dry = image[s].dry,
           LoopTypes', \A e \in batch : e.ptr \in Busy => e \in batch'
    PROVE  TableInv'
<1>1. TableTypes'
  BY TypeParts DEF TableInv, TableTypes
<1>2. Busy' = Busy
  BY DEF Busy
<1>3. Registered'
  BY <1>2 DEF TableInv, Registered
<1>4. ASSUME NEW s \in Busy' PROVE RoomHeard(s)'
  BY <1>2, <1>4, RoomKept DEF TableInv, WriteInv
<1> QED
  BY <1>1, <1>3, <1>4, TypeParts DEF TableInv, WriteInv

(* A step that leaves slots, images and connections alone.                  *)
LEMMA TablesUnchanged ==
    ASSUME TableInv, UNCHANGED <<num_connection, fd, image, lo_map_fd, sock, epoll, ghosts>>,
           LoopTypes', batch \subseteq batch' \cup {Accepting}
    PROVE  TableInv'
<1>1. num_connection' \in Int /\ ghosts' \in Nat /\ image' \in [Slots -> Images]
  BY DEF TableInv, TypeOK
<1>2. \A e \in batch : e.ptr \in Busy => e \in batch'
  BY ConstantTypes DEF Accepting, Server, Busy
<1> QED
  BY <1>1, <1>2, TablesKept

(* UNotifier::handlerDelete of the slots in S, whose events may go.         *)
LEMMA DeleteKeepsTables ==
    ASSUME TableInv, NEW S \in SUBSET Slots, handlerDelete(S), LoopTypes',
           image' \in [Slots -> Images], \A s \in Slots \ S : image'[s] = image[s],
           \A e \in batch : e.ptr \notin S => e \in batch'
    PROVE  TableInv'
<1>1. /\ TableTypes' /\ Registered'
      /\ \A s \in Busy' : s \in Busy /\ s \notin S /\ fd'[s] = fd[s] /\ sock'[fd[s]] = sock[fd[s]]
  BY TypeParts, DeleteTables DEF TableInv
<1>2. ASSUME NEW s \in Busy' PROVE RoomHeard(s)'
  <2>1. /\ s \in Slots \ S /\ RoomHeard(s) /\ fd'[s] = fd[s] /\ sock'[fd[s]] = sock[fd[s]]
        /\ image'[s] = image[s]
    BY <1>1, <1>2 DEF TableInv, WriteInv, Busy
  <2>2. \A e \in batch : e.ptr = s /\ ~e.bread => e \in batch'
    BY <2>1
  <2> QED
    BY <2>1, <2>2, RoomKept
<1> QED
  BY <1>1, <1>2, TypeParts DEF TableInv, WriteInv

(* UNotifier::insert and UNotifier::modify report an edge that is there.    *)
LEMMA InterestKeepsTables ==
    ASSUME TableInv, NEW s \in Slots, NEW f \in Fds,
           NEW i \in Images, NEW c \in Conns, c.open, Interest(f, s, i, c),
           \/ fd[s] = f /\ UNCHANGED <<fd, lo_map_fd>>
           \/ /\ fd[s] = 0 /\ ~sock[f].open
              /\ fd' = [fd EXCEPT ![s] = f] /\ lo_map_fd' = [lo_map_fd EXCEPT ![f] = s],
           image' = [image EXCEPT ![s] = i], num_connection' \in Int, ghosts' \in Nat,
           LoopTypes', \A e \in batch : e.ptr # s => e \in batch'
    PROVE  TableInv'
<1>1. /\ TableTypes' /\ Registered' /\ Busy' = Busy \cup {s} /\ fd'[s] = f
      /\ \A t \in Busy \ {s} : fd'[t] = fd[t] /\ sock'[fd[t]] = sock[fd[t]] /\ image'[t] = image[t]
      /\ (i.op_mask = WRITE /\ sock'[f].room) => sock'[f].out
  <2>1. TableTypes /\ Registered
    BY TypeParts DEF TableInv
  <2> QED
    BY <2>1, InterestTables
<1>2. ASSUME NEW t \in Busy \ {s} PROVE RoomHeard(t)'
  <2>1. RoomHeard(t) /\ fd'[t] = fd[t] /\ sock'[fd[t]] = sock[fd[t]] /\ image'[t] = image[t] /\ t # s
    BY <1>1 DEF TableInv, WriteInv
  <2>2. \A e \in batch : e.ptr = t /\ ~e.bread => e \in batch'
    BY <2>1
  <2> QED
    BY <2>1, <2>2, RoomKept
<1>3. image'[s] = i
  BY DEF TableInv, TypeOK
<1>4. RoomHeard(s)'
  BY <1>1, <1>3 DEF RoomHeard
<1> QED
  BY <1>1, <1>2, <1>4, TypeParts DEF TableInv, WriteInv

(* A handler that leaves the mask as it was does not tell the kernel: the   *)
(* slot owes no part that it could send, or still hears of the room.        *)
LEMMA UnmodifiedKeepsTables ==
    ASSUME TableInv, NEW s \in Slots, fd[s] # 0,
           NEW i \in Images, NEW c \in Conns, c.open, sock' = [sock EXCEPT ![fd[s]] = c],
           i.op_mask = image[s].op_mask, image' = [image EXCEPT ![s] = i],
           UNCHANGED <<num_connection, fd, lo_map_fd, epoll, ghosts>>,
           LoopTypes', \A e \in batch : e.ptr # s => e \in batch',
           (i.count > 0 /\ i.op_mask = WRITE /\ ~i.dry /\ c.room) =>
              (c.out \/ c.hup \/ \E e \in batch' : e.ptr = s /\ ~e.bread)
    PROVE  TableInv'
<1>1. TableTypes /\ Registered
  BY TypeParts DEF TableInv
<1>2. fd[s] \in Fds /\ s \in Busy /\ \A t \in Slots : fd[t] = fd[s] => t = s
  BY <1>1, BusyFd
<1>3. TableTypes' /\ Busy' = Busy
  BY <1>1, <1>2 DEF TableTypes, Busy
<1>4. image'[s] = i /\ sock'[fd[s]] = c /\ \A t \in Slots : image'[t].op_mask = image[t].op_mask
  BY <1>1, <1>2 DEF TableTypes
<1>5. \A g \in Fds : sock'[g].open <=> sock[g].open
  <2>1. sock[fd[s]].open
    BY <1>1, BusyFd
  <2> QED
    BY <1>1, <1>2, <2>1 DEF TableTypes
<1>6. Registered'
  <2>1. \A t \in Busy : t \in Slots /\ fd[t] \in Fds
    BY <1>1 DEF TableTypes, Busy
  <2> QED
    BY <1>1, <1>3, <1>4, <1>5, <2>1 DEF Registered
<1>7. ASSUME NEW t \in Busy' PROVE RoomHeard(t)'
  <2>1. CASE t = s
    BY <1>4, <2>1 DEF RoomHeard
  <2>2. CASE t # s
    <3>1. RoomHeard(t) /\ t \in Slots /\ fd[t] # 0
      BY <1>3, <1>7 DEF TableInv, WriteInv, Busy
    <3>2. fd[t] # fd[s] /\ fd[t] \in Fds
      BY <1>1, <1>2, <2>2, <3>1 DEF TableTypes
    <3>3. image'[t] = image[t] /\ sock'[fd[t]] = sock[fd[t]] /\ fd'[t] = fd[t]
      BY <1>1, <2>2, <3>1, <3>2 DEF TableTypes
    <3>4. \A e \in batch : e.ptr = t /\ ~e.bread => e \in batch'
      BY <2>2
    <3> QED
      BY <3>1, <3>3, <3>4, RoomKept
  <2> QED
    BY <2>1, <2>2
<1> QED
  BY <1>3, <1>6, <1>7, TypeParts DEF TableInv, WriteInv

(* epoll_wait takes an edge and puts its event into the batch.              *)
LEMMA WaitTables ==
    ASSUME TableInv, pc = "wait" => batch = {}, waitForEvent
    PROVE  TableInv'
<1> USE DEF kernel, loop, listen
<1>1. TableTypes /\ LoopTypes /\ Registered
  BY TypeParts DEF TableInv
<1>2. \A f \in Fds : [sock[f] EXCEPT !.out = FALSE] \in Conns /\ [sock[f] EXCEPT !.out = FALSE].open = sock[f].open
  BY <1>1 DEF TableTypes, Conns
<1>3. /\ sock' = [f \in Fds |-> IF f \in Ready THEN [sock[f] EXCEPT !.out = FALSE] ELSE sock[f]]
      /\ UNCHANGED <<num_connection, fd, image, lo_map_fd, epoll, ghosts>>
      /\ batch = {} /\ pc' = "dispatch" /\ quiet' = 0 /\ edge' = FALSE
      /\ UNCHANGED <<pClientIndex, counter, backlog, undrained, events, files>>
      /\ batch' = {Event(f) : f \in Ready} \cup (IF edge THEN {Accepting} ELSE {})
  BY DEF waitForEvent
<1>4. sock' \in [Fds -> Conns] /\ \A f \in Fds : sock'[f].open = sock[f].open
  BY <1>1, <1>2, <1>3 DEF TableTypes
<1>5. TableTypes' /\ Busy' = Busy
  BY <1>1, <1>3, <1>4 DEF TableTypes, Busy
<1>6. Registered'
  <2>1. \A s \in Busy : fd[s] \in Fds
    BY <1>1 DEF Busy, TableTypes
  <2> QED
    BY <1>1, <1>3, <1>4, <1>5, <2>1 DEF Registered
<1>7. \A f \in Ready : Event(f) \in [ptr : Slots \cup {Server}, bread : BOOLEAN, bexcept : BOOLEAN]
  <2> SUFFICES ASSUME NEW f \in Ready
               PROVE  Event(f) \in [ptr : Slots \cup {Server}, bread : BOOLEAN, bexcept : BOOLEAN]
    OBVIOUS
  <2>1. f \in Fds /\ epoll[f].ptr \in Slots \cup {0}
    BY <1>1 DEF Ready, TableTypes
  <2>2. sock[f].hup \in BOOLEAN
    BY <1>1, <2>1 DEF TableTypes, Conns
  <2>3. (epoll[f].mask = READ) \in BOOLEAN
    OBVIOUS
  <2> QED
    BY <2>1, <2>2, <2>3 DEF Event, Server
<1>8. LoopTypes'
  <2>1. Accepting \in [ptr : Slots \cup {Server}, bread : BOOLEAN, bexcept : BOOLEAN]
    BY DEF Accepting
  <2>2. batch' \subseteq [ptr : Slots \cup {Server}, bread : BOOLEAN, bexcept : BOOLEAN]
    BY <1>3, <1>7, <2>1
  <2>3. 0 \in 0..Idle
    BY ServerAssumption
  <2>4. edge' \in BOOLEAN
    BY <1>3, Zenon
  <2> QED
    BY <1>1, <1>3, <2>2, <2>3, <2>4 DEF LoopTypes, Bounded
<1>9. ASSUME NEW s \in Busy', image[s].count > 0, image[s].op_mask = WRITE, ~image[s].dry
      PROVE  \/ ~sock'[fd[s]].room \/ sock'[fd[s]].out \/ sock'[fd[s]].hup
             \/ \E e \in batch' : e.ptr = s /\ ~e.bread
  <2>1. s \in Slots /\ fd[s] # 0
    BY <1>5 DEF Busy
  <2>2. fd[s] \in Fds /\ epoll[fd[s]] = [ptr |-> s, mask |-> WRITE]
    BY <1>1, <1>9, <2>1, BusyFd
  <2>3. ~sock[fd[s]].room \/ sock[fd[s]].out \/ sock[fd[s]].hup
    BY <1>3, <1>5, <1>9 DEF TableInv, WriteInv, RoomHeard
  <2>4. CASE fd[s] \in Ready
    <3>1. Event(fd[s]) \in batch'
      BY <1>3, <2>4
    <3>2. epoll[fd[s]].ptr = s /\ epoll[fd[s]].mask # READ
      BY <2>2 DEF READ, WRITE
    <3>3. Event(fd[s]).ptr = epoll[fd[s]].ptr
      BY DEF Event
    <3>4. Event(fd[s]).bread = (epoll[fd[s]].mask = READ)
      BY DEF Event
    <3> QED
      BY <3>1, <3>2, <3>3, <3>4
  <2>5. CASE fd[s] \notin Ready
    BY <1>3, <2>2, <2>3, <2>5
  <2> QED
    BY <2>4, <2>5
<1>10. WriteInv'
  BY <1>3, <1>9 DEF WriteInv, RoomHeard
<1> QED
  BY <1>5, <1>6, <1>8, <1>10, TypeParts DEF TableInv

(* handlerTime and the idle check of the accept loop.                       *)
LEMMA TimeTables ==
    ASSUME TableInv, handlerTime \/ AcceptErasesIdle
    PROVE  TableInv'
<1> USE DEF kernel, loop, listen
<1>1. TableTypes /\ LoopTypes
  BY TypeParts DEF TableInv
<1>2. PICK S \in SUBSET Slots :
         /\ handlerDelete(S)
         /\ image' \in [Slots -> Images] /\ \A s \in Slots \ S : image'[s] = image[s]
  <2>1. CASE handlerTime
    <3> DEFINE S == IF AnyConnection THEN {lo_map_fd[f] : f \in Fds} \ {0} ELSE {}
    <3>1. /\ handlerDelete(S)
          /\ image' = [s \in Slots |-> IF s \in S THEN Deleted(image[s]) ELSE image[s]]
      BY <2>1 DEF handlerTime
    <3>2. S \in SUBSET Slots
      BY <1>1 DEF TableTypes
    <3>3. image' \in [Slots -> Images] /\ \A s \in Slots \ S : image'[s] = image[s]
      BY <1>1, <3>1, DeletedImage DEF TableTypes
    <3> QED
      BY <3>1, <3>2, <3>3
  <2>2. CASE AcceptErasesIdle
    <3>1. /\ handlerDelete({pClientIndex}) /\ pClientIndex \in Slots
          /\ image' = [image EXCEPT ![pClientIndex] = Deleted(image[pClientIndex])]
      BY <1>1, <2>2 DEF AcceptErasesIdle, LoopTypes
    <3>2. image' \in [Slots -> Images] /\ \A s \in Slots \ {pClientIndex} : image'[s] = image[s]
      BY <1>1, <3>1, DeletedImage DEF TableTypes
    <3>3. {pClientIndex} \in SUBSET Slots
      BY <3>1
    <3> QED
      BY <3>1, <3>2, <3>3
  <2> QED
    BY <2>1, <2>2
<1>3. 0 \in 0..Idle
  BY ServerAssumption
<1>4. LoopTypes' /\ batch' = batch
  BY <1>1, <1>3 DEF handlerTime, AcceptErasesIdle, LoopTypes, Bounded
<1> QED
  BY <1>2, <1>4, DeleteKeepsTables

(* An event of a connection, which may be stale: the slot is then free, or  *)
(* has another connection.                                                  *)
LEMMA DispatchTables ==
    ASSUME TableInv, NEW e \in batch, Dispatch(e)
    PROVE  TableInv'
<1> USE DEF kernel, loop, listen
<1> DEFINE s == e.ptr
           i == image[s]
           c == Conn(s)
<1>1. TableTypes /\ LoopTypes /\ Registered
  BY TypeParts DEF TableInv
<1>2. s \in Slots /\ i \in Images /\ batch' = batch \ {e}
  BY <1>1 DEF Dispatch, Server, LoopTypes, TableTypes
<1>3. c \in Conns /\ (fd[s] # 0 => fd[s] \in Fds /\ c = sock[fd[s]] /\ c.open)
  <2>1. CASE fd[s] = 0
    BY <2>1, ConstantTypes DEF Conn
  <2>2. CASE fd[s] # 0
    <3>1. fd[s] \in Fds /\ sock[fd[s]].open
      BY <1>1, <1>2, <2>2, BusyFd
    <3>2. c = sock[fd[s]]
      BY <2>2 DEF Conn
    <3> QED
      BY <1>1, <3>1, <3>2 DEF TableTypes
  <2> QED
    BY <2>1, <2>2
<1>4. PICK o \in IF e.bexcept THEN handlerError(i, c)
                 ELSE IF e.bread THEN handlerRead(i, c) ELSE handlerWrite(i, c) : handlerResult(s, o)
  BY DEF Dispatch
<1>5. Sound(o, i, c)
  BY <1>2, <1>3, <1>4, ErrorOutcome, ReadOutcome, WriteOutcome
<1>6. LoopTypes'
  <2>1. pc' \in {"wait", "dispatch", "exit"}
    BY DEF Dispatch, Resume
  <2>2. files' \in 0..MaxFiles
    <3>1. files' = IF o.file THEN files + 1 ELSE files
      BY <1>4 DEF handlerResult
    <3>2. files \in 0..MaxFiles /\ (o.file => files < MaxFiles)
      BY <1>1, <1>5 DEF LoopTypes, Sound
    <3> QED
      BY <3>1, <3>2, ServerAssumption
  <2>3. UNCHANGED <<pClientIndex, counter, backlog, edge, undrained, quiet, events>>
    BY DEF Dispatch
  <2> QED
    BY <1>1, <1>2, <2>1, <2>2, <2>3 DEF LoopTypes, Bounded
<1>7. CASE o.ret = "DELETE" /\ handlerDelete({s})
  <2>1. image' = [image EXCEPT ![s] = Deleted(o.image)] /\ o.image \in Images
    BY <1>4, <1>5, <1>7 DEF handlerResult, Sound
  <2>2. image' \in [Slots -> Images] /\ \A t \in Slots \ {s} : image'[t] = image[t]
    BY <1>1, <1>2, <2>1, DeletedImage DEF TableTypes
  <2>3. \A d \in batch : d.ptr \notin {s} => d \in batch'
    BY <1>2
  <2>4. {s} \in SUBSET Slots
    BY <1>2
  <2> QED
    BY <1>6, <1>7, <2>2, <2>3, <2>4, DeleteKeepsTables
<1>8. CASE /\ o.ret = "OK" /\ fd[s] # 0 /\ o.mod /\ Interest(fd[s], s, o.image, o.sock)
           /\ UNCHANGED <<num_connection, fd, lo_map_fd, ghosts>>
  <2>1. image' = [image EXCEPT ![s] = o.image]
    BY <1>4, <1>8 DEF handlerResult
  <2>2. o.image \in Images /\ o.sock \in Conns /\ o.sock.open /\ fd[s] \in Fds
    BY <1>3, <1>5, <1>8 DEF Sound
  <2>3. \A d \in batch : d.ptr # s => d \in batch'
    BY <1>2
  <2>4. num_connection' \in Int /\ ghosts' \in Nat
    BY <1>1, <1>8 DEF TableTypes
  <2> QED
    BY <1>2, <1>6, <1>8, <2>1, <2>2, <2>3, <2>4, InterestKeepsTables
<1>9. CASE /\ o.ret = "OK" /\ fd[s] # 0 /\ ~o.mod /\ sock' = [sock EXCEPT ![fd[s]] = o.sock]
           /\ UNCHANGED <<num_connection, fd, lo_map_fd, epoll, ghosts>>
  <2>1. image' = [image EXCEPT ![s] = o.image]
    BY <1>4, <1>9 DEF handlerResult
  <2>2. o.image \in Images /\ o.sock \in Conns /\ o.sock.open /\ o.image.op_mask = image[s].op_mask
    BY <1>3, <1>5, <1>9 DEF Sound
  <2>3. \A d \in batch : d.ptr # s => d \in batch'
    BY <1>2
  <2>4. ASSUME o.image.count > 0, o.image.op_mask = WRITE, ~o.image.dry, o.sock.room
        PROVE  o.sock.out \/ o.sock.hup \/ \E d \in batch' : d.ptr = s /\ ~d.bread
    <3>1. ~Drained(o)
      <4>1. o.image.count # 0
        BY <2>2, <2>4 DEF Images
      <4> QED
        BY <1>9, <2>4, <4>1 DEF Drained
    <3>2. ~e.bexcept
      BY <1>2, <1>3, <1>4, <1>9, ErrorOutcome
    <3>3. e.bread
      BY <1>2, <1>3, <1>4, <3>1, <3>2, WriteOutcome
    <3>4. o.image = i /\ o.sock = c
      BY <1>2, <1>3, <1>4, <3>1, <3>2, <3>3, ReadOutcome
    <3>5. RoomHeard(s)
      BY <1>2, <1>9 DEF TableInv, WriteInv, Busy
    <3>6. o.sock.out \/ o.sock.hup \/ \E d \in batch : d.ptr = s /\ ~d.bread
      BY <1>3, <1>9, <2>4, <3>4, <3>5 DEF RoomHeard
    <3> QED
      BY <1>2, <3>3, <3>6
  <2> QED
    BY <1>2, <1>6, <1>9, <2>1, <2>2, <2>3, <2>4, UnmodifiedKeepsTables
<1>10. CASE o.ret = "OK" /\ fd[s] = 0 /\ UNCHANGED <<num_connection, fd, lo_map_fd, kernel, ghosts>>
  <2>1. image' = [image EXCEPT ![s] = o.image] /\ o.image \in Images
    BY <1>4, <1>5, <1>10 DEF handlerResult, Sound
  <2>2. image' \in [Slots -> Images] /\ \A t \in Busy : image'[t] = image[t]
    BY <1>1, <1>2, <1>10, <2>1 DEF TableTypes, Busy
  <2>3. \A d \in batch : d.ptr \in Busy => d \in batch'
    BY <1>2, <1>10 DEF Busy
  <2>4. num_connection' \in Int /\ ghosts' \in Nat
    BY <1>1, <1>10 DEF TableTypes
  <2> QED
    BY <1>6, <1>10, <2>2, <2>3, <2>4, TablesKept
<1> QED
  BY <1>4, <1>7, <1>8, <1>9, <1>10 DEF handlerResult

(* The end of a turn of the accept loop that took a client off the backlog. *)
LEMMA CheckTypes ==
    ASSUME LoopTypes, Turn, backlog > 0, Check, UNCHANGED <<batch, edge, quiet>>,
           events' \in 0..MaxEvents, events' >= events, files' \in 0..MaxFiles
    PROVE  LoopTypes'
<1>1. pClientIndex' \in Slots
  BY CheckEnds DEF LoopTypes
<1>2. /\ counter' \in 0..Burst /\ backlog' \in 0..MaxEvents /\ backlog' <= events'
      /\ counter' = counter + 1 /\ backlog' = backlog - 1
  BY ServerAssumption DEF LoopTypes, Bounded, Turn, Check
<1>3. \/ counter' < Burst /\ UNCHANGED <<pc, undrained>>
      \/ undrained' = (backlog' > 0) /\ pc' \in {"wait", "dispatch", "exit"}
  BY DEF Check, Resume
<1>4. undrained' \in BOOLEAN
  <2>1. undrained \in BOOLEAN
    BY DEF LoopTypes
  <2>2. CASE UNCHANGED undrained
    BY <2>1, <2>2
  <2>3. CASE undrained' = (backlog' > 0)
    BY <2>3
  <2> QED
    BY <1>3, <2>2, <2>3
<1> QED
  BY <1>1, <1>2, <1>3, <1>4 DEF LoopTypes, Bounded

(* An event that is counted stays within the bound.                         *)
LEMMA CountedBound ==
    ASSUME events \in 0..MaxEvents, NEW b, Counted(b)
    PROVE  events' \in 0..MaxEvents /\ events' >= events /\ (b => events' = events + 1)
  BY ServerAssumption DEF Counted

(* The turns of the accept loop that take no client in.                     *)
LEMMA AcceptTables ==
    ASSUME TableInv, AcceptBegin \/ AcceptSkips \/ AcceptFails \/ AcceptDenies
    PROVE  TableInv'
<1> USE DEF kernel, loop, listen
<1>1. LoopTypes /\ num_connection \in Int
  BY TypeParts DEF TableInv, TypeOK
<1>2. CASE AcceptBegin
  <2>1. LoopTypes'
    BY <1>1, <1>2, ServerAssumption DEF AcceptBegin, LoopTypes, Bounded
  <2> QED
    BY <1>2, <2>1, TablesUnchanged DEF AcceptBegin
<1>3. CASE AcceptSkips
  <2>1. LoopTypes'
    BY <1>1, <1>3, AfterInSlots DEF AcceptSkips, LoopTypes, Bounded
  <2> QED
    BY <1>3, <2>1, TablesUnchanged DEF AcceptSkips
<1>4. CASE AcceptFails
  <2>1. pc' \in {"wait", "dispatch", "exit"} /\ undrained' \in BOOLEAN
    BY <1>4 DEF AcceptFails, Resume
  <2>2. events' \in 0..MaxEvents /\ backlog' <= events'
    BY <1>1, <1>4, CountedBound DEF AcceptFails, LoopTypes, Bounded
  <2>3. LoopTypes'
    BY <1>1, <1>4, <2>1, <2>2 DEF AcceptFails, LoopTypes, Bounded
  <2> QED
    BY <1>4, <2>3, TablesUnchanged DEF AcceptFails
<1>5. CASE AcceptDenies
  <2>1. /\ Turn /\ backlog > 0 /\ Check /\ UNCHANGED <<batch, edge, quiet, events, files>>
        /\ UNCHANGED <<fd, image, lo_map_fd, sock, epoll, ghosts>>
    BY <1>5 DEF AcceptDenies
  <2>2. num_connection' = num_connection
    BY <1>1, <1>5 DEF AcceptDenies
  <2>3. events' \in 0..MaxEvents /\ events' >= events /\ files' \in 0..MaxFiles
    BY <1>1, <2>1, ServerAssumption DEF LoopTypes
  <2>4. LoopTypes'
    BY <1>1, <2>1, <2>3, CheckTypes
  <2> QED
    BY <2>1, <2>2, <2>4, TablesUnchanged
<1> QED
  BY <1>2, <1>3, <1>4, <1>5

(* A client is taken in, on a descriptor that no slot has.                  *)
LEMMA ClientTables ==
    ASSUME TableInv, AcceptClient
    PROVE  TableInv'
<1> USE DEF kernel, loop, listen
<1> DEFINE s == pClientIndex
<1>1. TableTypes /\ LoopTypes /\ s \in Slots /\ fd[s] = 0
  BY TypeParts DEF TableInv, TypeOK, AcceptClient
<1>2. PICK f \in NewFd, in \in BOOLEAN, hup \in BOOLEAN, age \in 0..Idle :
         \E o \in handlerRead([image[s] EXCEPT !.age = age],
                              [open |-> TRUE, in |-> in, hup |-> hup, room |-> TRUE, out |-> FALSE]) :
            /\ Counted(hup) /\ files' = IF o.file THEN files + 1 ELSE files
            /\ \/ /\ o.ret = "DELETE"
                  /\ num_connection' = (num_connection + 1) - 1
                  /\ image' = [image EXCEPT ![s] = Deleted(o.image)]
                  /\ UNCHANGED <<fd, lo_map_fd, kernel>>
               \/ /\ o.ret = "OK"
                  /\ num_connection' = num_connection + 1
                  /\ fd' = [fd EXCEPT ![s] = f]
                  /\ image' = [image EXCEPT ![s] = o.image]
                  /\ lo_map_fd' = [lo_map_fd EXCEPT ![f] = s]
                  /\ Interest(f, s, o.image, o.sock)
  BY Zenon DEF AcceptClient
<1> DEFINE i == [image[s] EXCEPT !.age = age]
           c == [open |-> TRUE, in |-> in, hup |-> hup, room |-> TRUE, out |-> FALSE]
<1>3. i \in Images
  BY <1>1 DEF TableTypes, Images
<1>4. c \in Conns /\ c.open
  BY DEF Conns
<1>5. f \in Fds /\ ~sock[f].open /\ f # 0
  BY ConstantTypes DEF NewFd
<1>6. Turn /\ backlog > 0 /\ Check /\ UNCHANGED <<batch, edge, quiet, ghosts>>
  BY DEF AcceptClient
<1>7. ghosts' \in Nat /\ num_connection \in Int
  BY <1>1, <1>6 DEF TableTypes
<1> HIDE DEF i, c
<1>8. PICK o \in handlerRead(i, c) :
         /\ Counted(hup) /\ files' = IF o.file THEN files + 1 ELSE files
         /\ \/ /\ o.ret = "DELETE"
               /\ num_connection' = (num_connection + 1) - 1
               /\ image' = [image EXCEPT ![s] = Deleted(o.image)]
               /\ UNCHANGED <<fd, lo_map_fd, kernel>>
            \/ /\ o.ret = "OK"
               /\ num_connection' = num_connection + 1
               /\ fd' = [fd EXCEPT ![s] = f]
               /\ image' = [image EXCEPT ![s] = o.image]
               /\ lo_map_fd' = [lo_map_fd EXCEPT ![f] = s]
               /\ Interest(f, s, o.image, o.sock)
  BY <1>2, Zenon DEF i, c
<1>9. Sound(o, i, c)
  BY <1>3, <1>4, ReadOutcome
<1>10. LoopTypes'
  <2>1. events' \in 0..MaxEvents /\ events' >= events
    BY <1>1, <1>8, CountedBound DEF LoopTypes
  <2>2. files' \in 0..MaxFiles
    BY <1>1, <1>8, <1>9, ServerAssumption DEF LoopTypes, Sound
  <2> QED
    BY <1>1, <1>6, <2>1, <2>2, CheckTypes
<1>11. o.image \in Images /\ o.sock \in Conns /\ o.sock.open
  BY <1>4, <1>9 DEF Sound
<1>12. CASE o.ret = "DELETE"
  <2>1. /\ num_connection' = (num_connection + 1) - 1 /\ UNCHANGED <<fd, lo_map_fd, sock, epoll>>
        /\ image' = [image EXCEPT ![s] = Deleted(o.image)]
    BY <1>8, <1>12
  <2>2. image' \in [Slots -> Images] /\ \A t \in Busy : image'[t] = image[t]
    BY <1>1, <1>11, <2>1, DeletedImage DEF TableTypes, Busy
  <2>3. num_connection' \in Int
    BY <1>7, <2>1
  <2> QED
    BY <1>6, <1>7, <1>10, <2>1, <2>2, <2>3, TablesKept
<1>13. CASE o.ret = "OK"
  <2>1. /\ num_connection' = num_connection + 1
        /\ fd' = [fd EXCEPT ![s] = f]
        /\ image' = [image EXCEPT ![s] = o.image]
        /\ lo_map_fd' = [lo_map_fd EXCEPT ![f] = s]
        /\ Interest(f, s, o.image, o.sock)
    BY <1>8, <1>13
  <2>2. num_connection' \in Int /\ fd[s] # f
    BY <1>1, <1>5, <1>7, <2>1
  <2> QED
    BY <1>1, <1>5, <1>6, <1>7, <1>10, <1>11, <2>1, <2>2, InterestKeepsTables
<1> QED
  BY <1>8, <1>12, <1>13

(* Clients, the kernel and the clock.                                       *)
LEMMA EnvironmentTables ==
    ASSUME TableInv,
           Connect \/ Tick \/ \E f \in Fds : ClientSends(f) \/ ClientCloses(f) \/ ClientReads(f)
    PROVE  TableInv'
<1> USE DEF kernel, loop, listen
<1>1. TableTypes /\ LoopTypes /\ Registered
  BY TypeParts DEF TableInv
<1>2. CASE Connect
  <2>1. events' \in 0..MaxEvents /\ backlog' \in 0..MaxEvents /\ backlog' <= events'
    BY <1>1, <1>2, ServerAssumption DEF Connect, Counted, LoopTypes, Bounded
  <2>2. edge' \in BOOLEAN /\ undrained' \in BOOLEAN
    BY <1>2, Zenon DEF Connect
  <2>3. LoopTypes'
    BY <1>1, <1>2, <2>1, <2>2 DEF Connect, LoopTypes, Bounded
  <2> QED
    BY <1>2, <2>3, TablesUnchanged DEF Connect
<1>3. CASE Tick
  <2>1. \A n \in 0..Idle : Older(n) \in 0..Idle
    BY ServerAssumption DEF Older
  <2>2. LoopTypes'
    BY <1>1, <1>3, <2>1 DEF Tick, LoopTypes, Bounded
  <2>3. \A s \in Slots : LET i == [image[s] EXCEPT !.age = Older(image[s].age)]
                         IN  /\ i \in Images /\ i.op_mask = image[s].op_mask
                             /\ i.count = image[s].count /\ i.dry = image[s].dry
    BY <1>1, <2>1 DEF TableTypes, Images
  <2>4. /\ image' \in [Slots -> Images]
        /\ \A s \in Slots : /\ image'[s].op_mask = image[s].op_mask /\ image'[s].count = image[s].count
                            /\ image'[s].dry = image[s].dry
    BY <1>1, <1>3, <2>3 DEF Tick, TableTypes
  <2>5. num_connection' \in Int /\ ghosts' \in Nat
    BY <1>1, <1>3 DEF Tick, TableTypes
  <2>6. Busy \subseteq Slots
    BY DEF Busy
  <2> QED
    BY <1>3, <2>2, <2>4, <2>5, <2>6, TablesKept DEF Tick
<1>4. ASSUME NEW f \in Fds, ClientSends(f) \/ ClientCloses(f) \/ ClientReads(f)
      PROVE  TableInv'
  <2>1. PICK c : PeerStep(f, c) /\ c \in Conns /\ c.open
                 /\ events' \in 0..MaxEvents /\ events' >= events
                 /\ \/ c.room = sock[f].room /\ c.out = sock[f].out /\ c.hup = sock[f].hup
                    \/ c.hup
                    \/ c.out = (epoll[f].mask = WRITE)
    <3>1. sock[f] \in Conns /\ sock[f].open
      BY <1>1, <1>4 DEF TableTypes, ClientSends, ClientCloses, ClientReads, PeerStep
    <3>2. CASE ClientSends(f)
      <4>1. LET c == [sock[f] EXCEPT !.in = TRUE]
            IN  /\ c \in Conns /\ c.open
                /\ c.room = sock[f].room /\ c.out = sock[f].out /\ c.hup = sock[f].hup
        BY <3>1 DEF Conns
      <4>2. events' \in 0..MaxEvents /\ events' >= events
        BY <1>1, <3>2 DEF ClientSends, LoopTypes
      <4> QED
        BY <3>2, <4>1, <4>2 DEF ClientSends
    <3>3. CASE ClientCloses(f)
      <4>1. LET c == [sock[f] EXCEPT !.hup = TRUE] IN c \in Conns /\ c.open /\ c.hup
        BY <3>1 DEF Conns
      <4>2. events' \in 0..MaxEvents /\ events' >= events
        BY <1>1, <3>3, CountedBound DEF ClientCloses, LoopTypes
      <4> QED
        BY <3>3, <4>1, <4>2 DEF ClientCloses
    <3>4. CASE ClientReads(f)
      <4>1. LET c == [sock[f] EXCEPT !.room = TRUE, !.out = (epoll[f].mask = WRITE)]
            IN  c \in Conns /\ c.open /\ c.out = (epoll[f].mask = WRITE)
        BY <3>1 DEF Conns
      <4>2. events' \in 0..MaxEvents /\ events' >= events
        <5>1. events' = events
          BY <3>4, Zenon DEF ClientReads
        <5> QED
          BY <1>1, <5>1, ServerAssumption DEF LoopTypes
      <4> QED
        BY <3>4, <4>1, <4>2 DEF ClientReads
    <3> QED
      BY <1>4, <3>2, <3>3, <3>4
  <2>2. /\ sock' = [sock EXCEPT ![f] = c] /\ sock[f].open
        /\ UNCHANGED <<num_connection, fd, image, lo_map_fd, epoll, ghosts, batch>>
    BY <2>1 DEF PeerStep
  <2>3. TableTypes' /\ Busy' = Busy
    BY <1>1, <2>1, <2>2 DEF TableTypes, Busy
  <2>4. LoopTypes'
    BY <1>1, <2>1 DEF PeerStep, LoopTypes, Bounded
  <2>5. \A g \in Fds : sock'[g].open <=> sock[g].open
    BY <1>1, <2>1, <2>2 DEF TableTypes
  <2>6. \A s \in Busy : fd[s] \in Fds
    BY <1>1 DEF TableTypes, Busy
  <2>7. Registered'
    BY <1>1, <2>2, <2>3, <2>5, <2>6 DEF Registered
  <2>8. ASSUME NEW s \in Busy PROVE RoomHeard(s)'
    <3>1. RoomHeard(s) /\ fd[s] \in Fds
      BY <2>6 DEF TableInv, WriteInv
    <3>2. CASE fd[s] # f
      BY <1>1, <2>2, <3>1, <3>2, RoomKept DEF TableTypes
    <3>3. CASE fd[s] = f
      <4>1. sock'[fd[s]] = c
        BY <1>1, <2>2, <3>3 DEF TableTypes
      <4>2. epoll[f] = [ptr |-> s, mask |-> image[s].op_mask]
        BY <1>1, <3>3 DEF Registered
      <4>3. epoll[f].mask = image[s].op_mask
        BY <4>2
      <4> QED
        BY <2>1, <2>2, <3>1, <3>3, <4>1, <4>3 DEF RoomHeard
    <3> QED
      BY <3>2, <3>3
  <2> QED
    BY <2>3, <2>4, <2>7, <2>8, TypeParts DEF TableInv, WriteInv
<1> QED
  BY <1>2, <1>3, <1>4

(* The invariant of the tables, with that of the batch.                     *)
LEMMA TableStep == TableInv /\ EdgeInv /\ [Next]_vars => TableInv' /\ EdgeInv'
<1> SUFFICES ASSUME TableInv, EdgeInv, [Next]_vars PROVE TableInv'
  BY EdgeStep
<1>1. CASE waitForEvent
  BY <1>1, WaitTables DEF EdgeInv
<1>2. CASE UNCHANGED vars
  <2>1. LoopTypes
    BY TypeParts DEF TableInv
  <2>2. LoopTypes' /\ UNCHANGED <<num_connection, fd, image, lo_map_fd, sock, epoll, ghosts, batch>>
    BY <1>2, <2>1 DEF vars, kernel, loop, listen, LoopTypes, Bounded
  <2> QED
    BY <2>2, TablesUnchanged
<1> QED
  BY <1>1, <1>2, TimeTables, DispatchTables, AcceptTables, ClientTables, EnvironmentTables
     DEF Next, ServerNext

LEMMA TableInit == Init => TableInv /\ EdgeInv
<1> SUFFICES ASSUME Init PROVE TableInv /\ EdgeInv
  OBVIOUS
<1>1. Busy = {} /\ EdgeInv
  BY DEF Init, Busy, EdgeInv, EdgeKept
<1>2. TableTypes
  BY ConstantTypes DEF Init, TableTypes, min_connection
<1>3. LoopTypes
  <2>1. edge \in BOOLEAN /\ undrained \in BOOLEAN
    BY DEF Init
  <2>2. 1 \in Slots /\ 0 \in 0..Burst /\ 0 \in 0..MaxEvents /\ 0 \in 0..Idle
        /\ 0 \in 0..MaxFiles
    BY ServerAssumption DEF Slots
  <2> QED
    BY <2>1, <2>2 DEF Init, LoopTypes, Bounded
<1>4. Registered /\ WriteInv
  BY <1>1, ConstantTypes DEF Init, Registered, WriteInv
<1> QED
  BY <1>1, <1>2, <1>3, <1>4, TypeParts DEF TableInv

LEMMA TableInvariant == Spec => []TableInv
  BY TableInit, TableStep, PTL DEF Spec

(* Every slot, descriptor and event is one there is, for every bound.       *)
THEOREM ServerTypes == Spec => []TypeOK
<1>1. TableInv => TypeOK
  BY DEF TableInv
<1> QED
  BY <1>1, TableInvariant, PTL

(* The slots, lo_map_fd and the interest list agree, through stale events,  *)
(* idle checks and the use of a slot and a descriptor again, for any number *)
(* of slots and clients, although the kernel is told of a mask only where   *)
(* handlerWrite() calls modify().                                           *)
THEOREM TablesAgree == Spec => []Registered
<1>1. TableInv => Registered
  BY DEF TableInv
<1> QED
  BY <1>1, TableInvariant, PTL

(* A connection that owes a part of a file hears of the room, although its  *)
(* events are edge triggered and those of the batch may be stale, unless    *)
(* the file is shorter than count or a request has set sfd to 0 before the  *)
(* rest was sent.                                                           *)
THEOREM RoomIsHeard == Spec => []WriteEdgeKept
<1>1. TableInv => WriteEdgeKept
  BY DEF TableInv, WriteInv, RoomHeard, WriteEdgeKept
<1> QED
  BY <1>1, TableInvariant, PTL
=============================================================================
