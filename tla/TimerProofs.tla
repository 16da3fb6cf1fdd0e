---------------------------- MODULE TimerProofs ----------------------------
(***************************************************************************)
(* The timer and the recorded signals, for every set of alarms and every   *)
(* choice of their periods.                                                *)
(***************************************************************************)
EXTENDS Timer, SequenceTheorems, TLAPS

-----------------------------------------------------------------------------
(* The inductive invariant.                                                 *)

\* Where the locals of callHandlerSignal and setTimer are in use.
Locals ==
    /\ all => pc \in {"call", "timer", "done", "next"} /\ (pc = "timer" => bsignal)
    /\ bsignal => pc = "timer" /\ i = SIGALRM
    /\ pc = "read" => event_signal_pending # 0
    /\ pc = "clear" => i # 0

IInv == TypeOK /\ Locals /\ Ordered /\ Armed /\ SignalKept

-----------------------------------------------------------------------------
(* The list.                                                                *)

\* The places of a list into which an element is inserted at k.
LEMMA PutAtPlaces ==
    ASSUME NEW S, NEW l \in Seq(S), NEW a \in S, NEW k \in 1..Len(l) + 1
    PROVE  /\ PutAt(l, a, k) \in Seq(S) /\ Len(PutAt(l, a, k)) = Len(l) + 1
           /\ PutAt(l, a, k)[k] = a
           /\ \A n \in 1..Len(l) + 1 : n < k => PutAt(l, a, k)[n] = l[n]
           /\ \A n \in 1..Len(l) + 1 : n > k => PutAt(l, a, k)[n] = l[n - 1]
<1> DEFINE p == SubSeq(l, 1, k - 1)
           q == SubSeq(l, k, Len(l))
           s == p \o <<a>>
           r == PutAt(l, a, k)
<1>1. Len(l) \in Nat /\ k \in Nat /\ k >= 1 /\ k <= Len(l) + 1
  OBVIOUS
<1>2. p \in Seq(S) /\ Len(p) = k - 1 /\ \A n \in 1..k - 1 : p[n] = l[n]
  BY <1>1
<1>3. q \in Seq(S) /\ Len(q) = Len(l) - k + 1 /\ \A n \in 1..Len(l) - k + 1 : q[n] = l[k + n - 1]
  BY <1>1
<1> HIDE DEF p, q
<1>4. s \in Seq(S) /\ Len(s) = k /\ \A n \in 1..k : s[n] = IF n < k THEN l[n] ELSE a
  BY <1>1, <1>2
<1> HIDE DEF s
<1>5. r = s \o q
  BY DEF PutAt, p, q, s
<1> HIDE DEF r
<1>6. r \in Seq(S) /\ Len(r) = Len(s) + Len(q)
      /\ \A n \in 1..Len(s) + Len(q) : r[n] = IF n <= Len(s) THEN s[n] ELSE q[n - Len(s)]
  BY <1>3, <1>4, <1>5, ConcatProperties
<1>7. Len(r) = Len(l) + 1
  BY <1>1, <1>3, <1>4, <1>6
<1>8. ASSUME NEW n \in 1..Len(l) + 1, n <= k
      PROVE  r[n] = IF n < k THEN l[n] ELSE a
  BY <1>8, <1>1, <1>3, <1>4, <1>6
<1>9. ASSUME NEW n \in 1..Len(l) + 1, n > k
      PROVE  r[n] = l[n - 1]
  <2>1. r[n] = q[n - k] BY <1>9, <1>1, <1>3, <1>4, <1>6
  <2>2. n - k \in 1..Len(l) - k + 1 /\ k + (n - k) - 1 = n - 1 BY <1>9, <1>1
  <2>3. q[n - k] = l[n - 1] BY <2>2, <1>3
  <2> QED BY <2>1, <2>3
<1>10. r[k] = a
  <2>1. k \in 1..Len(l) + 1 /\ k <= k /\ ~(k < k) BY <1>1
  <2> QED BY <2>1, <1>8
<1>11. \A n \in 1..Len(l) + 1 : n < k => r[n] = l[n]
  BY <1>1, <1>8
<1> QED BY <1>6, <1>7, <1>9, <1>10, <1>11 DEF r

\* insertEntry keeps a list in the order of expiry, if it did not hold the alarm.
LEMMA InsertEntryOrders ==
    ASSUME NEW l \in Seq(Alarms), NEW a \in Alarms, InsertEntry(l, a),
           rem \in [Alarms -> Int], Period \in [Alarms -> Nat \ {0}],
           \A j \in 1..Len(l) : l[j] # a,
           \A j, k \in 1..Len(l) : j < k => rem[l[j]] <= rem[l[k]] /\ l[j] # l[k]
    PROVE  list' \in Seq(Alarms) /\ Ordered'
<1>1. PICK k \in 1..Len(l) + 1 :
        /\ \A j \in 1..k - 1 : ~(Period[a] < rem[l[j]])
        /\ k <= Len(l) => Period[a] < rem[l[k]]
        /\ list' = PutAt(l, a, k)
  BY DEF InsertEntry
<1>2. Len(l) \in Nat /\ k \in Nat /\ k >= 1
  OBVIOUS
<1>3. /\ list' \in Seq(Alarms) /\ Len(list') = Len(l) + 1
      /\ list'[k] = a
      /\ \A n \in 1..Len(l) + 1 : n < k => list'[n] = l[n]
      /\ \A n \in 1..Len(l) + 1 : n > k => list'[n] = l[n - 1]
  <2>1. /\ PutAt(l, a, k) \in Seq(Alarms) /\ Len(PutAt(l, a, k)) = Len(l) + 1
        /\ PutAt(l, a, k)[k] = a
        /\ \A n \in 1..Len(l) + 1 : n < k => PutAt(l, a, k)[n] = l[n]
        /\ \A n \in 1..Len(l) + 1 : n > k => PutAt(l, a, k)[n] = l[n - 1]
    BY PutAtPlaces
  <2>2. list' = PutAt(l, a, k)
    BY <1>1
  <2> QED BY <2>1, <2>2
<1>4. rem' = [rem EXCEPT ![a] = Period[a]]
  BY DEF InsertEntry
<1>5. \A j \in 1..Len(l) : l[j] \in Alarms /\ rem'[l[j]] = rem[l[j]] /\ rem[l[j]] \in Int
  BY <1>4
<1>6. rem'[a] = Period[a] /\ Period[a] \in Int
  BY <1>4
<1>7. \A j \in 1..Len(l) : j >= k => Period[a] < rem[l[j]]
  <2> SUFFICES ASSUME NEW j \in 1..Len(l), j >= k PROVE Period[a] < rem[l[j]]
    OBVIOUS
  <2>1. k \in 1..Len(l) /\ Period[a] < rem[l[k]]
    BY <1>1, <1>2
  <2> QED BY <2>1, <1>5, <1>6, <1>2
<1>8. \A j \in 1..Len(l) : j < k => rem[l[j]] <= Period[a]
  <2> SUFFICES ASSUME NEW j \in 1..Len(l), j < k PROVE rem[l[j]] <= Period[a]
    OBVIOUS
  <2>1. j \in 1..k - 1
    BY <1>2
  <2> QED BY <2>1, <1>1, <1>5, <1>6
<1>9. ASSUME NEW m \in 1..Len(l) + 1, NEW n \in 1..Len(l) + 1, m < n
      PROVE  rem'[list'[m]] <= rem'[list'[n]] /\ list'[m] # list'[n]
  <2>1. CASE n < k
    <3>1. m \in 1..Len(l) /\ n \in 1..Len(l) /\ m < k
      BY <2>1, <1>2, <1>9
    <3>2. list'[m] = l[m] /\ list'[n] = l[n]
      BY <2>1, <3>1, <1>3
    <3> QED BY <3>1, <3>2, <1>5, <1>9
  <2>2. CASE n = k
    <3>1. m \in 1..Len(l) /\ m < k
      BY <2>2, <1>2, <1>9
    <3>2. list'[m] = l[m] /\ list'[n] = a
      BY <2>2, <3>1, <1>3
    <3> QED BY <3>1, <3>2, <1>5, <1>6, <1>8
  <2>3. CASE n > k /\ m = k
    <3>1. n - 1 \in 1..Len(l) /\ n - 1 >= k
      BY <2>3, <1>2, <1>9
    <3>2. list'[m] = a /\ list'[n] = l[n - 1]
      BY <2>3, <1>3
    <3> QED BY <3>1, <3>2, <1>5, <1>6, <1>7
  <2>4. CASE n > k /\ m < k
    <3>1. m \in 1..Len(l) /\ n - 1 \in 1..Len(l) /\ m < n - 1
      BY <2>4, <1>2, <1>9
    <3>2. list'[m] = l[m] /\ list'[n] = l[n - 1]
      BY <2>4, <1>3
    <3> QED BY <3>1, <3>2, <1>5
  <2>5. CASE n > k /\ m > k
    <3>1. m - 1 \in 1..Len(l) /\ n - 1 \in 1..Len(l) /\ m - 1 < n - 1
      BY <2>5, <1>2, <1>9
    <3>2. list'[m] = l[m - 1] /\ list'[n] = l[n - 1]
      BY <2>5, <1>3
    <3> QED BY <3>1, <3>2, <1>5
  <2> QED BY <2>1, <2>2, <2>3, <2>4, <2>5, <1>2
<1> QED BY <1>3, <1>9 DEF Ordered

\* A list without the element at k.
LEMMA WithoutAtPlaces ==
    ASSUME NEW S, NEW l \in Seq(S), NEW k \in 1..Len(l)
    PROVE  /\ WithoutAt(l, k) \in Seq(S) /\ Len(WithoutAt(l, k)) = Len(l) - 1
           /\ \A n \in 1..Len(l) - 1 : n < k => WithoutAt(l, k)[n] = l[n]
           /\ \A n \in 1..Len(l) - 1 : n >= k => WithoutAt(l, k)[n] = l[n + 1]
<1> DEFINE p == SubSeq(l, 1, k - 1)
           q == SubSeq(l, k + 1, Len(l))
           r == WithoutAt(l, k)
<1>1. Len(l) \in Nat /\ k \in Nat /\ k >= 1 /\ k <= Len(l)
  OBVIOUS
<1>2. p \in Seq(S) /\ Len(p) = k - 1 /\ \A n \in 1..k - 1 : p[n] = l[n]
  BY <1>1
<1>3. q \in Seq(S) /\ Len(q) = Len(l) - k /\ \A n \in 1..Len(l) - k : q[n] = l[k + n]
  BY <1>1
<1>4. r = p \o q
  BY DEF WithoutAt
<1> HIDE DEF p, q, r
<1>5. r \in Seq(S) /\ Len(r) = Len(p) + Len(q)
      /\ \A n \in 1..Len(p) + Len(q) : r[n] = IF n <= Len(p) THEN p[n] ELSE q[n - Len(p)]
  BY <1>2, <1>3, <1>4, ConcatProperties
<1>6. Len(r) = Len(l) - 1
  BY <1>1, <1>2, <1>3, <1>5
<1>7. ASSUME NEW n \in 1..Len(l) - 1, n < k
      PROVE  r[n] = l[n]
  <2>1. n \in 1..k - 1 /\ n \in 1..Len(p) + Len(q) /\ n <= Len(p) BY <1>7, <1>1, <1>2, <1>3
  <2> QED BY <2>1, <1>2, <1>5
<1>8. ASSUME NEW n \in 1..Len(l) - 1, n >= k
      PROVE  r[n] = l[n + 1]
  <2>1. r[n] = q[n - (k - 1)] BY <1>8, <1>1, <1>2, <1>3, <1>5
  <2>2. n - (k - 1) \in 1..Len(l) - k /\ k + (n - (k - 1)) = n + 1 BY <1>8, <1>1
  <2>3. q[n - (k - 1)] = l[n + 1] BY <2>2, <1>3
  <2> QED BY <2>1, <2>3
<1> QED BY <1>5, <1>6, <1>7, <1>8 DEF r

\* An alarm that is taken out leaves the others in order.
LEMMA WithoutAtOrders ==
    ASSUME list \in Seq(Alarms), rem \in [Alarms -> Int], Ordered,
           NEW k \in 1..Len(list), list' = WithoutAt(list, k),
           rem' = [rem EXCEPT ![list[k]] = 0]
    PROVE  list' \in Seq(Alarms) /\ Ordered'
<1>1. Len(list) \in Nat /\ k \in Nat
  OBVIOUS
<1>2. /\ list' \in Seq(Alarms) /\ Len(list') = Len(list) - 1
      /\ \A n \in 1..Len(list) - 1 : n < k => list'[n] = list[n]
      /\ \A n \in 1..Len(list) - 1 : n >= k => list'[n] = list[n + 1]
  BY WithoutAtPlaces
<1>3. \A j \in 1..Len(list) : list[j] \in Alarms /\ rem[list[j]] \in Int
                            /\ (j # k => rem'[list[j]] = rem[list[j]])
  <2> SUFFICES ASSUME NEW j \in 1..Len(list)
               PROVE  list[j] \in Alarms /\ rem[list[j]] \in Int
                      /\ (j # k => rem'[list[j]] = rem[list[j]])
    OBVIOUS
  <2>1. list[j] \in Alarms /\ rem[list[j]] \in Int OBVIOUS
  <2>2. ASSUME j # k PROVE list[j] # list[k]
    <3>1. CASE j < k BY <3>1 DEF Ordered
    <3>2. CASE k < j BY <3>2 DEF Ordered
    <3> QED BY <3>1, <3>2, <2>2, <1>1
  <2> QED BY <2>1, <2>2
<1>4. ASSUME NEW m \in 1..Len(list) - 1, NEW n \in 1..Len(list) - 1, m < n
      PROVE  rem'[list'[m]] <= rem'[list'[n]] /\ list'[m] # list'[n]
  <2> DEFINE at(x) == IF x < k THEN x ELSE x + 1
  <2>1. at(m) \in 1..Len(list) /\ at(n) \in 1..Len(list) /\ at(m) < at(n) /\ at(m) # k /\ at(n) # k
    BY <1>1, <1>4
  <2>2. list'[m] = list[at(m)] /\ list'[n] = list[at(n)]
    <3>1. CASE m < k /\ n < k BY <3>1, <1>1, <1>2
    <3>2. CASE m < k /\ n >= k BY <3>2, <1>1, <1>2
    <3>3. CASE m >= k /\ n >= k BY <3>3, <1>1, <1>2
    <3> QED BY <3>1, <3>2, <3>3, <1>1, <1>4
  <2> HIDE DEF at
  <2> QED BY <2>1, <2>2, <1>3 DEF Ordered
<1> QED BY <1>2, <1>4 DEF Ordered

\* The list behind its first alarm is in order and does not hold that alarm.
LEMMA TailOrdered ==
    ASSUME list \in Seq(Alarms), list # <<>>, Ordered
    PROVE  /\ Head(list) \in Alarms /\ Tail(list) \in Seq(Alarms)
           /\ \A j \in 1..Len(Tail(list)) : Tail(list)[j] # Head(list)
           /\ \A j, k \in 1..Len(Tail(list)) :
                 j < k => rem[Tail(list)[j]] <= rem[Tail(list)[k]] /\ Tail(list)[j] # Tail(list)[k]
<1> DEFINE l == Tail(list)
<1>1. Len(list) \in Nat /\ Len(list) >= 1 /\ Head(list) = list[1] /\ Head(list) \in Alarms
  OBVIOUS
<1>2. l \in Seq(Alarms) /\ Len(l) = Len(list) - 1 /\ \A j \in 1..Len(l) : l[j] = list[j + 1]
  OBVIOUS
<1> HIDE DEF l
<1>3. \A j \in 1..Len(l) : j + 1 \in 1..Len(list) /\ 1 < j + 1
  BY <1>1, <1>2
<1>4. 1 \in 1..Len(list)
  BY <1>1
<1>5. \A j \in 1..Len(l) : l[j] # Head(list)
  BY <1>1, <1>2, <1>3, <1>4 DEF Ordered
<1>6. ASSUME NEW j \in 1..Len(l), NEW k \in 1..Len(l), j < k
      PROVE  rem[l[j]] <= rem[l[k]] /\ l[j] # l[k]
  <2>1. j + 1 < k + 1 BY <1>6
  <2> QED BY <2>1, <1>2, <1>3 DEF Ordered
<1> QED BY <1>1, <1>2, <1>5, <1>6 DEF l

\* Time passes for all alarms alike.
LEMMA TickOrders ==
    ASSUME list \in Seq(Alarms), rem \in [Alarms -> Int], Ordered, list' = list,
           rem' = [a \in Alarms |-> IF a \in Listed /\ rem[a] >= 0 THEN rem[a] - 1 ELSE rem[a]],
           \A a \in Alarms : rem[a] >= -1
    PROVE  Ordered'
<1>1. ASSUME NEW j \in 1..Len(list), NEW k \in 1..Len(list), j < k
      PROVE  rem'[list[j]] <= rem'[list[k]] /\ list[j] # list[k]
  <2> DEFINE x == list[j]
             y == list[k]
  <2>1. x \in Alarms /\ y \in Alarms /\ x \in Listed /\ y \in Listed
    BY DEF Listed
  <2>2. rem[x] <= rem[y] /\ x # y
    BY <1>1 DEF Ordered
  <2> HIDE DEF x, y
  <2>3. rem'[x] <= rem'[y]
    BY <2>1, <2>2
  <2> QED BY <2>2, <2>3 DEF x, y
<1> QED BY <1>1 DEF Ordered

-----------------------------------------------------------------------------
(* The induction.                                                           *)

\* The alarms of a list are alarms, and only a signal lets the first expire now.
LEMMA FirstListed ==
    ASSUME list \in Seq(Alarms), list # <<>>
    PROVE  Head(list) \in Alarms /\ Head(list) \in Listed
<1>1. Len(list) >= 1 /\ 1 \in 1..Len(list) /\ Head(list) = list[1] /\ list[1] \in Alarms
  OBVIOUS
<1> QED BY <1>1 DEF Listed

\* The initial states satisfy the invariant.
LEMMA InitInvariant == Init => IInv
<1> SUFFICES ASSUME Init PROVE IInv
  OBVIOUS
<1>1. list = <<>> /\ Len(list) = 0
  BY DEF Init
<1>2. TypeOK
  <2>1. AlarmsOK
    BY <1>1, TimerAssumption DEF Init, AlarmsOK
  <2>2. SignalsOK
    BY DEF Init, SignalsOK
  <2>3. ControlOK
    <3>1. all \in BOOLEAN /\ bsignal \in BOOLEAN
      BY DEF Init
    <3>2. i \in 0..NSIG
      BY DEF Init, NSIG
    <3>3. pc \in Places /\ back \in {"top", "enter"} /\ pc \notin {"call", "done", "next"}
      BY DEF Init, Places
    <3> QED BY <3>1, <3>2, <3>3 DEF ControlOK
  <2> QED BY <2>1, <2>2, <2>3 DEF TypeOK
<1>3. Locals
  BY DEF Init, Locals
<1>4. Ordered
  BY <1>1 DEF Ordered
<1>5. Armed /\ SignalKept
  BY <1>1 DEF Init, Armed, SignalKept
<1> QED BY <1>2, <1>3, <1>4, <1>5 DEF IInv

\* What is recorded of signals keeps its type.
LEMMA StepSignals ==
    ASSUME SignalsOK, ControlOK, [Next]_vars
    PROVE  SignalsOK'
<1> USE DEF SignalsOK, Signals, SIGUSR, SIGALRM, NSIG
<1>1. ASSUME NEW s \in Signals, NEW t \in Signals, NEW m \in SUBSET {"overwritten"},
             Record(s) \/ RecordNested(s, t), Interrupt(m)
      PROVE  SignalsOK'
  BY <1>1 DEF Record, RecordNested, Interrupt, Missed, Lose
<1>2. CASE OtherSignal
  BY <1>1, <1>2 DEF OtherSignal
<1>3. CASE Tick
  <2>1. CASE UNCHANGED <<signals, pc, lost>> BY <2>1 DEF signals
  <2> QED BY <1>1, <1>3, <2>1 DEF Tick
<1>4. CASE Fire
  BY <1>4 DEF Fire, signals
<1>5. CASE Arm
  BY <1>5 DEF Arm, Lose, signals
<1>6. ASSUME NEW a \in Alarms, Insert(a) \/ Erase(a) PROVE SignalsOK'
  BY <1>6 DEF Insert, Erase, SetTimer, signals
<1>7. CASE EventDone \/ Top \/ Enter \/ WaitAgain \/ Interrupted \/ Event \/ Timeout
  BY <1>7 DEF EventDone, Top, Enter, WaitAgain, Interrupted, Event, Timeout, Goto, signals
<1>8. CASE Read \/ Pass \/ NextSignal
  BY <1>8 DEF Read, Pass, Lose, NextSignal, signals
<1>9. CASE Clear \/ Call
  BY <1>9 DEF Clear, Lose, Call
<1>10. CASE Done
  BY <1>10 DEF Done, ControlOK
<1>11. CASE UNCHANGED vars
  BY <1>11 DEF vars, signals
<1> QED
  BY <1>2, <1>3, <1>4, <1>5, <1>6, <1>7, <1>8, <1>9, <1>10, <1>11 DEF Next, Process

\* The control of the process, with the use of its locals.
LEMMA StepControl ==
    ASSUME SignalsOK, ControlOK, Locals, [Next]_vars
    PROVE  ControlOK' /\ Locals'
<1> USE DEF ControlOK, Locals, Places, Signals, SIGUSR, SIGALRM, NSIG
<1>1. ASSUME NEW s \in Signals, NEW t \in Signals, NEW m, Record(s) \/ RecordNested(s, t),
             Interrupt(m), UNCHANGED control
      PROVE  ControlOK' /\ Locals'
  <2>1. event_signal_pending' # 0 BY <1>1 DEF Record, RecordNested
  <2> QED BY <1>1, <2>1 DEF Interrupt, control
<1>2. CASE OtherSignal
  BY <1>1, <1>2 DEF OtherSignal
<1>3. CASE Tick
  <2>1. CASE UNCHANGED <<signals, pc, lost>> BY <1>3, <2>1 DEF Tick, signals, control
  <2> QED BY <1>1, <1>3, <2>1 DEF Tick
<1>4. CASE Fire
  BY <1>4 DEF Fire, signals, control
<1>5. CASE Arm
  BY <1>5 DEF Arm, signals
<1>6. ASSUME NEW a \in Alarms, Insert(a) \/ Erase(a) PROVE ControlOK' /\ Locals'
  <2>1. pc = "event" /\ SetTimer
    BY <1>6 DEF Insert, Erase
  <2>2. pc' = "timer" /\ bsignal' = FALSE /\ all' = all /\ ~all /\ i' = i /\ back' = back
    BY <2>1 DEF SetTimer
  <2> QED BY <2>2
<1>7. CASE EventDone \/ Enter \/ WaitAgain \/ Event \/ Timeout
  BY <1>7 DEF EventDone, Enter, WaitAgain, Event, Timeout, Goto, signals
<1>8. CASE Top \/ Interrupted
  <2>1. /\ ~all /\ all' = all /\ i' = i /\ ~bsignal /\ bsignal' = bsignal
        /\ event_signal_pending' = event_signal_pending
    BY <1>8 DEF Top, Interrupted, Goto, signals
  <2>2. pc' \in {"read", "enter", "top"} /\ back' \in {"top", "enter"}
        /\ (pc' = "read" => event_signal_pending # 0)
    BY <1>8 DEF Top, Interrupted, Goto
  <2> QED BY <2>1, <2>2
<1>9. CASE Read
  <2>1. event_signal_pending \in {1, 2, 3}
    BY <1>9 DEF Read, SignalsOK
  <2>2. i' \in {1, 2, 3} /\ pc' = "clear" /\ ~all /\ all' = all /\ ~bsignal /\ bsignal' = bsignal /\ back' = back
    BY <1>9, <2>1 DEF Read
  <2> QED BY <2>2
<1>10. CASE Clear
  <2>1. i \in Signals \cup {NSIG} /\ all' \in BOOLEAN /\ i' \in Signals /\ pc' = "call"
    BY <1>10 DEF Clear
  <2>2. ~bsignal /\ bsignal' = bsignal /\ back' = back
    BY <1>10 DEF Clear
  <2> QED BY <2>1, <2>2
<1>11. CASE Call
  BY <1>11 DEF Call
<1>12. CASE Pass
  BY <1>12 DEF Pass, signals, control
<1>13. CASE Done
  BY <1>13 DEF Done, control
<1>14. CASE NextSignal
  <2>1. i \in {1, 2} /\ ~bsignal /\ bsignal' = bsignal /\ back' = back
        /\ event_signal_pending' = event_signal_pending
    BY <1>14 DEF NextSignal, signals
  <2>2. CASE all /\ i < NSIG - 1 /\ i' = i + 1 /\ pc' = "call" /\ UNCHANGED all
    BY <2>1, <2>2
  <2>3. CASE i' = 0 /\ all' = FALSE /\ pc' = IF event_signal_pending # 0 THEN "read" ELSE back
    <3>1. pc' \in {"read", "top", "enter"} /\ (pc' = "read" => event_signal_pending # 0)
      BY <2>3
    <3>2. all' \in BOOLEAN /\ ~all' /\ bsignal' \in BOOLEAN /\ ~bsignal'
      BY <2>1, <2>3
    <3>3. i' \in 0..NSIG
      BY <2>3
    <3> QED BY <2>1, <3>1, <3>2, <3>3
  <2> QED BY <1>14, <2>2, <2>3 DEF NextSignal
<1>15. CASE UNCHANGED vars
  BY <1>15 DEF vars, signals, control
<1> QED
  BY <1>2, <1>3, <1>4, <1>5, <1>6, <1>7, <1>8, <1>9, <1>10, <1>11, <1>12, <1>13, <1>14, <1>15
  DEF Next, Process

\* An alarm that gets a new time to its expiry.
LEMMA NewRem ==
    ASSUME AlarmsOK, NEW a \in Alarms, NEW x \in {0, Period[a]}, rem' = [rem EXCEPT ![a] = x]
    PROVE  rem' \in [Alarms -> Int] /\ \A b \in Alarms : rem'[b] \in -1..Period[b]
<1>1. \A b \in Alarms : Period[b] \in Int /\ Period[b] > 0
  BY TimerAssumption
<1>2. x \in Int /\ x >= 0 /\ x <= Period[a]
  BY <1>1
<1>3. rem \in [Alarms -> Int] /\ \A b \in Alarms : rem[b] \in -1..Period[b]
  BY DEF AlarmsOK
<1>4. rem' \in [Alarms -> Int]
  BY <1>2, <1>3
<1>5. ASSUME NEW b \in Alarms PROVE rem'[b] \in -1..Period[b]
  <2>1. CASE b = a BY <2>1, <1>1, <1>2, <1>3
  <2>2. CASE b # a BY <2>2, <1>3
  <2> QED BY <2>1, <2>2
<1> QED BY <1>4, <1>5

\* The list keeps its type and its order.
LEMMA StepAlarms ==
    ASSUME AlarmsOK, Ordered, [Next]_vars
    PROVE  AlarmsOK' /\ Ordered'
<1>1. CASE UNCHANGED <<list, rem, itimer>>
  BY <1>1 DEF AlarmsOK, Ordered
<1>2. CASE Tick
  <2>1. list' = list /\ itimer' \in Nat
        /\ rem' = [a \in Alarms |-> IF a \in Listed /\ rem[a] >= 0 THEN rem[a] - 1 ELSE rem[a]]
    BY <1>2 DEF Tick, AlarmsOK
  <2>2. \A a \in Alarms : rem[a] >= -1 /\ rem[a] \in Int
    BY TimerAssumption DEF AlarmsOK
  <2>3. Ordered'
    BY <2>1, <2>2, TickOrders DEF AlarmsOK
  <2>4. ASSUME NEW a \in Alarms PROVE rem'[a] \in Int /\ rem'[a] \in -1..Period[a]
    BY <2>1, TimerAssumption DEF AlarmsOK
  <2> QED BY <2>1, <2>3, <2>4 DEF AlarmsOK
<1>3. CASE Fire
  <2>1. itimer' = itimer /\ list # <<>>
    BY <1>3 DEF Fire, FirstExpired
  <2> DEFINE a == Head(list)
             l == Tail(list)
  <2>2. /\ a \in Alarms /\ l \in Seq(Alarms)
        /\ \A j \in 1..Len(l) : l[j] # a
        /\ \A j, k \in 1..Len(l) : j < k => rem[l[j]] <= rem[l[k]] /\ l[j] # l[k]
    BY <2>1, TailOrdered DEF AlarmsOK
  <2>3. (list' = l /\ rem' = [rem EXCEPT ![a] = 0]) \/ InsertEntry(l, a)
    BY <1>3 DEF Fire
  <2> HIDE DEF a, l
  <2>4. CASE list' = l /\ rem' = [rem EXCEPT ![a] = 0]
    <3>1. rem' \in [Alarms -> Int] /\ \A b \in Alarms : rem'[b] \in -1..Period[b]
      BY <2>2, <2>4, NewRem
    <3>2. \A j \in 1..Len(l) : l[j] \in Alarms /\ rem'[l[j]] = rem[l[j]]
      BY <2>2, <2>4 DEF AlarmsOK
    <3>3. Ordered'
      BY <2>2, <2>4, <3>2 DEF Ordered
    <3> QED BY <2>1, <2>2, <2>4, <3>1, <3>3 DEF AlarmsOK
  <2>5. CASE InsertEntry(l, a)
    <3>1. list' \in Seq(Alarms) /\ Ordered'
      BY <2>2, <2>5, InsertEntryOrders, TimerAssumption DEF AlarmsOK
    <3>2. rem' \in [Alarms -> Int] /\ \A b \in Alarms : rem'[b] \in -1..Period[b]
      BY <2>2, <2>5, NewRem DEF InsertEntry
    <3> QED BY <2>1, <3>1, <3>2 DEF AlarmsOK
  <2> QED BY <2>3, <2>4, <2>5
<1>4. CASE Arm
  <2>1. list' = list /\ rem' = rem
    BY <1>4 DEF Arm, alarms
  <2>2. itimer' \in Nat
    <3>1. CASE list = <<>> BY <1>4, <3>1 DEF Arm, Setitimer
    <3>2. CASE list # <<>>
      <4>1. Head(list) \in Alarms /\ rem[Head(list)] \in Int
        BY <3>2, FirstListed DEF AlarmsOK
      <4>2. rem[Head(list)] >= 0
        <5>1. ~Expired(Head(list)) BY <1>4, <3>2 DEF Arm, FirstExpired
        <5> QED BY <4>1, <5>1 DEF Expired
      <4>3. itimer' = rem[Head(list)] BY <1>4, <3>2 DEF Arm, Setitimer
      <4> QED BY <4>1, <4>2, <4>3
    <3> QED BY <3>1, <3>2
  <2> QED BY <2>1, <2>2 DEF AlarmsOK, Ordered
<1>5. ASSUME NEW a \in Alarms, Insert(a) PROVE AlarmsOK' /\ Ordered'
  <2>1. \A j \in 1..Len(list) : list[j] # a
    BY <1>5 DEF Insert, Listed
  <2>2. list' \in Seq(Alarms) /\ Ordered'
    <3>1. InsertEntry(list, a) BY <1>5 DEF Insert
    <3> QED BY <2>1, <3>1, InsertEntryOrders, TimerAssumption DEF Ordered, AlarmsOK
  <2>3. rem' \in [Alarms -> Int] /\ \A b \in Alarms : rem'[b] \in -1..Period[b]
    BY <1>5, NewRem DEF Insert, InsertEntry
  <2>4. itimer' = itimer
    BY <1>5 DEF Insert, SetTimer
  <2> QED BY <2>2, <2>3, <2>4 DEF AlarmsOK
<1>6. ASSUME NEW a \in Alarms, Erase(a) PROVE AlarmsOK' /\ Ordered'
  <2>1. PICK k \in 1..Len(list) : list[k] = a /\ list' = WithoutAt(list, k)
    BY <1>6 DEF Erase
  <2>2. rem' = [rem EXCEPT ![a] = 0] /\ itimer' = itimer
    BY <1>6 DEF Erase, SetTimer
  <2>3. list' \in Seq(Alarms) /\ Ordered'
    BY <2>1, <2>2, WithoutAtOrders DEF AlarmsOK
  <2>4. rem' \in [Alarms -> Int] /\ \A b \in Alarms : rem'[b] \in -1..Period[b]
    BY <2>2, NewRem
  <2> QED BY <2>2, <2>3, <2>4 DEF AlarmsOK
<1>7. CASE OtherSignal
  BY <1>1, <1>7 DEF OtherSignal, alarms
<1>8. CASE EventDone \/ Top \/ Enter \/ WaitAgain \/ Interrupted \/ Event \/ Timeout
  BY <1>1, <1>8 DEF EventDone, Top, Enter, WaitAgain, Interrupted, Event, Timeout, Goto, alarms
<1>9. CASE Read \/ Clear \/ Call \/ Pass \/ Done \/ NextSignal
  BY <1>1, <1>9 DEF Read, Clear, Call, Pass, Done, NextSignal, alarms
<1>10. CASE UNCHANGED vars
  BY <1>1, <1>10 DEF vars, alarms
<1> QED
  BY <1>2, <1>3, <1>4, <1>5, <1>6, <1>7, <1>8, <1>9, <1>10 DEF Next, Process

\* The interval timer is set for the first alarm, or its signal has come.
LEMMA StepArmed ==
    ASSUME AlarmsOK, SignalsOK, Armed, [Next]_vars
    PROVE  Armed'
<1> SUFFICES ASSUME list' # <<>>, pc' # "timer", lost' = {}
             PROVE  (itimer' > 0 /\ itimer' = rem'[Head(list')]) \/ SIGALRM \in owed'
  BY DEF Armed
<1>1. ASSUME UNCHANGED <<list, rem, itimer>>, pc # "timer", lost = {}, owed \subseteq owed'
      PROVE  (itimer' > 0 /\ itimer' = rem'[Head(list')]) \/ SIGALRM \in owed'
  BY <1>1 DEF Armed
<1>2. CASE OtherSignal
  <2>1. pc # "timer" /\ lost = {} /\ owed \subseteq owed' /\ UNCHANGED <<list, rem, itimer>>
    BY <1>2 DEF OtherSignal, Record, Interrupt, Lose, alarms
  <2> QED BY <1>1, <2>1
<1>3. CASE Tick
  <2>1. list' = list /\ pc # "timer"
    BY <1>3 DEF Tick
  <2>2. lost = {} /\ owed \subseteq owed'
    BY <1>3 DEF Tick, Record, RecordNested, Interrupt, Lose, signals
  <2>3. CASE SIGALRM \in owed
    BY <2>2, <2>3
  <2>4. CASE itimer > 0 /\ itimer = rem[Head(list)]
    <3>1. Head(list) \in Alarms /\ Head(list) \in Listed
      BY <2>1, FirstListed DEF AlarmsOK
    <3>2. itimer' = itimer - 1 /\ rem'[Head(list)] = rem[Head(list)] - 1 /\ itimer \in Nat
      BY <1>3, <2>4, <3>1 DEF Tick, AlarmsOK
    <3>3. CASE itimer = 1
      BY <1>3, <3>3 DEF Tick, Record, RecordNested
    <3>4. CASE itimer # 1
      BY <2>1, <2>4, <3>2, <3>4
    <3> QED BY <3>3, <3>4
  <2> QED BY <2>1, <2>2, <2>3, <2>4 DEF Armed
<1>4. CASE Fire
  BY <1>4 DEF Fire
<1>5. CASE Arm
  <2>1. list' = list /\ rem' = rem /\ ~FirstExpired /\ itimer' = rem[Head(list)]
    BY <1>5 DEF Arm, Setitimer, alarms
  <2>2. rem[Head(list)] # 0
    BY <1>5, <2>1 DEF Arm, Lose
  <2>3. Head(list) \in Alarms /\ rem[Head(list)] \in Int
    BY <2>1, FirstListed DEF AlarmsOK
  <2>4. rem[Head(list)] >= 0
    BY <2>1, <2>3 DEF FirstExpired, Expired
  <2> QED BY <2>1, <2>2, <2>3, <2>4
<1>6. ASSUME NEW a \in Alarms, Insert(a) \/ Erase(a) PROVE FALSE
  BY <1>6 DEF Insert, Erase, SetTimer
<1>7. CASE EventDone \/ Top \/ Enter \/ WaitAgain \/ Interrupted \/ Event \/ Timeout
  <2>1. pc # "timer" /\ lost = {} /\ owed \subseteq owed' /\ UNCHANGED <<list, rem, itimer>>
    BY <1>7 DEF EventDone, Top, Enter, WaitAgain, Interrupted, Event, Timeout, Goto, alarms, signals
  <2> QED BY <1>1, <2>1
<1>8. CASE Read \/ Clear \/ Pass \/ Done \/ NextSignal
  <2>1. pc # "timer" /\ lost = {} /\ owed \subseteq owed' /\ UNCHANGED <<list, rem, itimer>>
    BY <1>8 DEF Read, Clear, Lose, Pass, Done, NextSignal, alarms, signals
  <2> QED BY <1>1, <2>1
<1>9. CASE Call
  <2>1. pc # "timer" /\ lost = {} /\ UNCHANGED <<list, rem, itimer>> /\ i # SIGALRM /\ owed' = owed \ {i}
    BY <1>9 DEF Call, alarms
  <2> QED BY <2>1 DEF Armed
<1>10. CASE UNCHANGED vars
  BY <1>10 DEF vars, alarms, signals, Armed
<1> QED
  BY <1>2, <1>3, <1>4, <1>5, <1>6, <1>7, <1>8, <1>9, <1>10 DEF Next, Process

\* A signal is remembered until its handler begins.
LEMMA StepKept ==
    ASSUME SignalsOK, ControlOK, Locals, SignalKept, [Next]_vars
    PROVE  SignalKept'
<1> SUFFICES ASSUME NEW s \in owed', lost' = {}
             PROVE  \/ event_signal_pending' \in {s, NSIG} /\ pc' \notin {"enter", "wait", "timeout"}
                    \/ pc' = "clear" /\ i' \in {s, NSIG}
                    \/ pc' = "call" /\ (i' = s \/ (all' /\ i' < s))
                    \/ pc' \in {"timer", "done", "next"} /\ all' /\ i' < s
  BY DEF SignalKept
<1> DEFINE Kept == \/ event_signal_pending \in {s, NSIG} /\ pc \notin {"enter", "wait", "timeout"}
                   \/ pc = "clear" /\ i \in {s, NSIG}
                   \/ pc = "call" /\ (i = s \/ (all /\ i < s))
                   \/ pc \in {"timer", "done", "next"} /\ all /\ i < s
<1>1. s \in owed /\ lost = {} => Kept
  BY DEF SignalKept
<1>2. s \in Signals
  BY StepSignals DEF SignalsOK
<1> USE DEF Signals, SIGUSR, SIGALRM, NSIG
<1>3. ASSUME NEW t \in Signals, Record(t), Interrupt({}), UNCHANGED control PROVE Kept'
  <2>1. /\ pc \notin {"enter", "timeout"} /\ lost = {}
        /\ (pc = "wait" => pc' = "eintr") /\ (pc # "wait" => pc' = pc)
    BY <1>3 DEF Interrupt, Missed, Lose
  <2>2. CASE s = t
    <3>1. event_signal_pending' \in {s, NSIG} BY <1>3, <2>2 DEF Record
    <3> QED BY <2>1, <3>1
  <2>3. CASE s # t
    <3>1. s \in owed BY <1>3, <2>3 DEF Record
    <3>2. event_signal_pending \in {s, NSIG} => event_signal_pending' = NSIG
      BY <1>2, <1>3 DEF Record
    <3> QED BY <1>1, <1>3, <2>1, <3>1, <3>2 DEF control
  <2> QED BY <2>2, <2>3
<1>4. CASE OtherSignal
  BY <1>3, <1>4 DEF OtherSignal
<1>5. CASE Tick
  <2>1. CASE UNCHANGED <<signals, pc, lost>>
    BY <1>1, <1>5, <2>1 DEF Tick, signals, control
  <2>2. CASE Interrupt({"overwritten"})
    BY <2>2 DEF Interrupt, Lose
  <2> QED BY <1>3, <1>5, <2>1, <2>2 DEF Tick
<1>6. CASE Fire
  BY <1>1, <1>6 DEF Fire, signals, control
<1>7. CASE Arm
  <2>1. /\ s \in owed /\ lost = {} /\ pc = "timer" /\ pc' = (IF bsignal THEN "done" ELSE "top")
        /\ event_signal_pending' = event_signal_pending /\ all' = all /\ i' = i
    BY <1>7 DEF Arm, Lose, signals
  <2>2. CASE bsignal BY <1>1, <2>1, <2>2
  <2>3. CASE ~bsignal
    <3>1. ~all BY <2>1, <2>3 DEF Locals
    <3> QED BY <1>1, <2>1, <2>3, <3>1
  <2> QED BY <2>2, <2>3
<1>8. ASSUME NEW a \in Alarms, Insert(a) \/ Erase(a) PROVE Kept'
  <2>1. /\ s \in owed /\ lost = {} /\ pc = "event" /\ pc' = "timer"
        /\ event_signal_pending' = event_signal_pending
    BY <1>8 DEF Insert, Erase, SetTimer, signals
  <2> QED BY <1>1, <2>1
<1>9. CASE EventDone \/ Enter \/ WaitAgain \/ Event \/ Timeout
  <2>1. /\ s \in owed /\ lost = {} /\ pc \in {"event", "enter", "wait", "timeout"} /\ (pc = "event" => pc' = "top")
        /\ event_signal_pending' = event_signal_pending
    BY <1>9 DEF EventDone, Enter, WaitAgain, Event, Timeout, Goto, signals
  <2> QED BY <1>1, <2>1
<1>10. CASE Top \/ Interrupted
  <2>1. /\ s \in owed /\ lost = {} /\ pc \in {"top", "eintr"}
        /\ (event_signal_pending # 0 => pc' = "read")
        /\ event_signal_pending' = event_signal_pending
    BY <1>10 DEF Top, Interrupted, Goto, signals
  <2> QED BY <1>1, <1>2, <2>1
<1>11. CASE Read
  <2>1. s \in owed /\ lost = {} /\ pc = "read" /\ pc' = "clear" /\ i' = event_signal_pending
    BY <1>11 DEF Read, signals
  <2> QED BY <1>1, <2>1
<1>12. CASE Clear
  <2>1. /\ s \in owed /\ lost = {} /\ pc' = "call" /\ (i # NSIG => owed \ {i} = {})
        /\ all' = (i = NSIG) /\ i' = (IF i = NSIG THEN SIGUSR ELSE i)
    BY <1>12 DEF Clear, Lose
  <2>2. CASE i = NSIG
    <3>1. all' /\ i' = 1 BY <2>1, <2>2
    <3> QED BY <1>2, <2>1, <3>1
  <2>3. CASE i # NSIG
    <3>1. i' = s BY <2>1, <2>3
    <3> QED BY <2>1, <3>1
  <2> QED BY <2>2, <2>3
<1>13. CASE Call
  <2>1. /\ s \in owed /\ s # i /\ lost = {} /\ pc = "call" /\ pc' \in {"timer", "done"} /\ i' = i /\ all' = all
        /\ event_signal_pending' = event_signal_pending
    BY <1>13 DEF Call
  <2> QED BY <1>1, <2>1
<1>14. CASE Pass
  <2>1. /\ s \in owed /\ s # i /\ lost = {} /\ pc = "call" /\ pc' = "next" /\ i' = i /\ all' = all
        /\ event_signal_pending' = event_signal_pending
    BY <1>14 DEF Pass, Lose, signals, control
  <2> QED BY <1>1, <2>1
<1>15. CASE Done
  <2>1. /\ s \in owed /\ lost = {} /\ pc = "done" /\ pc' = "next" /\ i' = i /\ all' = all
        /\ event_signal_pending' = event_signal_pending
    BY <1>15 DEF Done, control
  <2> QED BY <1>1, <2>1
<1>16. CASE NextSignal
  <2>1. /\ s \in owed /\ lost = {} /\ pc = "next" /\ i \in Signals
        /\ event_signal_pending' = event_signal_pending
    BY <1>16 DEF NextSignal, signals, ControlOK
  <2>2. CASE all /\ i < NSIG - 1 /\ i' = i + 1 /\ pc' = "call" /\ UNCHANGED all
    <3>1. i = 1 /\ i' = 2 BY <2>1, <2>2
    <3> QED BY <1>1, <1>2, <2>1, <2>2, <3>1
  <2>3. CASE /\ ~(all /\ i < NSIG - 1)
             /\ pc' = IF event_signal_pending # 0 THEN "read" ELSE back
    <3>1. ~(all /\ i < s) BY <1>2, <2>1, <2>3
    <3>2. event_signal_pending \in {s, NSIG} BY <1>1, <2>1, <3>1
    <3> QED BY <1>2, <2>1, <2>3, <3>2
  <2> QED BY <1>16, <2>2, <2>3 DEF NextSignal
<1>17. CASE UNCHANGED vars
  BY <1>1, <1>17 DEF vars, signals, control
<1> QED
  BY <1>4, <1>5, <1>6, <1>7, <1>8, <1>9, <1>10, <1>11, <1>12, <1>13, <1>14, <1>15, <1>16, <1>17
  DEF Next, Process

\* The invariant is inductive.
LEMMA StepInvariant == IInv /\ [Next]_vars => IInv'
  BY StepSignals, StepControl, StepAlarms, StepArmed, StepKept DEF IInv, TypeOK

\* The invariant holds in every state of every behaviour.
THEOREM Invariant == Spec => []IInv
  BY InitInvariant, StepInvariant, PTL DEF Spec

-----------------------------------------------------------------------------
(* The theorems.                                                            *)

\* The variables of UTimer and UInterrupt keep their types: callHandlerSignal
\* only calls handlers of signals, and setitimer() is never given a negative time.
THEOREM TimerTypes == Spec => []TypeOK
  BY Invariant, PTL DEF IInv

\* The list of UTimer is always in the order of expiry, as insertEntry, setTimer
\* and erase need it, and never holds an alarm twice.
THEOREM ListOrdered == Spec => []Ordered
  BY Invariant, PTL DEF IInv

\* While no race has lost a signal, the kernel's timer runs out with the first
\* alarm of the list, or SIGALRM has come and setTimer(true) has still to begin.
THEOREM TimerArmed == Spec => []Armed
  BY Invariant, PTL DEF IInv

\* callHandlerSignal misses a recorded signal in no other way than the five
\* races that the history names.
THEOREM SignalsKept == Spec => []SignalKept
  BY Invariant, PTL DEF IInv
=============================================================================
