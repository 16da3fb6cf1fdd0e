------------------------------- MODULE Timer -------------------------------
(***************************************************************************)
(* UTimer, the list of alarms behind one interval timer, in the mode that  *)
(* the server's plugins use (init(true)): SIGALRM is recorded by           *)
(* UInterrupt::handlerEventSignal and handled later, by callHandlerSignal, *)
(* from the loop of the server or when epoll_wait is interrupted.          *)
(*                                                                         *)
(* The process is single threaded, but a signal may be recorded between    *)
(* any two of its steps, and, sa_mask being empty, while another one is    *)
(* recorded.  Time is counted in ticks from now; the periods are whole     *)
(* seconds, for which the sums of microseconds that UEventTime compares    *)
(* have no carry.  The nodes of the list, kept in a pool, are left out.    *)
(***************************************************************************)
EXTENDS Integers, Sequences

CONSTANTS
    Alarms,     \* objects of class UEventTime
    Period      \* their periods, in ticks

ASSUME TimerAssumption == Period \in [Alarms -> Nat \ {0}]

SIGUSR == 1     \* any other signal with a handler that UInterrupt calls
SIGALRM == 2
NSIG == 3       \* more than one signal is pending
Signals == {SIGUSR, SIGALRM}

VARIABLES
    list,       \* from first on: the alarms in the order of expiry
    rem,        \* ticks to the expiry of an alarm of the list, -1 when past
    itimer,     \* kernel: ticks to SIGALRM, 0 when the timer is disarmed
    event_signal_pending,
    event_signal,   \* of a signal: whether it was recorded
    pc,         \* where the process is
    i,          \* callHandlerSignal: the local i
    all,        \* callHandlerSignal: in the loop over all signals
    back,       \* where the process goes on after callHandlerSignal
    bsignal,    \* the parameter of setTimer
    owed,       \* history: signals that came after their handler last began
    lost        \* history: how the process first came to miss a signal or an alarm

alarms  == <<list, rem>>
signals == <<event_signal_pending, event_signal, owed>>
control == <<i, all, back, bsignal>>
vars    == <<alarms, itimer, signals, pc, control, lost>>

Listed == {list[k] : k \in 1..Len(list)}

Init ==
    /\ list = <<>> /\ rem = [a \in Alarms |-> 0] /\ itimer = 0
    /\ event_signal_pending = 0 /\ event_signal = [s \in Signals |-> FALSE]
    /\ pc = "top" /\ i = 0 /\ all = FALSE /\ back = "top" /\ bsignal = FALSE
    /\ owed = {} /\ lost = {}

-----------------------------------------------------------------------------
(* Signals and time.                                                        *)

Lose(how) == lost' = IF lost = {} THEN how ELSE lost

\* epoll_wait is interrupted, but not when the process was about to call it, or
\* will call it again after handlerTime() without a look at the signals.
Missed ==
    CASE pc = "enter" -> {"asleep"} [] pc = "timeout" -> {"timeout"} [] OTHER -> {}

Interrupt(more) ==
    /\ pc' = IF pc = "wait" THEN "eintr" ELSE pc
    /\ Lose(Missed \cup more)

\* UInterrupt::handlerEventSignal.
\* Variant with a mistake: the last signal is the one that is pending.
RecordLast(s) ==
    /\ event_signal' = [event_signal EXCEPT ![s] = TRUE]
    /\ event_signal_pending' = s
    /\ owed' = owed \cup {s}
Record(s) ==
    /\ event_signal' = [event_signal EXCEPT ![s] = TRUE]
    /\ event_signal_pending' = IF event_signal_pending # 0 THEN NSIG ELSE s
    /\ owed' = owed \cup {s}

\* Signal t is recorded after the handler of s has found event_signal_pending to
\* be 0 and before it stores s, over the t that is there by then.  The process
\* itself does not run in between, and in any other order of the two handlers
\* the outcome is that of one after the other: so this is one step.
RecordNested(s, t) ==
    /\ event_signal_pending = 0
    /\ event_signal' = [event_signal EXCEPT ![s] = TRUE, ![t] = TRUE]
    /\ event_signal_pending' = s
    /\ owed' = owed \cup {s, t}

OtherSignal ==
    /\ Record(SIGUSR) /\ Interrupt({})
    /\ UNCHANGED <<alarms, itimer, control>>

\* setTimer() and what it calls read the clock once and take no time.
Tick ==
    /\ pc # "timer" /\ (itimer > 0 \/ \E a \in Listed : rem[a] >= 0)
    /\ rem' = [a \in Alarms |-> IF a \in Listed /\ rem[a] >= 0 THEN rem[a] - 1 ELSE rem[a]]
    /\ itimer' = IF itimer > 0 THEN itimer - 1 ELSE 0
    /\ \/ itimer = 1 /\ Record(SIGALRM) /\ Interrupt({})
       \/ /\ itimer = 1 /\ (RecordNested(SIGALRM, SIGUSR) \/ RecordNested(SIGUSR, SIGALRM))
          /\ Interrupt({"overwritten"})
       \/ itimer # 1 /\ UNCHANGED <<signals, pc, lost>>
    /\ UNCHANGED <<list, control>>

-----------------------------------------------------------------------------
(* UTimer.                                                                  *)

\* A list with a put in at k, and without its element at k.
PutAt(l, a, k) == SubSeq(l, 1, k - 1) \o <<a>> \o SubSeq(l, k, Len(l))
WithoutAt(l, k) == SubSeq(l, 1, k - 1) \o SubSeq(l, k + 1, Len(l))

\* insertEntry: behind the alarms of list l that do not expire later.
\* Variant with a mistake: in front of the first that expires.
InsertEntryFirst(l, a) ==
    /\ list' = <<a>> \o l
    /\ rem' = [rem EXCEPT ![a] = Period[a]]
InsertEntry(l, a) ==
    /\ \E k \in 1..Len(l) + 1 :
          /\ \A j \in 1..k - 1 : ~(Period[a] < rem[l[j]])
          /\ k <= Len(l) => Period[a] < rem[l[k]]
          /\ list' = PutAt(l, a, k)
    /\ rem' = [rem EXCEPT ![a] = Period[a]]

\* isExpired() for a signal, isOld() when an alarm was inserted or erased.  The
\* 128th of its period by which isExpired() is early is less than a tick.
Expired(a) == IF bsignal THEN rem[a] <= 0 ELSE rem[a] < 0
FirstExpired == list # <<>> /\ Expired(Head(list))

\* The loop of setTimer: the first alarm has expired, its handler is called and
\* asks to go on monitoring, or not.
Fire ==
    /\ pc = "timer" /\ FirstExpired
    /\ LET a == Head(list)
       IN  \/ list' = Tail(list) /\ rem' = [rem EXCEPT ![a] = 0]
           \/ InsertEntry(Tail(list), a)
    /\ UNCHANGED <<itimer, signals, pc, control, lost>>

\* The end of setTimer: setitimer() for the first alarm, or to disarm; an alarm
\* that expires now disarms it too.
\* Variant with a mistake: the timer is left alone when it runs.
SetitimerOnce ==
    itimer' = IF list = <<>> THEN 0 ELSE IF itimer > 0 THEN itimer ELSE rem[Head(list)]
Setitimer == itimer' = IF list = <<>> THEN 0 ELSE rem[Head(list)]

Arm ==
    /\ pc = "timer" /\ ~FirstExpired
    /\ Setitimer
    /\ Lose(IF list # <<>> /\ rem[Head(list)] = 0 THEN {"zero interval"} ELSE {})
    /\ pc' = IF bsignal THEN "done" ELSE "top"
    /\ bsignal' = FALSE
    /\ UNCHANGED <<alarms, signals, i, all, back>>

-----------------------------------------------------------------------------
(* The process: runLoop() and waitForEvent().                               *)

\* Handlers of events use UTimer, with set_timer.
SetTimer ==
    /\ pc' = "timer" /\ bsignal' = FALSE
    /\ UNCHANGED <<itimer, signals, i, all, back, lost>>

Insert(a) ==
    /\ pc = "event" /\ a \notin Listed
    /\ InsertEntry(list, a)
    /\ SetTimer

Erase(a) ==
    /\ pc = "event" /\ a \in Listed
    /\ \E k \in 1..Len(list) :
          /\ list[k] = a
          /\ list' = WithoutAt(list, k)
    /\ rem' = [rem EXCEPT ![a] = 0]
    /\ SetTimer

Goto(where) ==
    /\ pc' = where
    /\ UNCHANGED <<alarms, itimer, signals, i, all, bsignal>>

EventDone == pc = "event" /\ Goto("top") /\ UNCHANGED <<back, lost>>

\* runLoop() looks for a pending signal, and then calls epoll_wait.
Top ==
    /\ pc = "top"
    /\ \/ event_signal_pending # 0 /\ Goto("read") /\ back' = "top"
       \/ event_signal_pending = 0 /\ Goto("enter") /\ UNCHANGED back
    /\ UNCHANGED lost

Enter == pc = "enter" /\ Goto("wait") /\ UNCHANGED <<back, lost>>

Event == pc = "wait" /\ Goto("event") /\ UNCHANGED <<back, lost>>

\* epoll_wait times out: handlerTime() of the server runs, and unless no
\* connection is left (Server) epoll_wait is called again.
Timeout == pc = "wait" /\ Goto("timeout") /\ UNCHANGED <<back, lost>>

WaitAgain == pc = "timeout" /\ Goto("enter") /\ UNCHANGED <<back, lost>>

\* checkForEventSignalPending, then epoll_wait is called again, or the loop goes
\* on when errno is no more EINTR.
Interrupted ==
    /\ pc = "eintr"
    /\ back' \in {"enter", "top"}
    /\ Goto(IF event_signal_pending # 0 THEN "read" ELSE back')
    /\ UNCHANGED lost

-----------------------------------------------------------------------------
(* UInterrupt::callHandlerSignal, statement by statement.                   *)

Read ==
    /\ pc = "read"
    /\ i' = event_signal_pending /\ pc' = "clear"
    /\ UNCHANGED <<alarms, itimer, signals, all, back, bsignal, lost>>

Clear ==
    /\ pc = "clear"
    /\ event_signal_pending' = 0
    /\ all' = (i = NSIG) /\ i' = (IF i = NSIG THEN SIGUSR ELSE i)
    /\ Lose(IF i # NSIG /\ owed \ {i} # {} THEN {"cleared"} ELSE {})
    /\ pc' = "call"
    /\ UNCHANGED <<alarms, itimer, event_signal, owed, back, bsignal>>

\* The handler of signal i is called; that of SIGALRM is setTimer(true).
Call ==
    /\ pc = "call" /\ (~all \/ event_signal[i])
    /\ owed' = owed \ {i}
    /\ pc' = (IF i = SIGALRM THEN "timer" ELSE "done") /\ bsignal' = (i = SIGALRM)
    /\ UNCHANGED <<alarms, itimer, event_signal_pending, event_signal, i, all, back, lost>>

\* The loop over all signals passes over one that is not recorded.
Pass ==
    /\ pc = "call" /\ all /\ ~event_signal[i]
    /\ pc' = "next"
    /\ Lose(IF i \in owed THEN {"zeroed"} ELSE {})
    /\ UNCHANGED <<alarms, itimer, signals, control>>

Done ==
    /\ pc = "done"
    /\ event_signal' = [event_signal EXCEPT ![i] = FALSE]
    /\ pc' = "next"
    /\ UNCHANGED <<alarms, itimer, event_signal_pending, owed, control, lost>>

\* The next signal of the loop over all of them, or the test of the outer loop.
\* Variants with a mistake: the loop goes up to NSIG; there is no outer loop.
NextSignalFar ==
    /\ pc = "next"
    /\ \/ all /\ i < NSIG /\ i' = i + 1 /\ pc' = "call" /\ UNCHANGED all
       \/ /\ ~(all /\ i < NSIG) /\ i' = 0 /\ all' = FALSE
          /\ pc' = IF event_signal_pending # 0 THEN "read" ELSE back
    /\ UNCHANGED <<alarms, itimer, signals, back, bsignal, lost>>
NextSignalOnce ==
    /\ pc = "next"
    /\ \/ all /\ i < NSIG - 1 /\ i' = i + 1 /\ pc' = "call" /\ UNCHANGED all
       \/ ~(all /\ i < NSIG - 1) /\ i' = 0 /\ all' = FALSE /\ pc' = "enter"
    /\ UNCHANGED <<alarms, itimer, signals, back, bsignal, lost>>
NextSignal ==
    /\ pc = "next"
    /\ \/ all /\ i < NSIG - 1 /\ i' = i + 1 /\ pc' = "call" /\ UNCHANGED all
       \/ /\ ~(all /\ i < NSIG - 1) /\ i' = 0 /\ all' = FALSE
          /\ pc' = IF event_signal_pending # 0 THEN "read" ELSE back
    /\ UNCHANGED <<alarms, itimer, signals, back, bsignal, lost>>

Process ==
    \/ Fire \/ Arm \/ EventDone \/ Top \/ Enter \/ WaitAgain \/ Interrupted
    \/ Read \/ Clear \/ Call \/ Pass \/ Done \/ NextSignal
    \/ \E a \in Alarms : Insert(a) \/ Erase(a)

Next == Process \/ Event \/ Timeout \/ OtherSignal \/ Tick

Spec == Init /\ [][Next]_vars

\* The process runs and time passes; events, timeouts and other signals may
\* never come.
FairSpec == Spec /\ WF_vars(Process) /\ SF_vars(Tick)

-----------------------------------------------------------------------------
(* What is correct.                                                         *)

Places == {"top", "enter", "wait", "timeout", "eintr", "event", "timer", "read", "clear",
           "call", "done", "next"}

AlarmsOK ==
    /\ list \in Seq(Alarms) /\ itimer \in Nat
    /\ rem \in [Alarms -> Int] /\ \A a \in Alarms : rem[a] \in -1..Period[a]

SignalsOK ==
    /\ event_signal_pending \in {0, NSIG} \cup Signals
    /\ event_signal \in [Signals -> BOOLEAN]
    /\ owed \subseteq Signals
    /\ lost \subseteq {"zero interval", "asleep", "timeout", "overwritten", "cleared", "zeroed"}

ControlOK ==
    /\ pc \in Places /\ back \in {"top", "enter"}
    /\ i \in 0..NSIG /\ (pc \in {"call", "done", "next"} => i \in Signals)
    /\ all \in BOOLEAN /\ bsignal \in BOOLEAN

\* The type invariant; the handler that callHandlerSignal calls is that of a
\* signal.
TypeOK == AlarmsOK /\ SignalsOK /\ ControlOK

\* UTimer::invariant(), kept while alarms expire and are inserted again: the
\* list is in the order of expiry and has no alarm twice.
Ordered ==
    \A j, k \in 1..Len(list) : j < k => rem[list[j]] <= rem[list[k]] /\ list[j] # list[k]

\* The interval timer stands for the whole list: while there are alarms, it runs
\* out when the first one does, or SIGALRM came and its handler has still to
\* begin; apart from one race, an interval of zero, that disarms the timer, and
\* those that lose a signal.
Armed ==
    (list # <<>> /\ pc # "timer" /\ lost = {}) =>
        (itimer > 0 /\ itimer = rem[Head(list)]) \/ SIGALRM \in owed

\* A recorded signal whose handler has not begun is remembered where the process
\* will look for it before epoll_wait blocks.  There are five ways to miss one:
\* it comes right before epoll_wait is called, or while handlerTime() runs, its
\* mark is overwritten by that of the signal it interrupts, or is cleared
\* unread, or event_signal is zeroed after its handler ran for the one before.
SignalKept ==
    \A s \in owed : lost # {} \/
        \/ event_signal_pending \in {s, NSIG} /\ pc \notin {"enter", "wait", "timeout"}
        \/ pc = "clear" /\ i \in {s, NSIG}
        \/ pc = "call" /\ (i = s \/ (all /\ i < s))
        \/ pc \in {"timer", "done", "next"} /\ all /\ i < s

\* An alarm that has expired is taken from the list, or starts a new period.
AlarmsFire ==
    \A a \in Alarms :
        (a \in Listed /\ rem[a] <= 0) ~> (a \notin Listed \/ rem[a] > 0 \/ lost # {})
=============================================================================
