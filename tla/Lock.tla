------------------------------- MODULE Lock -------------------------------
(***************************************************************************)
(* The inter-process lock of ULib: ULock (a recursion counter private to   *)
(* each process) over USemaphore (a POSIX semaphore in shared memory), the *)
(* children that use it and the parent of a preforked server.  The parent  *)
(* loop of UServer_Base::run reaps a dead child, may log the event (taking *)
(* the same lock when the semaphore is the one of the log), runs           *)
(* USemaphore::checkForDeadLock and forks a replacement.                   *)
(***************************************************************************)
EXTENDS Integers, FiniteSets

CONSTANTS
    Kids,         \* the slots of the preforked children
    Parent,       \* the parent process
    ParentLogs,   \* TRUE iff the semaphore is the one U_SRV_LOG takes
    MaxDepth,     \* bound: nested lock() calls of one process
    MaxFail,      \* bound: waits of one process life that fail (EINTR, timeout),
                  \* with those inherited from the parent
    MaxCrash,     \* bound: children that die
    MaxIntr       \* bound: signals that interrupt the waitpid() of the parent

ASSUME LockAssumption ==
    /\ IsFiniteSet(Kids)
    /\ Parent \notin Kids
    /\ ParentLogs \in BOOLEAN
    /\ MaxDepth \in Nat \ {0}
    /\ MaxFail \in Nat
    /\ MaxCrash \in Nat
    /\ MaxIntr \in Nat

Users == Kids \cup {Parent}

VARIABLES
    value,    \* the value of the shared sem_t
    locked,   \* ULock::locked of every process
    depth,    \* lock() calls of the process that returned and are not undone
    pc,       \* "run", or "wait" when inside sem_wait()
    life,     \* "up", "zombie" (dead, not yet waited for) or "down"
    boss,     \* where the parent loop stands
    failed,   \* history: failed waits in this life of the process, those its
              \* parent had before the fork included
    lost,     \* history: units taken by children that died holding one
    posted,   \* history: units added by checkForDeadLock
    crashes,  \* history: children that died
    intr      \* history: interrupted calls of waitpid()

vars == <<value, locked, depth, pc, life, boss, failed, lost, posted, crashes, intr>>

kidVars  == <<locked, depth, pc, failed>>
histVars == <<lost, posted, crashes, intr>>

BossStates ==
    {"waitpid", "log1", "logging1", "read1", "read2", "read3", "post",
     "fork", "log2", "logging2"}

\* The process owns one unit of the semaphore.
Holds(p) == pc[p] = "run" /\ locked[p] > 0

Holders == {p \in Users : Holds(p)}

\* The process believes it is between lock() and unlock().
Inside(p) == pc[p] = "run" /\ depth[p] > 0

-----------------------------------------------------------------------------
(* The fields of a process that has died: nobody reads them any more.      *)
Cleared(p) ==
    /\ locked' = [locked EXCEPT ![p] = 0]
    /\ depth'  = [depth EXCEPT ![p] = 0]
    /\ pc'     = [pc EXCEPT ![p] = "run"]
    /\ failed' = [failed EXCEPT ![p] = 0]

Init ==
    /\ value  = 1
    /\ locked = [p \in Users |-> 0]
    /\ depth  = [p \in Users |-> 0]
    /\ pc     = [p \in Users |-> "run"]
    /\ life   = [p \in Kids |-> "up"]
    /\ boss   = "waitpid"
    /\ failed = [p \in Users |-> 0]
    /\ lost   = 0
    /\ posted = 0
    /\ crashes = 0
    /\ intr = 0

\* When may the program of process p call lock(), and unlock().
CallsLock(p) ==
    IF p = Parent THEN boss \in {"log1", "log2"}
                  ELSE life[p] = "up" /\ depth[p] < MaxDepth

CallsUnlock(p) ==
    IF p = Parent THEN boss \in {"logging1", "logging2"} ELSE life[p] = "up"

\* Where the parent loop goes on: to the next fork or to waitpid(), after
\* lock() and after unlock().
AfterFork(l) == IF \E q \in Kids : l[q] = "down" THEN "fork" ELSE "waitpid"

AfterLock(p) ==
    IF p # Parent THEN boss ELSE IF boss = "log1" THEN "logging1" ELSE "logging2"

AfterUnlock(p) ==
    IF p # Parent THEN boss ELSE IF boss = "logging1" THEN "read1" ELSE AfterFork(life)

-----------------------------------------------------------------------------
(* ULock::lock() up to the call of sem_wait(): only the outermost call, the *)
(* one that moves the counter to 1, touches the semaphore.                  *)
LockCall(p) ==
    /\ pc[p] = "run"
    /\ CallsLock(p)
    /\ locked' = [locked EXCEPT ![p] = @ + 1]
    /\ IF locked[p] + 1 = 1
         THEN pc' = [pc EXCEPT ![p] = "wait"] /\ UNCHANGED <<depth, boss>>
         ELSE /\ depth' = [depth EXCEPT ![p] = @ + 1]
              /\ boss' = AfterLock(p)
              /\ UNCHANGED pc
    /\ UNCHANGED <<value, life, failed, histVars>>

(* sem_wait() succeeds.                                                     *)
SemWait(p) ==
    /\ pc[p] = "wait" /\ value > 0
    /\ value' = value - 1
    /\ pc'    = [pc EXCEPT ![p] = "run"]
    /\ depth' = [depth EXCEPT ![p] = @ + 1]
    /\ boss'  = AfterLock(p)
    /\ UNCHANGED <<locked, life, failed, histVars>>

(* A variant with a mistake, used to test the properties: the counter of    *)
(* the failed wait is left at 1.                                            *)
WaitFailsKeepsCount(p) ==
    /\ pc[p] = "wait" /\ failed[p] < MaxFail
    /\ pc'     = [pc EXCEPT ![p] = "run"]
    /\ depth'  = [depth EXCEPT ![p] = @ + 1]
    /\ failed' = [failed EXCEPT ![p] = @ + 1]
    /\ boss'   = AfterLock(p)
    /\ UNCHANGED <<value, locked, life, histVars>>

(* sem_wait() fails: a signal arrived (the handlers of UInterrupt are       *)
(* installed without SA_RESTART) or the timeout expired.  lock() sets the   *)
(* counter to 0 and returns to its caller as after a success.               *)
WaitFails(p) ==
    /\ pc[p] = "wait" /\ failed[p] < MaxFail
    /\ locked' = [locked EXCEPT ![p] = 0]
    /\ pc'     = [pc EXCEPT ![p] = "run"]
    /\ depth'  = [depth EXCEPT ![p] = @ + 1]
    /\ failed' = [failed EXCEPT ![p] = @ + 1]
    /\ boss'   = AfterLock(p)
    /\ UNCHANGED <<value, life, histVars>>

(* Variant with a mistake: the inner unlock() calls post too.               *)
UnlockAlwaysPosts(p) ==
    /\ pc[p] = "run" /\ depth[p] > 0
    /\ CallsUnlock(p)
    /\ locked' = [locked EXCEPT ![p] = @ - 1]
    /\ depth'  = [depth EXCEPT ![p] = @ - 1]
    /\ value'  = value + 1
    /\ boss'   = AfterUnlock(p)
    /\ UNCHANGED <<pc, life, failed, histVars>>

(* ULock::unlock(): only the outermost call posts the semaphore.            *)
Unlock(p) ==
    /\ pc[p] = "run" /\ depth[p] > 0
    /\ CallsUnlock(p)
    /\ locked' = [locked EXCEPT ![p] = @ - 1]
    /\ depth'  = [depth EXCEPT ![p] = @ - 1]
    /\ value'  = IF locked[p] - 1 = 0 THEN value + 1 ELSE value
    /\ boss'   = AfterUnlock(p)
    /\ UNCHANGED <<pc, life, failed, histVars>>

(* A child dies where it stands: what it took from the semaphore is gone.   *)
Crash(p) ==
    /\ p \in Kids /\ life[p] = "up" /\ crashes < MaxCrash
    /\ life'    = [life EXCEPT ![p] = "zombie"]
    /\ lost'    = IF Holds(p) THEN lost + 1 ELSE lost
    /\ crashes' = crashes + 1
    /\ Cleared(p)
    /\ UNCHANGED <<value, boss, posted, intr>>

-----------------------------------------------------------------------------
(* The parent loop: waitpid() returns a dead child, U_SRV_LOG reports it.   *)
Waitpid(p) ==
    /\ boss = "waitpid" /\ life[p] = "zombie"
    /\ life' = [life EXCEPT ![p] = "down"]
    /\ boss' = IF ParentLogs THEN "log1" ELSE "read1"
    /\ UNCHANGED <<value, kidVars, histVars>>

(* waitpid() is interrupted by a signal and not restarted: the loop goes on *)
(* to checkForDeadLock though no child died.                                *)
WaitpidFails ==
    /\ boss = "waitpid" /\ intr < MaxIntr
    /\ boss' = "read1"
    /\ intr' = intr + 1
    /\ UNCHANGED <<value, life, kidVars, lost, posted, crashes>>

(* Variant with a mistake: a value of 0 is taken for a free semaphore.      *)
SemGetvalueOffByOne ==
    /\ boss \in {"read1", "read2", "read3"}
    /\ boss' = IF value >= 0 THEN AfterFork(life)
               ELSE IF boss = "read1" THEN "read2"
               ELSE IF boss = "read2" THEN "read3" ELSE "post"
    /\ UNCHANGED <<value, life, kidVars, histVars>>

(* checkForDeadLock() looks at the value three times, sleeping in between,  *)
(* and gives up as soon as it is positive.                                  *)
SemGetvalue ==
    /\ boss \in {"read1", "read2", "read3"}
    /\ boss' = IF value > 0 THEN AfterFork(life)
               ELSE IF boss = "read1" THEN "read2"
               ELSE IF boss = "read2" THEN "read3" ELSE "post"
    /\ UNCHANGED <<value, life, kidVars, histVars>>

SemPost ==
    /\ boss = "post"
    /\ value'  = value + 1
    /\ posted' = posted + 1
    /\ boss'   = AfterFork(life)
    /\ UNCHANGED <<life, kidVars, lost, crashes, intr>>

(* The loop forks until there are nkids children again, logging each one,    *)
(* then waits.  The child goes on with the parent's copy of ULock::locked,   *)
(* shifted by the waits of U_SRV_LOG that failed in the parent.             *)
Fork(p) ==
    /\ boss = "fork" /\ life[p] = "down"
    /\ life'   = [life EXCEPT ![p] = "up"]
    /\ locked' = [locked EXCEPT ![p] = locked[Parent]]
    /\ depth'  = [depth EXCEPT ![p] = 0]
    /\ failed' = [failed EXCEPT ![p] = failed[Parent]]
    /\ boss'   = IF ParentLogs THEN "log2" ELSE AfterFork(life')
    /\ UNCHANGED <<value, pc, histVars>>

-----------------------------------------------------------------------------
Process(p) == LockCall(p) \/ SemWait(p) \/ WaitFails(p) \/ Unlock(p)

Boss ==
    \/ SemGetvalue
    \/ SemPost
    \/ WaitpidFails
    \/ \E p \in Kids : Waitpid(p) \/ Fork(p)

Next ==
    \/ \E p \in Users : Process(p)
    \/ \E p \in Kids : Crash(p)
    \/ Boss

Spec == Init /\ [][Next]_vars

(* The parent keeps running its own loop; a child need not make progress.   *)
ParentLog == LockCall(Parent) \/ SemWait(Parent) \/ Unlock(Parent)

FairSpec == Spec /\ WF_vars(Boss) /\ WF_vars(ParentLog)

-----------------------------------------------------------------------------
(* Types: the counter of a process never leaves the range that nesting and  *)
(* failed waits explain.                                                    *)
TypeOK ==
    /\ value \in Nat
    /\ locked \in [Users -> -MaxFail .. MaxDepth]
    /\ depth \in [Users -> 0 .. MaxDepth]
    /\ pc \in [Users -> {"run", "wait"}]
    /\ life \in [Kids -> {"up", "zombie", "down"}]
    /\ boss \in BossStates
    /\ failed \in [Users -> 0 .. MaxFail]
    /\ lost \in 0 .. MaxCrash
    /\ posted \in Nat
    /\ crashes \in 0 .. MaxCrash
    /\ intr \in 0 .. MaxIntr

(* Conservation of the semaphore: its value plus what living processes own  *)
(* plus what died with its owner is 1 plus what checkForDeadLock added.     *)
Accounting == value + Cardinality(Holders) + lost = 1 + posted

(* Every failed wait shifts ULock::locked by one for the rest of the life   *)
(* of the process and of the children it forks, so that a process owns the  *)
(* semaphore only when it is nested deeper than the number of its failed    *)
(* waits.                                                                   *)
Drift ==
    \A p \in Users :
       IF pc[p] = "run" THEN locked[p] = depth[p] - failed[p]
                        ELSE locked[p] = 1 /\ depth[p] = failed[p]

(* Mutual exclusion of the processes between lock() and unlock(), as long   *)
(* as no wait failed and checkForDeadLock added no more than was lost.      *)
MutualExclusion ==
    (posted <= lost /\ \A p \in Users : failed[p] = 0)
       => \A p, q \in Users : Inside(p) /\ Inside(q) => p = q

(* A unit lost with a dead child is replaced: the semaphore does not stay   *)
(* at 0 with no living process that could post it.                          *)
Recovered == (value = 0 /\ Holders = {}) ~> (value > 0 \/ Holders # {})
=============================================================================
