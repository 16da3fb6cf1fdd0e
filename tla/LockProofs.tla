---------------------------- MODULE LockProofs ----------------------------
(***************************************************************************)
(* Proofs about Lock for every set of children and every bound: types,     *)
(* conservation of the semaphore's units, the drift of the recursion       *)
(* counter, and mutual exclusion.                                          *)
(***************************************************************************)
EXTENDS Lock, FiniteSetTheorems, TLAPS

(* Control facts that the other parts need: only a living process is inside *)
(* lock(), a dead one owns nothing, and the parent is between lock() and    *)
(* unlock() exactly when its loop is writing to the log.                    *)
ControlInv ==
    /\ \A p \in Kids : pc[p] = "wait" => life[p] = "up" /\ depth[p] < MaxDepth
    /\ \A p \in Kids : life[p] # "up" => pc[p] = "run" /\ locked[p] = 0
    /\ pc[Parent] = "wait" => boss \in {"log1", "log2"}
    /\ depth[Parent] = IF boss \in {"logging1", "logging2"} THEN 1 ELSE 0
    /\ lost <= crashes

IndInv == TypeOK /\ ControlInv /\ Drift /\ Accounting

(* There are finitely many processes, hence finitely many owners of a unit   *)
(* of the semaphore.                                                        *)
LEMMA HoldersFinite == ASSUME LockAssumption
                       PROVE  IsFiniteSet(Users) /\ IsFiniteSet(Holders) /\ Holders \subseteq Users
<1>1. IsFiniteSet(Users)
  BY FS_AddElement DEF LockAssumption, Users
<1>2. Holders \subseteq Users
  BY DEF Holders
<1>. QED  BY <1>1, <1>2, FS_Subset

(* USemaphore::init() and ULock() establish the invariant.                  *)
THEOREM InitInd == ASSUME LockAssumption, Init PROVE IndInv
<1>1. TypeOK
  BY DEF LockAssumption, Init, TypeOK, BossStates, Users
<1>2. ControlInv
  BY DEF LockAssumption, Init, ControlInv, Users
<1>3. Drift
  BY DEF Init, Drift, Users
<1>4. Holders = {}
  BY DEF Init, Holders, Holds, Users
<1>5. Accounting
  BY <1>4, FS_EmptySet DEF Init, Accounting
<1>. QED  BY <1>1, <1>2, <1>3, <1>5 DEF IndInv

(* Every step of lock(), unlock(), of a crash and of the parent loop keeps   *)
(* the types, the control facts and the drift of the counter.               *)
THEOREM TypeStep == ASSUME LockAssumption, IndInv, [Next]_vars PROVE TypeOK' /\ ControlInv' /\ Drift'
<1>. USE DEF IndInv, TypeOK, ControlInv, Drift, Users, BossStates
<1>. USE LockAssumption DEF LockAssumption
<1>1. ASSUME NEW p \in Users, LockCall(p) PROVE TypeOK' /\ ControlInv' /\ Drift'
  <2>1. CASE locked[p] = 0
    <3>1. /\ pc[p] = "run" /\ CallsLock(p) /\ pc' = [pc EXCEPT ![p] = "wait"]
          /\ locked' = [locked EXCEPT ![p] = 1]
          /\ UNCHANGED <<value, depth, life, boss, failed, lost, posted, crashes, intr>>
      BY <1>1, <2>1 DEF LockCall, histVars
    <3>2. TypeOK'
      BY <3>1
    <3>3. ControlInv'
      BY <3>1 DEF CallsLock
    <3>4. Drift'
      BY <2>1, <3>1
    <3>. QED  BY <3>2, <3>3, <3>4
  <2>2. CASE locked[p] # 0
    <3>1. locked[p] \in Int /\ locked[p] + 1 # 1
      BY <2>2
    <3>2. depth[p] < MaxDepth
      BY <1>1 DEF LockCall, CallsLock
    <3>6. /\ pc' = pc /\ depth' = [depth EXCEPT ![p] = depth[p] + 1]
          /\ locked' = [locked EXCEPT ![p] = locked[p] + 1] /\ boss' = AfterLock(p)
          /\ UNCHANGED <<value, life, failed, lost, posted, crashes, intr>>
      BY <1>1, <3>1 DEF LockCall, histVars
    <3>7. locked[p] + 1 = (depth[p] + 1) - failed[p] /\ depth[p] \in Int /\ failed[p] \in 0 .. MaxFail
      BY <1>1 DEF LockCall
    <3>8. locked[p] + 1 \in -MaxFail .. MaxDepth /\ depth[p] + 1 \in 0 .. MaxDepth
      BY <3>2, <3>7
    <3>3. TypeOK'
      BY <3>6, <3>8 DEF AfterLock
    <3>4. ControlInv'
      BY <1>1, <3>1 DEF LockCall, CallsLock, AfterLock, histVars
    <3>5. Drift'
      BY <1>1, <3>1 DEF LockCall, histVars
    <3>. QED  BY <3>3, <3>4, <3>5
  <2>. QED  BY <2>1, <2>2
<1>2. ASSUME NEW p \in Users, SemWait(p) PROVE TypeOK' /\ ControlInv' /\ Drift'
  BY <1>2 DEF SemWait, AfterLock, histVars
<1>3. ASSUME NEW p \in Users, WaitFails(p) PROVE TypeOK' /\ ControlInv' /\ Drift'
  BY <1>3 DEF WaitFails, AfterLock, histVars
<1>4. ASSUME NEW p \in Users, Unlock(p) PROVE TypeOK' /\ ControlInv' /\ Drift'
  BY <1>4 DEF Unlock, CallsUnlock, AfterUnlock, AfterFork, histVars
<1>5. ASSUME NEW p \in Kids, Crash(p) PROVE TypeOK' /\ ControlInv' /\ Drift'
  BY <1>5 DEF Crash, Cleared
<1>6. ASSUME NEW p \in Kids, Waitpid(p) PROVE TypeOK' /\ ControlInv' /\ Drift'
  BY <1>6 DEF Waitpid, kidVars, histVars
<1>7. ASSUME NEW p \in Kids, Fork(p) PROVE TypeOK' /\ ControlInv' /\ Drift'
  <2>1. /\ boss = "fork" /\ life[p] = "down" /\ life' = [life EXCEPT ![p] = "up"]
        /\ locked' = [locked EXCEPT ![p] = locked[Parent]]
        /\ depth' = [depth EXCEPT ![p] = 0] /\ failed' = [failed EXCEPT ![p] = failed[Parent]]
        /\ boss' \in {"log2", "fork", "waitpid"}
        /\ UNCHANGED <<value, pc, lost, posted, crashes, intr>>
    BY <1>7 DEF Fork, AfterFork, histVars
  <2>2. pc[p] = "run" /\ pc[Parent] = "run" /\ locked[Parent] = 0 - failed[Parent]
    BY <2>1
  <2>. QED  BY <2>1, <2>2
<1>8. ASSUME SemGetvalue PROVE TypeOK' /\ ControlInv' /\ Drift'
  BY <1>8 DEF SemGetvalue, AfterFork, kidVars, histVars
<1>9. ASSUME SemPost PROVE TypeOK' /\ ControlInv' /\ Drift'
  BY <1>9 DEF SemPost, AfterFork, kidVars
<1>10. ASSUME WaitpidFails PROVE TypeOK' /\ ControlInv' /\ Drift'
  BY <1>10 DEF WaitpidFails, kidVars
<1>11. CASE UNCHANGED vars
  BY <1>11 DEF vars
<1>. QED  BY <1>1, <1>2, <1>3, <1>4, <1>5, <1>6, <1>7, <1>8, <1>9, <1>10, <1>11 DEF Next, Process, Boss

(* One more, one less, or the same owners.                                  *)
LEMMA HoldersChange ==
    ASSUME LockAssumption, NEW p \in Users
    PROVE  /\ Holders' = Holders \cup {p} /\ p \notin Holders
                 => Cardinality(Holders') = Cardinality(Holders) + 1
           /\ Holders' = Holders \ {p} /\ p \in Holders
                 => Cardinality(Holders') = Cardinality(Holders) - 1
           /\ Cardinality(Holders) \in Nat
<1>1. IsFiniteSet(Holders)
  BY HoldersFinite
<1>. QED  BY <1>1, FS_AddElement, FS_RemoveElement, FS_CardinalityType

(* Every step conserves the units of the semaphore: a wait moves one to its *)
(* caller, the outermost unlock() moves it back, a death loses it, and      *)
(* checkForDeadLock() adds one.                                             *)
THEOREM AccountingStep == ASSUME LockAssumption, IndInv, [Next]_vars PROVE Accounting'
<1>. USE DEF IndInv, TypeOK, Accounting
<1>. USE LockAssumption DEF LockAssumption
<1>0. Cardinality(Holders) \in Nat /\ value \in Nat /\ lost \in Nat /\ posted \in Nat
  BY HoldersChange DEF Users
<1>a. ASSUME pc' = pc, locked' = locked PROVE Holders' = Holders
  BY <1>a DEF Holders, Holds
<1>1. ASSUME NEW p \in Users, LockCall(p) PROVE Accounting'
  <2>1. /\ locked' = [locked EXCEPT ![p] = locked[p] + 1] /\ pc[p] = "run" /\ locked[p] \in Int
        /\ locked[p] = 0 => pc' = [pc EXCEPT ![p] = "wait"]
        /\ locked[p] # 0 => pc' = pc
        /\ value' = value /\ lost' = lost /\ posted' = posted
    BY <1>1 DEF LockCall, histVars
  <2>2. \A q \in Users : Holds(q)' <=> Holds(q)
    BY <2>1 DEF Holds
  <2>3. Holders' = Holders
    BY <2>2 DEF Holders
  <2>4. value' = value /\ lost' = lost /\ posted' = posted
    BY <2>1
  <2>. QED  BY <2>3, <2>4
<1>2. ASSUME NEW p \in Users, SemWait(p) PROVE Accounting'
  <2>1. /\ pc' = [pc EXCEPT ![p] = "run"] /\ pc[p] = "wait" /\ locked' = locked /\ locked[p] = 1
        /\ value' = value - 1 /\ lost' = lost /\ posted' = posted
    BY <1>2 DEF SemWait, histVars, Drift
  <2>2. Holders' = Holders \cup {p} /\ p \notin Holders
    BY <2>1 DEF Holders, Holds
  <2>3. Cardinality(Holders') = Cardinality(Holders) + 1
    BY <2>2, HoldersChange
  <2>4. value' = value - 1 /\ lost' = lost /\ posted' = posted
    BY <2>1
  <2>. QED  BY <1>0, <2>3, <2>4
<1>3. ASSUME NEW p \in Users, WaitFails(p) PROVE Accounting'
  <2>1. /\ pc' = [pc EXCEPT ![p] = "run"] /\ pc[p] = "wait" /\ locked' = [locked EXCEPT ![p] = 0]
        /\ value' = value /\ lost' = lost /\ posted' = posted
    BY <1>3 DEF WaitFails, histVars
  <2>2. Holders' = Holders
    BY <2>1 DEF Holders, Holds
  <2>. QED  BY <2>1, <2>2
<1>4. ASSUME NEW p \in Users, Unlock(p) PROVE Accounting'
  <2>1. /\ pc' = pc /\ pc[p] = "run" /\ locked' = [locked EXCEPT ![p] = locked[p] - 1]
        /\ value' = (IF locked[p] - 1 = 0 THEN value + 1 ELSE value)
        /\ lost' = lost /\ posted' = posted /\ locked[p] \in Int
    BY <1>4 DEF Unlock, histVars
  <2>2. CASE locked[p] = 1
    <3>1. Holders' = Holders \ {p} /\ p \in Holders
      BY <2>1, <2>2 DEF Holders, Holds
    <3>2. Cardinality(Holders') = Cardinality(Holders) - 1
      BY <3>1, HoldersChange
    <3>3. value' = value + 1 /\ lost' = lost /\ posted' = posted
      BY <2>1, <2>2
    <3>. QED  BY <1>0, <3>2, <3>3
  <2>3. CASE locked[p] # 1
    <3>1. \A q \in Users : Holds(q)' <=> Holds(q)
      BY <2>1, <2>3 DEF Holds
    <3>2. Holders' = Holders
      BY <3>1 DEF Holders
    <3>. QED  BY <2>1, <2>3, <3>2
  <2>. QED  BY <2>2, <2>3
<1>5. ASSUME NEW p \in Kids, Crash(p) PROVE Accounting'
  <2>1. /\ p \in Users /\ locked' = [locked EXCEPT ![p] = 0] /\ pc' = [pc EXCEPT ![p] = "run"]
        /\ lost' = (IF Holds(p) THEN lost + 1 ELSE lost) /\ value' = value /\ posted' = posted
    BY <1>5 DEF Crash, Cleared, Users
  <2>2. Holders' = Holders \ {p}
    BY <2>1 DEF Holders, Holds
  <2>3. CASE Holds(p)
    BY <1>0, <2>1, <2>2, <2>3, HoldersChange DEF Holders
  <2>4. CASE ~Holds(p)
    <3>1. Holders' = Holders
      BY <2>2, <2>4 DEF Holders
    <3>. QED  BY <2>1, <2>4, <3>1
  <2>. QED  BY <2>3, <2>4
<1>6. ASSUME NEW p \in Kids, Waitpid(p) PROVE Accounting'
  BY <1>6, <1>a DEF Waitpid, kidVars, histVars
<1>7. ASSUME NEW p \in Kids, Fork(p) PROVE Accounting'
  <2>1. /\ p \in Users /\ locked' = [locked EXCEPT ![p] = locked[Parent]] /\ pc' = pc
        /\ boss = "fork" /\ life[p] = "down"
        /\ lost' = lost /\ value' = value /\ posted' = posted
    BY <1>7 DEF Fork, Users, histVars
  <2>2. pc[Parent] = "run" /\ depth[Parent] = 0 /\ locked[p] = 0
    BY <2>1 DEF ControlInv, Users
  <2>3. locked[Parent] \in Int /\ ~(locked[Parent] > 0)
    BY <2>2 DEF Drift, Users
  <2>4. Holders' = Holders
    BY <2>1, <2>2, <2>3 DEF Holders, Holds
  <2>. QED  BY <2>1, <2>4
<1>8. ASSUME SemGetvalue PROVE Accounting'
  BY <1>8, <1>a DEF SemGetvalue, kidVars, histVars
<1>9. ASSUME SemPost PROVE Accounting'
  BY <1>0, <1>9, <1>a DEF SemPost, kidVars
<1>10. ASSUME WaitpidFails PROVE Accounting'
  BY <1>10, <1>a DEF WaitpidFails, kidVars
<1>11. CASE UNCHANGED vars
  BY <1>11, <1>a DEF vars
<1>. QED  BY <1>1, <1>2, <1>3, <1>4, <1>5, <1>6, <1>7, <1>8, <1>9, <1>10, <1>11 DEF Next, Process, Boss

(* Types, conservation of the semaphore's units and the drift of the        *)
(* recursion counter hold in every reachable state.                         *)
THEOREM LockInvariant == Spec => [](TypeOK /\ Drift /\ Accounting)
<1>1. Init => IndInv
  BY InitInd, LockAssumption
<1>2. IndInv /\ [Next]_vars => IndInv'
  BY TypeStep, AccountingStep, LockAssumption DEF IndInv
<1>3. IndInv => TypeOK /\ Drift /\ Accounting
  BY DEF IndInv
<1>. QED  BY <1>1, <1>2, <1>3, PTL DEF Spec

(* The recursion counter of every process is off by exactly the number of   *)
(* its failed waits, from the first failed sem_wait() to its death; a child *)
(* starts with those of the parent that forked it.                          *)
THEOREM CounterDrift == Spec => []Drift
  BY LockInvariant, PTL

(* If no wait failed and checkForDeadLock added no more units than dead     *)
(* children took with them, two processes are never between lock() and      *)
(* unlock() at the same time.                                               *)
THEOREM LockMutualExclusion == Spec => []MutualExclusion
<1>1. IndInv => MutualExclusion
  <2>. SUFFICES ASSUME IndInv, posted <= lost, \A r \in Users : failed[r] = 0,
                       NEW p \in Users, NEW q \in Users, Inside(p), Inside(q), p # q
                PROVE  FALSE
    BY DEF MutualExclusion
  <2>1. Cardinality(Holders) \in Nat /\ IsFiniteSet(Holders)
    BY LockAssumption, HoldersFinite, FS_CardinalityType
  <2>2. Cardinality(Holders) <= 1
    BY <2>1 DEF IndInv, TypeOK, Accounting
  <2>3. locked[p] > 0 /\ locked[q] > 0
    BY DEF IndInv, TypeOK, Drift, Inside
  <2>4. p \in Holders /\ q \in Holders
    BY <2>3 DEF Holders, Holds, Inside
  <2>5. IsFiniteSet({p, q}) /\ Cardinality({p, q}) = 2
    <3>1. IsFiniteSet({p}) /\ Cardinality({p}) = 1
      BY FS_Singleton
    <3>2. q \notin {p} /\ {p, q} = {p} \cup {q}
      OBVIOUS
    <3>. QED  BY <3>1, <3>2, FS_AddElement
  <2>6. Cardinality({p, q}) <= Cardinality(Holders)
    BY <2>1, <2>4, <2>5, FS_Subset
  <2>. QED  BY <2>1, <2>2, <2>5, <2>6
<1>2. Init => IndInv
  BY InitInd, LockAssumption
<1>3. IndInv /\ [Next]_vars => IndInv'
  BY TypeStep, AccountingStep, LockAssumption DEF IndInv
<1>. QED  BY <1>1, <1>2, <1>3, PTL DEF Spec
=============================================================================
