--------------------------- MODULE QuuLockProofs ---------------------------
(***************************************************************************)
(* Proofs about the semaphore of a junk, for every set of processes and    *)
(* whichever of the faults may happen.                                     *)
(***************************************************************************)
EXTENDS QuuLock, FoldSums

LEMMA InitHolds == Init => Inv
<1>. SUFFICES ASSUME Init PROVE Inv
  OBVIOUS
<1>. USE DEF Init
<1>1. TypeOK
  <2>1. pc \in [Procs -> PCs] /\ semadj \in [Procs -> Int] /\ semval \in Nat
    BY DEF PCs
  <2>2. attached \in [Procs -> BOOLEAN] /\ semset \in BOOLEAN
    BY Zenon
  <2>. QED
    BY <2>1, <2>2 DEF TypeOK
<1>2. \A p \in Procs : pc[p] = "down" /\ ~attached[p] /\ semadj[p] = 0
  OBVIOUS
<1>3. ~semset /\ semval = 0
  OBVIOUS
<1>. QED
  BY <1>1, <1>2, <1>3 DEF Inv, Mutex, FreeUnlessHeld

LEMMA SetupKeepsInv ==
  ASSUME Inv, NEW p \in Procs,
         InitSmphr(p) \/ SetVal(p) \/ GetSmphr(p)
  PROVE  Inv'
<1>. USE DEF Inv, TypeOK, PCs, Mutex, FreeUnlessHeld, Goto, Fault
<1>1. CASE InitSmphr(p)
  BY <1>1 DEF InitSmphr
<1>2. CASE SetVal(p)
  BY <1>2 DEF SetVal
<1>3. CASE GetSmphr(p)
  BY <1>3 DEF GetSmphr
<1>. QED
  BY <1>1, <1>2, <1>3

(* Only one process finds the semaphore free, and nobody is inside then. *)
LEMMA LockKeepsInv ==
  ASSUME Inv, NEW p \in Procs,
         CallLock(p) \/ LockQuu(p) \/ LockNoSet(p) \/ LockInterrupted(p)
  PROVE  Inv'
<1>. USE DEF Inv, TypeOK, PCs, Mutex, FreeUnlessHeld, Goto, Fault
<1>1. CASE CallLock(p)
  BY <1>1 DEF CallLock
<1>2. CASE LockQuu(p)
  BY <1>2 DEF LockQuu, Semop
<1>3. CASE LockNoSet(p)
  BY <1>3 DEF LockNoSet
<1>4. CASE LockInterrupted(p)
  BY <1>4 DEF LockInterrupted
<1>. QED
  BY <1>1, <1>2, <1>3, <1>4

(* A holder gives back exactly what it took, by unlocking or by dying. *)
LEMMA ReleaseKeepsInv ==
  ASSUME Inv, NEW p \in Procs,
         UnlockQuu(p) \/ Exit(p)
  PROVE  Inv'
<1>. USE DEF Inv, TypeOK, PCs, Mutex, FreeUnlessHeld, Goto, Fault
<1>1. CASE UnlockQuu(p)
  BY <1>1 DEF UnlockQuu, Semop
<1>2. CASE Exit(p)
  BY <1>2 DEF Exit
<1>. QED
  BY <1>1, <1>2

(***************************************************************************)
(* The invariant of the semaphore: until a lock call fails or somebody     *)
(* resets it, its value and the adjustments the kernel keeps account for   *)
(* exactly the process inside.                                             *)
(***************************************************************************)
THEOREM LockInvariance == Spec => []Inv
<1>1. Inv /\ [Next]_vars => Inv'
  <2>. SUFFICES ASSUME Inv, [Next]_vars
                PROVE  Inv'
    OBVIOUS
  <2>1. CASE Next
    <3>1. PICK p \in Procs :
            \/ InitSmphr(p) \/ SetVal(p) \/ GetSmphr(p)
            \/ CallLock(p) \/ LockQuu(p) \/ LockNoSet(p) \/ LockInterrupted(p)
            \/ UnlockQuu(p)
            \/ Exit(p)
      BY <2>1 DEF Next
    <3>. QED
      BY <3>1, SetupKeepsInv, LockKeepsInv, ReleaseKeepsInv
  <2>2. CASE UNCHANGED vars
    BY <2>2 DEF vars, Inv, TypeOK, Mutex, FreeUnlessHeld
  <2>. QED
    BY <2>1, <2>2
<1>. QED
  BY <1>1, InitHolds, PTL DEF Spec

(***************************************************************************)
(* At most one process is between wv_shm_lock_quu and wv_shm_unlock_quu,   *)
(* whoever dies, in the initialisation too.                                *)
(***************************************************************************)
THEOREM MutualExclusion == Spec => []Mutex
<1>1. Inv => Mutex
  BY DEF Inv
<1>. QED
  BY <1>1, LockInvariance, PTL

(***************************************************************************)
(* A semaphore that was set and that nobody holds is free, whoever died    *)
(* holding it.                                                             *)
(***************************************************************************)
THEOREM DeadHoldersRelease == Spec => []FreeUnlessHeld
<1>1. Inv => FreeUnlessHeld
  BY DEF Inv
<1>. QED
  BY <1>1, LockInvariance, PTL

-----------------------------------------------------------------------------
(***************************************************************************)
(* What there is of the semaphore: its value and what the kernel adds to   *)
(* it when the processes end.                                              *)
(***************************************************************************)
Supply == semval + GivenBack(semadj)

LEMMA GivenBackOfNone ==
  ASSUME IsFiniteSet(Procs)
  PROVE  GivenBack([q \in Procs |-> 0]) = 0
BY FoldOfZeros, Zenon DEF GivenBack

LEMMA GivenBackIsInt ==
  ASSUME IsFiniteSet(Procs), NEW f \in [Procs -> Int]
  PROVE  GivenBack(f) \in Int
BY FoldOfInts, Zenon DEF GivenBack

LEMMA GivenBackOfChanged ==
  ASSUME IsFiniteSet(Procs), NEW f \in [Procs -> Int], NEW p \in Procs, NEW v \in Int
  PROVE  GivenBack([f EXCEPT ![p] = v]) = GivenBack(f) + v - f[p]
BY FoldOfChanged, Zenon DEF GivenBack

(***************************************************************************)
(* A step that takes d from the value and adds it to one adjustment, or    *)
(* replaces an adjustment, changes the supply by the difference.           *)
(***************************************************************************)
LEMMA SupplyChange ==
  ASSUME IsFiniteSet(Procs), TypeOK, NEW p \in Procs, NEW v \in Int, semval' \in Int,
         semadj' = [semadj EXCEPT ![p] = v]
  PROVE  /\ Supply \in Int
         /\ Supply' = Supply + (semval' - semval) + (v - semadj[p])
<1>1. PICK f : f = semadj
  OBVIOUS
<1>2. f \in [Procs -> Int]
  BY <1>1 DEF TypeOK
<1>3. PICK a, b : a = GivenBack(f) /\ b = GivenBack([f EXCEPT ![p] = v])
  OBVIOUS
<1>4. a \in Int /\ b = a + v - f[p]
  BY <1>2, <1>3, GivenBackIsInt, GivenBackOfChanged
<1>5. Supply = semval + a /\ Supply' = semval' + b
  BY <1>1, <1>3, Zenon DEF Supply
<1>6. semval \in Int
  BY DEF TypeOK
<1>7. f[p] \in Int
  BY <1>2
<1>. QED
  BY <1>1, <1>4, <1>5, <1>6, <1>7

LEMMA SupplySame ==
  ASSUME UNCHANGED <<semval, semadj>>
  PROVE  Supply' = Supply
BY Zenon DEF Supply

(* With the value set to 1 and nothing to undo there is 1. *)
LEMMA SetValSupplies ==
  ASSUME IsFiniteSet(Procs), NEW p \in Procs, SetVal(p)
  PROVE  Supply' = 1
<1>1. PICK f : f = [q \in Procs |-> 0]
  OBVIOUS
<1>2. GivenBack(f) = 0
  BY <1>1, GivenBackOfNone
<1>3. semval' = 1 /\ semadj' = f
  BY <1>1 DEF SetVal
<1>4. PICK a : a = GivenBack(f)
  OBVIOUS
<1>5. Supply' = 1 + a
  BY <1>3, <1>4, Zenon DEF Supply
<1>. QED
  BY <1>2, <1>4, <1>5

(***************************************************************************)
(* wv_shm_lock_quu and wv_shm_unlock_quu move the supply between the value *)
(* and the adjustment of the caller.                                       *)
(***************************************************************************)
LEMMA SemopKeepsSupply ==
  ASSUME IsFiniteSet(Procs), TypeOK, NEW p \in Procs, NEW n \in Int, Semop(p, n)
  PROVE  Supply' = Supply
<1>1. PICK v \in Int : v = semadj[p] - n
  BY DEF TypeOK
<1>2. semadj' = [semadj EXCEPT ![p] = v] /\ semval' = semval + n /\ semval' \in Int
  BY <1>1 DEF Semop, TypeOK
<1>3. Supply \in Int /\ Supply' = Supply + (semval' - semval) + (v - semadj[p])
  BY <1>2, SupplyChange
<1>4. semval \in Int /\ semadj[p] \in Int
  BY DEF TypeOK
<1>. QED
  BY <1>1, <1>2, <1>3, <1>4

(* What the kernel does not take below 0 it does not take from the supply. *)
LEMMA ExitKeepsSupply ==
  ASSUME IsFiniteSet(Procs), TypeOK, NEW p \in Procs, Exit(p)
  PROVE  Supply \in Int /\ Supply' \in Int /\ Supply' >= Supply
<1>1. semval \in Nat /\ semadj[p] \in Int
  BY DEF TypeOK
<1>2. /\ semval' = IF semval + semadj[p] < 0 THEN 0 ELSE semval + semadj[p]
      /\ semadj' = [semadj EXCEPT ![p] = 0]
  BY DEF Exit
<1>3. semval' \in Int /\ semval' >= semval + semadj[p]
  BY <1>1, <1>2
<1>4. PICK v \in Int : v = 0
  OBVIOUS
<1>5. semadj' = [semadj EXCEPT ![p] = v] /\ semval' \in Int
  BY <1>2, <1>3, <1>4
<1>6. Supply \in Int /\ Supply' = Supply + (semval' - semval) + (v - semadj[p])
  BY <1>5, SupplyChange
<1>. QED
  BY <1>1, <1>3, <1>4, <1>6

LEMMA SupplyIsInt ==
  ASSUME IsFiniteSet(Procs), TypeOK
  PROVE  Supply \in Int
<1>1. PICK a : a = GivenBack(semadj)
  OBVIOUS
<1>2. semadj \in [Procs -> Int] /\ semval \in Int
  BY DEF TypeOK
<1>3. a \in Int
  BY <1>1, <1>2, GivenBackIsInt
<1>4. Supply = semval + a
  BY <1>1, Zenon DEF Supply
<1>. QED
  BY <1>2, <1>3, <1>4

LEMMA NextKeepsSupply ==
  ASSUME IsFiniteSet(Procs), TypeOK, TypeOK', NeverLost, Next
  PROVE  NeverLost'
<1> DEFINE Set == "torn" \notin faulted /\ semset /\ \A q \in Procs : pc[q] # "setval"
<1>1. NeverLost <=> (Set => Supply >= 1)
  BY Zenon DEF NeverLost, Supply
<1>2. NeverLost' <=> (Set' => Supply' >= 1)
  BY Zenon DEF NeverLost, Supply
<1>3. Supply \in Int /\ Supply' \in Int
  <2>1. Supply \in Int
    BY SupplyIsInt
  <2>2. PICK f : f = semadj'
    OBVIOUS
  <2>3. f \in [Procs -> Int] /\ semval' \in Int
    BY <2>2 DEF TypeOK
  <2>4. GivenBack(f) \in Int
    BY <2>3, GivenBackIsInt
  <2>5. PICK a : a = GivenBack(f)
    OBVIOUS
  <2>6. Supply' = semval' + a
    BY <2>2, <2>5, Zenon DEF Supply
  <2>. QED
    BY <2>1, <2>3, <2>4, <2>5, <2>6
<1>4. SUFFICES ASSUME Set' PROVE Supply' >= 1
  BY <1>2
<1>. DEFINE Kept == Set /\ Supply' >= Supply
<1>5. ASSUME Kept PROVE Supply' >= 1
  BY <1>1, <1>3, <1>5
<1>6. PICK p \in Procs :
        \/ InitSmphr(p) \/ SetVal(p) \/ GetSmphr(p)
        \/ CallLock(p) \/ LockQuu(p) \/ LockNoSet(p) \/ LockInterrupted(p)
        \/ UnlockQuu(p)
        \/ Exit(p)
  BY DEF Next
<1>7. pc \in [Procs -> PCs] /\ semadj \in [Procs -> Int]
  BY DEF TypeOK
<1>8. CASE InitSmphr(p)
  BY <1>4, <1>7, <1>8 DEF InitSmphr, Goto
<1>9. CASE SetVal(p)
  BY <1>3, <1>9, SetValSupplies
<1>10. CASE GetSmphr(p)
  <2>1. Set
    BY <1>4, <1>7, <1>10 DEF GetSmphr, Goto, Fault
  <2>2. Supply' = Supply
    BY <1>10, SupplySame DEF GetSmphr
  <2>. QED
    BY <1>3, <1>5, <2>1, <2>2
<1>11. CASE CallLock(p) \/ LockNoSet(p)
  <2>1. Set
    BY <1>4, <1>7, <1>11 DEF CallLock, LockNoSet, Goto
  <2>2. Supply' = Supply
    BY <1>11, SupplySame DEF CallLock, LockNoSet
  <2>. QED
    BY <1>3, <1>5, <2>1, <2>2
<1>12. CASE LockQuu(p)
  <2>1. Set
    BY <1>4, <1>7, <1>12 DEF LockQuu, Goto
  <2>2. Supply' = Supply
    BY <1>12, SemopKeepsSupply DEF LockQuu
  <2>. QED
    BY <1>3, <1>5, <2>1, <2>2
<1>13. CASE LockInterrupted(p)
  <2>1. Set
    BY <1>4, <1>7, <1>13 DEF LockInterrupted, Goto, Fault
  <2>2. Supply' = Supply
    BY <1>13, SupplySame DEF LockInterrupted
  <2>. QED
    BY <1>3, <1>5, <2>1, <2>2
<1>14. CASE UnlockQuu(p)
  <2>1. Set
    BY <1>4, <1>7, <1>14 DEF UnlockQuu, Goto
  <2>2. Supply' = Supply
    BY <1>14, SemopKeepsSupply, SupplySame DEF UnlockQuu
  <2>. QED
    BY <1>3, <1>5, <2>1, <2>2
<1>15. CASE Exit(p)
  (* One that ends between semget and SETVAL leaves "torn". *)
  <2>1. Set
    BY <1>4, <1>7, <1>15 DEF Exit, Goto, Fault
  <2>2. Supply' >= Supply
    BY <1>15, ExitKeepsSupply
  <2>. QED
    BY <1>5, <2>1, <2>2
<1>. QED
  BY <1>6, <1>8, <1>9, <1>10, <1>11, <1>12, <1>13, <1>14, <1>15

(***************************************************************************)
(* The semaphore is not lost, whichever faults happen but a torn           *)
(* initialisation: unlocks of what was never locked, resets and deaths     *)
(* only ever add to what there is of it.                                   *)
(***************************************************************************)
THEOREM SemaphoreNotLost ==
  ASSUME IsFiniteSet(Procs)
  PROVE  Spec => []NeverLost
<1>1. Init => NeverLost
  BY DEF Init, NeverLost
<1>2. Inv => TypeOK
  BY DEF Inv
<1>3. TypeOK /\ TypeOK' /\ NeverLost /\ [Next]_vars => NeverLost'
  <2>. SUFFICES ASSUME TypeOK, TypeOK', NeverLost, [Next]_vars
                PROVE  NeverLost'
    OBVIOUS
  <2>1. CASE Next
    BY <2>1, NextKeepsSupply
  <2>2. CASE UNCHANGED vars
    BY <2>2, Zenon DEF vars, NeverLost
  <2>. QED
    BY <2>1, <2>2
<1>. QED
  BY <1>1, <1>2, <1>3, LockInvariance, PTL DEF Spec

=============================================================================
