------------------------------- MODULE QuuLock -------------------------------
(***************************************************************************)
(* The semaphore that guards one junk, and the processes that take it      *)
(* around their pushes and pops as tests/producer.c and tests/consumer.c   *)
(* do: each call of wv_shm_lock_quu and wv_shm_unlock_quu is a semop with  *)
(* SEM_UNDO, and the callers do not look at what it returns.               *)
(*                                                                         *)
(* The kernel's part is external: the value of the semaphore, the          *)
(* adjustment it keeps for each process, and the undoing of it when the    *)
(* process ends for whatever reason.                                       *)
(***************************************************************************)
EXTENDS Integers, Functions

CONSTANTS
  Procs,    \* the processes
  Faults,   \* which of the things below may happen
  MaxDebt   \* bound: how often a process unlocks what it did not lock

AllFaults ==
  {"noset",   \* a process starts before the semaphore set was created
   "eintr",   \* a sleeping semop is interrupted
   "reset",   \* SEMA_INIT is given when the set exists
   "torn"}    \* a process dies between semget and SETVAL

ASSUME FaultAssumption == Faults \subseteq AllFaults

ASSUME DebtAssumption == MaxDebt \in Nat \ {0}

VARIABLES
  pc,        \* where each process is
  attached,  \* has the process an id of the set in _semid
  semset,    \* does the semaphore set exist
  semval,    \* the value of the semaphore
  semadj,    \* what the kernel adds to it when the process ends
  faulted    \* history: which faults have happened

vars == <<pc, attached, semset, semval, semadj, faulted>>

PCs == {"down", "setval", "idle", "waiting", "critical"}

Goto(p, label) == pc' = [pc EXCEPT ![p] = label]

Fault(fault) == fault \in Faults /\ faulted' = faulted \cup {fault}

(***************************************************************************)
(* semop(_semid, {index, n, SEM_UNDO}, 1) of process p.                    *)
(***************************************************************************)
Semop(p, n) ==
  /\ semval' = semval + n
  /\ semadj' = [semadj EXCEPT ![p] = @ - n]

SemopNoUndo(p, n) ==
  /\ semval' = semval + n
  /\ UNCHANGED semadj

Init ==
  /\ pc = [p \in Procs |-> "down"]
  /\ attached = [p \in Procs |-> FALSE]
  /\ semset = FALSE
  /\ semval = 0
  /\ semadj = [p \in Procs |-> 0]
  /\ faulted = {}

(***************************************************************************)
(* wv_shm_init_smphr with SEMA_INIT gets or creates the set, then sets the *)
(* value.  The semctl meant to remove a previous set is called with the -1 *)
(* the exclusive semget just returned, so it removes nothing.              *)
(***************************************************************************)
InitSmphr(p) ==
  /\ pc[p] = "down"
  /\ IF semset THEN Fault("reset") ELSE UNCHANGED faulted
  /\ semset' = TRUE
  /\ attached' = [attached EXCEPT ![p] = TRUE]
  /\ Goto(p, "setval")
  /\ UNCHANGED <<semval, semadj>>

SetVal(p) ==
  /\ pc[p] = "setval"
  /\ semval' = 1
  /\ semadj' = [q \in Procs |-> 0]
  /\ Goto(p, "idle")
  /\ UNCHANGED <<attached, semset, faulted>>

(***************************************************************************)
(* wv_shm_init_smphr without SEMA_INIT.  If there is no set _semid is -1,  *)
(* and the program goes on.                                                *)
(***************************************************************************)
GetSmphr(p) ==
  /\ pc[p] = "down"
  /\ IF semset THEN UNCHANGED faulted ELSE Fault("noset")
  /\ attached' = [attached EXCEPT ![p] = semset]
  /\ Goto(p, "idle")
  /\ UNCHANGED <<semset, semval, semadj>>

-----------------------------------------------------------------------------
CallLock(p) ==
  /\ pc[p] = "idle"
  /\ Goto(p, "waiting")
  /\ UNCHANGED <<attached, semset, semval, semadj, faulted>>

LockWithoutUndo(p) ==
  /\ pc[p] = "waiting"
  /\ attached[p]
  /\ semval > 0
  /\ SemopNoUndo(p, -1)
  /\ Goto(p, "critical")
  /\ UNCHANGED <<attached, semset, faulted>>

LockAlways(p) ==
  /\ pc[p] = "waiting"
  /\ attached[p]
  /\ Semop(p, -1)
  /\ Goto(p, "critical")
  /\ UNCHANGED <<attached, semset, faulted>>

LockQuu(p) ==
  /\ pc[p] = "waiting"
  /\ attached[p]
  /\ semval > 0
  /\ Semop(p, -1)
  /\ Goto(p, "critical")
  /\ UNCHANGED <<attached, semset, faulted>>

(***************************************************************************)
(* wv_shm_lock_quu returns -1: the caller enters without the lock.         *)
(***************************************************************************)
LockNoSet(p) ==
  /\ pc[p] = "waiting"
  /\ ~attached[p]
  /\ Goto(p, "critical")
  /\ UNCHANGED <<attached, semset, semval, semadj, faulted>>

LockInterrupted(p) ==
  /\ pc[p] = "waiting"
  /\ attached[p]
  /\ semval = 0
  /\ semadj[p] > -MaxDebt
  /\ Fault("eintr")
  /\ Goto(p, "critical")
  /\ UNCHANGED <<attached, semset, semval, semadj>>

UnlockNothing(p) ==
  /\ pc[p] = "critical"
  /\ Goto(p, "idle")
  /\ UNCHANGED <<attached, semset, semval, semadj, faulted>>

UnlockQuu(p) ==
  /\ pc[p] = "critical"
  /\ IF attached[p] THEN Semop(p, 1) ELSE UNCHANGED <<semval, semadj>>
  /\ Goto(p, "idle")
  /\ UNCHANGED <<attached, semset, faulted>>

(***************************************************************************)
(* The process returns from main, is killed or crashes; the kernel undoes  *)
(* its semops, but never takes the value below 0.                          *)
(***************************************************************************)
ExitLeavesValue(p) ==
  /\ pc[p] # "down"
  /\ IF pc[p] = "setval" THEN Fault("torn") ELSE UNCHANGED faulted
  /\ semadj' = [semadj EXCEPT ![p] = 0]
  /\ attached' = [attached EXCEPT ![p] = FALSE]
  /\ Goto(p, "down")
  /\ UNCHANGED <<semset, semval>>

Exit(p) ==
  /\ pc[p] # "down"
  /\ IF pc[p] = "setval" THEN Fault("torn") ELSE UNCHANGED faulted
  /\ semval' = IF semval + semadj[p] < 0 THEN 0 ELSE semval + semadj[p]
  /\ semadj' = [semadj EXCEPT ![p] = 0]
  /\ attached' = [attached EXCEPT ![p] = FALSE]
  /\ Goto(p, "down")
  /\ UNCHANGED semset

Next ==
  \E p \in Procs :
    \/ InitSmphr(p) \/ SetVal(p) \/ GetSmphr(p)
    \/ CallLock(p) \/ LockQuu(p) \/ LockNoSet(p) \/ LockInterrupted(p)
    \/ UnlockQuu(p)
    \/ Exit(p)

(***************************************************************************)
(* A process inside an initialisation, a critical section or a failing     *)
(* semop goes on.  The kernel serves the sleepers of a semaphore in turn,  *)
(* so one that sleeps while others take it again and again gets it in the  *)
(* end.                                                                    *)
(***************************************************************************)
Fairness ==
  \A p \in Procs :
    /\ WF_vars(SetVal(p))
    /\ SF_vars(LockQuu(p))
    /\ WF_vars(LockNoSet(p))
    /\ WF_vars(UnlockQuu(p))

Spec == Init /\ [][Next]_vars

FairSpec == Spec /\ Fairness

-----------------------------------------------------------------------------
(***************************************************************************)
(* Type invariant of the semaphore and its users.                          *)
(***************************************************************************)
TypeOK ==
  /\ pc \in [Procs -> PCs]
  /\ attached \in [Procs -> BOOLEAN]
  /\ semset \in BOOLEAN
  /\ semval \in Nat
  /\ semadj \in [Procs -> Int]
  /\ faulted \subseteq Faults

(***************************************************************************)
(* At most one process is between its wv_shm_lock_quu and its              *)
(* wv_shm_unlock_quu, also when processes die there and are started again. *)
(* (A torn initialisation does no harm to this; each other fault does.)    *)
(***************************************************************************)
Mutex ==
  faulted \subseteq {"torn"} =>
    \A p, q \in Procs : pc[p] = "critical" /\ pc[q] = "critical" => p = q

(***************************************************************************)
(* A semaphore nobody holds is free: a holder that died gave it back, and  *)
(* no unlock or exit gave it back twice.                                   *)
(***************************************************************************)
FreeUnlessHeld ==
  faulted = {} /\ semset /\ (\A p \in Procs : pc[p] \notin {"setval", "critical"}) =>
    semval = 1

(***************************************************************************)
(* What the processes give back altogether when they all end.              *)
(***************************************************************************)
GivenBack(adj) == FoldFunction(+, 0, adj)

(***************************************************************************)
(* Whatever faults happen but a torn initialisation, the semaphore is not  *)
(* lost: its value and what the processes will give back never sum up to   *)
(* less than 1, once it has been set.  (wv_shm_unlock_quu after a failed   *)
(* wv_shm_lock_quu can make them more.)                                    *)
(***************************************************************************)
NeverLost ==
  "torn" \notin faulted /\ semset /\ (\A p \in Procs : pc[p] # "setval") =>
    semval + GivenBack(semadj) >= 1

(***************************************************************************)
(* A process that calls wv_shm_lock_quu does not stay in the call for      *)
(* ever, whoever dies, is interrupted or resets the semaphore meanwhile,   *)
(* unless an initialisation was torn.                                      *)
(***************************************************************************)
LockReturns ==
  \A p \in Procs : pc[p] = "waiting" ~> pc[p] # "waiting" \/ "torn" \in faulted

(***************************************************************************)
(* The inductive invariant: the semaphore and the adjustments the kernel   *)
(* keeps account for the one process inside, until a lock call fails or    *)
(* somebody resets the semaphore.                                          *)
(***************************************************************************)
Inv ==
  /\ TypeOK
  /\ Mutex
  /\ FreeUnlessHeld
  /\ faulted \subseteq {"torn"} =>
       /\ ~semset => semval = 0 /\ \A p \in Procs : pc[p] = "down"
       /\ \A p, q \in Procs :
            pc[p] = "setval" => pc[q] # "critical" /\ (pc[q] = "setval" => p = q)
       /\ semval \in {0, 1}
       /\ semval = 1 => \A p \in Procs : pc[p] \notin {"setval", "critical"}
       /\ \A p \in Procs : semadj[p] = IF pc[p] = "critical" THEN 1 ELSE 0
       /\ \A p \in Procs : attached[p] <=> pc[p] # "down"
=============================================================================
