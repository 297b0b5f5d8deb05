-------------------------- MODULE SharedJunkProofs --------------------------
(***************************************************************************)
(* Proofs about a junk that processes use under its semaphore, every write *)
(* a step of its own, for every number of processes and every size of the  *)
(* area, of the headers and of the data.                                   *)
(***************************************************************************)
EXTENDS SharedJunk, TLAPS

LockProofs == INSTANCE QuuLockProofs WITH Faults <- {}, MaxDebt <- 1, faulted <- {}

-----------------------------------------------------------------------------
(***************************************************************************)
(* The semaphore: what the processes do with it is a behaviour of QuuLock  *)
(* in which nothing fails.                                                 *)
(***************************************************************************)
LEMMA LockAssumptions ==
  LockProofs!FaultAssumption /\ LockProofs!DebtAssumption
BY DEF LockProofs!FaultAssumption, LockProofs!DebtAssumption

(* What each step does to the semaphore. *)
LEMMA NextLock ==
  Next => LockProofs!Next \/ UNCHANGED lockVars
<1>. SUFFICES ASSUME Next
              PROVE  LockProofs!Next \/ UNCHANGED lockVars
  OBVIOUS
<1>1. PICK p \in Procs : UseLock(p) \/ Push(p) \/ Pop(p) \/ Die(p)
  BY DEF Next
<1>2. CASE UseLock(p)
  BY <1>2, Zenon
     DEF UseLock, LockProofs!Next, Lock!InitSmphr, LockProofs!InitSmphr,
         Lock!SetVal, LockProofs!SetVal, Lock!GetSmphr, LockProofs!GetSmphr,
         Lock!CallLock, LockProofs!CallLock, Lock!LockQuu, LockProofs!LockQuu,
         Lock!UnlockQuu, LockProofs!UnlockQuu, Lock!Goto, LockProofs!Goto,
         Lock!Fault, LockProofs!Fault, Lock!Semop, LockProofs!Semop
<1>3. CASE Push(p) \/ Pop(p)
  BY <1>3
     DEF Push, Pop, Write, BeginPush, PushRefused, MoveRead, MoveWrite, Link, SetPrev,
         CopyHdr, SkipHdr, CopyData, SkipData, TakeRemain, CountUp,
         PeekElemHdr, BeginPop, PopNull, MoveReadOn, GiveRemain, CountDown
<1>4. CASE Die(p)
  BY <1>4, Zenon
     DEF Die, LockProofs!Next, Lock!Exit, LockProofs!Exit, Lock!Goto, LockProofs!Goto,
         Lock!Fault, LockProofs!Fault
<1>. QED
  BY <1>1, <1>2, <1>3, <1>4

LEMMA LockInvariance == Spec => []LockProofs!Inv
<1>1. Init => LockProofs!Init
  BY DEF Init, Lock!Init, LockProofs!Init
<1>2. [Next]_vars => [LockProofs!Next]_(LockProofs!vars)
  BY NextLock DEF vars, lockVars, LockProofs!vars
<1>3. LockProofs!FaultAssumption /\ LockProofs!DebtAssumption
  BY LockAssumptions
<1>4. LockProofs!Spec => []LockProofs!Inv
  BY <1>3, LockProofs!LockInvariance, PTL
<1>. QED
  BY <1>1, <1>2, <1>4, PTL DEF Spec, LockProofs!Spec

(***************************************************************************)
(* A process in the middle of a call, or between a peek and its pop, holds *)
(* the semaphore.                                                          *)
(***************************************************************************)
Holding ==
  /\ at \in [Procs -> Places]
  /\ elem = [p \in Procs |-> elem[p]]
  /\ \A p \in Procs : at[p] # "ready" => pc[p] = "critical"

(* What the semaphore says of two processes. *)
LEMMA OneInside ==
  ASSUME LockProofs!Inv
  PROVE  /\ pc \in [Procs -> {"down", "setval", "idle", "waiting", "critical"}]
         /\ \A p, q \in Procs : pc[p] = "critical" /\ pc[q] = "critical" => p = q
BY DEF LockProofs!Inv, LockProofs!TypeOK, LockProofs!Mutex, LockProofs!PCs

(* While one process is inside, every other is between two calls. *)
LEMMA OthersReady ==
  ASSUME LockProofs!Inv, Holding, NEW p \in Procs, pc[p] = "critical",
         NEW q \in Procs, q # p
  PROVE  at[q] = "ready"
BY OneInside DEF Holding

(* A step of a process inside: it goes on to its next write, alone. *)
LEMMA WriteStep ==
  ASSUME LockProofs!Inv, Holding, NEW p \in Procs,
         NEW place \in Places, NEW next \in Places, Write(p, place, next),
         elem' = elem \/ \E e : elem' = [elem EXCEPT ![p] = e]
  PROVE  /\ Holding'
         /\ pc[p] = "critical" /\ at[p] = place /\ at'[p] = next
         /\ UNCHANGED lockVars /\ harmed' = harmed
         /\ \A q \in Procs \ {p} :
              at[q] = "ready" /\ at'[q] = "ready" /\ elem'[q] = elem[q]
<1>1. /\ pc[p] = "critical" /\ at[p] = place
      /\ at' = [at EXCEPT ![p] = next]
      /\ UNCHANGED <<lockVars, harmed>>
      /\ pc' = pc
  BY DEF Write, lockVars
<1>2. at' \in [Procs -> Places] /\ at'[p] = next
  BY <1>1 DEF Holding
<1>3. ASSUME NEW q \in Procs \ {p}
      PROVE  at[q] = "ready" /\ at'[q] = "ready" /\ elem'[q] = elem[q]
  <2>1. at[q] = "ready"
    BY <1>1, OthersReady
  <2>. QED
    BY <1>1, <2>1 DEF Holding
<1>4. elem' = [q \in Procs |-> elem'[q]]
  BY DEF Holding
<1>. QED
  BY <1>1, <1>2, <1>3, <1>4 DEF Holding

(* A process dies, and its semaphore is given back. *)
LEMMA DieStep ==
  ASSUME LockProofs!Inv, Holding, NEW p \in Procs, Die(p)
  PROVE  /\ Holding'
         /\ UNCHANGED junkVars
         /\ at'[p] = "ready" /\ elem'[p] = <<>>
         /\ \A q \in Procs \ {p} : at'[q] = at[q] /\ elem'[q] = elem[q]
<1>1. /\ pc' = [pc EXCEPT ![p] = "down"]
      /\ at' = [at EXCEPT ![p] = "ready"]
      /\ elem' = [elem EXCEPT ![p] = <<>>]
      /\ UNCHANGED junkVars
  BY DEF Die, Lock!Exit, Lock!Goto
<1>2. "ready" \in Places
  BY DEF Places
<1>3. pc \in [Procs -> {"down", "setval", "idle", "waiting", "critical"}]
  BY OneInside
<1>. QED
  BY <1>1, <1>2, <1>3 DEF Holding

(* A step of the semaphore leaves the calls alone. *)
LEMMA LockStep ==
  ASSUME LockProofs!Inv, Holding, NEW p \in Procs, UseLock(p)
  PROVE  /\ Holding'
         /\ UNCHANGED <<junkVars, at, elem, harmed>>
<1>1. UNCHANGED <<junkVars, at, elem, harmed>>
  BY DEF UseLock
<1>2. \/ pc[p] # "critical" /\ \E label : pc' = [pc EXCEPT ![p] = label]
      \/ at[p] = "ready" /\ \E label : pc' = [pc EXCEPT ![p] = label]
  BY Zenon
     DEF UseLock, Lock!InitSmphr, Lock!SetVal, Lock!GetSmphr, Lock!CallLock,
         Lock!LockQuu, Lock!UnlockQuu, Lock!Goto
<1>3. pc \in [Procs -> {"down", "setval", "idle", "waiting", "critical"}]
  BY OneInside
<1>. QED
  BY <1>1, <1>2, <1>3 DEF Holding

-----------------------------------------------------------------------------
(***************************************************************************)
(* No push writes outside the area, wherever processes die.  The counters, *)
(* the headers and the read position may be anything: a push looks only at *)
(* its write position and at the sizes, and those stay right.              *)
(***************************************************************************)
Inside ==
  /\ Holding
  /\ WritesStayInside
  /\ \A p \in Procs : at[p] \in PushWrites => elem[p] \in Payloads

(* The sizes are what the code's arithmetic needs them to be. *)
LEMMA AreaSizes ==
  /\ quu_startoffs \in Nat \ {0}
  /\ quu_endoffs \in Nat
  /\ HdrSz \in Nat \ {0}
  /\ DataSz \in Nat \ {0}
  /\ quu_startoffs + HdrSz + DataSz <= quu_endoffs
BY JunkAssumption
   DEF Junk!AreaAssumption, Junk!UniformAssumption, Junk!CapacityAssumption,
       Junk!AreaSz, Junk!SlotSz

LEMMA PayloadSizes ==
  ASSUME NEW payload \in Payloads
  PROVE  /\ Len(payload) = DataSz
         /\ Junk!ElemSz(payload) = HdrSz + DataSz
BY JunkAssumption DEF Junk!UniformAssumption, Junk!ElemSz

(* A write of p that keeps its own place in the area safe. *)
LEMMA InsideStep ==
  ASSUME LockProofs!Inv, Inside, NEW p \in Procs,
         NEW place \in Places, NEW next \in Places, Write(p, place, next),
         elem' = elem \/ \E e : elem' = [elem EXCEPT ![p] = e],
         next \in PushWrites => elem'[p] \in Payloads,
         writeoffs' \in quu_startoffs .. quu_endoffs,
         prev_writeoffs' \in {0} \cup quu_startoffs .. quu_endoffs - HdrSz,
         next \in {"link", "prev", "hdr", "skip_hdr"} =>
           writeoffs' + HdrSz + DataSz <= quu_endoffs,
         next \in {"data", "skip_data"} => writeoffs' + DataSz <= quu_endoffs
  PROVE  Inside'
<1>1. /\ Holding'
      /\ at'[p] = next
      /\ \A q \in Procs \ {p} : at'[q] = "ready"
  BY WriteStep DEF Inside
<1>2. \A q \in Procs : at'[q] \in PushWrites => q = p /\ elem'[q] \in Payloads
  BY <1>1 DEF PushWrites
<1>3. ASSUME NEW q \in Procs,
             at'[q] \in {"link", "prev", "hdr", "skip_hdr"}
      PROVE  writeoffs' + Junk!ElemSz(elem'[q]) <= quu_endoffs
  <2>1. q = p /\ elem'[q] \in Payloads
    BY <1>2, <1>3 DEF PushWrites
  <2>2. Junk!ElemSz(elem'[q]) = HdrSz + DataSz
    BY <2>1, PayloadSizes
  <2>3. writeoffs' + HdrSz + DataSz <= quu_endoffs
    BY <1>1, <1>3, <2>1
  <2>4. writeoffs' \in Nat /\ HdrSz \in Nat /\ DataSz \in Nat
    BY AreaSizes
  <2>. QED
    BY <2>2, <2>3, <2>4
<1>4. ASSUME NEW q \in Procs, at'[q] \in {"data", "skip_data"}
      PROVE  writeoffs' + Len(elem'[q]) <= quu_endoffs
  <2>1. q = p /\ elem'[p] \in Payloads
    BY <1>2, <1>4 DEF PushWrites
  <2>. QED
    BY <1>1, <1>4, <2>1, PayloadSizes
<1>5. WritesStayInside'
  BY <1>3, <1>4 DEF WritesStayInside, Junk!ElemSz
<1>. QED
  BY <1>1, <1>2, <1>5 DEF Inside

LEMMA InsideInit == Init => Inside
<1>. SUFFICES ASSUME Init PROVE Inside
  OBVIOUS
<1>1. /\ at = [p \in Procs |-> "ready"]
      /\ elem = [p \in Procs |-> <<>>]
      /\ writeoffs = quu_startoffs
      /\ prev_writeoffs = 0
  BY DEF Init, Junk!Init
<1>2. Holding
  BY <1>1 DEF Holding, Places
<1>3. writeoffs \in quu_startoffs .. quu_endoffs
  BY <1>1, AreaSizes
<1>. QED
  BY <1>1, <1>2, <1>3 DEF Inside, WritesStayInside, PushWrites

(* The steps of a push up to the link: an element that does not fit behind *)
(* the write position goes to the front of the area.                       *)
LEMMA InsidePlacing ==
  ASSUME LockProofs!Inv, Inside, NEW p \in Procs,
         \/ \E payload \in Payloads : BeginPush(p, payload) \/ PushRefused(p, payload)
         \/ MoveRead(p) \/ MoveWrite(p)
  PROVE  Inside'
<1>. USE DEF Places, PushWrites, PopWrites
<1>1. /\ writeoffs \in quu_startoffs .. quu_endoffs
      /\ prev_writeoffs \in {0} \cup quu_startoffs .. quu_endoffs - HdrSz
      /\ at[p] \in PushWrites => elem[p] \in Payloads
  BY DEF Inside, WritesStayInside
<1>2. ASSUME NEW payload \in Payloads, BeginPush(p, payload)
      PROVE  Inside'
  <2>1. Junk!ElemSz(payload) = HdrSz + DataSz
    BY PayloadSizes
  <2>2. PICK next : next = FirstWrite(HdrSz + DataSz)
    OBVIOUS
  <2>3. /\ Write(p, "ready", next)
        /\ elem' = [elem EXCEPT ![p] = payload]
        /\ writeoffs' = writeoffs /\ prev_writeoffs' = prev_writeoffs
    BY <1>2, <2>1, <2>2 DEF BeginPush, junkVars
  <2>4. next \in {"link", "move_read", "move_write"}
    BY <2>2 DEF FirstWrite
  <2>5. next = "link" => writeoffs' + HdrSz + DataSz <= quu_endoffs
    BY <1>1, <2>2, <2>3, AreaSizes DEF FirstWrite, Junk!PastEnd
  <2>6. elem'[p] \in Payloads
    BY <2>3 DEF Inside, Holding
  <2>. QED
    BY <1>1, <2>3, <2>4, <2>5, <2>6, InsideStep
<1>3. ASSUME NEW payload \in Payloads, PushRefused(p, payload)
      PROVE  Inside'
  <2>1. /\ Write(p, "ready", "ready")
        /\ elem' = elem /\ writeoffs' = writeoffs /\ prev_writeoffs' = prev_writeoffs
    BY <1>3 DEF PushRefused, Junk!PushRefused, Junk!jhdr
  <2>. QED
    BY <1>1, <2>1, InsideStep
<1>4. CASE MoveRead(p)
  <2>1. /\ Write(p, "move_read", "move_both") /\ at[p] = "move_read"
        /\ elem' = elem /\ writeoffs' = writeoffs /\ prev_writeoffs' = prev_writeoffs
    BY <1>4 DEF MoveRead, Write
  <2>. QED
    BY <1>1, <2>1, InsideStep
<1>5. CASE MoveWrite(p)
  <2>1. PICK place \in {"move_both", "move_write"} : Write(p, place, "link")
    BY <1>5 DEF MoveWrite
  <2>2. /\ at[p] = place
        /\ elem' = elem /\ writeoffs' = quu_startoffs /\ prev_writeoffs' = prev_writeoffs
    BY <1>5, <2>1 DEF MoveWrite, Write
  <2>3. /\ writeoffs' \in quu_startoffs .. quu_endoffs
        /\ writeoffs' + HdrSz + DataSz <= quu_endoffs
    BY <2>2, AreaSizes
  <2>. QED
    BY <1>1, <2>1, <2>2, <2>3, InsideStep
<1>. QED
  BY <1>2, <1>3, <1>4, <1>5

(* The writes of a push: header and data each go where there is room.      *)
LEMMA InsideWrites ==
  ASSUME LockProofs!Inv, Inside, NEW p \in Procs,
         \/ Link(p) \/ SetPrev(p) \/ CopyHdr(p) \/ SkipHdr(p)
         \/ CopyData(p) \/ SkipData(p) \/ TakeRemain(p) \/ CountUp(p)
  PROVE  Inside'
<1>. USE DEF Places, PushWrites, PopWrites
<1>1. /\ writeoffs \in quu_startoffs .. quu_endoffs
      /\ prev_writeoffs \in {0} \cup quu_startoffs .. quu_endoffs - HdrSz
      /\ at[p] \in PushWrites => elem[p] \in Payloads
  BY DEF Inside, WritesStayInside
<1>2. ASSUME at[p] \in {"link", "prev", "hdr", "skip_hdr"}
      PROVE  writeoffs + HdrSz + DataSz <= quu_endoffs
  <2>1. Junk!ElemSz(elem[p]) = HdrSz + DataSz
    BY <1>1, <1>2, PayloadSizes
  <2>2. writeoffs + Junk!ElemSz(elem[p]) <= quu_endoffs
    BY <1>2 DEF Inside, WritesStayInside
  <2>3. writeoffs \in Nat /\ HdrSz \in Nat /\ DataSz \in Nat
    BY <1>1, AreaSizes
  <2>. QED
    BY <2>1, <2>2, <2>3
<1>3. ASSUME at[p] \in {"data", "skip_data"}
      PROVE  Len(elem[p]) = DataSz /\ writeoffs + DataSz <= quu_endoffs
  <2>1. Len(elem[p]) = DataSz
    BY <1>1, <1>3, PayloadSizes
  <2>. QED
    BY <1>3, <2>1 DEF Inside, WritesStayInside
<1>4. CASE Link(p)
  <2>1. /\ Write(p, "link", "prev") /\ at[p] = "link"
        /\ elem' = elem /\ writeoffs' = writeoffs /\ prev_writeoffs' = prev_writeoffs
    BY <1>4 DEF Link, Write
  <2>. QED
    BY <1>1, <1>2, <2>1, InsideStep
<1>5. CASE SetPrev(p)
  <2>1. /\ Write(p, "prev", "hdr") /\ at[p] = "prev"
        /\ elem' = elem /\ writeoffs' = writeoffs /\ prev_writeoffs' = writeoffs
    BY <1>5 DEF SetPrev, Write
  <2>2. prev_writeoffs' \in quu_startoffs .. quu_endoffs - HdrSz
    BY <1>1, <1>2, <2>1, AreaSizes
  <2>. QED
    BY <1>1, <1>2, <2>1, <2>2, InsideStep
<1>6. CASE CopyHdr(p)
  <2>1. /\ Write(p, "hdr", "skip_hdr") /\ at[p] = "hdr"
        /\ elem' = elem /\ writeoffs' = writeoffs /\ prev_writeoffs' = prev_writeoffs
    BY <1>6 DEF CopyHdr, Write
  <2>. QED
    BY <1>1, <1>2, <2>1, InsideStep
<1>7. CASE SkipHdr(p)
  <2>1. /\ Write(p, "skip_hdr", "data") /\ at[p] = "skip_hdr"
        /\ elem' = elem /\ writeoffs' = writeoffs + HdrSz
        /\ prev_writeoffs' = prev_writeoffs
    BY <1>7 DEF SkipHdr, Write
  <2>2. /\ writeoffs' \in quu_startoffs .. quu_endoffs
        /\ writeoffs' + DataSz <= quu_endoffs
    BY <1>1, <1>2, <2>1, AreaSizes
  <2>. QED
    BY <1>1, <2>1, <2>2, InsideStep
<1>8. CASE CopyData(p)
  <2>1. /\ Write(p, "data", "skip_data") /\ at[p] = "data"
        /\ elem' = elem /\ writeoffs' = writeoffs /\ prev_writeoffs' = prev_writeoffs
    BY <1>8 DEF CopyData, Write
  <2>. QED
    BY <1>1, <1>3, <2>1, InsideStep
<1>9. CASE SkipData(p)
  <2>1. /\ Write(p, "skip_data", "remain") /\ at[p] = "skip_data"
        /\ elem' = elem /\ writeoffs' = writeoffs + Len(elem[p])
        /\ prev_writeoffs' = prev_writeoffs
    BY <1>9 DEF SkipData, Write
  <2>2. writeoffs' \in quu_startoffs .. quu_endoffs
    BY <1>1, <1>3, <2>1, AreaSizes
  <2>. QED
    BY <1>1, <2>1, <2>2, InsideStep
<1>10. CASE TakeRemain(p)
  <2>1. /\ Write(p, "remain", "count") /\ at[p] = "remain"
        /\ elem' = elem /\ writeoffs' = writeoffs /\ prev_writeoffs' = prev_writeoffs
    BY <1>10 DEF TakeRemain, Write
  <2>. QED
    BY <1>1, <2>1, InsideStep
<1>11. CASE CountUp(p)
  <2>1. /\ Write(p, "count", "ready")
        /\ elem' = [elem EXCEPT ![p] = <<>>]
        /\ writeoffs' = writeoffs /\ prev_writeoffs' = prev_writeoffs
    BY <1>11 DEF CountUp
  <2>. QED
    BY <1>1, <2>1, InsideStep
<1>. QED
  BY <1>4, <1>5, <1>6, <1>7, <1>8, <1>9, <1>10, <1>11

(* A pop moves neither the write position nor prev_writeoffs. *)
LEMMA InsidePop ==
  ASSUME LockProofs!Inv, Inside, NEW p \in Procs, Pop(p)
  PROVE  Inside'
<1>1. PICK place \in Places, next \in {"ready", "peeked"} \cup PopWrites :
        Write(p, place, next)
  BY DEF Pop, PeekElemHdr, BeginPop, PopNull, MoveReadOn, GiveRemain, CountDown,
         Places, PopWrites
<1>2. /\ writeoffs' = writeoffs /\ prev_writeoffs' = prev_writeoffs
      /\ elem' = elem \/ \E e : elem' = [elem EXCEPT ![p] = e]
  <2>1. CASE BeginPop(p)
    BY <2>1 DEF BeginPop, junkVars
  <2>2. CASE CountDown(p)
    BY <2>2 DEF CountDown
  <2>3. CASE PeekElemHdr(p) \/ PopNull(p) \/ MoveReadOn(p) \/ GiveRemain(p)
    BY <2>3 DEF PeekElemHdr, PopNull, MoveReadOn, GiveRemain
  <2>. QED
    BY <2>1, <2>2, <2>3 DEF Pop
<1>3. /\ writeoffs \in quu_startoffs .. quu_endoffs
      /\ prev_writeoffs \in {0} \cup quu_startoffs .. quu_endoffs - HdrSz
  BY DEF Inside, WritesStayInside
<1>4. next \in Places /\ next \notin PushWrites
  BY <1>1 DEF Places, PushWrites, PopWrites
<1>. QED
  BY <1>1, <1>2, <1>3, <1>4, InsideStep DEF PushWrites

(* Steps of the semaphore and deaths leave the junk as it is. *)
LEMMA InsideOutside ==
  ASSUME LockProofs!Inv, Inside, NEW p \in Procs, UseLock(p) \/ Die(p)
  PROVE  Inside'
<1>1. CASE UseLock(p)
  <2>1. Holding' /\ UNCHANGED <<junkVars, at, elem, harmed>>
    BY <1>1, LockStep DEF Inside
  <2>. QED
    BY <2>1 DEF Inside, WritesStayInside, junkVars, Junk!ElemSz
<1>2. CASE Die(p)
  <2>1. /\ Holding' /\ writeoffs' = writeoffs /\ prev_writeoffs' = prev_writeoffs
        /\ at'[p] = "ready"
        /\ \A q \in Procs \ {p} : at'[q] = at[q] /\ elem'[q] = elem[q]
    BY <1>2, DieStep DEF Inside, junkVars
  <2>. QED
    BY <2>1 DEF Inside, WritesStayInside, PushWrites, Junk!ElemSz
<1>. QED
  BY <1>1, <1>2

LEMMA InsideNext ==
  LockProofs!Inv /\ Inside /\ [Next]_vars => Inside'
<1>. SUFFICES ASSUME LockProofs!Inv, Inside, [Next]_vars
              PROVE  Inside'
  OBVIOUS
<1>1. CASE Next
  <2>1. PICK p \in Procs : UseLock(p) \/ Push(p) \/ Pop(p) \/ Die(p)
    BY <1>1 DEF Next
  <2>2. Push(p) =>
          \/ \E payload \in Payloads : BeginPush(p, payload) \/ PushRefused(p, payload)
          \/ MoveRead(p) \/ MoveWrite(p)
          \/ Link(p) \/ SetPrev(p) \/ CopyHdr(p) \/ SkipHdr(p)
          \/ CopyData(p) \/ SkipData(p) \/ TakeRemain(p) \/ CountUp(p)
    BY DEF Push
  <2>. QED
    BY <2>1, <2>2, InsidePlacing, InsideWrites, InsidePop, InsideOutside
<1>2. CASE UNCHANGED vars
  BY <1>2 DEF vars, lockVars, junkVars, Inside, Holding, WritesStayInside, Junk!ElemSz
<1>. QED
  BY <1>1, <1>2

(***************************************************************************)
(* No push writes outside the area of its junk, wherever processes die and *)
(* whatever they leave behind (the bounds tests of wv_shm_push_elem).      *)
(***************************************************************************)
THEOREM PushesStayInside == Spec => []WritesStayInside
<1>1. LockProofs!Inv /\ Inside /\ [Next]_vars => Inside'
  BY InsideNext
<1>2. Inside => WritesStayInside
  BY DEF Inside
<1>. QED
  BY <1>1, <1>2, InsideInit, LockInvariance, PTL DEF Spec

(***************************************************************************)
(* At most one process is in the middle of a call on the junk, or between  *)
(* a peek and its pop, whoever dies where (wv_shm_lock_quu and             *)
(* wv_shm_unlock_quu around the calls of the producer and the consumer).   *)
(***************************************************************************)
THEOREM CallsAreExclusive ==
  Spec => [](\A p, q \in Procs : at[p] # "ready" /\ at[q] # "ready" => p = q)
<1>1. LockProofs!Inv /\ Holding =>
        \A p, q \in Procs : at[p] # "ready" /\ at[q] # "ready" => p = q
  BY OneInside DEF Holding
<1>2. LockProofs!Inv /\ Inside /\ [Next]_vars => Inside'
  BY InsideNext
<1>3. Inside => Holding
  BY DEF Inside
<1>. QED
  BY <1>1, <1>2, <1>3, InsideInit, LockInvariance, PTL DEF Spec

=============================================================================
