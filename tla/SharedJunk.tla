----------------------------- MODULE SharedJunk -----------------------------
(***************************************************************************)
(* One junk, the semaphore of it, and the processes that push and pop      *)
(* between wv_shm_lock_quu and wv_shm_unlock_quu as tests/producer.c and   *)
(* tests/consumer.c do.  Here a call is not one step: each write to the    *)
(* shared memory is, and a process can die in front of any of them.  The   *)
(* kernel then gives the semaphore to the next process, which finds the    *)
(* junk as the dead one left it.                                           *)
(*                                                                         *)
(* The tests and the places of the writes are those of JunkQueue (Junk),   *)
(* the semaphore is that of QuuLock (Lock).                                *)
(***************************************************************************)
EXTENDS Integers, Sequences

CONSTANTS
  quu_startoffs, quu_endoffs, HdrSz, Bytes, Payloads, NoByte, NoHdr, DataSz,
  Procs,
  DeathPoints,  \* the writes in front of which a process may die
  MaxHarm,      \* bound: how many die in front of one that is not harmless
  MaxCount,     \* bound: count, which harm can raise without end
  MaxRemain     \* bound: remainsz, which harm can raise without end

(***************************************************************************)
(* The writes of a push, of a pop, and what a process does in between.     *)
(***************************************************************************)
PushWrites ==
  {"move_read", "move_both", "move_write", "link", "prev", "hdr", "skip_hdr",
   "data", "skip_data", "remain", "count"}

PopWrites == {"read", "give_remain", "count_down"}

Places == {"ready", "peeked"} \cup PushWrites \cup PopWrites

(***************************************************************************)
(* In front of these writes a process can die and do no harm: the push or  *)
(* pop it was in has not happened.                                         *)
(***************************************************************************)
HarmlessPoints ==
  {"ready", "peeked", "read",
   "move_read", "move_write", "link", "prev", "hdr", "skip_hdr"}

ASSUME DeathAssumption ==
  /\ DeathPoints \subseteq Places
  /\ {MaxHarm, MaxCount, MaxRemain} \subseteq Nat

VARIABLES
  pc, attached, semset, semval, semadj,                  \* the semaphore
  writeoffs, prev_writeoffs, readoffs, remainsz, count,  \* the junk header
  hdrs, data,                                            \* the queue area
  queued, ret,  \* as in JunkQueue
  at,           \* the next write of the call each process is in
  elem,         \* the data that call pushes, or has copied out
  harmed        \* how many died in front of a write that is not harmless

lockVars == <<pc, attached, semset, semval, semadj>>
junkVars == <<writeoffs, prev_writeoffs, readoffs, remainsz, count, hdrs, data, queued, ret>>
vars == <<lockVars, junkVars, at, elem, harmed>>

Lock == INSTANCE QuuLock WITH Faults <- {}, MaxDebt <- 1, faulted <- {}
Junk == INSTANCE UniformQueue WITH peeked <- 0

(***************************************************************************)
(* The junk holds at least one element of the one size its callers push.   *)
(***************************************************************************)
ASSUME JunkAssumption ==
  /\ Junk!AreaAssumption
  /\ Junk!PayloadAssumption
  /\ Junk!UniformAssumption
  /\ Junk!CapacityAssumption

Init ==
  /\ Lock!Init
  /\ Junk!Init
  /\ at = [p \in Procs |-> "ready"]
  /\ elem = [p \in Procs |-> <<>>]
  /\ harmed = 0

(***************************************************************************)
(* Process p does the write it is in front of, and goes on to the next.    *)
(***************************************************************************)
Write(p, place, next) ==
  /\ pc[p] = "critical"
  /\ at[p] = place
  /\ at' = [at EXCEPT ![p] = next]
  /\ UNCHANGED <<lockVars, harmed>>

-----------------------------------------------------------------------------
(***************************************************************************)
(* wv_shm_push_elem.                                                       *)
(***************************************************************************)
FirstWrite(elemsz) ==
  IF ~Junk!PastEnd(elemsz) THEN "link"
  ELSE IF readoffs = writeoffs THEN "move_read"
  ELSE "move_write"

BeginPush(p, payload) ==
  /\ count < MaxCount
  /\ Junk!Accepts(Junk!ElemSz(payload))
  /\ Write(p, "ready", FirstWrite(Junk!ElemSz(payload)))
  /\ elem' = [elem EXCEPT ![p] = payload]
  /\ UNCHANGED junkVars

PushRefused(p, payload) ==
  /\ Write(p, "ready", "ready")
  /\ Junk!PushRefused(payload)
  /\ UNCHANGED elem

MoveRead(p) ==
  /\ Write(p, "move_read", "move_both")
  /\ readoffs' = quu_startoffs
  /\ UNCHANGED <<writeoffs, prev_writeoffs, remainsz, count, hdrs, data, queued, ret, elem>>

MoveWrite(p) ==
  /\ \E place \in {"move_both", "move_write"} : Write(p, place, "link")
  /\ writeoffs' = quu_startoffs
  /\ UNCHANGED <<prev_writeoffs, readoffs, remainsz, count, hdrs, data, queued, ret, elem>>

(***************************************************************************)
(* The header a dead process did not come to write may be missing: then    *)
(* the link only spoils the bytes that are in its place.                   *)
(***************************************************************************)
PrevHdrMissing == prev_writeoffs # 0 /\ hdrs[prev_writeoffs] = NoHdr

Link(p) ==
  /\ Write(p, "link", "prev")
  /\ hdrs' = IF PrevHdrMissing THEN hdrs ELSE Junk!LinkElems(prev_writeoffs, writeoffs)
  /\ data' = IF PrevHdrMissing THEN [data EXCEPT ![prev_writeoffs] = NoByte] ELSE data
  /\ UNCHANGED <<writeoffs, prev_writeoffs, readoffs, remainsz, count, queued, ret, elem>>

SetPrevSkippingHdr(p) ==
  /\ Write(p, "prev", "hdr")
  /\ prev_writeoffs' = writeoffs + HdrSz
  /\ UNCHANGED <<writeoffs, readoffs, remainsz, count, hdrs, data, queued, ret, elem>>

SetPrev(p) ==
  /\ Write(p, "prev", "hdr")
  /\ prev_writeoffs' = writeoffs
  /\ UNCHANGED <<writeoffs, readoffs, remainsz, count, hdrs, data, queued, ret, elem>>

CopyHdr(p) ==
  /\ Write(p, "hdr", "skip_hdr")
  /\ hdrs' = [o \in Junk!Area |->
                IF o = writeoffs THEN [size |-> Len(elem[p]), nextoffs |-> 0]
                ELSE IF o \in writeoffs .. writeoffs + HdrSz - 1 THEN NoHdr
                ELSE hdrs[o]]
  /\ data' = [o \in Junk!Area |->
                IF o \in writeoffs .. writeoffs + HdrSz - 1 THEN NoByte ELSE data[o]]
  /\ UNCHANGED <<writeoffs, prev_writeoffs, readoffs, remainsz, count, queued, ret, elem>>

SkipHdr(p) ==
  /\ Write(p, "skip_hdr", "data")
  /\ writeoffs' = writeoffs + HdrSz
  /\ UNCHANGED <<prev_writeoffs, readoffs, remainsz, count, hdrs, data, queued, ret, elem>>

CopyData(p) ==
  /\ Write(p, "data", "skip_data")
  /\ hdrs' = [o \in Junk!Area |->
                IF o \in writeoffs .. writeoffs + Len(elem[p]) - 1 THEN NoHdr ELSE hdrs[o]]
  /\ data' = [o \in Junk!Area |->
                IF o \in writeoffs .. writeoffs + Len(elem[p]) - 1
                THEN elem[p][o - writeoffs + 1] ELSE data[o]]
  /\ UNCHANGED <<writeoffs, prev_writeoffs, readoffs, remainsz, count, queued, ret, elem>>

SkipData(p) ==
  /\ Write(p, "skip_data", "remain")
  /\ writeoffs' = writeoffs + Len(elem[p])
  /\ UNCHANGED <<prev_writeoffs, readoffs, remainsz, count, hdrs, data, queued, ret, elem>>

TakeRemain(p) ==
  /\ Write(p, "remain", "count")
  /\ remainsz' = remainsz - Junk!ElemSz(elem[p])
  /\ UNCHANGED <<writeoffs, prev_writeoffs, readoffs, count, hdrs, data, queued, ret, elem>>

CountUp(p) ==
  /\ Write(p, "count", "ready")
  /\ count' = count + 1
  /\ queued' = Append(queued, [offs |-> prev_writeoffs, payload |-> elem[p]])
  /\ ret' = Junk!Result("push", TRUE, <<>>)
  /\ elem' = [elem EXCEPT ![p] = <<>>]
  /\ UNCHANGED <<writeoffs, prev_writeoffs, readoffs, remainsz, hdrs, data>>

-----------------------------------------------------------------------------
(***************************************************************************)
(* wv_shm_peek_elem_hdr and wv_shm_pop_elem_data with the header it        *)
(* returned, as the consumer calls them.  Header and argument are the same *)
(* bytes then, and compare equal.                                          *)
(***************************************************************************)
PeekElemHdr(p) ==
  /\ Write(p, "ready", IF count > 0 THEN "peeked" ELSE "ready")
  /\ ret' = Junk!Result("peek_hdr", count > 0, <<>>)
  /\ UNCHANGED <<writeoffs, prev_writeoffs, readoffs, remainsz, count, hdrs, data, queued, elem>>

BeginPop(p) ==
  /\ Write(p, "peeked", "read")
  /\ \E cur \in Junk!Readings(readoffs) :
       /\ Junk!HasSuccessor(cur)
       /\ remainsz + HdrSz + cur.size <= MaxRemain
       /\ elem' = [elem EXCEPT ![p] = Junk!DataAt(readoffs, cur.size)]
  /\ UNCHANGED junkVars

PopNull(p) ==
  /\ Write(p, "peeked", "ready")
  /\ \E cur \in Junk!Readings(readoffs) : ~Junk!HasSuccessor(cur)
  /\ ret' = Junk!Result("pop", FALSE, <<>>)
  /\ UNCHANGED <<writeoffs, prev_writeoffs, readoffs, remainsz, count, hdrs, data, queued, elem>>

MoveReadOn(p) ==
  /\ Write(p, "read", "give_remain")
  /\ \E cur \in Junk!Readings(readoffs) : readoffs' = Junk!NextReadPos(cur)
  /\ UNCHANGED <<writeoffs, prev_writeoffs, remainsz, count, hdrs, data, queued, ret, elem>>

GiveRemainOfData(p) ==
  /\ Write(p, "give_remain", "count_down")
  /\ remainsz' = remainsz + Len(elem[p])
  /\ UNCHANGED <<writeoffs, prev_writeoffs, readoffs, count, hdrs, data, queued, ret, elem>>

GiveRemain(p) ==
  /\ Write(p, "give_remain", "count_down")
  /\ remainsz' = remainsz + Junk!ElemSz(elem[p])
  /\ UNCHANGED <<writeoffs, prev_writeoffs, readoffs, count, hdrs, data, queued, ret, elem>>

CountDown(p) ==
  /\ Write(p, "count_down", "ready")
  /\ count' = count - 1
  /\ queued' = IF queued = <<>> THEN <<>> ELSE Tail(queued)
  /\ ret' = Junk!Result("pop", TRUE, elem[p])
  /\ elem' = [elem EXCEPT ![p] = <<>>]
  /\ UNCHANGED <<writeoffs, prev_writeoffs, readoffs, remainsz, hdrs, data>>

-----------------------------------------------------------------------------
(***************************************************************************)
(* The semaphore: a process unlocks between two calls, and dies between    *)
(* two calls or at a death point.                                          *)
(***************************************************************************)
UseLock(p) ==
  /\ \/ Lock!InitSmphr(p) \/ Lock!SetVal(p) \/ Lock!GetSmphr(p)
     \/ Lock!CallLock(p) \/ Lock!LockQuu(p)
     \/ at[p] = "ready" /\ Lock!UnlockQuu(p)
  /\ UNCHANGED <<junkVars, at, elem, harmed>>

Die(p) ==
  /\ at[p] = "ready" \/ at[p] \in DeathPoints
  /\ IF at[p] \in HarmlessPoints THEN UNCHANGED harmed
     ELSE harmed < MaxHarm /\ harmed' = harmed + 1
  /\ Lock!Exit(p)
  /\ at' = [at EXCEPT ![p] = "ready"]
  /\ elem' = [elem EXCEPT ![p] = <<>>]
  /\ UNCHANGED junkVars

Push(p) ==
  \/ \E payload \in Payloads : BeginPush(p, payload) \/ PushRefused(p, payload)
  \/ MoveRead(p) \/ MoveWrite(p) \/ Link(p) \/ SetPrev(p)
  \/ CopyHdr(p) \/ SkipHdr(p) \/ CopyData(p) \/ SkipData(p)
  \/ TakeRemain(p) \/ CountUp(p)

Pop(p) ==
  \/ PeekElemHdr(p) \/ BeginPop(p) \/ PopNull(p)
  \/ MoveReadOn(p) \/ GiveRemain(p) \/ CountDown(p)

Next == \E p \in Procs : UseLock(p) \/ Push(p) \/ Pop(p) \/ Die(p)

Spec == Init /\ [][Next]_vars

-----------------------------------------------------------------------------
(***************************************************************************)
(* Type invariant, as long as nobody died where it does harm.              *)
(***************************************************************************)
TypeOK ==
  /\ Lock!TypeOK
  /\ Junk!TypeOK
  /\ at \in [Procs -> Places]
  /\ elem \in [Procs -> Payloads \cup {<<>>}]

(***************************************************************************)
(* Whoever died in front of whichever harmless write: between two calls    *)
(* the elements whose push returned are linked from the read position, in  *)
(* their order and with their data; the newest may already be linked to    *)
(* the place of an element whose push never returned.                      *)
(***************************************************************************)
BacklogSurvives ==
  (\A p \in Procs : at[p] \in {"ready", "peeked"}) =>
    /\ count = Len(queued)
    /\ remainsz = Junk!AreaSz - count * Junk!SlotSz
    /\ queued # <<>> => readoffs = Head(queued).offs
    /\ \A i \in 1 .. Len(queued) :
         LET hdr == hdrs[queued[i].offs] IN
         /\ hdr.size = DataSz
         /\ IF i < Len(queued) THEN hdr.nextoffs = queued[i + 1].offs
            ELSE hdr.nextoffs \in {0, writeoffs}
         /\ Junk!DataAt(queued[i].offs, DataSz) = queued[i].payload

(***************************************************************************)
(* Wherever processes die, and however wrong the junk's counters are then: *)
(* no push writes outside the area of its junk (the next junk begins right *)
(* behind it).                                                             *)
(***************************************************************************)
WritesStayInside ==
  /\ writeoffs \in quu_startoffs .. quu_endoffs
  /\ prev_writeoffs \in {0} \cup quu_startoffs .. quu_endoffs - HdrSz
  /\ \A p \in Procs :
       /\ at[p] \in {"link", "prev", "hdr", "skip_hdr"} =>
            writeoffs + Junk!ElemSz(elem[p]) <= quu_endoffs
       /\ at[p] \in {"data", "skip_data"} =>
            writeoffs + Len(elem[p]) <= quu_endoffs

(***************************************************************************)
(* A push to an empty junk that no process is working on is accepted:      *)
(* wv_shm_push_elem says that the queue is full only if it is.             *)
(***************************************************************************)
EmptyAccepts ==
  count = 0 /\ (\A p \in Procs : at[p] = "ready") => Junk!Accepts(Junk!SlotSz)

(***************************************************************************)
(* With every write a step of its own, and processes that die in front of  *)
(* harmless ones, the junk is still the FIFO of JunkFifo: a push takes     *)
(* effect with its last write, and so does a pop.                          *)
(***************************************************************************)
FifoSpec == Junk!FifoSpec
=============================================================================
