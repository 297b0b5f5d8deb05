-------------------------- MODULE SharedFifoProofs --------------------------
(***************************************************************************)
(* Proofs about a junk that processes use under its semaphore as long as   *)
(* nobody dies in front of a write where that does harm: the elements are  *)
(* intact between two calls, and the junk is a FIFO although every write   *)
(* is a step of its own.                                                   *)
(***************************************************************************)
EXTENDS SharedJunkProofs, SequenceTheorems

JunkProofs == INSTANCE UniformQueueProofs WITH peeked <- 0

Offs(k) == Junk!SlotOffs(k)

-----------------------------------------------------------------------------
(***************************************************************************)
(* Where things are: the oldest element is in slot a, the next push writes *)
(* slot w.  The write position comes back to the front before the push     *)
(* that wraps has linked anything, and stays there if its process dies.    *)
(***************************************************************************)
Ring(a, w) ==
  /\ count \in 0 .. Junk!Capacity
  /\ a \in 0 .. Junk!Capacity
  /\ w \in 0 .. Junk!Capacity
  /\ count > 0 => a < Junk!Capacity
  /\ \/ w = a + count
     \/ w = a + count - Junk!Capacity /\ 0 < w
     \/ w = 0 /\ a + count = Junk!Capacity /\ 2 <= a /\ a < Junk!Capacity

Elements(a) ==
  /\ queued \in Seq([offs : Junk!Area, payload : Payloads])
  /\ Len(queued) = count
  /\ \A i \in 1 .. count :
       /\ queued[i].offs = Offs(Junk!ElemSlot(a, i))
       /\ Junk!DataAt(queued[i].offs, DataSz) = queued[i].payload

(***************************************************************************)
(* The newest element may already be linked to the slot of an element      *)
(* whose push never returned.                                              *)
(***************************************************************************)
NextOf(i, w) ==
  IF i < count THEN {queued[i + 1].offs}
  ELSE IF w < Junk!Capacity THEN {0, Offs(w)} ELSE {0}

Links(w) ==
  \A i \in 1 .. count :
    /\ hdrs[queued[i].offs].size = DataSz
    /\ hdrs[queued[i].offs].nextoffs \in NextOf(i, w)

(***************************************************************************)
(* prev_writeoffs is the slot before w, or already w itself when a push    *)
(* died behind that write.                                                 *)
(***************************************************************************)
Pred(w) == IF w = 0 THEN Junk!Capacity - 1 ELSE w - 1

NewestLinked(w) == count > 0 => hdrs[queued[count].offs].nextoffs = Offs(w)

PrevAt(w) ==
  \/ prev_writeoffs = 0 /\ count = 0 /\ w = 0
  \/ prev_writeoffs = Offs(Pred(w))
  \/ prev_writeoffs = Offs(w) /\ w < Junk!Capacity /\ NewestLinked(w)

(***************************************************************************)
(* A reader at the last element goes on at the front only if the header    *)
(* there has a successor; it has one when the write position is there.     *)
(***************************************************************************)
FrontLinked(w) ==
  \/ 2 <= w
  \/ w = 1 /\ prev_writeoffs = Offs(1)
  \/ w = 0 /\ count > 0 /\ prev_writeoffs # Offs(0)
  => hdrs[quu_startoffs].nextoffs # 0

Typed ==
  /\ hdrs \in [Junk!Area -> Junk!Hdr \cup {NoHdr}]
  /\ data \in [Junk!Area -> Bytes \cup {NoByte}]
  /\ ret \in Junk!Results
  /\ \A k \in 0 .. Junk!Capacity - 1 : hdrs[Offs(k)] \in Junk!Hdr

Shape(a, w) ==
  Ring(a, w) /\ Elements(a) /\ Links(w) /\ PrevAt(w) /\ FrontLinked(w) /\ Typed

-----------------------------------------------------------------------------
(***************************************************************************)
(* How far the one process inside is: what it has written already is where *)
(* it belongs, the rest is as before the call.                             *)
(***************************************************************************)
LinkDone == {"hdr", "skip_hdr", "data", "skip_data", "remain", "count"}

SlotChosen == {"link", "prev"} \cup LinkDone

HdrDone == {"skip_hdr", "data", "skip_data", "remain", "count"}

DataDone == {"skip_data", "remain", "count"}

NextSlot(a, w) == IF count = 1 THEN w ELSE Junk!Wrap(a + 1)

ReadAt(place, a, w) ==
  IF place = "move_both" THEN quu_startoffs
  ELSE IF place \in {"give_remain", "count_down"} THEN Offs(NextSlot(a, w))
  ELSE Offs(a)

WriteAt(place, w) ==
  IF place \in {"data", "skip_data"} THEN Offs(w) + HdrSz
  ELSE IF place \in {"remain", "count"} THEN Offs(w) + Junk!SlotSz
  ELSE Offs(w)

Remains(place) ==
  LET settled == Junk!AreaSz - count * Junk!SlotSz IN
  IF place = "count" THEN settled - Junk!SlotSz
  ELSE IF place = "count_down" THEN settled + Junk!SlotSz
  ELSE settled

Progress(place, e, a, w) ==
  /\ readoffs = ReadAt(place, a, w)
  /\ writeoffs = WriteAt(place, w)
  /\ remainsz = Remains(place)
  /\ place \in {"ready", "peeked"} => e = <<>>
  /\ place \in PushWrites => e \in Payloads /\ count < Junk!Capacity
  /\ place \in {"peeked"} \cup PopWrites => count > 0
  /\ place \in PopWrites => e = queued[1].payload
  /\ place \in {"move_read", "move_both"} => count = 0 /\ w = Junk!Capacity
  /\ place = "move_write" => w = Junk!Capacity /\ 2 <= a /\ count > 0
  /\ place \in SlotChosen => w < Junk!Capacity
  /\ place = "prev" =>
       NewestLinked(w) /\ (w = 1 => hdrs[quu_startoffs].nextoffs # 0)
  /\ place \in LinkDone => prev_writeoffs = Offs(w)
  /\ place \in HdrDone => hdrs[Offs(w)] = [size |-> DataSz, nextoffs |-> 0]
  /\ place \in DataDone => Junk!DataAt(Offs(w), DataSz) = e

Doing(place, e) ==
  \E a, w \in 0 .. Junk!Capacity : Shape(a, w) /\ Progress(place, e, a, w)

(***************************************************************************)
(* The inductive invariant, as long as nobody died where it does harm.     *)
(***************************************************************************)
FifoInv ==
  /\ (\A p \in Procs : at[p] = "ready") => Doing("ready", <<>>)
  /\ \A p \in Procs : at[p] # "ready" => Doing(at[p], elem[p])
  /\ \A p \in Procs : at[p] = "ready" => elem[p] = <<>>

-----------------------------------------------------------------------------
(***************************************************************************)
(* The arithmetic of slots is that of UniformQueueProofs.                  *)
(***************************************************************************)
LEMMA JunkAssumptions ==
  /\ JunkProofs!AreaAssumption /\ JunkProofs!PayloadAssumption
  /\ JunkProofs!UniformAssumption /\ JunkProofs!CapacityAssumption
BY JunkAssumption
   DEF Junk!AreaAssumption, Junk!PayloadAssumption, Junk!UniformAssumption,
       Junk!CapacityAssumption, Junk!Hdr, Junk!SlotSz, Junk!AreaSz,
       JunkProofs!AreaAssumption, JunkProofs!PayloadAssumption,
       JunkProofs!UniformAssumption, JunkProofs!CapacityAssumption,
       JunkProofs!Hdr, JunkProofs!SlotSz, JunkProofs!AreaSz

LEMMA SameOperators ==
  /\ JunkProofs!AreaSz = Junk!AreaSz
  /\ JunkProofs!Area = Junk!Area
  /\ JunkProofs!SlotSz = Junk!SlotSz
  /\ JunkProofs!Capacity = Junk!Capacity
  /\ \A k : JunkProofs!SlotOffs(k) = Offs(k)
  /\ \A a, i : JunkProofs!ElemSlot(a, i) = Junk!ElemSlot(a, i)
BY DEF Offs, Junk!AreaSz, Junk!Area, Junk!SlotSz, Junk!Capacity, Junk!SlotOffs,
       Junk!Wrap, Junk!ElemSlot,
       JunkProofs!AreaSz, JunkProofs!Area, JunkProofs!SlotSz, JunkProofs!Capacity,
       JunkProofs!SlotOffs, JunkProofs!Wrap, JunkProofs!ElemSlot

LEMMA Sizes ==
  /\ quu_startoffs \in Nat \ {0}
  /\ quu_endoffs = quu_startoffs + Junk!AreaSz
  /\ Junk!AreaSz \in Nat \ {0}
  /\ HdrSz \in Nat \ {0}
  /\ DataSz \in Nat \ {0}
  /\ Junk!SlotSz = HdrSz + DataSz
  /\ Junk!SlotSz \in Nat \ {0}
  /\ Junk!Capacity \in Nat \ {0}
BY JunkAssumptions, SameOperators, JunkProofs!Sizes

LEMMA SlotOrder ==
  ASSUME NEW k \in Nat, NEW j \in Nat
  PROVE  /\ Offs(k) \in Nat
         /\ Offs(k) >= quu_startoffs
         /\ Offs(0) = quu_startoffs
         /\ Offs(k + 1) = Offs(k) + Junk!SlotSz
         /\ k < j => Offs(k) + Junk!SlotSz <= Offs(j)
         /\ Offs(k) = Offs(j) => k = j
BY JunkAssumptions, SameOperators, JunkProofs!SlotOrder

LEMMA SlotBounds ==
  ASSUME NEW k \in 0 .. Junk!Capacity
  PROVE  /\ Offs(k) \in quu_startoffs .. quu_endoffs
         /\ k < Junk!Capacity => /\ Offs(k) \in Junk!Area
                                 /\ Offs(k) + Junk!SlotSz <= quu_endoffs
         /\ k = Junk!Capacity => Offs(k) + Junk!SlotSz > quu_endoffs
BY JunkAssumptions, SameOperators, JunkProofs!SlotBounds

LEMMA RoomForOne ==
  ASSUME NEW n \in 0 .. Junk!Capacity
  PROVE  /\ Junk!AreaSz - n * Junk!SlotSz \in 0 .. Junk!AreaSz
         /\ Junk!AreaSz - n * Junk!SlotSz >= Junk!SlotSz <=> n < Junk!Capacity
         /\ Junk!AreaSz - (n + 1) * Junk!SlotSz =
              Junk!AreaSz - n * Junk!SlotSz - Junk!SlotSz
         /\ n > 0 => Junk!AreaSz - (n - 1) * Junk!SlotSz =
                       Junk!AreaSz - n * Junk!SlotSz + Junk!SlotSz
BY JunkAssumptions, SameOperators, JunkProofs!RoomForOne

LEMMA ElemSlots ==
  ASSUME NEW a \in 0 .. Junk!Capacity - 1, NEW i \in 1 .. Junk!Capacity
  PROVE  /\ Junk!ElemSlot(a, i) \in 0 .. Junk!Capacity - 1
         /\ \A j \in 1 .. Junk!Capacity :
              Junk!ElemSlot(a, i) = Junk!ElemSlot(a, j) => i = j
BY JunkAssumptions, SameOperators, JunkProofs!ElemSlots

-----------------------------------------------------------------------------
(***************************************************************************)
(* The invariant speaks of the one process inside.                         *)
(***************************************************************************)
LEMMA DoingInside ==
  ASSUME LockProofs!Inv, Holding, FifoInv, NEW p \in Procs, pc[p] = "critical"
  PROVE  \E a, w \in 0 .. Junk!Capacity :
           Shape(a, w) /\ Progress(at[p], elem[p], a, w)
<1>1. CASE at[p] = "ready"
  <2>1. \A q \in Procs : at[q] = "ready"
    BY <1>1, OthersReady
  <2>2. Doing("ready", <<>>) /\ elem[p] = <<>>
    BY <1>1, <2>1 DEF FifoInv
  <2>. QED
    BY <1>1, <2>2 DEF Doing
<1>2. CASE at[p] # "ready"
  BY <1>2 DEF FifoInv, Doing
<1>. QED
  BY <1>1, <1>2

LEMMA FifoStep ==
  ASSUME LockProofs!Inv, Holding, FifoInv, NEW p \in Procs,
         NEW place \in Places, NEW next \in Places, Write(p, place, next),
         elem' = elem \/ \E x : elem' = [elem EXCEPT ![p] = x],
         NEW e, elem'[p] = e, next = "ready" => e = <<>>,
         NEW a \in 0 .. Junk!Capacity, NEW w \in 0 .. Junk!Capacity,
         Shape(a, w)', Progress(next, e, a, w)'
  PROVE  FifoInv'
<1>1. /\ at'[p] = next
      /\ \A q \in Procs \ {p} : at[q] = "ready" /\ at'[q] = "ready" /\ elem'[q] = elem[q]
  BY WriteStep
<1>2. ASSUME NEW q \in Procs, at'[q] # "ready"
      PROVE  Doing(at[q], elem[q])'
  <2>1. q = p /\ at'[q] = next /\ elem'[q] = e
    BY <1>1, <1>2
  <2>2. Progress(at[q], elem[q], a, w)'
    BY <2>1 DEF Progress, ReadAt, WriteAt, Remains
  <2>. QED
    BY <2>2 DEF Doing
<1>3. ASSUME \A q \in Procs : at'[q] = "ready"
      PROVE  Doing("ready", <<>>)'
  <2>1. next = "ready" /\ e = <<>>
    BY <1>1, <1>3
  <2>2. Progress("ready", <<>>, a, w)'
    BY <2>1
  <2>. QED
    BY <2>2 DEF Doing
<1>4. \A q \in Procs : at'[q] = "ready" => elem'[q] = <<>>
  BY <1>1 DEF FifoInv
<1>. QED
  BY <1>2, <1>3, <1>4 DEF FifoInv

(* A step that leaves the bytes of the junk alone. *)
LEMMA SameShape ==
  ASSUME NEW a, NEW w, Shape(a, w),
         UNCHANGED <<prev_writeoffs, count, hdrs, data, queued>>,
         ret' \in Junk!Results
  PROVE  Shape(a, w)'
<1>1. Ring(a, w)'
  BY DEF Shape, Ring
<1>2. Elements(a)'
  BY DEF Shape, Elements, Junk!DataAt
<1>3. Links(w)'
  BY DEF Shape, Links, NextOf
<1>4. PrevAt(w)'
  BY DEF Shape, PrevAt, NewestLinked
<1>5. FrontLinked(w)'
  BY DEF Shape, FrontLinked
<1>6. Typed'
  BY DEF Shape, Typed
<1>. QED
  BY <1>1, <1>2, <1>3, <1>4, <1>5, <1>6 DEF Shape

-----------------------------------------------------------------------------
(***************************************************************************)
(* The steps of a push.                                                    *)
(***************************************************************************)
(* An element does not fit behind the write position only at its end.      *)
LEMMA FitsBehind ==
  ASSUME NEW a \in 0 .. Junk!Capacity, NEW w \in 0 .. Junk!Capacity, Ring(a, w),
         writeoffs = Offs(w)
  PROVE  Junk!PastEnd(Junk!SlotSz) <=> w = Junk!Capacity
<1>1. /\ Offs(w) \in Nat
      /\ w < Junk!Capacity => Offs(w) + Junk!SlotSz <= quu_endoffs
      /\ w = Junk!Capacity => Offs(w) + Junk!SlotSz > quu_endoffs
  BY SlotBounds, SlotOrder, Sizes
<1>2. w < Junk!Capacity \/ w = Junk!Capacity
  BY Sizes
<1>. QED
  BY <1>1, <1>2, Sizes DEF Junk!PastEnd

(* The tests of wv_shm_push_elem say where the element goes. *)
LEMMA AcceptedPlace ==
  ASSUME NEW a \in 0 .. Junk!Capacity, NEW w \in 0 .. Junk!Capacity, Ring(a, w),
         readoffs = Offs(a), writeoffs = Offs(w),
         remainsz = Junk!AreaSz - count * Junk!SlotSz,
         Junk!Accepts(Junk!SlotSz)
  PROVE  /\ count < Junk!Capacity
         /\ \/ FirstWrite(Junk!SlotSz) = "link" /\ w < Junk!Capacity
            \/ FirstWrite(Junk!SlotSz) = "move_read" /\ w = Junk!Capacity /\ count = 0
            \/ /\ FirstWrite(Junk!SlotSz) = "move_write"
               /\ w = Junk!Capacity /\ 2 <= a /\ count > 0
<1>1. count < Junk!Capacity
  BY RoomForOne DEF Junk!Accepts, Ring
<1>2. CASE w # Junk!Capacity
  <2>1. ~Junk!PastEnd(Junk!SlotSz)
    BY <1>2, FitsBehind
  <2>2. w < Junk!Capacity
    BY <1>2, Sizes
  <2>. QED
    BY <1>1, <2>1, <2>2 DEF FirstWrite
<1>3. CASE w = Junk!Capacity
  <2>1. Junk!PastEnd(Junk!SlotSz) /\ Junk!FrontFree(Junk!SlotSz)
    BY <1>3, FitsBehind DEF Junk!Accepts
  <2>2. a + count = Junk!Capacity
    BY <1>3, Sizes DEF Ring
  <2>3. readoffs = writeoffs <=> a = Junk!Capacity
    BY <1>3, SlotOrder, Sizes
  <2>4. 2 <= a
    <3>1. /\ Offs(0) = quu_startoffs /\ Offs(1) = quu_startoffs + Junk!SlotSz
          /\ Offs(a) \in Nat
      BY SlotOrder, Sizes
    <3>2. a # 0 /\ a # 1
      BY <2>1, <3>1, Sizes DEF Junk!FrontFree
    <3>. QED
      BY <3>2, Sizes
  <2>5. a = Junk!Capacity <=> count = 0
    BY <2>2, Sizes DEF Ring
  <2>6. FirstWrite(Junk!SlotSz) =
          IF readoffs = writeoffs THEN "move_read" ELSE "move_write"
    BY <2>1 DEF FirstWrite
  <2>7. count # 0 => count > 0
    BY DEF Ring
  <2>. QED
    BY <1>1, <1>3, <2>3, <2>4, <2>5, <2>6, <2>7
<1>. QED
  BY <1>2, <1>3

(* A push is refused only if less than two slots are free. *)
LEMMA RefusedPlace ==
  ASSUME NEW a \in 0 .. Junk!Capacity, NEW w \in 0 .. Junk!Capacity, Ring(a, w),
         readoffs = Offs(a), writeoffs = Offs(w),
         remainsz = Junk!AreaSz - count * Junk!SlotSz,
         ~Junk!Accepts(Junk!SlotSz)
  PROVE  count + 1 >= Junk!Capacity
<1>1. SUFFICES ASSUME count + 1 < Junk!Capacity PROVE FALSE
  BY Sizes DEF Ring
<1>2. remainsz >= Junk!SlotSz
  BY <1>1, RoomForOne, Sizes DEF Ring
<1>3. writeoffs >= quu_startoffs
  BY SlotOrder
<1>4. Junk!PastEnd(Junk!SlotSz) /\ ~Junk!FrontFree(Junk!SlotSz)
  BY <1>2, <1>3 DEF Junk!Accepts
<1>5. w = Junk!Capacity
  BY <1>4, FitsBehind
<1>6. 1 < a
  BY <1>1, <1>5, Sizes DEF Ring
<1>7. /\ Offs(1) = quu_startoffs + Junk!SlotSz
      /\ Offs(1) + Junk!SlotSz <= Offs(a)
      /\ Offs(a) \in Nat
  BY <1>6, SlotOrder, Sizes
<1>. QED
  BY <1>4, <1>7, Sizes DEF Junk!FrontFree

LEMMA BeginPushKeeps ==
  ASSUME LockProofs!Inv, Holding, FifoInv, NEW p \in Procs,
         NEW payload \in Payloads, BeginPush(p, payload)
  PROVE  FifoInv'
<1>1. Junk!ElemSz(payload) = Junk!SlotSz
  BY PayloadSizes, Sizes
<1>2. PICK next : next = FirstWrite(Junk!SlotSz)
  OBVIOUS
<1>3. /\ Write(p, "ready", next)
      /\ pc[p] = "critical" /\ at[p] = "ready"
      /\ Junk!Accepts(Junk!SlotSz)
      /\ elem' = [elem EXCEPT ![p] = payload]
      /\ UNCHANGED junkVars
  BY <1>1, <1>2 DEF BeginPush, Write
<1>4. PICK a \in 0 .. Junk!Capacity, w \in 0 .. Junk!Capacity :
        Shape(a, w) /\ Progress("ready", elem[p], a, w)
  BY <1>3, DoingInside
<1>5. /\ readoffs = Offs(a) /\ writeoffs = Offs(w)
      /\ remainsz = Junk!AreaSz - count * Junk!SlotSz
  BY <1>4 DEF Progress, ReadAt, WriteAt, Remains
<1>6. /\ count < Junk!Capacity
      /\ \/ next = "link" /\ w < Junk!Capacity
         \/ next = "move_read" /\ w = Junk!Capacity /\ count = 0
         \/ next = "move_write" /\ w = Junk!Capacity /\ 2 <= a /\ count > 0
  BY <1>2, <1>3, <1>4, <1>5, AcceptedPlace DEF Shape
<1>7. Shape(a, w)'
  BY <1>3, <1>4, SameShape DEF junkVars, Shape, Typed
<1>8. Progress(next, payload, a, w)'
  BY <1>3, <1>5, <1>6
     DEF junkVars, Progress, ReadAt, WriteAt, Remains, PushWrites, PopWrites,
         SlotChosen, LinkDone, HdrDone, DataDone
<1>9. elem'[p] = payload /\ next \in Places /\ next # "ready" /\ "ready" \in Places
  BY <1>3, <1>6 DEF Holding, Places, PushWrites
<1>. QED
  BY <1>3, <1>7, <1>8, <1>9, FifoStep

LEMMA PushRefusedKeeps ==
  ASSUME LockProofs!Inv, Holding, FifoInv, NEW p \in Procs,
         NEW payload \in Payloads, PushRefused(p, payload)
  PROVE  FifoInv'
<1>1. /\ Write(p, "ready", "ready")
      /\ pc[p] = "critical" /\ at[p] = "ready"
      /\ elem' = elem
      /\ writeoffs' = writeoffs /\ prev_writeoffs' = prev_writeoffs
      /\ readoffs' = readoffs /\ remainsz' = remainsz /\ count' = count
      /\ hdrs' = hdrs /\ data' = data /\ queued' = queued
      /\ ret' = Junk!Result("push", FALSE, <<>>)
  BY DEF PushRefused, Junk!PushRefused, Junk!jhdr, Write
<1>2. PICK a \in 0 .. Junk!Capacity, w \in 0 .. Junk!Capacity :
        Shape(a, w) /\ Progress("ready", elem[p], a, w)
  BY <1>1, DoingInside
<1>3. ret' \in Junk!Results
  BY <1>1, EmptySeq DEF Junk!Result, Junk!Results
<1>4. Shape(a, w)'
  BY <1>1, <1>2, <1>3, SameShape
<1>5. Progress("ready", elem[p], a, w)'
  BY <1>1, <1>2
     DEF Progress, ReadAt, WriteAt, Remains, PushWrites, PopWrites,
         SlotChosen, LinkDone, HdrDone, DataDone
<1>6. elem[p] = <<>> /\ "ready" \in Places
  BY <1>2 DEF Progress, Places
<1>. QED
  BY <1>1, <1>4, <1>5, <1>6, FifoStep

LEMMA MoveReadKeeps ==
  ASSUME LockProofs!Inv, Holding, FifoInv, NEW p \in Procs, MoveRead(p)
  PROVE  FifoInv'
<1>1. /\ Write(p, "move_read", "move_both")
      /\ pc[p] = "critical" /\ at[p] = "move_read"
      /\ readoffs' = quu_startoffs
      /\ UNCHANGED <<writeoffs, prev_writeoffs, remainsz, count, hdrs, data, queued, ret, elem>>
  BY DEF MoveRead, Write
<1>2. PICK a \in 0 .. Junk!Capacity, w \in 0 .. Junk!Capacity :
        Shape(a, w) /\ Progress("move_read", elem[p], a, w)
  BY <1>1, DoingInside
<1>3. Shape(a, w)'
  BY <1>1, <1>2, SameShape DEF Shape, Typed
<1>4. Progress("move_both", elem[p], a, w)'
  BY <1>1, <1>2
     DEF Progress, ReadAt, WriteAt, Remains, PushWrites, PopWrites,
         SlotChosen, LinkDone, HdrDone, DataDone
<1>5. {"move_read", "move_both"} \subseteq Places
  BY DEF Places, PushWrites
<1>. QED
  BY <1>1, <1>3, <1>4, <1>5, FifoStep

(* The write position goes to the front of the area. *)
LEMMA ToFront ==
  ASSUME NEW a \in 0 .. Junk!Capacity, NEW b, Shape(a, Junk!Capacity),
         \/ count = 0 /\ b = 0
         \/ count > 0 /\ b = a /\ 2 <= a,
         UNCHANGED <<prev_writeoffs, count, hdrs, data, queued, ret>>
  PROVE  Shape(b, 0)'
<1>1. Ring(b, 0)'
  BY Sizes DEF Shape, Ring
<1>2. Elements(b)'
  <2>1. CASE count = 0
    BY <2>1 DEF Shape, Elements
  <2>2. CASE b = a
    BY <2>2 DEF Shape, Elements, Junk!DataAt
  <2>. QED
    BY <2>1, <2>2
<1>3. Links(0)'
  <2>1. ~(Junk!Capacity < Junk!Capacity)
    BY Sizes
  <2>2. ASSUME NEW i \in 1 .. count
        PROVE  /\ hdrs[queued[i].offs].size = DataSz
               /\ hdrs[queued[i].offs].nextoffs \in
                    (IF i < count THEN {queued[i + 1].offs} ELSE {0})
    BY <2>1 DEF Shape, Links, NextOf
  <2>. QED
    BY <2>2 DEF Links, NextOf
<1>4. prev_writeoffs = Offs(Pred(0))
  BY Sizes DEF Shape, PrevAt, Pred
<1>5. PrevAt(0)'
  BY <1>4 DEF PrevAt, Pred
<1>6. FrontLinked(0)'
  <2>1. count > 0 => 2 <= Junk!Capacity
    BY Sizes
  <2>. QED
    BY <2>1 DEF Shape, FrontLinked, Ring
<1>7. Typed'
  BY DEF Shape, Typed
<1>. QED
  BY <1>1, <1>2, <1>3, <1>5, <1>6, <1>7 DEF Shape

LEMMA MoveWriteKeeps ==
  ASSUME LockProofs!Inv, Holding, FifoInv, NEW p \in Procs, MoveWrite(p)
  PROVE  FifoInv'
<1>1. PICK place \in {"move_both", "move_write"} : Write(p, place, "link")
  BY DEF MoveWrite
<1>2. /\ pc[p] = "critical" /\ at[p] = place
      /\ writeoffs' = quu_startoffs
      /\ UNCHANGED <<prev_writeoffs, readoffs, remainsz, count, hdrs, data, queued, ret, elem>>
  BY <1>1 DEF MoveWrite, Write
<1>3. PICK a \in 0 .. Junk!Capacity, w \in 0 .. Junk!Capacity :
        Shape(a, w) /\ Progress(place, elem[p], a, w)
  BY <1>2, DoingInside
<1>4. PICK b : b = IF place = "move_both" THEN 0 ELSE a
  OBVIOUS
<1>5. /\ w = Junk!Capacity
      /\ \/ count = 0 /\ b = 0
         \/ count > 0 /\ b = a /\ 2 <= a
  BY <1>1, <1>3, <1>4 DEF Progress
<1>6. Shape(b, 0)'
  BY <1>2, <1>3, <1>5, ToFront
<1>7. /\ readoffs = Offs(b) /\ Offs(0) = quu_startoffs
      /\ remainsz = Junk!AreaSz - count * Junk!SlotSz
      /\ elem[p] \in Payloads /\ count < Junk!Capacity
  BY <1>1, <1>3, <1>4, SlotOrder
     DEF Progress, ReadAt, Remains, PushWrites, PopWrites
<1>8. Progress("link", elem[p], b, 0)'
  BY <1>2, <1>7, Sizes
     DEF Progress, ReadAt, WriteAt, Remains, PushWrites, PopWrites,
         SlotChosen, LinkDone, HdrDone, DataDone
<1>9. place \in Places /\ "link" \in Places
  BY <1>1 DEF Places, PushWrites
<1>10. b \in 0 .. Junk!Capacity /\ 0 \in 0 .. Junk!Capacity
  BY <1>5, Sizes
<1>. QED
  BY <1>1, <1>2, <1>6, <1>8, <1>9, <1>10, FifoStep

(* The slot the next push writes is free, and the newest element is before it. *)
LEMMA FreeSlot ==
  ASSUME NEW a \in 0 .. Junk!Capacity, NEW w \in 0 .. Junk!Capacity, Ring(a, w),
         w < Junk!Capacity, count < Junk!Capacity,
         NEW i \in 1 .. count
  PROVE  /\ Junk!ElemSlot(a, i) \in 0 .. Junk!Capacity - 1
         /\ Junk!ElemSlot(a, i) # w
         /\ i = count <=> Junk!ElemSlot(a, i) = Pred(w)
<1>1. /\ count \in 1 .. Junk!Capacity - 1
      /\ a \in 0 .. Junk!Capacity - 1
      /\ i \in 1 .. Junk!Capacity
      /\ count + 1 \in 1 .. Junk!Capacity
  BY Sizes DEF Ring
<1>2. w = Junk!ElemSlot(a, count + 1)
  BY <1>1, Sizes DEF Ring, Junk!ElemSlot, Junk!Wrap
<1>3. Pred(w) = Junk!ElemSlot(a, count)
  BY <1>1, Sizes DEF Ring, Pred, Junk!ElemSlot, Junk!Wrap
<1>4. \A j \in 1 .. Junk!Capacity :
        Junk!ElemSlot(a, i) = Junk!ElemSlot(a, j) => i = j
  BY <1>1, ElemSlots
<1>5. Junk!ElemSlot(a, i) \in 0 .. Junk!Capacity - 1
  BY <1>1, ElemSlots
<1>6. count \in 1 .. Junk!Capacity /\ i # count + 1
  BY <1>1, Sizes
<1>. QED
  BY <1>1, <1>2, <1>3, <1>4, <1>5, <1>6

(* Different slots have different offsets. *)
LEMMA SlotsDiffer ==
  ASSUME NEW k \in 0 .. Junk!Capacity, NEW j \in 0 .. Junk!Capacity
  PROVE  Offs(k) = Offs(j) <=> k = j
BY SlotOrder, Sizes

(* prev_writeoffs is NULL only before the first push, else it is a slot. *)
LEMMA PrevSlot ==
  ASSUME NEW w \in 0 .. Junk!Capacity, PrevAt(w), prev_writeoffs # 0
  PROVE  \E j \in 0 .. Junk!Capacity - 1 :
           /\ prev_writeoffs = Offs(j)
           /\ \/ j = Pred(w)
              \/ j = w /\ NewestLinked(w)
<1>1. Pred(w) \in 0 .. Junk!Capacity - 1
  BY Sizes DEF Pred
<1>. QED
  BY <1>1, Sizes DEF PrevAt

(***************************************************************************)
(* The header of slot j is written, and no other.  The elements keep their *)
(* links if j is not theirs, or if it is the newest one's and leads to w.  *)
(***************************************************************************)
WriteHdr(j, hdr) ==
  /\ hdrs' \in [Junk!Area -> Junk!Hdr \cup {NoHdr}]
  /\ hdrs'[Offs(j)] = hdr
  /\ \A k \in (0 .. Junk!Capacity - 1) \ {j} : hdrs'[Offs(k)] = hdrs[Offs(k)]

LEMMA WriteHdrLinks ==
  ASSUME NEW a \in 0 .. Junk!Capacity, NEW w \in 0 .. Junk!Capacity,
         Ring(a, w), Elements(a), Links(w),
         w < Junk!Capacity, count < Junk!Capacity,
         NEW j \in 0 .. Junk!Capacity - 1, NEW hdr, WriteHdr(j, hdr),
         UNCHANGED <<count, queued>>,
         \/ j = w
         \/ j = Pred(w) /\ hdr.nextoffs = Offs(w)
              /\ hdr.size = hdrs[Offs(j)].size
  PROVE  /\ Links(w)'
         /\ j = w => \A i \in 1 .. count : hdrs'[queued[i].offs] = hdrs[queued[i].offs]
         /\ j = Pred(w) /\ j # w => NewestLinked(w)'
<1>1. ASSUME NEW i \in 1 .. count
      PROVE  /\ j = w \/ i # count => hdrs'[queued[i].offs] = hdrs[queued[i].offs]
             /\ j # w /\ i = count => /\ hdrs'[queued[i].offs] = hdr
                                     /\ hdr.nextoffs = Offs(w)
                                     /\ hdr.size = hdrs[queued[i].offs].size
  <2>1. queued[i].offs = Offs(Junk!ElemSlot(a, i))
    BY DEF Elements
  <2>2. PICK k \in 0 .. Junk!Capacity - 1 : k = Junk!ElemSlot(a, i)
    BY FreeSlot
  <2>3. k # w /\ (i = count <=> k = Pred(w)) /\ queued[i].offs = Offs(k)
    BY <2>1, <2>2, FreeSlot
  <2>4. CASE k = j
    BY <2>3, <2>4 DEF WriteHdr
  <2>5. CASE k # j
    BY <2>3, <2>5 DEF WriteHdr
  <2>. QED
    BY <2>4, <2>5
<1>2. ASSUME NEW i \in 1 .. count
      PROVE  /\ hdrs'[queued[i].offs].size = DataSz
             /\ hdrs'[queued[i].offs].nextoffs \in NextOf(i, w)
  <2>1. /\ hdrs[queued[i].offs].size = DataSz
        /\ hdrs[queued[i].offs].nextoffs \in NextOf(i, w)
    BY DEF Links
  <2>2. i = count => Offs(w) \in NextOf(i, w)
    BY DEF NextOf, Ring
  <2>. QED
    BY <1>1, <2>1, <2>2
<1>3. Links(w)'
  BY <1>2 DEF Links, NextOf
<1>4. j = Pred(w) /\ j # w => NewestLinked(w)'
  <2>1. count > 0 => count \in 1 .. count
    BY DEF Ring
  <2>. QED
    BY <1>1, <2>1 DEF NewestLinked
<1>. QED
  BY <1>1, <1>3, <1>4

(* The link is written to the newest element, or into the free slot. *)
LEMMA LinkEffect ==
  ASSUME NEW a \in 0 .. Junk!Capacity, NEW w \in 0 .. Junk!Capacity, Shape(a, w),
         w < Junk!Capacity, count < Junk!Capacity, writeoffs = Offs(w),
         NEW p \in Procs, Link(p)
  PROVE  Shape(a, w)' /\ NewestLinked(w)' /\ (w = 1 => hdrs'[quu_startoffs].nextoffs # 0)
<1>1. /\ hdrs' = IF PrevHdrMissing THEN hdrs ELSE Junk!LinkElems(prev_writeoffs, writeoffs)
      /\ data' = IF PrevHdrMissing THEN [data EXCEPT ![prev_writeoffs] = NoByte] ELSE data
      /\ UNCHANGED <<prev_writeoffs, count, queued, ret>>
  BY DEF Link
<1>2. /\ Ring(a, w) /\ Elements(a) /\ Links(w) /\ PrevAt(w) /\ FrontLinked(w) /\ Typed
      /\ Offs(0) = quu_startoffs
  BY SlotOrder, Sizes DEF Shape
<1>3. CASE prev_writeoffs = 0
  <2>1. hdrs' = hdrs /\ data' = data
    BY <1>1, <1>3 DEF PrevHdrMissing, Junk!LinkElems
  <2>2. count = 0 /\ w = 0
    <3>1. Pred(w) \in Nat /\ w \in Nat
      BY Sizes DEF Pred
    <3>2. Offs(Pred(w)) # 0 /\ Offs(w) # 0
      BY <3>1, SlotOrder, Sizes
    <3>. QED
      BY <1>2, <1>3, <3>2 DEF PrevAt
  <2>3. Shape(a, w)'
    BY <1>1, <1>2, <2>1, SameShape DEF Shape, Typed
  <2>. QED
    BY <1>1, <2>2, <2>3 DEF NewestLinked
<1>4. CASE prev_writeoffs # 0
  <2>1. PICK j \in 0 .. Junk!Capacity - 1 :
          /\ prev_writeoffs = Offs(j)
          /\ \/ j = Pred(w)
             \/ j = w /\ NewestLinked(w)
    BY <1>2, <1>4, PrevSlot
  <2>2. /\ Offs(j) \in Junk!Area /\ hdrs[Offs(j)] \in Junk!Hdr
        /\ Offs(w) \in Nat \ {0}
    <3>1. j \in 0 .. Junk!Capacity /\ j < Junk!Capacity
      BY Sizes
    <3>. QED
      BY <1>2, <3>1, SlotBounds, Sizes DEF Typed
  <2>3. PICK hdr : hdr = [size |-> hdrs[Offs(j)].size, nextoffs |-> Offs(w)]
    OBVIOUS
  <2>4. hdr \in Junk!Hdr /\ hdr.nextoffs = Offs(w) /\ hdr.size = hdrs[Offs(j)].size
    BY <2>2, <2>3 DEF Junk!Hdr
  <2>5. hdrs' = [hdrs EXCEPT ![Offs(j)] = hdr] /\ data' = data
    <3>1. ~PrevHdrMissing
      BY <2>1, <2>2, JunkAssumption DEF PrevHdrMissing, Junk!PayloadAssumption
    <3>. QED
      BY <1>1, <1>4, <2>1, <2>2, <2>3, <3>1 DEF Junk!LinkElems
  <2>6. WriteHdr(j, hdr)
    <3>1. \A k \in (0 .. Junk!Capacity - 1) \ {j} : Offs(k) # Offs(j)
      BY SlotsDiffer, Sizes
    <3>. QED
      BY <1>2, <2>2, <2>4, <2>5, <3>1 DEF WriteHdr, Typed
  <2>7. /\ Links(w)'
        /\ j = w => \A i \in 1 .. count : hdrs'[queued[i].offs] = hdrs[queued[i].offs]
        /\ j = Pred(w) /\ j # w => NewestLinked(w)'
    BY <1>1, <1>2, <2>1, <2>4, <2>6, WriteHdrLinks
  <2>8. NewestLinked(w)'
    <3>1. CASE j # w
      BY <2>1, <2>7, <3>1
    <3>2. CASE j = w
      <4>1. count = 0 \/ count \in 1 .. count
        BY <1>2 DEF Ring
      <4>2. CASE count = 0
        BY <1>1, <4>2 DEF NewestLinked
      <4>3. CASE count # 0
        <5>1. NewestLinked(w)
          BY <1>2, <2>1, <3>2, <4>1, <4>3, FreeSlot DEF Ring
        <5>. QED
          BY <1>1, <2>7, <3>2, <4>1, <4>3, <5>1 DEF NewestLinked
      <4>. QED
        BY <4>2, <4>3
    <3>. QED
      BY <3>1, <3>2
  <2>9. \/ j = 0 /\ hdrs'[quu_startoffs].nextoffs # 0
        \/ j # 0 /\ hdrs'[quu_startoffs] = hdrs[quu_startoffs]
    BY <1>2, <2>2, <2>4, <2>6, Sizes DEF WriteHdr
  <2>10. FrontLinked(w)'
    BY <1>1, <1>2, <2>9 DEF FrontLinked
  <2>11. w = 1 => hdrs'[quu_startoffs].nextoffs # 0
    BY <1>2, <2>1, <2>9 DEF FrontLinked, Pred
  <2>12. Elements(a)' /\ Ring(a, w)'
    BY <1>1, <1>2, <2>5 DEF Elements, Ring, Junk!DataAt
  <2>13. PrevAt(w)'
    BY <1>1, <1>2, <2>8 DEF PrevAt
  <2>14. Typed'
    <3>1. ASSUME NEW k \in 0 .. Junk!Capacity - 1
          PROVE  hdrs'[Offs(k)] \in Junk!Hdr
      BY <1>2, <2>4, <2>6 DEF WriteHdr, Typed
    <3>. QED
      BY <1>1, <1>2, <2>5, <2>6, <3>1 DEF Typed, WriteHdr
  <2>. QED
    BY <2>7, <2>8, <2>10, <2>11, <2>12, <2>13, <2>14 DEF Shape
<1>. QED
  BY <1>3, <1>4

LEMMA LinkKeeps ==
  ASSUME LockProofs!Inv, Holding, FifoInv, NEW p \in Procs, Link(p)
  PROVE  FifoInv'
<1>1. /\ Write(p, "link", "prev")
      /\ pc[p] = "critical" /\ at[p] = "link"
      /\ UNCHANGED <<writeoffs, prev_writeoffs, readoffs, remainsz, count, queued, ret, elem>>
  BY DEF Link, Write
<1>2. PICK a \in 0 .. Junk!Capacity, w \in 0 .. Junk!Capacity :
        Shape(a, w) /\ Progress("link", elem[p], a, w)
  BY <1>1, DoingInside
<1>3. w < Junk!Capacity /\ count < Junk!Capacity /\ writeoffs = Offs(w)
  BY <1>2 DEF Progress, WriteAt, SlotChosen, PushWrites
<1>4. Shape(a, w)' /\ NewestLinked(w)' /\ (w = 1 => hdrs'[quu_startoffs].nextoffs # 0)
  BY <1>2, <1>3, LinkEffect
<1>5. Progress("prev", elem[p], a, w)'
  BY <1>1, <1>2, <1>4
     DEF Progress, ReadAt, WriteAt, Remains, PushWrites, PopWrites,
         SlotChosen, LinkDone, HdrDone, DataDone
<1>6. {"link", "prev"} \subseteq Places
  BY DEF Places, PushWrites
<1>. QED
  BY <1>1, <1>4, <1>5, <1>6, FifoStep

LEMMA SetPrevKeeps ==
  ASSUME LockProofs!Inv, Holding, FifoInv, NEW p \in Procs, SetPrev(p)
  PROVE  FifoInv'
<1>1. /\ Write(p, "prev", "hdr")
      /\ pc[p] = "critical" /\ at[p] = "prev"
      /\ prev_writeoffs' = writeoffs
      /\ UNCHANGED <<writeoffs, readoffs, remainsz, count, hdrs, data, queued, ret, elem>>
  BY DEF SetPrev, Write
<1>2. PICK a \in 0 .. Junk!Capacity, w \in 0 .. Junk!Capacity :
        Shape(a, w) /\ Progress("prev", elem[p], a, w)
  BY <1>1, DoingInside
<1>3. /\ w < Junk!Capacity /\ prev_writeoffs' = Offs(w)
      /\ NewestLinked(w) /\ (w = 1 => hdrs[quu_startoffs].nextoffs # 0)
  BY <1>1, <1>2 DEF Progress, WriteAt, SlotChosen
<1>4. Shape(a, w)'
  <2>1. Ring(a, w)' /\ Elements(a)' /\ Typed'
    BY <1>1, <1>2 DEF Shape, Ring, Elements, Typed, Junk!DataAt
  <2>2. Links(w)'
    BY <1>1, <1>2 DEF Shape, Links, NextOf
  <2>3. PrevAt(w)'
    BY <1>1, <1>3 DEF PrevAt, NewestLinked
  <2>4. FrontLinked(w)'
    BY <1>1, <1>2, <1>3 DEF Shape, FrontLinked
  <2>. QED
    BY <2>1, <2>2, <2>3, <2>4 DEF Shape
<1>5. Progress("hdr", elem[p], a, w)'
  BY <1>1, <1>2, <1>3
     DEF Progress, ReadAt, WriteAt, Remains, PushWrites, PopWrites,
         SlotChosen, LinkDone, HdrDone, DataDone
<1>6. {"prev", "hdr"} \subseteq Places
  BY DEF Places, PushWrites
<1>. QED
  BY <1>1, <1>4, <1>5, <1>6, FifoStep

(* Cells of slot k lie outside slot w. *)
LEMMA SlotsApart ==
  ASSUME NEW w \in 0 .. Junk!Capacity - 1, NEW k \in 0 .. Junk!Capacity - 1, k # w
  PROVE  /\ Offs(k) \in Junk!Area /\ Offs(k) \in Nat /\ Offs(w) \in Nat
         /\ Offs(k) + Junk!SlotSz <= quu_endoffs
         /\ Offs(k) + Junk!SlotSz <= Offs(w) \/ Offs(w) + Junk!SlotSz <= Offs(k)
<1>1. /\ k \in 0 .. Junk!Capacity /\ k < Junk!Capacity
      /\ k \in Nat /\ w \in Nat /\ (k < w \/ w < k)
  BY Sizes
<1>. QED
  BY <1>1, SlotBounds, SlotOrder

LEMMA DataKept ==
  ASSUME NEW w \in 0 .. Junk!Capacity - 1, NEW k \in 0 .. Junk!Capacity - 1, k # w,
         \A o \in Junk!Area :
           o < Offs(w) \/ o >= Offs(w) + Junk!SlotSz => data'[o] = data[o]
  PROVE  Junk!DataAt(Offs(k), DataSz)' = Junk!DataAt(Offs(k), DataSz)
<1>1. ASSUME NEW i \in 1 .. DataSz
      PROVE  /\ Offs(k) + HdrSz + i - 1 \in Junk!Area
             /\ data'[Offs(k) + HdrSz + i - 1] = data[Offs(k) + HdrSz + i - 1]
  <2>1. PICK o : o = Offs(k) + HdrSz + i - 1
    OBVIOUS
  <2>2. /\ o \in Junk!Area
        /\ o < Offs(w) \/ o >= Offs(w) + Junk!SlotSz
    BY <2>1, SlotsApart, Sizes DEF Junk!Area
  <2>. QED
    BY <2>1, <2>2
<1>. QED
  BY <1>1 DEF Junk!DataAt

LEMMA ElementsKept ==
  ASSUME NEW a \in 0 .. Junk!Capacity, NEW w \in 0 .. Junk!Capacity,
         Ring(a, w), Elements(a), w < Junk!Capacity, count < Junk!Capacity,
         UNCHANGED <<count, queued>>,
         \A o \in Junk!Area :
           o < Offs(w) \/ o >= Offs(w) + Junk!SlotSz => data'[o] = data[o]
  PROVE  Elements(a)'
<1>1. ASSUME NEW i \in 1 .. count
      PROVE  Junk!DataAt(queued[i].offs, DataSz)' = queued[i].payload
  <2>1. /\ queued[i].offs = Offs(Junk!ElemSlot(a, i))
        /\ Junk!DataAt(queued[i].offs, DataSz) = queued[i].payload
    BY DEF Elements
  <2>2. PICK k \in 0 .. Junk!Capacity - 1 : k = Junk!ElemSlot(a, i) /\ k # w
    BY FreeSlot
  <2>3. w \in 0 .. Junk!Capacity - 1
    BY Sizes
  <2>4. Junk!DataAt(Offs(k), DataSz)' = Junk!DataAt(Offs(k), DataSz)
    BY <2>2, <2>3, DataKept
  <2>5. queued'[i].offs = Offs(k) /\ queued[i].offs = Offs(k)
    BY <2>1, <2>2
  <2>. QED
    BY <2>1, <2>4, <2>5 DEF Junk!DataAt
<1>. QED
  BY <1>1 DEF Elements

(* Once prev_writeoffs is the slot written, the newest element leads there. *)
LEMMA LinkedBefore ==
  ASSUME NEW a \in 0 .. Junk!Capacity, NEW w \in 0 .. Junk!Capacity, Shape(a, w),
         w < Junk!Capacity, count < Junk!Capacity, prev_writeoffs = Offs(w)
  PROVE  NewestLinked(w)
<1>1. SUFFICES ASSUME count > 0 PROVE NewestLinked(w)
  BY DEF NewestLinked
<1>2. Offs(w) # 0
  BY SlotOrder, Sizes
<1>3. Ring(a, w) /\ PrevAt(w)
  BY DEF Shape
<1>4. Pred(w) # w
  BY <1>1, <1>3, FreeSlot DEF Ring
<1>5. Pred(w) \in 0 .. Junk!Capacity
  BY Sizes DEF Pred
<1>6. Offs(Pred(w)) # Offs(w)
  BY <1>4, <1>5, SlotsDiffer
<1>. QED
  BY <1>2, <1>3, <1>6 DEF PrevAt

(* A write into the free slot leaves what is in the queue as it is. *)
LEMMA FreeSlotWrite ==
  ASSUME NEW a \in 0 .. Junk!Capacity, NEW w \in 0 .. Junk!Capacity, Shape(a, w),
         w < Junk!Capacity, count < Junk!Capacity, prev_writeoffs = Offs(w),
         UNCHANGED <<prev_writeoffs, count, queued, ret>>,
         NEW hdr \in Junk!Hdr, WriteHdr(w, hdr),
         data' \in [Junk!Area -> Bytes \cup {NoByte}],
         \A o \in Junk!Area :
           o < Offs(w) \/ o >= Offs(w) + Junk!SlotSz => data'[o] = data[o]
  PROVE  Shape(a, w)'
<1>1. /\ Ring(a, w) /\ Elements(a) /\ Links(w) /\ PrevAt(w) /\ FrontLinked(w) /\ Typed
      /\ w \in 0 .. Junk!Capacity - 1
      /\ 0 \in 0 .. Junk!Capacity - 1
      /\ Offs(0) = quu_startoffs
  BY SlotOrder, Sizes DEF Shape
<1>2. Elements(a)'
  BY <1>1, ElementsKept
<1>3. /\ Links(w)'
      /\ \A i \in 1 .. count : hdrs'[queued[i].offs] = hdrs[queued[i].offs]
  BY <1>1, WriteHdrLinks
<1>4. PrevAt(w)'
  <2>1. NewestLinked(w)
    BY LinkedBefore
  <2>2. count > 0 => count \in 1 .. count
    BY <1>1 DEF Ring
  <2>3. NewestLinked(w)'
    BY <1>3, <2>1, <2>2 DEF NewestLinked
  <2>. QED
    BY <2>3 DEF PrevAt
<1>5. FrontLinked(w)'
  <2>1. w # 0 => hdrs'[quu_startoffs] = hdrs[quu_startoffs]
    BY <1>1 DEF WriteHdr
  <2>. QED
    BY <1>1, <2>1 DEF FrontLinked
<1>6. Ring(a, w)'
  BY <1>1 DEF Ring
<1>7. Typed'
  <2>1. ASSUME NEW k \in 0 .. Junk!Capacity - 1
        PROVE  hdrs'[Offs(k)] \in Junk!Hdr
    BY <1>1 DEF WriteHdr, Typed
  <2>. QED
    BY <1>1, <2>1 DEF WriteHdr, Typed
<1>. QED
  BY <1>2, <1>3, <1>4, <1>5, <1>6, <1>7 DEF Shape

LEMMA CopyHdrEffect ==
  ASSUME NEW a \in 0 .. Junk!Capacity, NEW w \in 0 .. Junk!Capacity, Shape(a, w),
         w < Junk!Capacity, count < Junk!Capacity,
         prev_writeoffs = Offs(w), writeoffs = Offs(w),
         NEW p \in Procs, elem[p] \in Payloads, CopyHdr(p)
  PROVE  Shape(a, w)' /\ hdrs'[Offs(w)] = [size |-> DataSz, nextoffs |-> 0]
<1>1. /\ Len(elem[p]) = DataSz
      /\ w \in 0 .. Junk!Capacity - 1
      /\ Offs(w) \in Junk!Area /\ Offs(w) \in Nat
  <2>1. Len(elem[p]) = DataSz
    BY PayloadSizes
  <2>2. w \in 0 .. Junk!Capacity - 1 /\ w \in Nat
    BY Sizes
  <2>3. Offs(w) \in Junk!Area /\ Offs(w) \in Nat
    BY <2>2, SlotBounds, SlotOrder
  <2>. QED
    BY <2>1, <2>2, <2>3
<1>2. PICK hdr : hdr = [size |-> DataSz, nextoffs |-> 0]
  OBVIOUS
<1>3. hdr \in Junk!Hdr
  BY <1>2, Sizes DEF Junk!Hdr
<1>4. /\ hdrs' = [o \in Junk!Area |->
                    IF o = Offs(w) THEN hdr
                    ELSE IF o \in Offs(w) .. Offs(w) + HdrSz - 1 THEN NoHdr
                    ELSE hdrs[o]]
      /\ data' = [o \in Junk!Area |->
                    IF o \in Offs(w) .. Offs(w) + HdrSz - 1 THEN NoByte ELSE data[o]]
      /\ UNCHANGED <<prev_writeoffs, count, queued, ret>>
  BY <1>1, <1>2 DEF CopyHdr
<1>5. /\ hdrs \in [Junk!Area -> Junk!Hdr \cup {NoHdr}]
      /\ data \in [Junk!Area -> Bytes \cup {NoByte}]
  BY DEF Shape, Typed
<1>6. WriteHdr(w, hdr)
  <2>1. ASSUME NEW k \in (0 .. Junk!Capacity - 1) \ {w}
        PROVE  hdrs'[Offs(k)] = hdrs[Offs(k)]
    <3>1. /\ Offs(k) \in Junk!Area /\ Offs(k) \in Nat /\ Offs(w) \in Nat
          /\ Offs(k) + Junk!SlotSz <= Offs(w) \/ Offs(w) + Junk!SlotSz <= Offs(k)
      BY <1>1, SlotsApart
    <3>2. Offs(k) # Offs(w) /\ Offs(k) \notin Offs(w) .. Offs(w) + HdrSz - 1
      BY <3>1, Sizes
    <3>. QED
      BY <1>4, <3>1, <3>2
  <2>2. hdrs' \in [Junk!Area -> Junk!Hdr \cup {NoHdr}]
    BY <1>3, <1>4, <1>5
  <2>3. hdrs'[Offs(w)] = hdr
    BY <1>1, <1>4
  <2>. QED
    BY <2>1, <2>2, <2>3 DEF WriteHdr
<1>7. data' \in [Junk!Area -> Bytes \cup {NoByte}]
  BY <1>4, <1>5
<1>8. ASSUME NEW o \in Junk!Area, o < Offs(w) \/ o >= Offs(w) + Junk!SlotSz
      PROVE  data'[o] = data[o]
  <2>1. o \notin Offs(w) .. Offs(w) + HdrSz - 1
    BY <1>1, <1>8, Sizes DEF Junk!Area
  <2>. QED
    BY <1>4, <2>1
<1>9. Shape(a, w)'
  BY <1>3, <1>4, <1>6, <1>7, <1>8, FreeSlotWrite
<1>. QED
  BY <1>2, <1>6, <1>9 DEF WriteHdr

LEMMA CopyDataEffect ==
  ASSUME NEW a \in 0 .. Junk!Capacity, NEW w \in 0 .. Junk!Capacity, Shape(a, w),
         w < Junk!Capacity, count < Junk!Capacity,
         prev_writeoffs = Offs(w), writeoffs = Offs(w) + HdrSz,
         NEW p \in Procs, NEW e \in Payloads, elem[p] = e, CopyData(p)
  PROVE  /\ Shape(a, w)' /\ hdrs'[Offs(w)] = hdrs[Offs(w)]
         /\ Junk!DataAt(Offs(w), DataSz)' = e
<1>1. /\ Len(e) = DataSz /\ e \in Seq(Bytes)
      /\ e = [i \in 1 .. DataSz |-> e[i]]
      /\ \A i \in 1 .. DataSz : e[i] \in Bytes
  <2>1. Len(e) = DataSz /\ e \in Seq(Bytes)
    BY PayloadSizes, JunkAssumption DEF Junk!PayloadAssumption
  <2>2. e = [i \in 1 .. DataSz |-> e[i]]
    BY <2>1, LenProperties
  <2>. QED
    BY <2>1, <2>2, ElementOfSeq
<1>2. w \in 0 .. Junk!Capacity - 1 /\ w \in Nat
  BY Sizes
<1>3. /\ Offs(w) \in Junk!Area /\ Offs(w) \in Nat
      /\ Offs(w) + Junk!SlotSz <= quu_endoffs
  BY <1>2, SlotBounds, SlotOrder
<1>4. PICK first, last : first = Offs(w) + HdrSz /\ last = Offs(w) + HdrSz + DataSz - 1
  OBVIOUS
<1>5. /\ hdrs' = [o \in Junk!Area |-> IF o \in first .. last THEN NoHdr ELSE hdrs[o]]
      /\ data' = [o \in Junk!Area |->
                    IF o \in first .. last THEN e[o - first + 1] ELSE data[o]]
      /\ UNCHANGED <<prev_writeoffs, count, queued, ret>>
  BY <1>1, <1>4 DEF CopyData
<1>6. /\ hdrs \in [Junk!Area -> Junk!Hdr \cup {NoHdr}]
      /\ data \in [Junk!Area -> Bytes \cup {NoByte}]
      /\ hdrs[Offs(w)] \in Junk!Hdr
  BY <1>2 DEF Shape, Typed
<1>7. hdrs'[Offs(w)] = hdrs[Offs(w)]
  <2>1. Offs(w) \notin first .. last
    BY <1>3, <1>4, Sizes
  <2>. QED
    BY <1>3, <1>5, <2>1
<1>8. WriteHdr(w, hdrs[Offs(w)])
  <2>1. ASSUME NEW k \in (0 .. Junk!Capacity - 1) \ {w}
        PROVE  hdrs'[Offs(k)] = hdrs[Offs(k)]
    <3>1. /\ Offs(k) \in Junk!Area /\ Offs(k) \in Nat /\ Offs(w) \in Nat
          /\ Offs(k) + Junk!SlotSz <= Offs(w) \/ Offs(w) + Junk!SlotSz <= Offs(k)
      BY <1>2, SlotsApart
    <3>2. Offs(k) \notin first .. last
      BY <1>4, <3>1, Sizes
    <3>. QED
      BY <1>5, <3>1, <3>2
  <2>2. hdrs' \in [Junk!Area -> Junk!Hdr \cup {NoHdr}]
    BY <1>5, <1>6
  <2>. QED
    BY <1>7, <2>1, <2>2 DEF WriteHdr
<1>9. data' \in [Junk!Area -> Bytes \cup {NoByte}]
  <2>1. ASSUME NEW o \in Junk!Area, o \in first .. last
        PROVE  e[o - first + 1] \in Bytes
    <3>1. o - first + 1 \in 1 .. DataSz
      BY <1>3, <1>4, <2>1, Sizes
    <3>. QED
      BY <1>1, <3>1
  <2>. QED
    BY <1>5, <1>6, <2>1
<1>10. ASSUME NEW o \in Junk!Area, o < Offs(w) \/ o >= Offs(w) + Junk!SlotSz
       PROVE  data'[o] = data[o]
  <2>1. o \notin first .. last
    BY <1>3, <1>4, <1>10, Sizes DEF Junk!Area
  <2>. QED
    BY <1>5, <2>1
<1>11. Shape(a, w)'
  BY <1>5, <1>6, <1>8, <1>9, <1>10, FreeSlotWrite
<1>12. ASSUME NEW i \in 1 .. DataSz
       PROVE  /\ Offs(w) + HdrSz + i - 1 \in Junk!Area
              /\ data'[Offs(w) + HdrSz + i - 1] = e[i]
  <2>1. PICK o : o = Offs(w) + HdrSz + i - 1
    OBVIOUS
  <2>2. o \in Junk!Area /\ o \in first .. last /\ o - first + 1 = i
    BY <1>3, <1>4, <2>1, Sizes DEF Junk!Area
  <2>. QED
    BY <1>5, <2>1, <2>2
<1>13. Junk!DataAt(Offs(w), DataSz)' = [i \in 1 .. DataSz |-> e[i]]
  BY <1>12 DEF Junk!DataAt
<1>. QED
  BY <1>1, <1>7, <1>11, <1>13

LEMMA CopyHdrKeeps ==
  ASSUME LockProofs!Inv, Holding, FifoInv, NEW p \in Procs, CopyHdr(p)
  PROVE  FifoInv'
<1>1. /\ Write(p, "hdr", "skip_hdr")
      /\ pc[p] = "critical" /\ at[p] = "hdr"
      /\ UNCHANGED <<writeoffs, prev_writeoffs, readoffs, remainsz, count, queued, ret, elem>>
  BY DEF CopyHdr, Write
<1>2. PICK a \in 0 .. Junk!Capacity, w \in 0 .. Junk!Capacity :
        Shape(a, w) /\ Progress("hdr", elem[p], a, w)
  BY <1>1, DoingInside
<1>3. /\ w < Junk!Capacity /\ count < Junk!Capacity
      /\ prev_writeoffs = Offs(w) /\ writeoffs = Offs(w) /\ elem[p] \in Payloads
  BY <1>2 DEF Progress, WriteAt, SlotChosen, LinkDone, PushWrites
<1>4. Shape(a, w)' /\ hdrs'[Offs(w)] = [size |-> DataSz, nextoffs |-> 0]
  BY <1>2, <1>3, CopyHdrEffect
<1>5. Progress("skip_hdr", elem[p], a, w)'
  BY <1>1, <1>2, <1>4
     DEF Progress, ReadAt, WriteAt, Remains, PushWrites, PopWrites,
         SlotChosen, LinkDone, HdrDone, DataDone
<1>6. {"hdr", "skip_hdr"} \subseteq Places
  BY DEF Places, PushWrites
<1>. QED
  BY <1>1, <1>4, <1>5, <1>6, FifoStep

LEMMA SkipHdrKeeps ==
  ASSUME LockProofs!Inv, Holding, FifoInv, NEW p \in Procs, SkipHdr(p)
  PROVE  FifoInv'
<1>1. /\ Write(p, "skip_hdr", "data")
      /\ pc[p] = "critical" /\ at[p] = "skip_hdr"
      /\ writeoffs' = writeoffs + HdrSz
      /\ UNCHANGED <<prev_writeoffs, readoffs, remainsz, count, hdrs, data, queued, ret, elem>>
  BY DEF SkipHdr, Write
<1>2. PICK a \in 0 .. Junk!Capacity, w \in 0 .. Junk!Capacity :
        Shape(a, w) /\ Progress("skip_hdr", elem[p], a, w)
  BY <1>1, DoingInside
<1>3. Shape(a, w)'
  BY <1>1, <1>2, SameShape DEF Shape, Typed
<1>4. Progress("data", elem[p], a, w)'
  BY <1>1, <1>2
     DEF Progress, ReadAt, WriteAt, Remains, PushWrites, PopWrites,
         SlotChosen, LinkDone, HdrDone, DataDone
<1>5. {"skip_hdr", "data"} \subseteq Places
  BY DEF Places, PushWrites
<1>. QED
  BY <1>1, <1>3, <1>4, <1>5, FifoStep

LEMMA CopyDataKeeps ==
  ASSUME LockProofs!Inv, Holding, FifoInv, NEW p \in Procs, CopyData(p)
  PROVE  FifoInv'
<1>1. /\ Write(p, "data", "skip_data")
      /\ pc[p] = "critical" /\ at[p] = "data"
      /\ UNCHANGED <<writeoffs, prev_writeoffs, readoffs, remainsz, count, queued, ret, elem>>
  BY DEF CopyData, Write
<1>2. PICK a \in 0 .. Junk!Capacity, w \in 0 .. Junk!Capacity :
        Shape(a, w) /\ Progress("data", elem[p], a, w)
  BY <1>1, DoingInside
<1>3. PICK e : e = elem[p]
  OBVIOUS
<1>4. /\ w < Junk!Capacity /\ count < Junk!Capacity
      /\ prev_writeoffs = Offs(w) /\ writeoffs = Offs(w) + HdrSz /\ e \in Payloads
      /\ hdrs[Offs(w)] = [size |-> DataSz, nextoffs |-> 0]
  BY <1>2, <1>3 DEF Progress, WriteAt, SlotChosen, LinkDone, HdrDone, PushWrites
<1>5. /\ Shape(a, w)' /\ hdrs'[Offs(w)] = hdrs[Offs(w)]
      /\ Junk!DataAt(Offs(w), DataSz)' = e
  BY <1>2, <1>3, <1>4, CopyDataEffect
<1>6. Progress("skip_data", e, a, w)'
  BY <1>1, <1>2, <1>3, <1>4, <1>5
     DEF Progress, ReadAt, WriteAt, Remains, PushWrites, PopWrites,
         SlotChosen, LinkDone, HdrDone, DataDone
<1>7. {"data", "skip_data"} \subseteq Places
  BY DEF Places, PushWrites
<1>. QED
  BY <1>1, <1>3, <1>5, <1>6, <1>7, FifoStep

(* A step behind the data leaves the bytes of the new element alone. *)
LEMMA SkipDataKeeps ==
  ASSUME LockProofs!Inv, Holding, FifoInv, NEW p \in Procs, SkipData(p)
  PROVE  FifoInv'
<1>1. /\ Write(p, "skip_data", "remain")
      /\ pc[p] = "critical" /\ at[p] = "skip_data"
      /\ writeoffs' = writeoffs + Len(elem[p])
      /\ UNCHANGED <<prev_writeoffs, readoffs, remainsz, count, hdrs, data, queued, ret, elem>>
  BY DEF SkipData, Write
<1>2. PICK a \in 0 .. Junk!Capacity, w \in 0 .. Junk!Capacity :
        Shape(a, w) /\ Progress("skip_data", elem[p], a, w)
  BY <1>1, DoingInside
<1>3. PICK e : e = elem[p]
  OBVIOUS
<1>4. Len(e) = DataSz /\ writeoffs = Offs(w) + HdrSz
  BY <1>2, <1>3, PayloadSizes DEF Progress, WriteAt, PushWrites
<1>5. writeoffs' = Offs(w) + Junk!SlotSz
  <2>1. Offs(w) \in Nat
    BY SlotOrder, Sizes
  <2>. QED
    BY <1>1, <1>3, <1>4, <2>1, Sizes
<1>6. Shape(a, w)'
  BY <1>1, <1>2, SameShape DEF Shape, Typed
<1>7. Progress("remain", e, a, w)'
  BY <1>1, <1>2, <1>3, <1>5
     DEF Progress, ReadAt, WriteAt, Remains, PushWrites, PopWrites,
         SlotChosen, LinkDone, HdrDone, DataDone, Junk!DataAt
<1>8. {"skip_data", "remain"} \subseteq Places
  BY DEF Places, PushWrites
<1>. QED
  BY <1>1, <1>3, <1>6, <1>7, <1>8, FifoStep

LEMMA TakeRemainKeeps ==
  ASSUME LockProofs!Inv, Holding, FifoInv, NEW p \in Procs, TakeRemain(p)
  PROVE  FifoInv'
<1>1. /\ Write(p, "remain", "count")
      /\ pc[p] = "critical" /\ at[p] = "remain"
      /\ remainsz' = remainsz - Junk!ElemSz(elem[p])
      /\ UNCHANGED <<writeoffs, prev_writeoffs, readoffs, count, hdrs, data, queued, ret, elem>>
  BY DEF TakeRemain, Write
<1>2. PICK a \in 0 .. Junk!Capacity, w \in 0 .. Junk!Capacity :
        Shape(a, w) /\ Progress("remain", elem[p], a, w)
  BY <1>1, DoingInside
<1>3. PICK e : e = elem[p]
  OBVIOUS
<1>4. e \in Payloads /\ remainsz = Junk!AreaSz - count * Junk!SlotSz
  BY <1>2, <1>3 DEF Progress, Remains, PushWrites
<1>5. remainsz' = Junk!AreaSz - count * Junk!SlotSz - Junk!SlotSz
  BY <1>1, <1>3, <1>4, PayloadSizes, Sizes
<1>6. Shape(a, w)'
  BY <1>1, <1>2, SameShape DEF Shape, Typed
<1>7. Progress("count", e, a, w)'
  BY <1>1, <1>2, <1>3, <1>5
     DEF Progress, ReadAt, WriteAt, Remains, PushWrites, PopWrites,
         SlotChosen, LinkDone, HdrDone, DataDone, Junk!DataAt
<1>8. {"remain", "count"} \subseteq Places
  BY DEF Places, PushWrites
<1>. QED
  BY <1>1, <1>3, <1>6, <1>7, <1>8, FifoStep

(* The new element is the last of the queue, and the next slot is free. *)
LEMMA CountUpShape ==
  ASSUME NEW a \in 0 .. Junk!Capacity, NEW w \in 0 .. Junk!Capacity, Shape(a, w),
         w < Junk!Capacity, count < Junk!Capacity, prev_writeoffs = Offs(w),
         hdrs[Offs(w)] = [size |-> DataSz, nextoffs |-> 0],
         NEW e \in Payloads, Junk!DataAt(Offs(w), DataSz) = e,
         queued' = Append(queued, [offs |-> Offs(w), payload |-> e]),
         count' = count + 1,
         UNCHANGED <<prev_writeoffs, hdrs, data>>,
         ret' \in Junk!Results
  PROVE  Shape(a, w + 1)'
<1>1. /\ Ring(a, w) /\ Elements(a) /\ Links(w) /\ FrontLinked(w) /\ Typed
      /\ NewestLinked(w)
  BY LinkedBefore DEF Shape
<1>2. Ring(a, w + 1)'
  BY <1>1, Sizes DEF Ring
<1>3. Junk!ElemSlot(a, count + 1) = w
  BY <1>1, Sizes DEF Ring, Junk!ElemSlot, Junk!Wrap
<1>4. PICK new : new = [offs |-> Offs(w), payload |-> e]
  OBVIOUS
<1>5. /\ new \in [offs : Junk!Area, payload : Payloads]
      /\ new.offs = Offs(w) /\ new.payload = e
  BY <1>4, SlotBounds
<1>6. /\ queued' \in Seq([offs : Junk!Area, payload : Payloads])
      /\ Len(queued') = count + 1 /\ count \in Nat
      /\ \A i \in 1 .. count : queued'[i] = queued[i]
      /\ queued'[count + 1] = new
  <2>1. queued \in Seq([offs : Junk!Area, payload : Payloads]) /\ Len(queued) = count
    BY <1>1 DEF Elements
  <2>. QED
    BY <1>4, <1>5, <2>1, AppendProperties
<1>7. ASSUME NEW i \in 1 .. count + 1
      PROVE  i \in 1 .. count \/ i = count + 1
  BY <1>6
<1>8. Elements(a)'
  <2>1. ASSUME NEW i \in 1 .. count + 1
        PROVE  /\ queued'[i].offs = Offs(Junk!ElemSlot(a, i))
               /\ Junk!DataAt(queued'[i].offs, DataSz) = queued'[i].payload
    BY <1>1, <1>3, <1>5, <1>6, <1>7 DEF Elements
  <2>2. \A i : Junk!DataAt(queued[i].offs, DataSz)' = Junk!DataAt(queued'[i].offs, DataSz)
    BY DEF Junk!DataAt
  <2>. QED
    BY <1>6, <2>1, <2>2 DEF Elements
<1>9. Links(w + 1)'
  <2>1. ASSUME NEW i \in 1 .. count
        PROVE  /\ hdrs'[queued'[i].offs].size = DataSz
               /\ hdrs'[queued'[i].offs].nextoffs = queued'[i + 1].offs
    <3>1. queued'[i] = queued[i] /\ hdrs' = hdrs
      BY <1>6
    <3>2. CASE i = count
      BY <1>1, <1>5, <1>6, <3>1, <3>2 DEF Links, NewestLinked
    <3>3. CASE i # count
      <4>1. i < count /\ i + 1 \in 1 .. count
        BY <1>6, <3>3
      <4>. QED
        BY <1>1, <1>6, <3>1, <4>1 DEF Links, NextOf
    <3>. QED
      BY <3>2, <3>3
  <2>2. /\ hdrs'[queued'[count + 1].offs].size = DataSz
        /\ hdrs'[queued'[count + 1].offs].nextoffs = 0
    BY <1>5, <1>6
  <2>3. ASSUME NEW i \in 1 .. count + 1
        PROVE  /\ hdrs'[queued'[i].offs].size = DataSz
               /\ \/ i < count + 1 /\ hdrs'[queued'[i].offs].nextoffs = queued'[i + 1].offs
                  \/ i = count + 1 /\ hdrs'[queued'[i].offs].nextoffs = 0
    <3>1. CASE i \in 1 .. count
      <4>1. i < count + 1
        BY <1>6, <3>1
      <4>. QED
        BY <2>1, <3>1, <4>1
    <3>2. CASE i = count + 1
      BY <2>2, <3>2
    <3>. QED
      BY <1>7, <3>1, <3>2
  <2>4. ASSUME NEW i \in 1 .. count'
        PROVE  hdrs'[queued'[i].offs].nextoffs \in NextOf(i, w + 1)'
    <3>1. i \in 1 .. count + 1 /\ i \in Nat /\ ~(count + 1 < count + 1)
      BY <1>6
    <3>. QED
      BY <2>3, <3>1 DEF NextOf
  <2>. QED
    BY <2>3, <2>4 DEF Links
<1>10. PrevAt(w + 1)'
  <2>1. Pred(w + 1) = w
    BY DEF Pred
  <2>. QED
    BY <2>1 DEF PrevAt
<1>11. FrontLinked(w + 1)'
  <2>1. Offs(0) # Offs(1)
    BY SlotOrder
  <2>. QED
    BY <1>1, <2>1 DEF FrontLinked
<1>12. Typed'
  BY <1>1 DEF Typed
<1>. QED
  BY <1>2, <1>8, <1>9, <1>10, <1>11, <1>12 DEF Shape

LEMMA CountUpKeeps ==
  ASSUME LockProofs!Inv, Holding, FifoInv, NEW p \in Procs, CountUp(p)
  PROVE  FifoInv'
<1>1. /\ Write(p, "count", "ready")
      /\ pc[p] = "critical" /\ at[p] = "count"
      /\ count' = count + 1
      /\ queued' = Append(queued, [offs |-> prev_writeoffs, payload |-> elem[p]])
      /\ ret' = Junk!Result("push", TRUE, <<>>)
      /\ elem' = [elem EXCEPT ![p] = <<>>]
      /\ UNCHANGED <<writeoffs, prev_writeoffs, readoffs, remainsz, hdrs, data>>
  BY DEF CountUp, Write
<1>2. PICK a \in 0 .. Junk!Capacity, w \in 0 .. Junk!Capacity :
        Shape(a, w) /\ Progress("count", elem[p], a, w)
  BY <1>1, DoingInside
<1>3. PICK e : e = elem[p]
  OBVIOUS
<1>4. /\ w < Junk!Capacity /\ count < Junk!Capacity /\ e \in Payloads
      /\ prev_writeoffs = Offs(w)
      /\ hdrs[Offs(w)] = [size |-> DataSz, nextoffs |-> 0]
      /\ Junk!DataAt(Offs(w), DataSz) = e
      /\ readoffs = Offs(a)
      /\ writeoffs = Offs(w) + Junk!SlotSz
      /\ remainsz = Junk!AreaSz - count * Junk!SlotSz - Junk!SlotSz
  BY <1>2, <1>3
     DEF Progress, ReadAt, WriteAt, Remains, PushWrites, PopWrites, SlotChosen,
         LinkDone, HdrDone, DataDone
<1>5. ret' \in Junk!Results
  BY <1>1, EmptySeq DEF Junk!Result, Junk!Results
<1>6. Shape(a, w + 1)'
  BY <1>1, <1>2, <1>3, <1>4, <1>5, CountUpShape
<1>7. w + 1 \in 0 .. Junk!Capacity
  BY <1>4, Sizes
<1>8. writeoffs = Offs(w + 1)
  BY <1>4, SlotOrder, Sizes
<1>9. remainsz = Junk!AreaSz - (count + 1) * Junk!SlotSz
  BY <1>2, <1>4, RoomForOne DEF Shape, Ring
<1>10. Progress("ready", <<>>, a, w + 1)'
  BY <1>1, <1>4, <1>8, <1>9
     DEF Progress, ReadAt, WriteAt, Remains, PushWrites, PopWrites,
         SlotChosen, LinkDone, HdrDone, DataDone
<1>11. {"count", "ready"} \subseteq Places /\ elem'[p] = <<>>
  BY <1>1 DEF Places, PushWrites, Holding
<1>. QED
  BY <1>1, <1>6, <1>7, <1>10, <1>11, FifoStep

-----------------------------------------------------------------------------
(***************************************************************************)
(* The steps of a peek and a pop.                                          *)
(***************************************************************************)
(* The read position is at the oldest element, whose header is readable.   *)
LEMMA HeadElem ==
  ASSUME NEW a \in 0 .. Junk!Capacity, NEW w \in 0 .. Junk!Capacity, Shape(a, w),
         count > 0
  PROVE  /\ queued # <<>> /\ Head(queued) = queued[1] /\ 1 \in 1 .. count
         /\ a \in 0 .. Junk!Capacity - 1
         /\ queued[1].offs = Offs(a) /\ queued[1].payload \in Payloads
         /\ Junk!Readings(Offs(a)) = {hdrs[Offs(a)]}
         /\ hdrs[Offs(a)] \in Junk!Hdr
         /\ hdrs[Offs(a)].size = DataSz
         /\ hdrs[Offs(a)].nextoffs \in NextOf(1, w)
         /\ Junk!DataAt(Offs(a), DataSz) = queued[1].payload
<1>1. /\ Ring(a, w) /\ Elements(a) /\ Links(w) /\ Typed
      /\ queued \in Seq([offs : Junk!Area, payload : Payloads])
      /\ Len(queued) = count
  BY DEF Shape, Elements
<1>2. 1 \in 1 .. count /\ a \in 0 .. Junk!Capacity - 1
  BY <1>1, Sizes DEF Ring
<1>3. Junk!ElemSlot(a, 1) = a
  BY <1>2, Sizes DEF Junk!ElemSlot, Junk!Wrap
<1>4. queued # <<>> /\ Head(queued) = queued[1] /\ queued[1].payload \in Payloads
  <2>1. queued # <<>>
    BY <1>1, <1>2
  <2>2. queued[1] \in [offs : Junk!Area, payload : Payloads]
    BY <1>1, <1>2, ElementOfSeq
  <2>. QED
    BY <1>1, <2>1, <2>2
<1>5. /\ queued[1].offs = Offs(a)
      /\ Junk!DataAt(Offs(a), DataSz) = queued[1].payload
      /\ hdrs[Offs(a)].size = DataSz
      /\ hdrs[Offs(a)].nextoffs \in NextOf(1, w)
  BY <1>1, <1>2, <1>3 DEF Elements, Links
<1>6. hdrs[Offs(a)] \in Junk!Hdr
  BY <1>1, <1>2 DEF Typed
<1>7. Offs(a) \in Junk!Area
  BY <1>2, SlotBounds, Sizes
<1>8. Junk!Readings(Offs(a)) = {hdrs[Offs(a)]}
  BY <1>6, <1>7, JunkAssumption DEF Junk!Readings, Junk!PayloadAssumption
<1>. QED
  BY <1>2, <1>4, <1>5, <1>6, <1>8

(***************************************************************************)
(* wv_shm_pop_elem_data finds where to read on: the oldest element has a   *)
(* successor, is before the write position, or the header at the front of  *)
(* the area has a successor.                                               *)
(***************************************************************************)
LEMMA HeadSuccessor ==
  ASSUME NEW a \in 0 .. Junk!Capacity, NEW w \in 0 .. Junk!Capacity, Shape(a, w),
         count > 0, readoffs = Offs(a), writeoffs = Offs(w)
  PROVE  /\ Junk!HasSuccessor(hdrs[Offs(a)])
         /\ Junk!NextReadPos(hdrs[Offs(a)]) = Offs(NextSlot(a, w))
<1>1. /\ Ring(a, w) /\ Elements(a) /\ PrevAt(w) /\ FrontLinked(w)
      /\ a \in 0 .. Junk!Capacity - 1
      /\ queued[1].offs = Offs(a)
      /\ hdrs[Offs(a)].nextoffs \in NextOf(1, w)
  BY HeadElem DEF Shape
<1>2. \A k \in 0 .. Junk!Capacity : Offs(k) # 0 /\ Offs(k) \in Nat
  BY SlotOrder, Sizes
<1>3. CASE hdrs[Offs(a)].nextoffs # 0
  <2>1. hdrs[Offs(a)].nextoffs = Offs(NextSlot(a, w))
    <3>1. CASE count = 1
      BY <1>1, <1>3, <3>1 DEF NextOf, NextSlot
    <3>2. CASE count # 1
      <4>1. 1 < count /\ 2 \in 1 .. count /\ a + 2 - 1 = a + 1
        BY <1>1, <3>2 DEF Ring
      <4>2. queued[2].offs = Offs(Junk!Wrap(a + 1))
        BY <1>1, <4>1 DEF Elements, Junk!ElemSlot
      <4>. QED
        BY <1>1, <3>2, <4>1, <4>2 DEF NextOf, NextSlot
    <3>. QED
      BY <3>1, <3>2
  <2>. QED
    BY <1>3, <2>1 DEF Junk!HasSuccessor, Junk!NextReadPos
<1>4. CASE hdrs[Offs(a)].nextoffs = 0
  <2>1. count = 1
    <3>1. SUFFICES ASSUME count # 1 PROVE FALSE
      OBVIOUS
    <3>2. 1 < count /\ 2 \in 1 .. count /\ 2 \in 1 .. Junk!Capacity
      BY <1>1, <3>1, Sizes DEF Ring
    <3>3. Junk!ElemSlot(a, 2) \in 0 .. Junk!Capacity - 1
      BY <1>1, <3>2, ElemSlots
    <3>4. queued[2].offs = Offs(Junk!ElemSlot(a, 2))
      BY <1>1, <3>2 DEF Elements
    <3>5. queued[2].offs # 0
      BY <1>2, <3>3, <3>4, Sizes
    <3>. QED
      BY <1>1, <1>4, <3>2, <3>5 DEF NextOf
  <2>2. NextSlot(a, w) = w
    BY <2>1 DEF NextSlot
  <2>3. CASE w = a + 1
    <3>1. Offs(a) < Offs(w) /\ Offs(a) \in Nat /\ Offs(w) \in Nat
      BY <1>1, <2>3, SlotOrder, Sizes
    <3>2. readoffs < writeoffs /\ ~(readoffs >= writeoffs)
      BY <3>1
    <3>. QED
      BY <1>4, <2>2, <3>2 DEF Junk!HasSuccessor, Junk!NextReadPos
  <2>4. CASE w # a + 1
    <3>1. w = 0 /\ 2 <= a /\ 2 <= Junk!Capacity - 1
      BY <1>1, <2>1, <2>4, Sizes DEF Ring
    <3>2. Offs(0) = quu_startoffs /\ Offs(0) <= Offs(a) /\ Offs(a) \in Nat
      BY <1>1, <3>1, SlotOrder, Sizes
    <3>3. readoffs >= writeoffs
      BY <3>1, <3>2, Sizes
    <3>4. prev_writeoffs # Offs(0)
      <4>1. SUFFICES ASSUME prev_writeoffs = Offs(0) PROVE FALSE
        OBVIOUS
      <4>2. ~NewestLinked(w)
        BY <1>1, <1>2, <1>4, <2>1, <3>1 DEF NewestLinked
      <4>3. Offs(Pred(w)) # Offs(0)
        BY <3>1, SlotsDiffer, Sizes DEF Pred
      <4>. QED
        BY <1>1, <2>1, <4>1, <4>2, <4>3 DEF PrevAt
    <3>5. hdrs[quu_startoffs].nextoffs # 0
      BY <1>1, <3>1, <3>4 DEF FrontLinked
    <3>. QED
      BY <1>4, <2>2, <3>1, <3>2, <3>3, <3>5 DEF Junk!HasSuccessor, Junk!NextReadPos
  <2>. QED
    BY <2>3, <2>4
<1>. QED
  BY <1>3, <1>4

(* The oldest element is gone, the next one is the oldest. *)
LEMMA CountDownShape ==
  ASSUME NEW a \in 0 .. Junk!Capacity, NEW w \in 0 .. Junk!Capacity, Shape(a, w),
         count > 0,
         NEW b, b = NextSlot(a, w),
         queued' = Tail(queued), count' = count - 1,
         UNCHANGED <<prev_writeoffs, hdrs, data>>,
         ret' \in Junk!Results
  PROVE  b \in 0 .. Junk!Capacity /\ Shape(b, w)'
<1>1. /\ Ring(a, w) /\ Elements(a) /\ Links(w) /\ PrevAt(w) /\ FrontLinked(w) /\ Typed
  BY DEF Shape
<1>2. b \in 0 .. Junk!Capacity /\ Ring(b, w)'
  BY <1>1, Sizes DEF Ring, NextSlot, Junk!Wrap
<1>3. /\ queued' \in Seq([offs : Junk!Area, payload : Payloads])
      /\ Len(queued') = count - 1 /\ count - 1 \in Nat /\ count \in Nat
      /\ \A i \in 1 .. count - 1 : queued'[i] = queued[i + 1]
  <2>1. /\ queued \in Seq([offs : Junk!Area, payload : Payloads])
        /\ Len(queued) = count /\ count \in Nat \ {0}
    BY <1>1 DEF Elements, Ring
  <2>2. queued # <<>>
    BY <2>1
  <2>. QED
    BY <2>1, <2>2, HeadTailProperties
<1>4. ASSUME NEW i \in 1 .. count - 1
      PROVE  /\ i + 1 \in 1 .. count
             /\ Junk!ElemSlot(b, i) = Junk!ElemSlot(a, i + 1)
  BY <1>1, Sizes DEF Ring, NextSlot, Junk!ElemSlot, Junk!Wrap
<1>5. Elements(b)'
  <2>1. ASSUME NEW i \in 1 .. count - 1
        PROVE  /\ queued'[i].offs = Offs(Junk!ElemSlot(b, i))
               /\ Junk!DataAt(queued'[i].offs, DataSz) = queued'[i].payload
    BY <1>1, <1>3, <1>4 DEF Elements
  <2>2. \A i : Junk!DataAt(queued[i].offs, DataSz)' = Junk!DataAt(queued'[i].offs, DataSz)
    BY DEF Junk!DataAt
  <2>. QED
    BY <1>3, <2>1, <2>2 DEF Elements
<1>6. Links(w)'
  <2>1. ASSUME NEW i \in 1 .. count'
        PROVE  /\ hdrs'[queued'[i].offs].size = DataSz
               /\ hdrs'[queued'[i].offs].nextoffs \in NextOf(i, w)'
    <3>1. /\ i \in 1 .. count - 1 /\ i + 1 \in 1 .. count
          /\ queued'[i] = queued[i + 1]
          /\ hdrs[queued[i + 1].offs].size = DataSz
          /\ hdrs[queued[i + 1].offs].nextoffs \in NextOf(i + 1, w)
      BY <1>1, <1>3, <1>4 DEF Links
    <3>2. CASE i < count - 1
      <4>1. i + 1 \in 1 .. count - 1 /\ i + 1 < count
        BY <1>3, <3>1, <3>2
      <4>2. queued'[i + 1] = queued[i + 1 + 1]
        BY <1>3, <4>1
      <4>. QED
        BY <3>1, <3>2, <4>1, <4>2 DEF NextOf
    <3>3. CASE ~(i < count - 1)
      <4>1. ~(i + 1 < count)
        BY <1>3, <3>1, <3>3
      <4>. QED
        BY <3>1, <3>3, <4>1 DEF NextOf
    <3>. QED
      BY <3>2, <3>3
  <2>. QED
    BY <2>1 DEF Links
<1>7. PrevAt(w)'
  <2>1. NewestLinked(w) => NewestLinked(w)'
    <3>1. count - 1 > 0 => queued'[count - 1] = queued[count]
      <4>1. count - 1 > 0 => count - 1 \in 1 .. count - 1 /\ count - 1 + 1 = count
        BY <1>3
      <4>. QED
        BY <1>3, <4>1
    <3>. QED
      BY <3>1 DEF NewestLinked
  <2>. QED
    BY <1>1, <2>1 DEF PrevAt
<1>8. FrontLinked(w)'
  <2>1. count' > 0 => count > 0
    OBVIOUS
  <2>. QED
    BY <1>1, <2>1 DEF FrontLinked
<1>9. Typed'
  BY <1>1 DEF Typed
<1>. QED
  BY <1>2, <1>5, <1>6, <1>7, <1>8, <1>9 DEF Shape

LEMMA PeekElemHdrKeeps ==
  ASSUME LockProofs!Inv, Holding, FifoInv, NEW p \in Procs, PeekElemHdr(p)
  PROVE  FifoInv'
<1>1. PICK next : next = IF count > 0 THEN "peeked" ELSE "ready"
  OBVIOUS
<1>2. /\ Write(p, "ready", next)
      /\ pc[p] = "critical" /\ at[p] = "ready"
      /\ ret' = Junk!Result("peek_hdr", count > 0, <<>>)
      /\ UNCHANGED <<writeoffs, prev_writeoffs, readoffs, remainsz, count, hdrs, data, queued, elem>>
  BY <1>1 DEF PeekElemHdr, Write
<1>3. PICK a \in 0 .. Junk!Capacity, w \in 0 .. Junk!Capacity :
        Shape(a, w) /\ Progress("ready", elem[p], a, w)
  BY <1>2, DoingInside
<1>4. ret' \in Junk!Results
  BY <1>2, EmptySeq DEF Junk!Result, Junk!Results
<1>5. Shape(a, w)'
  BY <1>2, <1>3, <1>4, SameShape
<1>6. Progress(next, elem[p], a, w)'
  BY <1>1, <1>2, <1>3
     DEF Progress, ReadAt, WriteAt, Remains, PushWrites, PopWrites,
         SlotChosen, LinkDone, HdrDone, DataDone
<1>7. next \in Places /\ "ready" \in Places /\ elem[p] = <<>>
  BY <1>1, <1>3 DEF Places, Progress
<1>. QED
  BY <1>2, <1>5, <1>6, <1>7, FifoStep

(* What a process that has peeked finds at the read position. *)
LEMMA PeekedHead ==
  ASSUME LockProofs!Inv, Holding, FifoInv, NEW p \in Procs,
         pc[p] = "critical", NEW place \in {"peeked", "read"}, at[p] = place
  PROVE  \E a, w \in 0 .. Junk!Capacity :
           /\ Shape(a, w) /\ Progress(place, elem[p], a, w)
           /\ count > 0
           /\ Junk!Readings(readoffs) = {hdrs[readoffs]}
           /\ hdrs[readoffs].size = DataSz
           /\ Junk!DataAt(readoffs, DataSz) = queued[1].payload
           /\ Junk!HasSuccessor(hdrs[readoffs])
           /\ Junk!NextReadPos(hdrs[readoffs]) = Offs(NextSlot(a, w))
<1>1. PICK a \in 0 .. Junk!Capacity, w \in 0 .. Junk!Capacity :
        Shape(a, w) /\ Progress(place, elem[p], a, w)
  BY DoingInside
<1>2. count > 0 /\ readoffs = Offs(a) /\ writeoffs = Offs(w)
  BY <1>1 DEF Progress, ReadAt, WriteAt, PopWrites
<1>3. /\ Junk!Readings(readoffs) = {hdrs[readoffs]}
      /\ hdrs[readoffs].size = DataSz
      /\ Junk!DataAt(readoffs, DataSz) = queued[1].payload
  BY <1>1, <1>2, HeadElem
<1>4. /\ Junk!HasSuccessor(hdrs[readoffs])
      /\ Junk!NextReadPos(hdrs[readoffs]) = Offs(NextSlot(a, w))
  BY <1>1, <1>2, HeadSuccessor
<1>. QED
  BY <1>1, <1>2, <1>3, <1>4

LEMMA BeginPopKeeps ==
  ASSUME LockProofs!Inv, Holding, FifoInv, NEW p \in Procs, BeginPop(p)
  PROVE  FifoInv'
<1>1. /\ Write(p, "peeked", "read")
      /\ pc[p] = "critical" /\ at[p] = "peeked"
      /\ \E cur \in Junk!Readings(readoffs) :
           elem' = [elem EXCEPT ![p] = Junk!DataAt(readoffs, cur.size)]
      /\ UNCHANGED junkVars
  BY DEF BeginPop, Write
<1>2. PICK a \in 0 .. Junk!Capacity, w \in 0 .. Junk!Capacity :
        /\ Shape(a, w) /\ Progress("peeked", elem[p], a, w)
        /\ count > 0
        /\ Junk!Readings(readoffs) = {hdrs[readoffs]}
        /\ hdrs[readoffs].size = DataSz
        /\ Junk!DataAt(readoffs, DataSz) = queued[1].payload
  BY <1>1, PeekedHead
<1>3. PICK e : e = queued[1].payload
  OBVIOUS
<1>4. elem' = [elem EXCEPT ![p] = e] /\ elem'[p] = e
  BY <1>1, <1>2, <1>3 DEF Holding
<1>5. Shape(a, w)'
  BY <1>1, <1>2, SameShape DEF junkVars, Shape, Typed
<1>6. Progress("read", e, a, w)'
  BY <1>1, <1>2, <1>3
     DEF junkVars, Progress, ReadAt, WriteAt, Remains, PushWrites, PopWrites,
         SlotChosen, LinkDone, HdrDone, DataDone
<1>7. {"peeked", "read"} \subseteq Places
  BY DEF Places, PopWrites
<1>. QED
  BY <1>1, <1>4, <1>5, <1>6, <1>7, FifoStep

(* A pop with the header just peeked does not fail. *)
LEMMA NoPopNull ==
  ASSUME LockProofs!Inv, Holding, FifoInv, NEW p \in Procs
  PROVE  ~PopNull(p)
<1>1. SUFFICES ASSUME PopNull(p) PROVE FALSE
  OBVIOUS
<1>2. /\ pc[p] = "critical" /\ at[p] = "peeked"
      /\ \E cur \in Junk!Readings(readoffs) : ~Junk!HasSuccessor(cur)
  BY <1>1 DEF PopNull, Write
<1>. QED
  BY <1>2, PeekedHead

LEMMA MoveReadOnKeeps ==
  ASSUME LockProofs!Inv, Holding, FifoInv, NEW p \in Procs, MoveReadOn(p)
  PROVE  FifoInv'
<1>1. /\ Write(p, "read", "give_remain")
      /\ pc[p] = "critical" /\ at[p] = "read"
      /\ \E cur \in Junk!Readings(readoffs) : readoffs' = Junk!NextReadPos(cur)
      /\ UNCHANGED <<writeoffs, prev_writeoffs, remainsz, count, hdrs, data, queued, ret, elem>>
  BY DEF MoveReadOn, Write
<1>2. PICK a \in 0 .. Junk!Capacity, w \in 0 .. Junk!Capacity :
        /\ Shape(a, w) /\ Progress("read", elem[p], a, w)
        /\ Junk!Readings(readoffs) = {hdrs[readoffs]}
        /\ Junk!NextReadPos(hdrs[readoffs]) = Offs(NextSlot(a, w))
  BY <1>1, PeekedHead
<1>3. readoffs' = Offs(NextSlot(a, w))
  BY <1>1, <1>2
<1>4. Shape(a, w)'
  BY <1>1, <1>2, SameShape DEF Shape, Typed
<1>5. Progress("give_remain", elem[p], a, w)'
  BY <1>1, <1>2, <1>3
     DEF Progress, ReadAt, NextSlot, WriteAt, Remains, PushWrites, PopWrites,
         SlotChosen, LinkDone, HdrDone, DataDone
<1>6. {"read", "give_remain"} \subseteq Places
  BY DEF Places, PopWrites
<1>. QED
  BY <1>1, <1>4, <1>5, <1>6, FifoStep

LEMMA GiveRemainKeeps ==
  ASSUME LockProofs!Inv, Holding, FifoInv, NEW p \in Procs, GiveRemain(p)
  PROVE  FifoInv'
<1>1. /\ Write(p, "give_remain", "count_down")
      /\ pc[p] = "critical" /\ at[p] = "give_remain"
      /\ remainsz' = remainsz + Junk!ElemSz(elem[p])
      /\ UNCHANGED <<writeoffs, prev_writeoffs, readoffs, count, hdrs, data, queued, ret, elem>>
  BY DEF GiveRemain, Write
<1>2. PICK a \in 0 .. Junk!Capacity, w \in 0 .. Junk!Capacity :
        Shape(a, w) /\ Progress("give_remain", elem[p], a, w)
  BY <1>1, DoingInside
<1>3. /\ count > 0 /\ elem[p] = queued[1].payload
      /\ remainsz = Junk!AreaSz - count * Junk!SlotSz
  BY <1>2 DEF Progress, Remains, PopWrites
<1>4. elem[p] \in Payloads
  BY <1>2, <1>3, HeadElem
<1>5. remainsz' = Junk!AreaSz - count * Junk!SlotSz + Junk!SlotSz
  BY <1>1, <1>3, <1>4, PayloadSizes, Sizes
<1>6. Shape(a, w)'
  BY <1>1, <1>2, SameShape DEF Shape, Typed
<1>7. Progress("count_down", elem[p], a, w)'
  BY <1>1, <1>2, <1>5
     DEF Progress, ReadAt, NextSlot, WriteAt, Remains, PushWrites, PopWrites,
         SlotChosen, LinkDone, HdrDone, DataDone
<1>8. {"give_remain", "count_down"} \subseteq Places
  BY DEF Places, PopWrites
<1>. QED
  BY <1>1, <1>6, <1>7, <1>8, FifoStep

LEMMA CountDownKeeps ==
  ASSUME LockProofs!Inv, Holding, FifoInv, NEW p \in Procs, CountDown(p)
  PROVE  FifoInv'
<1>1. /\ Write(p, "count_down", "ready")
      /\ pc[p] = "critical" /\ at[p] = "count_down"
      /\ count' = count - 1
      /\ queued' = IF queued = <<>> THEN <<>> ELSE Tail(queued)
      /\ ret' = Junk!Result("pop", TRUE, elem[p])
      /\ elem' = [elem EXCEPT ![p] = <<>>]
      /\ UNCHANGED <<writeoffs, prev_writeoffs, readoffs, remainsz, hdrs, data>>
  BY DEF CountDown, Write
<1>2. PICK a \in 0 .. Junk!Capacity, w \in 0 .. Junk!Capacity :
        Shape(a, w) /\ Progress("count_down", elem[p], a, w)
  BY <1>1, DoingInside
<1>3. PICK b : b = NextSlot(a, w)
  OBVIOUS
<1>4. /\ count > 0 /\ elem[p] = queued[1].payload
      /\ readoffs = Offs(b) /\ writeoffs = Offs(w)
      /\ remainsz = Junk!AreaSz - count * Junk!SlotSz + Junk!SlotSz
  BY <1>2, <1>3 DEF Progress, ReadAt, WriteAt, Remains, PopWrites
<1>5. elem[p] \in Seq(Bytes) /\ queued' = Tail(queued)
  BY <1>1, <1>2, <1>4, HeadElem, JunkAssumption DEF Junk!PayloadAssumption
<1>6. ret' \in Junk!Results
  BY <1>1, <1>5 DEF Junk!Result, Junk!Results
<1>7. b \in 0 .. Junk!Capacity /\ Shape(b, w)'
  BY <1>1, <1>2, <1>3, <1>4, <1>5, <1>6, CountDownShape
<1>8. remainsz = Junk!AreaSz - (count - 1) * Junk!SlotSz
  BY <1>2, <1>4, RoomForOne DEF Shape, Ring
<1>9. Progress("ready", <<>>, b, w)'
  BY <1>1, <1>4, <1>8
     DEF Progress, ReadAt, WriteAt, Remains, PushWrites, PopWrites,
         SlotChosen, LinkDone, HdrDone, DataDone
<1>10. {"count_down", "ready"} \subseteq Places /\ elem'[p] = <<>>
  BY <1>1 DEF Places, PopWrites, Holding
<1>. QED
  BY <1>1, <1>7, <1>9, <1>10, FifoStep

-----------------------------------------------------------------------------
(***************************************************************************)
(* The steps between the writes: a process takes or gives the semaphore,   *)
(* or dies in front of a harmless write.                                   *)
(***************************************************************************)
LEMMA SameDoing ==
  ASSUME NEW place, NEW e, Doing(place, e), UNCHANGED junkVars
  PROVE  Doing(place, e)'
<1>1. PICK a \in 0 .. Junk!Capacity, w \in 0 .. Junk!Capacity :
        Shape(a, w) /\ Progress(place, e, a, w)
  BY DEF Doing
<1>2. /\ UNCHANGED <<prev_writeoffs, count, hdrs, data, queued>>
      /\ UNCHANGED <<writeoffs, readoffs, remainsz>>
      /\ ret' \in Junk!Results
  BY <1>1 DEF junkVars, Shape, Typed
<1>3. Shape(a, w)'
  BY <1>1, <1>2, SameShape
<1>4. Progress(place, e, a, w)'
  BY <1>1, <1>2
     DEF Progress, ReadAt, NextSlot, WriteAt, Remains, NewestLinked, Junk!DataAt
<1>. QED
  BY <1>3, <1>4 DEF Doing

LEMMA SameFifo ==
  ASSUME FifoInv, UNCHANGED <<junkVars, at, elem>>
  PROVE  FifoInv'
<1>1. ASSUME NEW q \in Procs, at'[q] # "ready"
      PROVE  Doing(at[q], elem[q])'
  <2>1. PICK place, e : place = at[q] /\ e = elem[q] /\ place = at'[q] /\ e = elem'[q]
    OBVIOUS
  <2>2. Doing(place, e)
    BY <1>1, <2>1 DEF FifoInv
  <2>3. Doing(place, e)'
    BY <2>2, SameDoing
  <2>. QED
    BY <2>1, <2>3
<1>2. ASSUME \A q \in Procs : at'[q] = "ready"
      PROVE  Doing("ready", <<>>)'
  BY <1>2, SameDoing DEF FifoInv
<1>. QED
  BY <1>1, <1>2 DEF FifoInv

(* In front of a harmless write nothing of the call shows. *)
LEMMA HarmlessDoing ==
  ASSUME NEW place \in HarmlessPoints, NEW e, Doing(place, e)
  PROVE  Doing("ready", <<>>)
<1>1. PICK a \in 0 .. Junk!Capacity, w \in 0 .. Junk!Capacity :
        Shape(a, w) /\ Progress(place, e, a, w)
  BY DEF Doing
<1>2. Progress("ready", <<>>, a, w)
  BY <1>1
     DEF HarmlessPoints, Progress, ReadAt, WriteAt, Remains, PushWrites, PopWrites,
         SlotChosen, LinkDone, HdrDone, DataDone
<1>. QED
  BY <1>1, <1>2 DEF Doing

LEMMA DieKeeps ==
  ASSUME LockProofs!Inv, Holding, FifoInv, NEW p \in Procs, Die(p),
         at[p] \in HarmlessPoints
  PROVE  FifoInv'
<1>1. /\ UNCHANGED junkVars
      /\ at'[p] = "ready" /\ elem'[p] = <<>>
      /\ \A q \in Procs \ {p} : at'[q] = at[q] /\ elem'[q] = elem[q]
  BY DieStep
<1>2. \A q \in Procs : at'[q] = "ready" => elem'[q] = <<>>
  BY <1>1 DEF FifoInv
<1>3. ASSUME NEW q \in Procs, at'[q] # "ready"
      PROVE  Doing(at[q], elem[q])'
  <2>1. PICK place, e : place = at[q] /\ e = elem[q] /\ place = at'[q] /\ e = elem'[q]
    BY <1>1, <1>3
  <2>2. Doing(place, e)
    BY <1>3, <2>1 DEF FifoInv
  <2>3. Doing(place, e)'
    BY <1>1, <2>2, SameDoing
  <2>. QED
    BY <2>1, <2>3
<1>4. ASSUME \A q \in Procs : at'[q] = "ready"
      PROVE  Doing("ready", <<>>)'
  <2>1. Doing("ready", <<>>)
    <3>1. CASE at[p] = "ready"
      <4>1. \A q \in Procs : at[q] = "ready"
        BY <1>1, <1>4, <3>1
      <4>. QED
        BY <4>1 DEF FifoInv
    <3>2. CASE at[p] # "ready"
      <4>1. Doing(at[p], elem[p])
        BY <3>2 DEF FifoInv
      <4>. QED
        BY <4>1, HarmlessDoing
    <3>. QED
      BY <3>1, <3>2
  <2>. QED
    BY <1>1, <2>1, SameDoing
<1>. QED
  BY <1>2, <1>3, <1>4 DEF FifoInv

-----------------------------------------------------------------------------
(***************************************************************************)
(* The invariant of every behaviour, up to the first death that does harm. *)
(***************************************************************************)
LEMMA FifoInit == Init => FifoInv
<1>. SUFFICES ASSUME Init PROVE FifoInv
  OBVIOUS
<1>1. /\ at = [p \in Procs |-> "ready"]
      /\ elem = [p \in Procs |-> <<>>]
      /\ hdrs = [o \in Junk!Area |-> Junk!ZeroHdr]
      /\ data = [o \in Junk!Area |-> NoByte]
      /\ writeoffs = quu_startoffs /\ readoffs = quu_startoffs
      /\ prev_writeoffs = 0 /\ remainsz = Junk!AreaSz
      /\ count = 0 /\ queued = <<>>
      /\ ret = Junk!Result("none", TRUE, <<>>)
  BY DEF Init, Junk!Init
<1>2. Junk!ZeroHdr \in Junk!Hdr
  BY DEF Junk!ZeroHdr, Junk!Hdr
<1>3. Ring(0, 0)
  BY <1>1, Sizes DEF Ring
<1>4. Elements(0)
  <2>1. <<>> \in Seq([offs : Junk!Area, payload : Payloads]) /\ Len(<<>>) = 0
    BY EmptySeq
  <2>. QED
    BY <1>1, <2>1 DEF Elements
<1>5. Links(0) /\ PrevAt(0) /\ FrontLinked(0)
  BY <1>1 DEF Links, PrevAt, FrontLinked
<1>6. Typed
  <2>1. ret \in Junk!Results
    BY <1>1, EmptySeq DEF Junk!Result, Junk!Results
  <2>2. ASSUME NEW k \in 0 .. Junk!Capacity - 1 PROVE hdrs[Offs(k)] \in Junk!Hdr
    BY <1>1, <1>2, SlotBounds, Sizes
  <2>. QED
    BY <1>1, <1>2, <2>1, <2>2 DEF Typed
<1>7. Progress("ready", <<>>, 0, 0)
  <2>1. Offs(0) = quu_startoffs
    BY SlotOrder
  <2>2. Junk!AreaSz - count * Junk!SlotSz = Junk!AreaSz
    BY <1>1, Sizes
  <2>. QED
    BY <1>1, <2>1, <2>2
       DEF Progress, ReadAt, WriteAt, Remains, PushWrites, PopWrites,
           SlotChosen, LinkDone, HdrDone, DataDone
<1>8. Doing("ready", <<>>)
  BY <1>3, <1>4, <1>5, <1>6, <1>7, Sizes DEF Doing, Shape
<1>. QED
  BY <1>1, <1>8 DEF FifoInv

LEMMA FifoPush ==
  ASSUME LockProofs!Inv, Holding, FifoInv, NEW p \in Procs, Push(p)
  PROVE  FifoInv'
BY BeginPushKeeps, PushRefusedKeeps, MoveReadKeeps, MoveWriteKeeps, LinkKeeps,
   SetPrevKeeps, CopyHdrKeeps, SkipHdrKeeps, CopyDataKeeps, SkipDataKeeps,
   TakeRemainKeeps, CountUpKeeps
   DEF Push

LEMMA FifoPop ==
  ASSUME LockProofs!Inv, Holding, FifoInv, NEW p \in Procs, Pop(p)
  PROVE  FifoInv'
BY PeekElemHdrKeeps, BeginPopKeeps, NoPopNull, MoveReadOnKeeps, GiveRemainKeeps,
   CountDownKeeps
   DEF Pop

SharedInv ==
  /\ Inside
  /\ harmed \in Nat
  /\ harmed = 0 => FifoInv

LEMMA SharedNext ==
  LockProofs!Inv /\ SharedInv /\ [Next]_vars => SharedInv'
<1>. SUFFICES ASSUME LockProofs!Inv, SharedInv, [Next]_vars
              PROVE  SharedInv'
  OBVIOUS
<1>1. Inside' /\ Holding
  BY InsideNext DEF SharedInv, Inside
<1>2. CASE Next
  <2>1. PICK p \in Procs : UseLock(p) \/ Push(p) \/ Pop(p) \/ Die(p)
    BY <1>2 DEF Next
  <2>2. CASE UseLock(p)
    <3>1. UNCHANGED <<junkVars, at, elem, harmed>>
      BY <1>1, <2>2, LockStep
    <3>. QED
      BY <1>1, <3>1, SameFifo DEF SharedInv
  <2>3. CASE Push(p) \/ Pop(p)
    <3>1. harmed' = harmed
      BY <2>3
         DEF Push, Pop, Write, BeginPush, PushRefused, MoveRead, MoveWrite, Link, SetPrev,
             CopyHdr, SkipHdr, CopyData, SkipData, TakeRemain, CountUp,
             PeekElemHdr, BeginPop, PopNull, MoveReadOn, GiveRemain, CountDown
    <3>2. harmed = 0 => FifoInv'
      BY <1>1, <2>3, FifoPush, FifoPop DEF SharedInv
    <3>. QED
      BY <1>1, <3>1, <3>2 DEF SharedInv
  <2>4. CASE Die(p)
    <3>1. CASE at[p] \in HarmlessPoints
      <4>1. harmed' = harmed
        BY <2>4, <3>1 DEF Die
      <4>. QED
        BY <1>1, <2>4, <3>1, <4>1, DieKeeps DEF SharedInv
    <3>2. CASE at[p] \notin HarmlessPoints
      <4>1. harmed' = harmed + 1
        BY <2>4, <3>2 DEF Die
      <4>. QED
        BY <1>1, <4>1 DEF SharedInv
    <3>. QED
      BY <3>1, <3>2
  <2>. QED
    BY <2>1, <2>2, <2>3, <2>4
<1>3. CASE UNCHANGED vars
  <2>1. UNCHANGED <<junkVars, at, elem, harmed>>
    BY <1>3 DEF vars
  <2>. QED
    BY <1>1, <2>1, SameFifo DEF SharedInv
<1>. QED
  BY <1>2, <1>3

LEMMA SharedInvariance == Spec => [](LockProofs!Inv /\ SharedInv)
<1>1. Init => SharedInv
  BY InsideInit, FifoInit DEF SharedInv, Init
<1>2. LockProofs!Inv /\ SharedInv /\ [Next]_vars => SharedInv'
  BY SharedNext
<1>. QED
  BY <1>1, <1>2, LockInvariance, PTL DEF Spec

(***************************************************************************)
(* If processes die only in front of harmless writes, nobody does harm.    *)
(***************************************************************************)
HarmlessDeaths == DeathPoints \subseteq HarmlessPoints \/ MaxHarm = 0

LEMMA NoHarm ==
  ASSUME HarmlessDeaths
  PROVE  Spec => [](harmed = 0)
<1>1. Init => harmed = 0
  BY DEF Init
<1>2. harmed = 0 /\ [Next]_vars => (harmed = 0)'
  <2>. SUFFICES ASSUME harmed = 0, [Next]_vars
                PROVE  harmed' = 0
    OBVIOUS
  <2>1. ASSUME NEW p \in Procs, Push(p) \/ Pop(p) \/ UseLock(p)
        PROVE  harmed' = harmed
    BY <2>1
       DEF UseLock, Push, Pop, Write, BeginPush, PushRefused, MoveRead, MoveWrite, Link,
           SetPrev, CopyHdr, SkipHdr, CopyData, SkipData, TakeRemain, CountUp,
           PeekElemHdr, BeginPop, PopNull, MoveReadOn, GiveRemain, CountDown
  <2>2. ASSUME NEW p \in Procs, Die(p)
        PROVE  harmed' = harmed
    BY <2>2 DEF Die, HarmlessDeaths, HarmlessPoints
  <2>. QED
    BY <2>1, <2>2 DEF Next, vars
<1>. QED
  BY <1>1, <1>2, PTL DEF Spec

-----------------------------------------------------------------------------
(* Each header field of the junk is in its range, in the middle of calls too. *)
LEMMA FifoTypes ==
  ASSUME LockProofs!Inv, SharedInv, harmed = 0
  PROVE  TypeOK
<1>1. Lock!TypeOK
  BY DEF LockProofs!Inv, LockProofs!TypeOK, LockProofs!PCs, Lock!TypeOK, Lock!PCs
<1>2. /\ Inside /\ FifoInv /\ Holding
      /\ at \in [Procs -> Places] /\ elem = [p \in Procs |-> elem[p]]
  BY DEF SharedInv, Inside, Holding
<1>3. PICK a, w, place, e :
        /\ a \in 0 .. Junk!Capacity /\ w \in 0 .. Junk!Capacity /\ place \in Places
        /\ Shape(a, w) /\ Progress(place, e, a, w)
  <2>1. CASE \A p \in Procs : at[p] = "ready"
    BY <1>2, <2>1 DEF FifoInv, Doing, Places
  <2>2. CASE ~\A p \in Procs : at[p] = "ready"
    <3>1. PICK p \in Procs : at[p] # "ready"
      BY <2>2
    <3>. QED
      BY <1>2, <3>1 DEF FifoInv, Doing
  <2>. QED
    BY <2>1, <2>2
<1>4. readoffs \in quu_startoffs .. quu_endoffs
  <2>1. \A k \in 0 .. Junk!Capacity : Offs(k) \in quu_startoffs .. quu_endoffs
    BY SlotBounds
  <2>2. place \in PopWrites => NextSlot(a, w) \in 0 .. Junk!Capacity
    <3>1. Ring(a, w) /\ (place \in PopWrites => count > 0)
      BY <1>3 DEF Shape, Progress
    <3>. QED
      BY <3>1, Sizes DEF Ring, NextSlot, Junk!Wrap
  <2>3. quu_startoffs \in quu_startoffs .. quu_endoffs
    BY Sizes
  <2>. QED
    BY <1>3, <2>1, <2>2, <2>3 DEF Progress, ReadAt, PopWrites
<1>5. remainsz \in 0 .. Junk!AreaSz
  <2>1. /\ count \in 0 .. Junk!Capacity
        /\ place = "count" => count < Junk!Capacity
        /\ place = "count_down" => count > 0
    BY <1>3 DEF Shape, Ring, Progress, PushWrites, PopWrites
  <2>2. PICK settled : settled = Junk!AreaSz - count * Junk!SlotSz
    OBVIOUS
  <2>3. /\ settled \in 0 .. Junk!AreaSz
        /\ place = "count" => settled >= Junk!SlotSz
    BY <2>1, <2>2, RoomForOne
  <2>4. place = "count_down" => settled + Junk!SlotSz \in 0 .. Junk!AreaSz
    <3>1. SUFFICES ASSUME place = "count_down"
                   PROVE  settled + Junk!SlotSz \in 0 .. Junk!AreaSz
      OBVIOUS
    <3>2. PICK n : n = count - 1
      OBVIOUS
    <3>3. n \in 0 .. Junk!Capacity
      BY <2>1, <3>1, <3>2, Sizes
    <3>4. Junk!AreaSz - n * Junk!SlotSz \in 0 .. Junk!AreaSz
      BY <3>3, RoomForOne
    <3>5. Junk!AreaSz - (count - 1) * Junk!SlotSz = settled + Junk!SlotSz
      BY <2>1, <2>2, <3>1, RoomForOne
    <3>. QED
      BY <3>2, <3>4, <3>5
  <2>5. remainsz = IF place = "count" THEN settled - Junk!SlotSz
                   ELSE IF place = "count_down" THEN settled + Junk!SlotSz
                   ELSE settled
    BY <1>3, <2>2 DEF Progress, Remains
  <2>. QED
    BY <2>3, <2>4, <2>5, Sizes
<1>6. /\ writeoffs \in quu_startoffs .. quu_endoffs
      /\ prev_writeoffs \in {0} \cup Junk!Area
  <2>1. /\ writeoffs \in quu_startoffs .. quu_endoffs
        /\ prev_writeoffs \in {0} \cup quu_startoffs .. quu_endoffs - HdrSz
    BY <1>2 DEF Inside, WritesStayInside
  <2>. QED
    BY <2>1, AreaSizes DEF Junk!Area
<1>7. /\ count \in Nat
      /\ queued \in Seq([offs : Junk!Area, payload : Payloads])
      /\ hdrs \in [Junk!Area -> Junk!Hdr \cup {NoHdr}]
      /\ data \in [Junk!Area -> Bytes \cup {NoByte}]
      /\ ret \in Junk!Results
  BY <1>3, Sizes DEF Shape, Ring, Elements, Typed
<1>8. Junk!TypeOK
  BY <1>4, <1>5, <1>6, <1>7 DEF Junk!TypeOK
<1>9. ASSUME NEW p \in Procs
      PROVE  elem[p] \in Payloads \cup {<<>>}
  <2>1. CASE at[p] = "ready"
    BY <1>2, <2>1 DEF FifoInv
  <2>2. CASE at[p] # "ready"
    <3>1. PICK b \in 0 .. Junk!Capacity, v \in 0 .. Junk!Capacity :
            Shape(b, v) /\ Progress(at[p], elem[p], b, v)
      BY <1>2, <2>2 DEF FifoInv, Doing
    <3>2. CASE at[p] \in PopWrites
      <4>1. count > 0 /\ elem[p] = queued[1].payload
        BY <3>1, <3>2 DEF Progress
      <4>. QED
        BY <3>1, <4>1, HeadElem
    <3>3. CASE at[p] \notin PopWrites
      BY <1>2, <3>1, <3>3 DEF Progress, Places
    <3>. QED
      BY <3>2, <3>3
  <2>. QED
    BY <2>1, <2>2
<1>10. elem \in [Procs -> Payloads \cup {<<>>}]
  BY <1>9 DEF SharedInv, Inside, Holding
<1>. QED
  BY <1>1, <1>2, <1>8, <1>10 DEF TypeOK

(* Between two calls the queued elements are as their pushes left them. *)
LEMMA FifoBacklog ==
  ASSUME LockProofs!Inv, SharedInv, harmed = 0
  PROVE  BacklogSurvives
<1>1. SUFFICES ASSUME \A p \in Procs : at[p] \in {"ready", "peeked"}
               PROVE  /\ count = Len(queued)
                      /\ remainsz = Junk!AreaSz - count * Junk!SlotSz
                      /\ queued # <<>> => readoffs = Head(queued).offs
                      /\ \A i \in 1 .. Len(queued) :
                           /\ hdrs[queued[i].offs].size = DataSz
                           /\ IF i < Len(queued)
                              THEN hdrs[queued[i].offs].nextoffs = queued[i + 1].offs
                              ELSE hdrs[queued[i].offs].nextoffs \in {0, writeoffs}
                           /\ Junk!DataAt(queued[i].offs, DataSz) = queued[i].payload
  BY DEF BacklogSurvives
<1>2. PICK a, w, place, e :
        /\ a \in 0 .. Junk!Capacity /\ w \in 0 .. Junk!Capacity
        /\ place \in {"ready", "peeked"}
        /\ Shape(a, w) /\ Progress(place, e, a, w)
  <2>1. CASE \A p \in Procs : at[p] = "ready"
    BY <2>1 DEF SharedInv, FifoInv, Doing
  <2>2. CASE ~\A p \in Procs : at[p] = "ready"
    <3>1. PICK p \in Procs : at[p] = "peeked"
      BY <1>1, <2>2
    <3>. QED
      BY <3>1 DEF SharedInv, FifoInv, Doing
  <2>. QED
    BY <2>1, <2>2
<1>3. /\ readoffs = Offs(a) /\ writeoffs = Offs(w)
      /\ remainsz = Junk!AreaSz - count * Junk!SlotSz
  BY <1>2 DEF Progress, ReadAt, WriteAt, Remains, PopWrites
<1>4. /\ Elements(a) /\ Links(w) /\ count \in Nat /\ Len(queued) = count
      /\ queued \in Seq([offs : Junk!Area, payload : Payloads])
  BY <1>2, Sizes DEF Shape, Elements, Ring
<1>5. queued # <<>> => readoffs = Head(queued).offs
  <2>1. SUFFICES ASSUME queued # <<>> PROVE readoffs = Head(queued).offs
    OBVIOUS
  <2>2. count > 0
    BY <1>4, <2>1, EmptySeq
  <2>. QED
    BY <1>2, <1>3, <2>2, HeadElem
<1>6. ASSUME NEW i \in 1 .. Len(queued)
      PROVE  /\ hdrs[queued[i].offs].size = DataSz
             /\ IF i < Len(queued)
                THEN hdrs[queued[i].offs].nextoffs = queued[i + 1].offs
                ELSE hdrs[queued[i].offs].nextoffs \in {0, writeoffs}
             /\ Junk!DataAt(queued[i].offs, DataSz) = queued[i].payload
  <2>1. /\ hdrs[queued[i].offs].size = DataSz
        /\ hdrs[queued[i].offs].nextoffs \in NextOf(i, w)
        /\ Junk!DataAt(queued[i].offs, DataSz) = queued[i].payload
    BY <1>4 DEF Elements, Links
  <2>2. NextOf(i, w) \subseteq
          (IF i < Len(queued) THEN {queued[i + 1].offs} ELSE {0, writeoffs})
    BY <1>3, <1>4 DEF NextOf
  <2>. QED
    BY <2>1, <2>2
<1>. QED
  BY <1>3, <1>4, <1>5, <1>6

(* An empty junk has its read position at its write position. *)
LEMMA FifoEmpty ==
  ASSUME LockProofs!Inv, SharedInv, harmed = 0, Junk!Capacity >= 2
  PROVE  EmptyAccepts
<1>1. SUFFICES ASSUME count = 0, \A p \in Procs : at[p] = "ready"
               PROVE  Junk!Accepts(Junk!SlotSz)
  BY DEF EmptyAccepts
<1>2. PICK a \in 0 .. Junk!Capacity, w \in 0 .. Junk!Capacity :
        Shape(a, w) /\ Progress("ready", <<>>, a, w)
  BY <1>1 DEF SharedInv, FifoInv, Doing
<1>3. /\ readoffs = Offs(a) /\ writeoffs = Offs(w)
      /\ remainsz = Junk!AreaSz - count * Junk!SlotSz
      /\ Ring(a, w)
  BY <1>2 DEF Shape, Progress, ReadAt, WriteAt, Remains
<1>4. a = w
  BY <1>1, <1>3, Sizes DEF Ring
<1>5. remainsz >= Junk!SlotSz
  BY <1>1, <1>3, RoomForOne, Sizes
<1>6. writeoffs >= quu_startoffs
  BY <1>3, SlotOrder
<1>7. ASSUME Junk!PastEnd(Junk!SlotSz) PROVE Junk!FrontFree(Junk!SlotSz)
  <2>1. a = Junk!Capacity /\ 1 < a
    BY <1>3, <1>4, <1>7, FitsBehind
  <2>2. /\ Offs(1) = quu_startoffs + Junk!SlotSz
        /\ Offs(1) + Junk!SlotSz <= Offs(a)
        /\ Offs(a) \in Nat
    BY <2>1, SlotOrder, Sizes
  <2>. QED
    BY <1>3, <2>2, Sizes DEF Junk!FrontFree
<1>. QED
  BY <1>5, <1>6, <1>7 DEF Junk!Accepts

(***************************************************************************)
(* Type correctness of the processes, the semaphore and the junk, up to    *)
(* the first death that does harm: the header fields of the junk are       *)
(* offsets of its area also between two writes of a push or a pop.         *)
(***************************************************************************)
THEOREM TypeCorrect == Spec => [](harmed = 0 => TypeOK)
<1>1. LockProofs!Inv /\ SharedInv => (harmed = 0 => TypeOK)
  BY FifoTypes
<1>. QED
  BY <1>1, SharedInvariance, PTL

(***************************************************************************)
(* Whichever processes die in front of harmless writes, and whatever the   *)
(* others did since: between two calls every element whose push returned   *)
(* and whose pop did not is linked in its place with its data              *)
(* (wv_shm_push_elem, wv_shm_pop_elem_data).                               *)
(***************************************************************************)
THEOREM BacklogSafe == Spec => [](harmed = 0 => BacklogSurvives)
<1>1. LockProofs!Inv /\ SharedInv => (harmed = 0 => BacklogSurvives)
  BY FifoBacklog
<1>. QED
  BY <1>1, SharedInvariance, PTL

(***************************************************************************)
(* A junk with room for two elements that has been drained takes the next  *)
(* push, wherever in the area it was drained (the move of the read         *)
(* position in wv_shm_push_elem).                                          *)
(***************************************************************************)
THEOREM EmptyAccepted ==
  ASSUME Junk!Capacity >= 2
  PROVE  Spec => [](harmed = 0 => EmptyAccepts)
<1>1. LockProofs!Inv /\ SharedInv => (harmed = 0 => EmptyAccepts)
  BY FifoEmpty
<1>. QED
  BY <1>1, SharedInvariance, PTL

(***************************************************************************)
(* Two is needed: a junk with room for one element that has been drained   *)
(* refuses every push from then on.                                        *)
(***************************************************************************)
THEOREM OneSlotRefuses ==
  ASSUME Junk!Capacity = 1
  PROVE  Spec => [](harmed = 0 =>
           (/\ \A p \in Procs : at[p] = "ready"
            /\ count = 0 /\ writeoffs # quu_startoffs
            => ~Junk!Accepts(Junk!SlotSz)))
<1>1. ASSUME LockProofs!Inv, SharedInv, harmed = 0,
             \A p \in Procs : at[p] = "ready",
             count = 0, writeoffs # quu_startoffs
      PROVE  ~Junk!Accepts(Junk!SlotSz)
  <2>1. PICK a \in 0 .. Junk!Capacity, w \in 0 .. Junk!Capacity :
          Shape(a, w) /\ Progress("ready", <<>>, a, w)
    BY <1>1 DEF SharedInv, FifoInv, Doing
  <2>2. readoffs = Offs(a) /\ writeoffs = Offs(w) /\ Ring(a, w)
    BY <2>1 DEF Shape, Progress, ReadAt, WriteAt
  <2>3. Offs(0) = quu_startoffs /\ Offs(1) = quu_startoffs + Junk!SlotSz
    BY SlotOrder
  <2>4. a = 1 /\ w = 1
    BY <1>1, <2>2, <2>3 DEF Ring
  <2>5. Junk!PastEnd(Junk!SlotSz)
    BY <2>2, <2>4, FitsBehind
  <2>6. ~Junk!FrontFree(Junk!SlotSz)
    BY <2>2, <2>3, <2>4, Sizes DEF Junk!FrontFree
  <2>. QED
    BY <2>5, <2>6 DEF Junk!Accepts
<1>2. LockProofs!Inv /\ SharedInv =>
        (harmed = 0 =>
          (/\ \A p \in Procs : at[p] = "ready"
           /\ count = 0 /\ writeoffs # quu_startoffs
           => ~Junk!Accepts(Junk!SlotSz)))
  BY <1>1
<1>. QED
  BY <1>2, SharedInvariance, PTL

(***************************************************************************)
(* Where processes die only in front of harmless writes, all this holds    *)
(* without end.                                                            *)
(***************************************************************************)
THEOREM HarmlessDeathsLoseNothing ==
  ASSUME HarmlessDeaths
  PROVE  Spec => [](TypeOK /\ BacklogSurvives)
BY NoHarm, TypeCorrect, BacklogSafe, PTL

-----------------------------------------------------------------------------
(***************************************************************************)
(* The queued payloads are the state of the FIFO; they change with the     *)
(* last write of a push and of a pop only.                                 *)
(***************************************************************************)
Elems == Seq([offs : Junk!Area, payload : Payloads])

PayloadsIn(elems) == [i \in 1 .. Len(elems) |-> elems[i].payload]

LEMMA PayloadsTyped ==
  ASSUME NEW elems \in Elems
  PROVE  /\ PayloadsIn(elems) \in Seq(Payloads)
         /\ Len(PayloadsIn(elems)) = Len(elems)
         /\ PayloadsIn(elems) = <<>> <=> Len(elems) = 0
         /\ \A i \in 1 .. Len(elems) : PayloadsIn(elems)[i] = elems[i].payload
<1>1. /\ Len(elems) \in Nat
      /\ \A i \in 1 .. Len(elems) : elems[i].payload \in Payloads
  <2>1. Len(elems) \in Nat
    BY DEF Elems
  <2>2. ASSUME NEW i \in 1 .. Len(elems)
        PROVE  elems[i].payload \in Payloads
    <3>1. elems[i] \in [offs : Junk!Area, payload : Payloads]
      BY ElementOfSeq DEF Elems
    <3>. QED
      BY <3>1
  <2>. QED
    BY <2>1, <2>2
<1>2. PayloadsIn(elems) \in [1 .. Len(elems) -> Payloads]
  BY <1>1 DEF PayloadsIn
<1>3. PayloadsIn(elems) \in Seq(Payloads) /\ Len(PayloadsIn(elems)) = Len(elems)
  BY <1>1, <1>2
<1>4. PayloadsIn(elems) = <<>> <=> Len(elems) = 0
  BY <1>3, EmptySeq
<1>. QED
  BY <1>1, <1>3, <1>4 DEF PayloadsIn

LEMMA PayloadsAppend ==
  ASSUME NEW elems \in Elems, NEW new \in [offs : Junk!Area, payload : Payloads]
  PROVE  PayloadsIn(Append(elems, new)) = Append(PayloadsIn(elems), new.payload)
<1>1. PICK n, longer : n = Len(elems) /\ longer = Append(elems, new)
  OBVIOUS
<1>2. /\ longer \in Elems /\ Len(longer) = n + 1 /\ n \in Nat
      /\ \A i \in 1 .. n : longer[i] = elems[i]
      /\ longer[n + 1] = new
  BY <1>1, AppendProperties DEF Elems
<1>3. /\ PayloadsIn(elems) \in Seq(Payloads)
      /\ Len(PayloadsIn(elems)) = n
      /\ \A i \in 1 .. n : PayloadsIn(elems)[i] = elems[i].payload
  BY <1>1, PayloadsTyped
<1>4. /\ PayloadsIn(longer) \in Seq(Payloads)
      /\ Len(PayloadsIn(longer)) = n + 1
      /\ \A i \in 1 .. n + 1 : PayloadsIn(longer)[i] = longer[i].payload
  BY <1>2, PayloadsTyped
<1>5. PICK appended : appended = Append(PayloadsIn(elems), new.payload)
  OBVIOUS
<1>6. /\ appended \in Seq(Payloads) /\ Len(appended) = n + 1
      /\ \A i \in 1 .. n : appended[i] = PayloadsIn(elems)[i]
      /\ appended[n + 1] = new.payload
  <2>1. new.payload \in Payloads
    OBVIOUS
  <2>. QED
    BY <1>3, <1>5, <2>1, AppendProperties
<1>7. ASSUME NEW i \in 1 .. n + 1
      PROVE  PayloadsIn(longer)[i] = appended[i]
  <2>1. CASE i = n + 1
    BY <1>2, <1>4, <1>6, <2>1
  <2>2. CASE i # n + 1
    <3>1. i \in 1 .. n
      BY <1>2, <2>2
    <3>. QED
      BY <1>2, <1>3, <1>4, <1>6, <3>1
  <2>. QED
    BY <2>1, <2>2
<1>8. PayloadsIn(longer) = appended
  BY <1>4, <1>6, <1>7, SeqEqual
<1>. QED
  BY <1>1, <1>5, <1>8

LEMMA PayloadsTail ==
  ASSUME NEW elems \in Elems, elems # <<>>
  PROVE  /\ PayloadsIn(elems) # <<>>
         /\ Head(PayloadsIn(elems)) = elems[1].payload
         /\ PayloadsIn(Tail(elems)) = Tail(PayloadsIn(elems))
<1>1. PICK n, shorter : n = Len(elems) /\ shorter = Tail(elems)
  OBVIOUS
<1>2. /\ shorter \in Elems /\ Len(shorter) = n - 1 /\ n \in Nat \ {0}
      /\ \A i \in 1 .. n - 1 : shorter[i] = elems[i + 1]
  <2>1. n \in Nat \ {0}
    BY <1>1, EmptySeq DEF Elems
  <2>. QED
    BY <1>1, <2>1, HeadTailProperties DEF Elems
<1>3. /\ PayloadsIn(elems) \in Seq(Payloads)
      /\ Len(PayloadsIn(elems)) = n
      /\ PayloadsIn(elems) # <<>>
      /\ \A i \in 1 .. n : PayloadsIn(elems)[i] = elems[i].payload
  BY <1>1, <1>2, PayloadsTyped
<1>4. /\ PayloadsIn(shorter) \in Seq(Payloads)
      /\ Len(PayloadsIn(shorter)) = n - 1
      /\ \A i \in 1 .. n - 1 : PayloadsIn(shorter)[i] = shorter[i].payload
  BY <1>2, PayloadsTyped
<1>5. PICK rest : rest = Tail(PayloadsIn(elems))
  OBVIOUS
<1>6. /\ rest \in Seq(Payloads) /\ Len(rest) = n - 1
      /\ \A i \in 1 .. n - 1 : rest[i] = PayloadsIn(elems)[i + 1]
  BY <1>3, <1>5, HeadTailProperties
<1>7. ASSUME NEW i \in 1 .. n - 1
      PROVE  PayloadsIn(shorter)[i] = rest[i]
  <2>1. i + 1 \in 1 .. n
    BY <1>2
  <2>. QED
    BY <1>2, <1>3, <1>4, <1>6, <2>1
<1>8. PayloadsIn(shorter) = rest
  BY <1>4, <1>6, <1>7, SeqEqual
<1>9. Head(PayloadsIn(elems)) = elems[1].payload
  <2>1. Head(PayloadsIn(elems)) = PayloadsIn(elems)[1] /\ 1 \in 1 .. n
    BY <1>2, <1>3
  <2>. QED
    BY <1>3, <2>1
<1>. QED
  BY <1>1, <1>3, <1>5, <1>8, <1>9

LEMMA QueuedPayloads ==
  ASSUME FifoInv
  PROVE  /\ queued \in Elems /\ Len(queued) = count /\ count \in Nat
         /\ Junk!payloads = PayloadsIn(queued)
         /\ Len(Junk!payloads) = count
         /\ Junk!payloads = <<>> <=> count = 0
<1>1. PICK a \in 0 .. Junk!Capacity, w \in 0 .. Junk!Capacity : Shape(a, w)
  BY DEF FifoInv, Doing
<1>2. queued \in Elems /\ Len(queued) = count /\ count \in Nat
  BY <1>1, Sizes DEF Shape, Ring, Elements, Elems
<1>3. Junk!payloads = PayloadsIn(queued)
  BY DEF Junk!payloads, PayloadsIn
<1>. QED
  BY <1>2, <1>3, PayloadsTyped

(* A step that changes neither the queue nor the result is none of the FIFO. *)
LEMMA QuietStep ==
  ASSUME UNCHANGED queued
  PROVE  /\ Junk!payloads' = Junk!payloads
         /\ UNCHANGED ret => UNCHANGED Junk!Fifo!vars
BY DEF Junk!payloads, Junk!Fifo!vars

LEMMA CountUpRefines ==
  ASSUME LockProofs!Inv, Holding, FifoInv, NEW p \in Procs, CountUp(p)
  PROVE  Junk!Fifo!Next
<1>1. /\ pc[p] = "critical" /\ at[p] = "count"
      /\ queued' = Append(queued, [offs |-> prev_writeoffs, payload |-> elem[p]])
      /\ ret' = Junk!Result("push", TRUE, <<>>)
  BY DEF CountUp, Write
<1>2. PICK a \in 0 .. Junk!Capacity, w \in 0 .. Junk!Capacity :
        Shape(a, w) /\ Progress("count", elem[p], a, w)
  BY <1>1, DoingInside
<1>3. /\ w < Junk!Capacity /\ count < Junk!Capacity /\ elem[p] \in Payloads
      /\ prev_writeoffs = Offs(w)
  BY <1>2 DEF Progress, PushWrites, SlotChosen, LinkDone
<1>4. PICK new : new = [offs |-> prev_writeoffs, payload |-> elem[p]]
  OBVIOUS
<1>5. new \in [offs : Junk!Area, payload : Payloads] /\ new.payload = elem[p]
  BY <1>3, <1>4, SlotBounds
<1>6. Junk!payloads' = Append(Junk!payloads, elem[p])
  <2>1. Junk!payloads' = PayloadsIn(queued')
    BY DEF Junk!payloads, PayloadsIn
  <2>2. PayloadsIn(Append(queued, new)) = Append(PayloadsIn(queued), elem[p])
    BY <1>5, PayloadsAppend, QueuedPayloads
  <2>. QED
    BY <1>1, <1>4, <2>1, <2>2, QueuedPayloads
<1>7. Junk!Fifo!Push(elem[p])
  BY <1>1, <1>3, <1>6, QueuedPayloads
     DEF Junk!Fifo!Push, Junk!Fifo!Result, Junk!Result
<1>. QED
  BY <1>3, <1>7 DEF Junk!Fifo!Next

LEMMA CountDownRefines ==
  ASSUME LockProofs!Inv, Holding, FifoInv, NEW p \in Procs, CountDown(p)
  PROVE  Junk!Fifo!Next
<1>1. /\ pc[p] = "critical" /\ at[p] = "count_down"
      /\ queued' = IF queued = <<>> THEN <<>> ELSE Tail(queued)
      /\ ret' = Junk!Result("pop", TRUE, elem[p])
  BY DEF CountDown, Write
<1>2. PICK a \in 0 .. Junk!Capacity, w \in 0 .. Junk!Capacity :
        Shape(a, w) /\ Progress("count_down", elem[p], a, w)
  BY <1>1, DoingInside
<1>3. /\ elem[p] = queued[1].payload /\ queued # <<>>
  BY <1>2, HeadElem DEF Progress, PopWrites
<1>4. /\ PayloadsIn(queued) # <<>>
      /\ Head(PayloadsIn(queued)) = elem[p]
      /\ PayloadsIn(Tail(queued)) = Tail(PayloadsIn(queued))
  BY <1>3, PayloadsTail, QueuedPayloads
<1>5. Junk!payloads' = PayloadsIn(queued')
  BY DEF Junk!payloads, PayloadsIn
<1>6. Junk!Fifo!Pop
  BY <1>1, <1>3, <1>4, <1>5, QueuedPayloads
     DEF Junk!Fifo!Pop, Junk!Fifo!Result, Junk!Result
<1>. QED
  BY <1>6 DEF Junk!Fifo!Next

LEMMA PushRefusedRefines ==
  ASSUME LockProofs!Inv, Holding, FifoInv, NEW p \in Procs,
         NEW payload \in Payloads, PushRefused(p, payload)
  PROVE  Junk!Fifo!Next
<1>1. Junk!ElemSz(payload) = Junk!SlotSz
  BY PayloadSizes, Sizes
<1>2. /\ pc[p] = "critical" /\ at[p] = "ready"
      /\ ~Junk!Accepts(Junk!SlotSz)
      /\ ret' = Junk!Result("push", FALSE, <<>>)
      /\ queued' = queued
  BY <1>1 DEF PushRefused, Junk!PushRefused, Write
<1>3. PICK a \in 0 .. Junk!Capacity, w \in 0 .. Junk!Capacity :
        Shape(a, w) /\ Progress("ready", elem[p], a, w)
  BY <1>2, DoingInside
<1>4. count + 1 >= Junk!Capacity
  <2>1. /\ readoffs = Offs(a) /\ writeoffs = Offs(w) /\ Ring(a, w)
        /\ remainsz = Junk!AreaSz - count * Junk!SlotSz
    BY <1>3 DEF Shape, Progress, ReadAt, WriteAt, Remains
  <2>. QED
    BY <1>2, <2>1, RefusedPlace
<1>5. Junk!Fifo!RefusePush
  BY <1>2, <1>4, QueuedPayloads, QuietStep
     DEF Junk!Fifo!RefusePush, Junk!Fifo!Result, Junk!Result
<1>. QED
  BY <1>5 DEF Junk!Fifo!Next

LEMMA PeekElemHdrRefines ==
  ASSUME FifoInv, NEW p \in Procs, PeekElemHdr(p)
  PROVE  Junk!Fifo!Next
<1>1. ret' = Junk!Result("peek_hdr", count > 0, <<>>) /\ queued' = queued
  BY DEF PeekElemHdr
<1>2. Junk!payloads # <<>> <=> count > 0
  BY QueuedPayloads
<1>3. Junk!Fifo!PeekHdr
  BY <1>1, <1>2, QuietStep DEF Junk!Fifo!PeekHdr, Junk!Fifo!Result, Junk!Result
<1>. QED
  BY <1>3 DEF Junk!Fifo!Next

LEMMA StepRefines ==
  ASSUME LockProofs!Inv, SharedInv, harmed = 0, [Next]_vars
  PROVE  [Junk!Fifo!Next]_(Junk!Fifo!vars)
<1>1. Holding /\ FifoInv
  BY DEF SharedInv, Inside
<1>2. CASE UNCHANGED vars
  BY <1>2, QuietStep DEF vars, junkVars
<1>3. CASE Next
  <2>1. PICK p \in Procs : UseLock(p) \/ Push(p) \/ Pop(p) \/ Die(p)
    BY <1>3 DEF Next
  <2>2. CASE UseLock(p) \/ Die(p)
    BY <2>2, QuietStep DEF UseLock, Die, junkVars
  <2>3. CASE Push(p)
    <3>1. \/ \E payload \in Payloads : PushRefused(p, payload)
          \/ CountUp(p)
          \/ UNCHANGED <<queued, ret>>
      BY <2>3
         DEF Push, BeginPush, MoveRead, MoveWrite, Link, SetPrev, CopyHdr, SkipHdr,
             CopyData, SkipData, TakeRemain, junkVars
    <3>. QED
      BY <1>1, <3>1, PushRefusedRefines, CountUpRefines, QuietStep
  <2>4. CASE Pop(p)
    <3>1. \/ PeekElemHdr(p) \/ CountDown(p)
          \/ UNCHANGED <<queued, ret>>
      BY <1>1, <2>4, NoPopNull DEF Pop, BeginPop, MoveReadOn, GiveRemain, junkVars
    <3>. QED
      BY <1>1, <3>1, PeekElemHdrRefines, CountDownRefines, QuietStep
  <2>. QED
    BY <2>1, <2>2, <2>3, <2>4
<1>. QED
  BY <1>2, <1>3

(***************************************************************************)
(* The junk under its semaphore is the FIFO of JunkFifo, although each of  *)
(* its writes is a step of its own and processes die in front of the       *)
(* harmless ones: a push takes effect when it raises count, a pop when it  *)
(* lowers it, and what they return is what the FIFO returns.               *)
(***************************************************************************)
THEOREM Refinement ==
  ASSUME HarmlessDeaths
  PROVE  Spec => FifoSpec
<1>1. Init => Junk!Fifo!Init
  <2>. SUFFICES ASSUME Init PROVE Junk!Fifo!Init
    OBVIOUS
  <2>1. FifoInv /\ count = 0 /\ ret = Junk!Result("none", TRUE, <<>>)
    BY FifoInit DEF Init, Junk!Init
  <2>. QED
    BY <2>1, QueuedPayloads DEF Junk!Fifo!Init, Junk!Fifo!Result, Junk!Result
<1>2. LockProofs!Inv /\ SharedInv /\ harmed = 0 /\ [Next]_vars
        => [Junk!Fifo!Next]_(Junk!Fifo!vars)
  BY StepRefines
<1>. QED
  BY <1>1, <1>2, SharedInvariance, NoHarm, PTL DEF Spec, FifoSpec, Junk!FifoSpec, Junk!Fifo!Spec

=============================================================================
