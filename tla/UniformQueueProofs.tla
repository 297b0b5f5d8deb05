------------------------- MODULE UniformQueueProofs -------------------------
(***************************************************************************)
(* Proofs about a junk with elements of one size, for every size of the    *)
(* area, of the headers and of the data, and every set of payloads.        *)
(***************************************************************************)
EXTENDS UniformQueue, SequenceTheorems, TLAPS

-----------------------------------------------------------------------------
(***************************************************************************)
(* Arithmetic of slots.  The products k * SlotSz are met only here.        *)
(***************************************************************************)
LEMMA Quotient ==
  ASSUME NEW x \in Nat, NEW y \in Nat \ {0}
  PROVE  /\ x \div y \in Nat
         /\ (x \div y) * y <= x
         /\ x < (x \div y) * y + y
OBVIOUS

LEMMA Multiples ==
  ASSUME NEW y \in Nat \ {0}, NEW k \in Nat, NEW j \in Nat
  PROVE  /\ k * y \in Nat
         /\ (k + 1) * y = k * y + y
         /\ k < j => k * y + y <= j * y
OBVIOUS

(* The sizes are what the code's arithmetic needs them to be. *)
LEMMA Sizes ==
  /\ quu_startoffs \in Nat \ {0}
  /\ quu_endoffs = quu_startoffs + AreaSz
  /\ AreaSz \in Nat \ {0}
  /\ HdrSz \in Nat \ {0}
  /\ DataSz \in Nat \ {0}
  /\ SlotSz = HdrSz + DataSz
  /\ SlotSz \in Nat \ {0}
  /\ Capacity \in Nat \ {0}
  /\ Capacity * SlotSz <= AreaSz
  /\ AreaSz < Capacity * SlotSz + SlotSz
<1>1. /\ AreaSz \in Nat \ {0}
      /\ SlotSz \in Nat \ {0}
  BY AreaAssumption, UniformAssumption DEF AreaSz, SlotSz
<1>2. /\ Capacity \in Nat
      /\ Capacity * SlotSz <= AreaSz
      /\ AreaSz < Capacity * SlotSz + SlotSz
  BY <1>1, Quotient DEF Capacity
<1>3. Capacity # 0
  <2>1. SUFFICES ASSUME Capacity = 0 PROVE FALSE
    OBVIOUS
  <2>2. Capacity * SlotSz = 0
    BY <2>1, <1>1
  <2>. QED
    BY <2>2, <1>1, <1>2, CapacityAssumption
<1>. QED
  BY <1>1, <1>2, <1>3, AreaAssumption, UniformAssumption DEF AreaSz, SlotSz

(* Slots follow each other without overlap, the first at the front. *)
LEMMA SlotOrder ==
  ASSUME NEW k \in Nat, NEW j \in Nat
  PROVE  /\ SlotOffs(k) \in Nat
         /\ SlotOffs(k) >= quu_startoffs
         /\ SlotOffs(0) = quu_startoffs
         /\ SlotOffs(k + 1) = SlotOffs(k) + SlotSz
         /\ k < j => SlotOffs(k) + SlotSz <= SlotOffs(j)
         /\ SlotOffs(k) = SlotOffs(j) => k = j
<1>1. /\ k * SlotSz \in Nat
      /\ (k + 1) * SlotSz = k * SlotSz + SlotSz
      /\ k < j => k * SlotSz + SlotSz <= j * SlotSz
  BY Sizes, Multiples
<1>2. /\ j * SlotSz \in Nat
      /\ j < k => j * SlotSz + SlotSz <= k * SlotSz
  BY Sizes, Multiples
<1>3. 0 * SlotSz = 0
  BY Sizes
<1>. QED
  BY <1>1, <1>2, <1>3, Sizes DEF SlotOffs

(* Slot k lies in the area if and only if k is below the capacity. *)
LEMMA SlotBounds ==
  ASSUME NEW k \in 0 .. Capacity
  PROVE  /\ SlotOffs(k) \in quu_startoffs .. quu_endoffs
         /\ k < Capacity => /\ SlotOffs(k) \in Area
                            /\ SlotOffs(k) + SlotSz <= quu_endoffs
         /\ k = Capacity => SlotOffs(k) + SlotSz > quu_endoffs
<1>1. /\ k * SlotSz \in Nat
      /\ Capacity * SlotSz \in Nat
      /\ k < Capacity => k * SlotSz + SlotSz <= Capacity * SlotSz
  BY Sizes, Multiples
<1>. QED
  BY <1>1, Sizes DEF SlotOffs, Area

(* remainsz has room for an element exactly when a slot is free. *)
LEMMA RoomForOne ==
  ASSUME NEW n \in 0 .. Capacity
  PROVE  /\ AreaSz - n * SlotSz \in 0 .. AreaSz
         /\ AreaSz - n * SlotSz >= SlotSz <=> n < Capacity
         /\ AreaSz - (n + 1) * SlotSz = AreaSz - n * SlotSz - SlotSz
         /\ n > 0 => AreaSz - (n - 1) * SlotSz = AreaSz - n * SlotSz + SlotSz
<1>1. /\ n * SlotSz \in Nat
      /\ (n + 1) * SlotSz = n * SlotSz + SlotSz
      /\ n < Capacity => n * SlotSz + SlotSz <= Capacity * SlotSz
  BY Sizes, Multiples
<1>2. ASSUME n > 0 PROVE n * SlotSz = (n - 1) * SlotSz + SlotSz
  <2>1. n - 1 \in Nat /\ (n - 1) + 1 = n
    BY <1>2
  <2>2. ((n - 1) + 1) * SlotSz = (n - 1) * SlotSz + SlotSz
    BY <2>1, Sizes, Multiples
  <2>. QED
    BY <2>1, <2>2
<1>3. n > 0 => (n - 1) * SlotSz \in Nat
  BY Sizes, Multiples
<1>. QED
  BY <1>1, <1>2, <1>3, Sizes

(***************************************************************************)
(* Elements i and j of the queue, counted from slot a, are in different    *)
(* slots, and every one is in a slot.                                      *)
(***************************************************************************)
LEMMA ElemSlots ==
  ASSUME NEW a \in 0 .. Capacity - 1, NEW i \in 1 .. Capacity
  PROVE  /\ ElemSlot(a, i) \in 0 .. Capacity - 1
         /\ \A j \in 1 .. Capacity : ElemSlot(a, i) = ElemSlot(a, j) => i = j
BY Sizes DEF ElemSlot, Wrap

-----------------------------------------------------------------------------
(***************************************************************************)
(* Where a push writes.                                                    *)
(***************************************************************************)
(* An accepted push writes the slot behind the newest element.             *)
LEMMA PushPosition ==
  ASSUME Inv, Accepts(SlotSz), NEW a \in 0 .. Capacity, Layout(a)
  PROVE  /\ count < Capacity
         /\ \E b \in 0 .. Capacity - 1 :
              /\ count > 0 => b = a
              /\ ReadPosAfterPush(SlotSz) = SlotOffs(b)
              /\ WritePos(SlotSz) = SlotOffs(ElemSlot(b, count + 1))
<1>0. PICK w : w = WriteSlot(a)
  OBVIOUS
<1>1. /\ count \in 0 .. Capacity
      /\ remainsz = AreaSz - count * SlotSz
      /\ readoffs = SlotOffs(a)
      /\ count > 0 => a < Capacity
      /\ writeoffs = SlotOffs(w)
  BY <1>0, Sizes DEF Inv, TypeOK, Layout
<1>2. count < Capacity
  BY <1>1, RoomForOne DEF Accepts
<1>3. /\ a + count <= Capacity => w = a + count
      /\ a + count > Capacity => w = a + count - Capacity
      /\ w \in 0 .. Capacity
  BY <1>0, <1>1, <1>2, Sizes DEF WriteSlot
<1>4. PastEnd(SlotSz) <=> w = Capacity
  <2>1. /\ SlotOffs(w) \in Nat
        /\ w < Capacity => SlotOffs(w) + SlotSz <= quu_endoffs
        /\ w = Capacity => SlotOffs(w) + SlotSz > quu_endoffs
    BY <1>3, Sizes, SlotBounds, SlotOrder
  <2>. QED
    BY <1>1, <1>3, <2>1, Sizes DEF PastEnd
<1>5. CASE w < Capacity
  <2>1. /\ WritePos(SlotSz) = SlotOffs(w)
        /\ ReadPosAfterPush(SlotSz) = SlotOffs(a)
    BY <1>1, <1>3, <1>4, <1>5 DEF WritePos, ReadPosAfterPush
  <2>2. a \in 0 .. Capacity - 1 /\ w = ElemSlot(a, count + 1)
    BY <1>1, <1>2, <1>3, <1>5, Sizes DEF ElemSlot, Wrap
  <2>. QED
    BY <1>2, <2>1, <2>2
<1>6. CASE w = Capacity
  <2>1. a + count = Capacity
    BY <1>1, <1>2, <1>3, <1>6, Sizes
  <2>2. /\ WritePos(SlotSz) = SlotOffs(0)
        /\ ReadPosAfterPush(SlotSz) =
             IF readoffs = writeoffs THEN SlotOffs(0) ELSE readoffs
    BY <1>4, <1>6, SlotOrder DEF WritePos, ReadPosAfterPush
  <2>3. readoffs = writeoffs <=> count = 0
    BY <1>1, <1>6, <2>1, SlotOrder, Sizes
  <2>4. 0 = ElemSlot(IF count = 0 THEN 0 ELSE a, count + 1)
    BY <1>1, <2>1, Sizes DEF ElemSlot, Wrap
  <2>5. CASE count = 0
    BY <1>2, <2>2, <2>3, <2>4, <2>5, Sizes
  <2>6. CASE count > 0
    BY <1>1, <1>2, <2>2, <2>3, <2>4, <2>6, Sizes
  <2>. QED
    BY <1>1, <2>5, <2>6
<1>7. w < Capacity \/ w = Capacity
  BY <1>3, Sizes
<1>. QED
  BY <1>5, <1>6, <1>7

(* Writing slot s leaves the bytes of every other slot alone. *)
LEMMA StoreElem ==
  ASSUME NEW s \in 0 .. Capacity - 1, NEW h, NEW payload \in Payloads
  PROVE  /\ StoreHdr(h, SlotOffs(s), DataSz)[SlotOffs(s)] =
              [size |-> DataSz, nextoffs |-> 0]
         /\ [i \in 1 .. DataSz |->
               StoreData(SlotOffs(s), payload)[SlotOffs(s) + HdrSz + i - 1]] = payload
         /\ \A k \in 0 .. Capacity - 1 : k # s =>
              /\ StoreHdr(h, SlotOffs(s), DataSz)[SlotOffs(k)] = h[SlotOffs(k)]
              /\ \A i \in 1 .. DataSz :
                   StoreData(SlotOffs(s), payload)[SlotOffs(k) + HdrSz + i - 1] =
                     data[SlotOffs(k) + HdrSz + i - 1]
<1>. DEFINE offs == SlotOffs(s)
<1>1. /\ offs \in Area
      /\ offs + SlotSz <= quu_endoffs
      /\ offs \in Nat
  BY SlotBounds, SlotOrder, Sizes
<1>2. Len(payload) = DataSz /\ payload \in Seq(Bytes)
  BY UniformAssumption, PayloadAssumption
<1>3. payload = [i \in 1 .. DataSz |-> payload[i]]
  BY <1>2, LenProperties
<1>4. ASSUME NEW i \in 1 .. DataSz
      PROVE  StoreData(offs, payload)[offs + HdrSz + i - 1] = payload[i]
  <2>1. offs + HdrSz + i - 1 \in Area
    BY <1>1, Sizes DEF Area
  <2>. QED
    BY <1>1, <1>2, <2>1, Sizes DEF StoreData
<1>5. ASSUME NEW k \in 0 .. Capacity - 1, k # s
      PROVE  /\ StoreHdr(h, offs, DataSz)[SlotOffs(k)] = h[SlotOffs(k)]
             /\ \A i \in 1 .. DataSz :
                  StoreData(offs, payload)[SlotOffs(k) + HdrSz + i - 1] =
                    data[SlotOffs(k) + HdrSz + i - 1]
  <2>1. /\ SlotOffs(k) \in Area
        /\ SlotOffs(k) + SlotSz <= quu_endoffs
        /\ SlotOffs(k) \in Nat
    BY SlotBounds, SlotOrder, Sizes
  <2>2. SlotOffs(k) + SlotSz <= offs \/ offs + SlotSz <= SlotOffs(k)
    BY <1>5, SlotOrder, Sizes
  <2>3. StoreHdr(h, offs, DataSz)[SlotOffs(k)] = h[SlotOffs(k)]
    BY <1>1, <2>1, <2>2, Sizes DEF StoreHdr
  <2>4. ASSUME NEW i \in 1 .. DataSz
        PROVE  StoreData(offs, payload)[SlotOffs(k) + HdrSz + i - 1] =
                 data[SlotOffs(k) + HdrSz + i - 1]
    <3>1. SlotOffs(k) + HdrSz + i - 1 \in Area
      BY <2>1, Sizes DEF Area
    <3>. QED
      BY <1>1, <1>2, <2>1, <2>2, <3>1, Sizes DEF StoreData
  <2>. QED
    BY <2>3, <2>4
<1>6. StoreHdr(h, offs, DataSz)[offs] = [size |-> DataSz, nextoffs |-> 0]
  BY <1>1 DEF StoreHdr
<1>7. [i \in 1 .. DataSz |-> StoreData(offs, payload)[offs + HdrSz + i - 1]] = payload
  BY <1>3, <1>4
<1>. QED
  BY <1>5, <1>6, <1>7

(* The link written to the newest element changes that header only. *)
LEMMA LinkElem ==
  ASSUME Inv, NEW offs \in Area
  PROVE  /\ LinkElems(prev_writeoffs, offs) \in [Area -> Hdr \cup {NoHdr}]
         /\ prev_writeoffs # 0 =>
              LinkElems(prev_writeoffs, offs)[prev_writeoffs] =
                [size |-> hdrs[prev_writeoffs].size, nextoffs |-> offs]
         /\ \A k \in 0 .. Capacity - 1 :
              /\ LinkElems(prev_writeoffs, offs)[SlotOffs(k)] \in Hdr
              /\ SlotOffs(k) # prev_writeoffs =>
                   LinkElems(prev_writeoffs, offs)[SlotOffs(k)] = hdrs[SlotOffs(k)]
<1>1. offs \in Nat \ {0}
  BY Sizes DEF Area
<1>2. hdrs \in [Area -> Hdr \cup {NoHdr}]
  BY DEF Inv, TypeOK
<1>3. \A k \in 0 .. Capacity - 1 : SlotOffs(k) \in Area /\ hdrs[SlotOffs(k)] \in Hdr
  BY SlotBounds, Sizes DEF Inv, SlotHdrs
<1>4. prev_writeoffs # 0 => prev_writeoffs \in Area /\ hdrs[prev_writeoffs] \in Hdr
  BY <1>3 DEF Inv
<1>5. CASE prev_writeoffs = 0
  BY <1>2, <1>3, <1>5 DEF LinkElems
<1>6. CASE prev_writeoffs # 0
  <2>. DEFINE link == [size |-> hdrs[prev_writeoffs].size, nextoffs |-> offs]
  <2>1. LinkElems(prev_writeoffs, offs) = [hdrs EXCEPT ![prev_writeoffs] = link]
    BY <1>1, <1>6 DEF LinkElems
  <2>2. link \in Hdr
    BY <1>1, <1>4, <1>6 DEF Hdr
  <2>. QED
    BY <1>2, <1>3, <1>4, <1>6, <2>1, <2>2
<1>. QED
  BY <1>5, <1>6

-----------------------------------------------------------------------------
(***************************************************************************)
(* What the invariant says of the elements in the queue.                   *)
(***************************************************************************)
LEMMA QueuedElems ==
  ASSUME Inv
  PROVE  /\ count \in 0 .. Capacity
         /\ queued \in Seq([offs : Area, payload : Payloads])
         /\ Len(queued) = count
         /\ \A i \in 1 .. count :
              /\ queued[i].offs \in Area
              /\ queued[i].payload \in Payloads
              /\ Len(queued[i].payload) = DataSz
              /\ hdrs[queued[i].offs] =
                   [size |-> DataSz,
                    nextoffs |-> IF i = count THEN 0 ELSE queued[i + 1].offs]
              /\ StoredAt(queued[i].offs, DataSz) = queued[i].payload
<1>1. /\ count \in 0 .. Capacity
      /\ queued \in Seq([offs : Area, payload : Payloads])
      /\ Len(queued) = count
  BY Sizes DEF Inv, TypeOK, BacklogIntact
<1>2. ASSUME NEW i \in 1 .. count
      PROVE  /\ queued[i].offs \in Area
             /\ queued[i].payload \in Payloads
  <2>1. queued[i] \in [offs : Area, payload : Payloads]
    BY <1>1, ElementOfSeq
  <2>. QED
    BY <2>1
<1>3. ASSUME NEW i \in 1 .. count
      PROVE  Len(queued[i].payload) = DataSz
  BY <1>2, UniformAssumption
<1>. QED
  BY <1>1, <1>2, <1>3 DEF Inv, BacklogIntact

(* Storing an element keeps the views of the area well-typed. *)
LEMMA StoreTypes ==
  ASSUME NEW s \in 0 .. Capacity - 1, NEW payload \in Payloads,
         NEW h \in [Area -> Hdr \cup {NoHdr}],
         data \in [Area -> Bytes \cup {NoByte}]
  PROVE  /\ StoreHdr(h, SlotOffs(s), DataSz) \in [Area -> Hdr \cup {NoHdr}]
         /\ StoreData(SlotOffs(s), payload) \in [Area -> Bytes \cup {NoByte}]
<1>1. SlotOffs(s) \in Nat
  BY SlotOrder
<1>2. [size |-> DataSz, nextoffs |-> 0] \in Hdr
  BY Sizes DEF Hdr
<1>3. ASSUME NEW o \in Area,
             o \in SlotOffs(s) + HdrSz .. SlotOffs(s) + HdrSz + Len(payload) - 1
      PROVE  payload[o - (SlotOffs(s) + HdrSz) + 1] \in Bytes
  <2>1. payload \in Seq(Bytes) /\ Len(payload) = DataSz
    BY UniformAssumption, PayloadAssumption
  <2>2. o - (SlotOffs(s) + HdrSz) + 1 \in 1 .. Len(payload)
    BY <1>1, <1>3, <2>1, Sizes DEF Area
  <2>. QED
    BY <2>1, <2>2, ElementOfSeq
<1>4. StoreHdr(h, SlotOffs(s), DataSz) \in [Area -> Hdr \cup {NoHdr}]
  BY <1>2 DEF StoreHdr
<1>5. StoreData(SlotOffs(s), payload) \in [Area -> Bytes \cup {NoByte}]
  BY <1>3 DEF StoreData
<1>. QED
  BY <1>4, <1>5

-----------------------------------------------------------------------------
(***************************************************************************)
(* Every call preserves the invariant.                                     *)
(***************************************************************************)
LEMMA InitInv == Init => Inv
<1>. SUFFICES ASSUME Init PROVE Inv
  OBVIOUS
<1>1. /\ writeoffs = quu_startoffs /\ readoffs = quu_startoffs
      /\ prev_writeoffs = 0 /\ remainsz = AreaSz /\ count = 0
      /\ peeked = 0 /\ queued = <<>>
      /\ hdrs = [o \in Area |-> ZeroHdr]
      /\ data = [o \in Area |-> NoByte]
      /\ ret = Result("none", TRUE, <<>>)
  BY DEF Init
<1>2. ZeroHdr \in Hdr
  BY DEF ZeroHdr, Hdr
<1>3. /\ Len(queued) = 0
      /\ queued \in Seq([offs : Area, payload : Payloads])
      /\ <<>> \in Seq(Bytes)
  BY <1>1, EmptySeq
<1>4. ret \in Results
  BY <1>1, <1>3 DEF Result, Results
<1>5. TypeOK
  <2>1. quu_startoffs \in quu_startoffs .. quu_endoffs /\ AreaSz \in 0 .. AreaSz
    BY Sizes
  <2>2. /\ hdrs \in [Area -> Hdr \cup {NoHdr}]
        /\ data \in [Area -> Bytes \cup {NoByte}]
    BY <1>1, <1>2
  <2>. QED
    BY <1>1, <1>3, <1>4, <2>1, <2>2 DEF TypeOK
<1>6. \E a \in 0 .. Capacity : Layout(a)
  <2>1. WriteSlot(0) = 0
    BY <1>1, Sizes DEF WriteSlot
  <2>2. Layout(0)
    BY <1>1, <2>1, SlotOrder DEF Layout
  <2>. QED
    BY <2>2, Sizes
<1>7. SlotHdrs
  BY <1>1, <1>2, SlotBounds, Sizes DEF SlotHdrs
<1>8. count <= Capacity /\ remainsz = AreaSz - count * SlotSz
  BY <1>1, Sizes
<1>9. BacklogIntact
  BY <1>1, <1>3 DEF BacklogIntact
<1>10. FreshPeek
  BY <1>1 DEF FreshPeek, Result
<1>. QED
  BY <1>1, <1>5, <1>6, <1>7, <1>8, <1>9, <1>10 DEF Inv

(* A call that leaves the junk alone. *)
LEMMA QuietInv ==
  ASSUME Inv, UNCHANGED <<jhdr, hdrs, data, queued>>,
         peeked' \in {0} \cup Area, ret' \in Results, FreshPeek'
  PROVE  Inv'
<1>1. /\ writeoffs' = writeoffs /\ prev_writeoffs' = prev_writeoffs
      /\ readoffs' = readoffs /\ remainsz' = remainsz /\ count' = count
      /\ hdrs' = hdrs /\ data' = data /\ queued' = queued
  BY DEF jhdr
<1>2. TypeOK'
  BY <1>1 DEF Inv, TypeOK
<1>3. \E a \in 0 .. Capacity : Layout(a)'
  BY <1>1 DEF Inv, Layout, WriteSlot
<1>4. SlotHdrs' /\ BacklogIntact'
  BY <1>1 DEF Inv, SlotHdrs, BacklogIntact, StoredAt
<1>. QED
  BY <1>1, <1>2, <1>3, <1>4 DEF Inv

LEMMA ClearInv ==
  ASSUME Inv, ClearJunk
  PROVE  Inv'
<1>1. /\ writeoffs' = quu_startoffs /\ readoffs' = quu_startoffs
      /\ prev_writeoffs' = 0 /\ remainsz' = AreaSz /\ count' = 0
      /\ peeked' = peeked /\ queued' = <<>>
      /\ hdrs' = [o \in Area |-> ZeroHdr]
      /\ data' = [o \in Area |-> NoByte]
      /\ ret' = Result("clear", TRUE, <<>>)
  BY DEF ClearJunk
<1>2. ZeroHdr \in Hdr
  BY DEF ZeroHdr, Hdr
<1>3. /\ Len(queued') = 0
      /\ queued' \in Seq([offs : Area, payload : Payloads])
      /\ <<>> \in Seq(Bytes)
  BY <1>1, EmptySeq
<1>4. ret' \in Results
  BY <1>1, <1>3 DEF Result, Results
<1>5. TypeOK'
  <2>1. quu_startoffs \in quu_startoffs .. quu_endoffs /\ AreaSz \in 0 .. AreaSz
    BY Sizes
  <2>2. /\ hdrs' \in [Area -> Hdr \cup {NoHdr}]
        /\ data' \in [Area -> Bytes \cup {NoByte}]
    BY <1>1, <1>2
  <2>. QED
    BY <1>1, <1>3, <1>4, <2>1, <2>2 DEF TypeOK, Inv
<1>6. \E a \in 0 .. Capacity : Layout(a)'
  <2>1. WriteSlot(0)' = 0
    BY <1>1, Sizes DEF WriteSlot
  <2>2. Layout(0)'
    BY <1>1, <2>1, SlotOrder DEF Layout
  <2>. QED
    BY <2>2, Sizes
<1>7. SlotHdrs'
  BY <1>1, <1>2, SlotBounds, Sizes DEF SlotHdrs
<1>8. count' <= Capacity /\ remainsz' = AreaSz - count' * SlotSz
  BY <1>1, Sizes
<1>9. BacklogIntact'
  BY <1>1, <1>3 DEF BacklogIntact
<1>10. FreshPeek'
  BY <1>1 DEF FreshPeek, Result
<1>. QED
  BY <1>1, <1>5, <1>6, <1>7, <1>8, <1>9, <1>10 DEF Inv

(* A header the walk meets is read as it was written. *)
LEMMA HeadHdr ==
  ASSUME Inv, count > 0
  PROVE  /\ readoffs = queued[1].offs
         /\ readoffs \in Area
         /\ Readings(readoffs) = {hdrs[readoffs]}
         /\ hdrs[readoffs] =
              [size |-> DataSz,
               nextoffs |-> IF count = 1 THEN 0 ELSE queued[2].offs]
         /\ DataAt(readoffs, DataSz) = queued[1].payload
         /\ queued # <<>>
         /\ Head(queued) = queued[1]
<1>1. /\ count \in 0 .. Capacity
      /\ queued \in Seq([offs : Area, payload : Payloads])
      /\ Len(queued) = count
      /\ queued # <<>>
  BY QueuedElems, EmptySeq
<1>2. Head(queued) = queued[1]
  BY <1>1
<1>3. readoffs = queued[1].offs
  BY <1>1, <1>2 DEF Inv, BacklogIntact
<1>4. 1 \in 1 .. count
  BY <1>1, Sizes
<1>5. /\ readoffs \in Area
      /\ hdrs[readoffs] = [size |-> DataSz,
                           nextoffs |-> IF 1 = count THEN 0 ELSE queued[1 + 1].offs]
      /\ StoredAt(readoffs, DataSz) = queued[1].payload
  BY <1>3, <1>4, QueuedElems
<1>6. hdrs[readoffs] \in Hdr
  <2>1. PICK a \in 0 .. Capacity : Layout(a)
    BY DEF Inv
  <2>2. readoffs = SlotOffs(a) /\ a \in 0 .. Capacity - 1
    BY <2>1, Sizes DEF Layout
  <2>. QED
    BY <2>2 DEF Inv, SlotHdrs
<1>7. Readings(readoffs) = {hdrs[readoffs]}
  BY <1>5, <1>6, PayloadAssumption DEF Readings
<1>8. DataAt(readoffs, DataSz) = StoredAt(readoffs, DataSz)
  <2>1. PICK a \in 0 .. Capacity : Layout(a)
    BY DEF Inv
  <2>2. readoffs = SlotOffs(a) /\ a \in 0 .. Capacity - 1
    BY <2>1, Sizes DEF Layout
  <2>3. readoffs + SlotSz <= quu_endoffs /\ readoffs \in Nat
    BY <2>2, SlotBounds, SlotOrder, Sizes
  <2>4. \A i \in 1 .. DataSz : readoffs + HdrSz + i - 1 \in Area
    BY <1>5, <2>3, Sizes DEF Area
  <2>. QED
    BY <2>4 DEF DataAt, StoredAt
<1>. QED
  BY <1>1, <1>2, <1>3, <1>5, <1>7, <1>8

LEMMA PeekInv ==
  ASSUME Inv, PeekElemHdr \/ PeekElemData \/ PopNull
  PROVE  Inv'
<1>1. <<>> \in Seq(Bytes) /\ peeked \in {0} \cup Area /\ count \in Nat
  BY EmptySeq DEF Inv, TypeOK
<1>2. CASE PeekElemHdr
  <2>1. count > 0 => readoffs \in Area
    BY HeadHdr
  <2>2. peeked' \in {0} \cup Area /\ ret' \in Results
    BY <1>1, <1>2, <2>1 DEF PeekElemHdr, Result, Results
  <2>3. FreshPeek'
    BY <1>2 DEF PeekElemHdr, FreshPeek, Result, jhdr
  <2>. QED
    BY <1>2, <2>2, <2>3, QuietInv DEF PeekElemHdr
<1>3. CASE PeekElemData
  <2>1. ret' \in Results
    <3>1. CASE count > 0
      <4>0. PICK cur \in Readings(readoffs) :
              ret' = Result("peek_data", TRUE, DataAt(readoffs, cur.size))
        <5>1. count # 0
          BY <1>1, <3>1
        <5>. QED
          BY <1>3, <5>1, Zenon DEF PeekElemData
      <4>1. cur.size = DataSz
        BY <3>1, <4>0, HeadHdr
      <4>2. ret' = Result("peek_data", TRUE, queued[1].payload)
        BY <3>1, <4>0, <4>1, HeadHdr
      <4>3. queued[1].payload \in Payloads
        <5>1. 1 \in 1 .. count
          BY <1>1, <3>1
        <5>. QED
          BY <5>1, QueuedElems
      <4>. QED
        BY <4>2, <4>3, PayloadAssumption DEF Result, Results
    <3>2. CASE count = 0
      <4>1. ret' = Result("peek_data", FALSE, <<>>)
        BY <1>3, <3>2 DEF PeekElemData
      <4>. QED
        BY <1>1, <4>1 DEF Result, Results
    <3>. QED
      BY <1>1, <3>1, <3>2
  <2>2. FreshPeek'
    <3>1. \E ok, val : ret' = Result("peek_data", ok, val)
      BY <1>3, Zenon DEF PeekElemData
    <3>2. ret'.op = "peek_data"
      BY <3>1 DEF Result
    <3>. QED
      BY <3>2 DEF FreshPeek, Result
  <2>. QED
    BY <1>1, <1>3, <2>1, <2>2, QuietInv DEF PeekElemData
<1>4. CASE PopNull
  BY <1>1, <1>4, QuietInv DEF PopNull, Result, Results, FreshPeek
<1>. QED
  BY <1>2, <1>3, <1>4

(***************************************************************************)
(* A push: the new element takes the free slot behind the newest one, and  *)
(* only the newest element's link changes besides it.                      *)
(***************************************************************************)
LEMMA PushInv ==
  ASSUME Inv, NEW payload \in Payloads, PushElem(payload)
  PROVE  Inv'
<1>1. /\ Len(payload) = DataSz
      /\ ElemSz(payload) = SlotSz
      /\ payload \in Seq(Bytes)
  BY UniformAssumption, PayloadAssumption DEF ElemSz, SlotSz
<1>2. Accepts(SlotSz)
  BY <1>1 DEF PushElem
<1>3. PICK a \in 0 .. Capacity : Layout(a)
  BY DEF Inv
<1>4. PICK b \in 0 .. Capacity - 1 :
        /\ count > 0 => b = a
        /\ ReadPosAfterPush(SlotSz) = SlotOffs(b)
        /\ WritePos(SlotSz) = SlotOffs(ElemSlot(b, count + 1))
  BY <1>2, <1>3, PushPosition
<1>5. count \in 0 .. Capacity - 1
  <2>1. count < Capacity
    BY <1>2, <1>3, PushPosition
  <2>2. count \in Nat
    BY DEF Inv, TypeOK
  <2>. QED
    BY <2>1, <2>2, Sizes
<1>6. PICK s : s = ElemSlot(b, count + 1)
  OBVIOUS
<1>7. s \in 0 .. Capacity - 1
  BY <1>5, <1>6, ElemSlots, Sizes
<1>8. PICK h : h = LinkElems(prev_writeoffs, SlotOffs(s))
  OBVIOUS
<1>9. /\ readoffs' = SlotOffs(b)
      /\ hdrs' = StoreHdr(h, SlotOffs(s), DataSz)
      /\ data' = StoreData(SlotOffs(s), payload)
      /\ prev_writeoffs' = SlotOffs(s)
      /\ writeoffs' = SlotOffs(s) + SlotSz
      /\ remainsz' = remainsz - SlotSz
      /\ count' = count + 1
      /\ queued' = Append(queued, [offs |-> SlotOffs(s), payload |-> payload])
      /\ ret' = Result("push", TRUE, <<>>)
      /\ peeked' = peeked
  BY <1>1, <1>4, <1>6, <1>8 DEF PushElem
<1>10. SlotOffs(s) \in Area /\ SlotOffs(s) \in Nat /\ SlotOffs(s) + SlotSz <= quu_endoffs
  BY <1>7, SlotBounds, SlotOrder, Sizes
<1>11. /\ queued' \in Seq([offs : Area, payload : Payloads])
       /\ Len(queued') = count + 1
       /\ \A i \in 1 .. count : queued'[i] = queued[i]
       /\ queued'[count + 1] = [offs |-> SlotOffs(s), payload |-> payload]
  <2>1. [offs |-> SlotOffs(s), payload |-> payload] \in [offs : Area, payload : Payloads]
    BY <1>10
  <2>. QED
    BY <1>9, <2>1, QueuedElems, AppendProperties
<1>12. ASSUME NEW i \in 1 .. count
       PROVE  /\ queued[i].offs = SlotOffs(ElemSlot(b, i))
              /\ ElemSlot(b, i) \in 0 .. Capacity - 1
              /\ ElemSlot(b, i) # s
              /\ i < count => SlotOffs(ElemSlot(b, i)) # prev_writeoffs
              /\ i = count => SlotOffs(ElemSlot(b, i)) = prev_writeoffs
  <2>1. queued[i].offs = SlotOffs(ElemSlot(b, i))
    BY <1>3, <1>4, <1>5 DEF Layout
  <2>2. /\ i \in 1 .. Capacity
        /\ count \in 1 .. Capacity
        /\ count + 1 \in 1 .. Capacity
    BY <1>5, Sizes
  <2>3. /\ ElemSlot(b, i) \in 0 .. Capacity - 1
        /\ ElemSlot(b, count) \in 0 .. Capacity - 1
        /\ ElemSlot(b, i) # s
        /\ i < count => ElemSlot(b, i) # ElemSlot(b, count)
    BY <1>5, <1>6, <2>2, ElemSlots
  <2>4. prev_writeoffs = SlotOffs(ElemSlot(b, count))
    BY <1>3, <1>4, <1>5, <2>2 DEF Layout, Inv
  <2>5. i < count => SlotOffs(ElemSlot(b, i)) # prev_writeoffs
    BY <2>3, <2>4, SlotOrder, Sizes
  <2>. QED
    BY <2>1, <2>3, <2>4, <2>5
<1>13. /\ h \in [Area -> Hdr \cup {NoHdr}]
       /\ prev_writeoffs # 0 =>
            h[prev_writeoffs] = [size |-> hdrs[prev_writeoffs].size,
                                 nextoffs |-> SlotOffs(s)]
       /\ \A k \in 0 .. Capacity - 1 :
            /\ h[SlotOffs(k)] \in Hdr
            /\ SlotOffs(k) # prev_writeoffs => h[SlotOffs(k)] = hdrs[SlotOffs(k)]
  BY <1>8, <1>10, LinkElem
<1>14. /\ hdrs'[SlotOffs(s)] = [size |-> DataSz, nextoffs |-> 0]
       /\ [i \in 1 .. DataSz |-> data'[SlotOffs(s) + HdrSz + i - 1]] = payload
       /\ \A k \in 0 .. Capacity - 1 : k # s =>
            /\ hdrs'[SlotOffs(k)] = h[SlotOffs(k)]
            /\ \A i \in 1 .. DataSz :
                 data'[SlotOffs(k) + HdrSz + i - 1] = data[SlotOffs(k) + HdrSz + i - 1]
  <2>1. /\ StoreHdr(h, SlotOffs(s), DataSz)[SlotOffs(s)] = [size |-> DataSz, nextoffs |-> 0]
        /\ [i \in 1 .. DataSz |->
              StoreData(SlotOffs(s), payload)[SlotOffs(s) + HdrSz + i - 1]] = payload
        /\ \A k \in 0 .. Capacity - 1 : k # s =>
             /\ StoreHdr(h, SlotOffs(s), DataSz)[SlotOffs(k)] = h[SlotOffs(k)]
             /\ \A i \in 1 .. DataSz :
                  StoreData(SlotOffs(s), payload)[SlotOffs(k) + HdrSz + i - 1] =
                    data[SlotOffs(k) + HdrSz + i - 1]
    BY <1>7, StoreElem
  <2>2. hdrs' = StoreHdr(h, SlotOffs(s), DataSz) /\ data' = StoreData(SlotOffs(s), payload)
    BY <1>9
  <2>. QED
    BY <2>1, <2>2
<1>15. TypeOK'
  <2>1. ret' \in Results
    BY <1>9, EmptySeq DEF Result, Results
  <2>2. remainsz' \in 0 .. AreaSz
    BY <1>5, <1>9, RoomForOne, Sizes DEF Inv
  <2>3. /\ hdrs' \in [Area -> Hdr \cup {NoHdr}]
        /\ data' \in [Area -> Bytes \cup {NoByte}]
    BY <1>7, <1>9, <1>13, StoreTypes DEF Inv, TypeOK
  <2>4. /\ writeoffs' \in quu_startoffs .. quu_endoffs
        /\ prev_writeoffs' \in {0} \cup Area
    BY <1>9, <1>10, Sizes DEF Area
  <2>5. readoffs' \in quu_startoffs .. quu_endoffs
    BY <1>4, <1>9, SlotBounds, Sizes
  <2>. QED
    <3>1. count' \in Nat /\ peeked' \in {0} \cup Area
      BY <1>5, <1>9 DEF Inv, TypeOK
    <3>. QED
      BY <1>11, <2>1, <2>2, <2>3, <2>4, <2>5, <3>1 DEF TypeOK
<1>16. \E k \in 0 .. Capacity : Layout(k)'
  <2>1. writeoffs' = SlotOffs(s + 1)
    BY <1>7, <1>9, SlotOrder, Sizes
  <2>2. WriteSlot(b)' = s + 1
    BY <1>4, <1>5, <1>6, <1>9, Sizes DEF WriteSlot, ElemSlot, Wrap
  <2>3. \A i \in 1 .. count + 1 : queued'[i].offs = SlotOffs(ElemSlot(b, i))
    BY <1>5, <1>6, <1>11, <1>12
  <2>4. /\ b < Capacity
        /\ writeoffs' = SlotOffs(WriteSlot(b)')
        /\ \A i \in 1 .. count' : queued'[i].offs = SlotOffs(ElemSlot(b, i))
    <3>1. b < Capacity
      BY <1>4, Sizes
    <3>2. writeoffs' = SlotOffs(WriteSlot(b)')
      BY <2>1, <2>2
    <3>3. \A i \in 1 .. count' : queued'[i].offs = SlotOffs(ElemSlot(b, i))
      BY <1>9, <2>3
    <3>. QED
      BY <3>1, <3>2, <3>3
  <2>5. Layout(b)'
    BY <1>9, <2>4 DEF Layout
  <2>. QED
    BY <2>5, Sizes
<1>17. SlotHdrs'
  <2>1. [size |-> DataSz, nextoffs |-> 0] \in Hdr
    BY Sizes DEF Hdr
  <2>2. ASSUME NEW k \in 0 .. Capacity - 1
        PROVE  hdrs'[SlotOffs(k)] \in Hdr
    <3>1. CASE k = s
      BY <1>14, <2>1, <3>1
    <3>2. CASE k # s
      BY <1>13, <1>14, <3>2
    <3>. QED
      BY <3>1, <3>2
  <2>. QED
    BY <2>2 DEF SlotHdrs
<1>18. BacklogIntact'
  <2>1. count' = Len(queued')
    BY <1>9, <1>11
  <2>2. queued' # <<>> => readoffs' = Head(queued').offs
    <3>1. Head(queued') = queued'[1]
      BY <1>5, <1>11
    <3>2. queued'[1].offs = SlotOffs(ElemSlot(b, 1))
      BY <1>5, <1>6, <1>11, <1>12
    <3>3. ElemSlot(b, 1) = b
      BY <1>4, Sizes DEF ElemSlot, Wrap
    <3>. QED
      BY <1>9, <3>1, <3>2, <3>3
  <2>3. ASSUME NEW i \in 1 .. count
        PROVE  /\ hdrs'[queued'[i].offs] =
                    [size |-> Len(queued'[i].payload),
                     nextoffs |-> queued'[i + 1].offs]
               /\ [j \in 1 .. Len(queued'[i].payload) |->
                     data'[queued'[i].offs + HdrSz + j - 1]] = queued'[i].payload
    <3>1. /\ queued'[i] = queued[i]
          /\ Len(queued[i].payload) = DataSz
          /\ queued[i].offs \in Area
          /\ hdrs[queued[i].offs] =
               [size |-> DataSz,
                nextoffs |-> IF i = count THEN 0 ELSE queued[i + 1].offs]
          /\ StoredAt(queued[i].offs, DataSz) = queued[i].payload
      BY <1>11, QueuedElems
    <3>2. hdrs'[queued[i].offs] = h[queued[i].offs]
      BY <1>12, <1>14
    <3>3. h[queued[i].offs] = [size |-> DataSz, nextoffs |-> queued'[i + 1].offs]
      <4>1. CASE i < count
        <5>1. h[queued[i].offs] = hdrs[queued[i].offs]
          BY <1>12, <1>13, <4>1
        <5>2. queued'[i + 1] = queued[i + 1]
          BY <1>5, <1>11, <4>1
        <5>. QED
          BY <1>5, <3>1, <4>1, <5>1, <5>2
      <4>2. CASE i = count
        <5>1. queued[i].offs = prev_writeoffs /\ prev_writeoffs # 0
          <6>1. queued[i].offs # 0
            BY <3>1, Sizes DEF Area
          <6>. QED
            BY <1>12, <4>2, <6>1
        <5>2. queued'[i + 1].offs = SlotOffs(s)
          BY <1>11, <4>2
        <5>. QED
          BY <1>13, <3>1, <5>1, <5>2
      <4>. QED
        BY <1>5, <4>1, <4>2
    <3>4. [j \in 1 .. DataSz |-> data'[queued[i].offs + HdrSz + j - 1]] =
            StoredAt(queued[i].offs, DataSz)
      BY <1>12, <1>14 DEF StoredAt
    <3>. QED
      BY <3>1, <3>2, <3>3, <3>4
  <2>4. /\ hdrs'[queued'[count + 1].offs] =
             [size |-> Len(queued'[count + 1].payload), nextoffs |-> 0]
        /\ [j \in 1 .. Len(queued'[count + 1].payload) |->
              data'[queued'[count + 1].offs + HdrSz + j - 1]] = queued'[count + 1].payload
    BY <1>1, <1>11, <1>14
  <2>5. ASSUME NEW i \in 1 .. Len(queued')
        PROVE  /\ hdrs'[queued'[i].offs] =
                    [size |-> Len(queued'[i].payload),
                     nextoffs |-> IF i = Len(queued') THEN 0 ELSE queued'[i + 1].offs]
               /\ [j \in 1 .. Len(queued'[i].payload) |->
                     data'[queued'[i].offs + HdrSz + j - 1]] = queued'[i].payload
    <3>1. CASE i = count + 1
      BY <1>11, <2>4, <3>1
    <3>2. CASE i # count + 1
      <4>1. i \in 1 .. count /\ i # Len(queued')
        BY <1>5, <1>11, <3>2
      <4>. QED
        BY <2>3, <4>1
    <3>. QED
      BY <3>1, <3>2
  <2>. QED
    BY <2>1, <2>2, <2>5 DEF BacklogIntact, StoredAt
<1>19. /\ count' <= Capacity
       /\ remainsz' = AreaSz - count' * SlotSz
       /\ \E k \in 0 .. Capacity - 1 : prev_writeoffs' = SlotOffs(k)
       /\ prev_writeoffs' = queued'[count'].offs
  BY <1>5, <1>7, <1>9, <1>11, RoomForOne, Sizes DEF Inv
<1>20. FreshPeek'
  BY <1>9 DEF FreshPeek, Result
<1>. QED
  BY <1>15, <1>16, <1>17, <1>18, <1>19, <1>20 DEF Inv

(***************************************************************************)
(* A pop: the read position moves to the next element, or behind the last  *)
(* one.                                                                    *)
(***************************************************************************)
LEMMA PopEffect ==
  ASSUME Inv, PopElemData
  PROVE  /\ count > 0
         /\ readoffs' = IF count = 1 THEN writeoffs ELSE queued[2].offs
         /\ remainsz' = remainsz + SlotSz
         /\ count' = count - 1
         /\ queued' = Tail(queued)
         /\ ret' = Result("pop", TRUE, Head(queued).payload)
         /\ UNCHANGED <<writeoffs, prev_writeoffs, hdrs, data, peeked>>
<1>1. count \in Nat /\ count # 0
  BY DEF Inv, TypeOK, PopElemData
<1>2. count > 0
  BY <1>1
<1>3. PICK cur \in Readings(readoffs) :
        \E elemhdr \in ArgHdrs(cur) :
          /\ SameElem(cur, elemhdr)
          /\ HasSuccessor(cur)
          /\ ret' = Result("pop", TRUE, DataAt(readoffs, cur.size))
          /\ readoffs' = NextReadPos(cur)
          /\ remainsz' = remainsz + HdrSz + elemhdr.size
  BY Zenon DEF PopElemData
<1>4. PICK elemhdr \in ArgHdrs(cur) :
        /\ SameElem(cur, elemhdr)
        /\ ret' = Result("pop", TRUE, DataAt(readoffs, cur.size))
        /\ readoffs' = NextReadPos(cur)
        /\ remainsz' = remainsz + HdrSz + elemhdr.size
  BY <1>3
<1>5. cur.size = DataSz /\ cur.nextoffs = IF count = 1 THEN 0 ELSE queued[2].offs
  <2>1. cur = [size |-> DataSz, nextoffs |-> IF count = 1 THEN 0 ELSE queued[2].offs]
    BY <1>2, <1>3, HeadHdr
  <2>. QED
    BY <2>1
<1>6. elemhdr.size = DataSz
  BY <1>4, <1>5 DEF SameElem
<1>7. remainsz' = remainsz + SlotSz
  BY <1>4, <1>6, Sizes DEF Inv, TypeOK
<1>8. ret' = Result("pop", TRUE, Head(queued).payload)
  BY <1>2, <1>4, <1>5, HeadHdr
<1>9. readoffs' = IF count = 1 THEN writeoffs ELSE queued[2].offs
  <2>1. CASE count = 1
    <3>1. readoffs < writeoffs
      <4>1. PICK a \in 0 .. Capacity : Layout(a)
        BY DEF Inv
      <4>2. readoffs = SlotOffs(a) /\ a \in Nat /\ a < Capacity
        BY <1>2, <4>1, Sizes DEF Layout
      <4>3. WriteSlot(a) = a + 1
        BY <2>1, <4>2, Sizes DEF WriteSlot
      <4>4. writeoffs = SlotOffs(a + 1)
        BY <4>1, <4>3 DEF Layout
      <4>. QED
        BY <4>2, <4>4, SlotOrder, Sizes
    <3>2. ~(readoffs >= writeoffs)
      BY <3>1 DEF Inv, TypeOK
    <3>. QED
      BY <1>4, <1>5, <2>1, <3>2 DEF NextReadPos
  <2>2. CASE count # 1
    <3>1. 2 \in 1 .. count
      BY <1>1, <2>2
    <3>2. queued[2].offs \in Area
      BY <3>1, QueuedElems
    <3>3. queued[2].offs # 0
      BY <3>2, Sizes DEF Area
    <3>. QED
      BY <1>4, <1>5, <2>2, <3>3 DEF NextReadPos
  <2>. QED
    BY <2>1, <2>2
<1>10. queued' = Tail(queued) /\ count' = count - 1
  <2>1. queued # <<>>
    BY <1>2, HeadHdr
  <2>. QED
    BY <2>1 DEF PopElemData
<1>11. UNCHANGED <<writeoffs, prev_writeoffs, hdrs, data, peeked>>
  BY DEF PopElemData
<1>. QED
  BY <1>2, <1>7, <1>8, <1>9, <1>10, <1>11

LEMMA PopInv ==
  ASSUME Inv, PopElemData
  PROVE  Inv'
<1>1. /\ count > 0
      /\ readoffs' = IF count = 1 THEN writeoffs ELSE queued[2].offs
      /\ remainsz' = remainsz + SlotSz
      /\ count' = count - 1
      /\ queued' = Tail(queued)
      /\ ret' = Result("pop", TRUE, Head(queued).payload)
      /\ writeoffs' = writeoffs /\ prev_writeoffs' = prev_writeoffs
      /\ hdrs' = hdrs /\ data' = data /\ peeked' = peeked
  BY PopEffect
<1>2. count \in 1 .. Capacity
  BY <1>1, QueuedElems, Sizes
<1>3. /\ queued' \in Seq([offs : Area, payload : Payloads])
      /\ Len(queued') = count - 1
      /\ \A i \in 1 .. count - 1 : queued'[i] = queued[i + 1]
  <2>1. queued # <<>>
    BY <1>1, HeadHdr
  <2>. QED
    BY <1>1, <2>1, QueuedElems, HeadTailProperties
<1>4. PICK a \in 0 .. Capacity - 1 : Layout(a)
  BY <1>1, Sizes DEF Inv, Layout
<1>5. PICK c : c = IF count = 1 THEN a + 1 ELSE Wrap(a + 1)
  OBVIOUS
<1>6. /\ c \in 0 .. Capacity
      /\ count > 1 => c < Capacity
  BY <1>2, <1>4, <1>5, Sizes DEF Wrap
<1>7. WriteSlot(c)' = WriteSlot(a)
  BY <1>1, <1>2, <1>4, <1>5, Sizes DEF WriteSlot, Wrap
<1>8. \A i \in 1 .. count - 1 : ElemSlot(c, i) = ElemSlot(a, i + 1)
  BY <1>2, <1>4, <1>5, Sizes DEF ElemSlot, Wrap
<1>9. readoffs' = SlotOffs(c)
  <2>1. CASE count = 1
    <3>1. WriteSlot(a) = c
      BY <1>4, <1>5, <2>1, Sizes DEF WriteSlot
    <3>. QED
      BY <1>1, <1>4, <2>1, <3>1 DEF Layout
  <2>2. CASE count # 1
    <3>1. 2 \in 1 .. count /\ c = ElemSlot(a, 2)
      BY <1>2, <1>4, <1>5, <2>2, Sizes DEF ElemSlot
    <3>. QED
      BY <1>1, <1>4, <2>2, <3>1 DEF Layout
  <2>. QED
    BY <2>1, <2>2
<1>10. Layout(c)'
  <2>1. writeoffs' = SlotOffs(WriteSlot(c)')
    BY <1>1, <1>4, <1>7 DEF Layout
  <2>2. ASSUME NEW i \in 1 .. count'
        PROVE  queued'[i].offs = SlotOffs(ElemSlot(c, i))
    <3>1. i \in 1 .. count - 1 /\ i + 1 \in 1 .. count
      BY <1>1, <1>2
    <3>2. queued[i + 1].offs = SlotOffs(ElemSlot(a, i + 1))
      BY <1>4, <3>1 DEF Layout
    <3>. QED
      BY <1>3, <1>8, <3>1, <3>2
  <2>3. count' > 0 => c < Capacity
    BY <1>1, <1>2, <1>6
  <2>. QED
    BY <1>9, <2>1, <2>2, <2>3 DEF Layout
<1>11. /\ count - 1 \in 0 .. Capacity
      /\ count' <= Capacity
      /\ remainsz' = AreaSz - count' * SlotSz
  <2>1. count - 1 \in 0 .. Capacity
    BY <1>2, Sizes
  <2>2. AreaSz - (count - 1) * SlotSz = AreaSz - count * SlotSz + SlotSz
    BY <1>2, RoomForOne
  <2>3. remainsz = AreaSz - count * SlotSz
    BY DEF Inv
  <2>. QED
    BY <1>1, <2>1, <2>2, <2>3, Sizes
<1>12. TypeOK'
  <2>1. remainsz' \in 0 .. AreaSz
    BY <1>1, <1>11, RoomForOne
  <2>2. readoffs' \in quu_startoffs .. quu_endoffs
    BY <1>6, <1>9, SlotBounds
  <2>3. ret' \in Results
    <3>1. Head(queued).payload \in Payloads
      <4>1. 1 \in 1 .. count
        BY <1>2
      <4>. QED
        BY <1>1, <4>1, HeadHdr, QueuedElems
    <3>. QED
      BY <1>1, <3>1, PayloadAssumption DEF Result, Results
  <2>4. count' \in Nat
    BY <1>1, <1>2
  <2>. QED
    BY <1>1, <1>3, <2>1, <2>2, <2>3, <2>4 DEF Inv, TypeOK
<1>13. BacklogIntact'
  <2>1. count' = Len(queued')
    BY <1>1, <1>3
  <2>2. queued' # <<>> => readoffs' = Head(queued').offs
    <3>1. SUFFICES ASSUME queued' # <<>> PROVE readoffs' = Head(queued').offs
      OBVIOUS
    <3>2. count - 1 # 0
      BY <1>3, <3>1, EmptySeq
    <3>3. 1 \in 1 .. count - 1
      BY <1>2, <3>2
    <3>4. Head(queued') = queued[2]
      BY <1>3, <3>1, <3>3
    <3>5. count # 1
      BY <1>2, <3>2
    <3>. QED
      BY <1>1, <3>4, <3>5
  <2>3. ASSUME NEW i \in 1 .. Len(queued')
        PROVE  /\ hdrs'[queued'[i].offs] =
                    [size |-> Len(queued'[i].payload),
                     nextoffs |-> IF i = Len(queued') THEN 0 ELSE queued'[i + 1].offs]
               /\ [j \in 1 .. Len(queued'[i].payload) |->
                     data'[queued'[i].offs + HdrSz + j - 1]] = queued'[i].payload
    <3>1. i \in 1 .. count - 1 /\ i + 1 \in 1 .. count
      BY <1>2, <1>3
    <3>2. /\ queued'[i] = queued[i + 1]
          /\ i # Len(queued') => queued'[i + 1] = queued[i + 1 + 1]
          /\ i = Len(queued') <=> i + 1 = count
      BY <1>2, <1>3, <3>1
    <3>3. /\ Len(queued[i + 1].payload) = DataSz
          /\ hdrs[queued[i + 1].offs] =
               [size |-> DataSz,
                nextoffs |-> IF i + 1 = count THEN 0 ELSE queued[i + 1 + 1].offs]
          /\ StoredAt(queued[i + 1].offs, DataSz) = queued[i + 1].payload
      BY <3>1, QueuedElems
    <3>. QED
      BY <1>1, <3>2, <3>3 DEF StoredAt
  <2>. QED
    BY <2>1, <2>2, <2>3 DEF BacklogIntact, StoredAt
<1>14. count' > 0 => prev_writeoffs' = queued'[count'].offs
  <2>1. SUFFICES ASSUME count' > 0 PROVE prev_writeoffs' = queued'[count'].offs
    OBVIOUS
  <2>2. count - 1 \in 1 .. count - 1 /\ (count - 1) + 1 = count
    BY <1>1, <1>2, <2>1
  <2>3. queued'[count - 1] = queued[count]
    BY <1>3, <2>2
  <2>. QED
    BY <1>1, <2>3 DEF Inv
<1>15. SlotHdrs'
  BY <1>1 DEF Inv, SlotHdrs
<1>16. prev_writeoffs' = 0 \/ \E k \in 0 .. Capacity - 1 : prev_writeoffs' = SlotOffs(k)
  BY <1>1 DEF Inv
<1>17. FreshPeek'
  BY <1>1 DEF FreshPeek, Result
<1>. QED
  BY <1>6, <1>10, <1>11, <1>12, <1>13, <1>14, <1>15, <1>16, <1>17 DEF Inv

-----------------------------------------------------------------------------
(***************************************************************************)
(* The invariant holds in every state: whatever sequence of pushes, peeks, *)
(* pops and clears the callers make, the elements lie in the slots the     *)
(* header of the junk says (wv_shm_push_elem, wv_shm_pop_elem_data).       *)
(***************************************************************************)
THEOREM Invariance == Spec => []Inv
<1>1. Inv /\ [Next]_vars => Inv'
  <2>. SUFFICES ASSUME Inv, [Next]_vars
                PROVE  Inv'
    OBVIOUS
  <2>1. ASSUME NEW payload \in Payloads, PushElem(payload) PROVE Inv'
    BY <2>1, PushInv
  <2>2. ASSUME NEW payload \in Payloads, PushRefused(payload) PROVE Inv'
    <3>1. ret' \in Results
      BY <2>2, EmptySeq DEF PushRefused, Result, Results
    <3>2. peeked' \in {0} \cup Area
      BY <2>2 DEF PushRefused, Inv, TypeOK
    <3>3. FreshPeek'
      BY <2>2 DEF PushRefused, FreshPeek, Result
    <3>. QED
      BY <2>2, <3>1, <3>2, <3>3, QuietInv DEF PushRefused
  <2>3. CASE PeekElemHdr \/ PeekElemData \/ PopNull
    BY <2>3, PeekInv
  <2>4. CASE PopElemData
    BY <2>4, PopInv
  <2>5. CASE ClearJunk
    BY <2>5, ClearInv
  <2>6. CASE UNCHANGED vars
    <3>1. UNCHANGED <<jhdr, hdrs, data, queued>> /\ peeked' = peeked /\ ret' = ret
      BY <2>6 DEF vars
    <3>2. peeked' \in {0} \cup Area /\ ret' \in Results
      BY <3>1 DEF Inv, TypeOK
    <3>3. FreshPeek'
      BY <3>1 DEF FreshPeek, Inv, jhdr
    <3>. QED
      BY <3>1, <3>2, <3>3, QuietInv
  <2>. QED
    BY <2>1, <2>2, <2>3, <2>4, <2>5, <2>6 DEF Next
<1>. QED
  BY <1>1, InitInv, PTL DEF Spec

(***************************************************************************)
(* The offsets of the junk header stay in the queue area, and remainsz     *)
(* never wraps below 0 or grows beyond the area.                           *)
(***************************************************************************)
THEOREM TypeCorrect == Spec => []TypeOK
<1>1. Inv => TypeOK
  BY DEF Inv
<1>. QED
  BY <1>1, Invariance, PTL

(***************************************************************************)
(* No call damages an element that has been pushed and not yet popped.     *)
(***************************************************************************)
THEOREM BacklogSafe == Spec => []BacklogIntact
<1>1. Inv => BacklogIntact
  BY DEF Inv
<1>. QED
  BY <1>1, Invariance, PTL

-----------------------------------------------------------------------------
(***************************************************************************)
(* The queued payloads are the state of the FIFO.                          *)
(***************************************************************************)
LEMMA PayloadsOf ==
  ASSUME NEW elems \in Seq([offs : Area, payload : Payloads]),
         NEW p, p = [i \in 1 .. Len(elems) |-> elems[i].payload]
  PROVE  /\ p \in Seq(Payloads)
         /\ Len(p) = Len(elems)
         /\ p = <<>> <=> Len(elems) = 0
         /\ \A i \in 1 .. Len(elems) : p[i] = elems[i].payload
<1>1. /\ Len(elems) \in Nat
      /\ \A i \in 1 .. Len(elems) : elems[i].payload \in Payloads
  <2>1. Len(elems) \in Nat
    OBVIOUS
  <2>2. ASSUME NEW i \in 1 .. Len(elems)
        PROVE  elems[i].payload \in Payloads
    <3>1. elems[i] \in [offs : Area, payload : Payloads]
      BY ElementOfSeq
    <3>. QED
      BY <3>1
  <2>. QED
    BY <2>1, <2>2
<1>2. p \in [1 .. Len(elems) -> Payloads]
  BY <1>1
<1>3. p \in Seq(Payloads) /\ Len(p) = Len(elems)
  BY <1>1, <1>2
<1>4. p = <<>> <=> Len(elems) = 0
  BY <1>3, EmptySeq
<1>. QED
  BY <1>1, <1>3, <1>4

LEMMA PayloadSeq ==
  ASSUME Inv
  PROVE  /\ payloads \in Seq(Payloads)
         /\ Len(payloads) = count
         /\ payloads = <<>> <=> count = 0
         /\ \A i \in 1 .. count : payloads[i] = queued[i].payload
         /\ count > 0 => Head(payloads) = Head(queued).payload
<1>1. /\ payloads \in Seq(Payloads)
      /\ Len(payloads) = count
      /\ payloads = <<>> <=> count = 0
      /\ \A i \in 1 .. count : payloads[i] = queued[i].payload
  <2>1. queued \in Seq([offs : Area, payload : Payloads]) /\ Len(queued) = count
    BY QueuedElems
  <2>2. payloads = [i \in 1 .. Len(queued) |-> queued[i].payload]
    BY DEF payloads
  <2>3. /\ payloads \in Seq(Payloads)
        /\ Len(payloads) = count
        /\ \A i \in 1 .. count : payloads[i] = queued[i].payload
    BY <2>1, <2>2, PayloadsOf
  <2>4. payloads = <<>> <=> count = 0
    BY <2>3, EmptySeq
  <2>. QED
    BY <2>3, <2>4
<1>2. ASSUME count > 0 PROVE Head(payloads) = Head(queued).payload
  <2>1. 1 \in 1 .. count
    BY <1>2 DEF Inv, TypeOK
  <2>2. Head(payloads) = payloads[1]
    BY <1>1, <1>2
  <2>. QED
    BY <1>1, <1>2, <2>1, <2>2, HeadHdr
<1>. QED
  BY <1>1, <1>2

(* The same of the state after a step. *)
LEMMA NextPayloadSeq ==
  ASSUME Inv'
  PROVE  /\ payloads' \in Seq(Payloads)
         /\ Len(payloads') = count'
         /\ \A i \in 1 .. count' : payloads'[i] = queued'[i].payload
<1>1. queued' \in Seq([offs : Area, payload : Payloads]) /\ Len(queued') = count'
  BY DEF Inv, TypeOK, BacklogIntact
<1>2. payloads' = [i \in 1 .. Len(queued') |-> queued'[i].payload]
  BY DEF payloads
<1>. QED
  BY <1>1, <1>2, PayloadsOf

(* A refused push leaves room for less than two elements. *)
LEMMA RefusalReason ==
  ASSUME Inv, ~Accepts(SlotSz)
  PROVE  count + 1 >= Capacity
<1>1. count \in 0 .. Capacity
  BY QueuedElems
<1>2. SUFFICES ASSUME count + 1 < Capacity PROVE Accepts(SlotSz)
  BY <1>1, Sizes
<1>3. PICK a \in 0 .. Capacity : Layout(a)
  BY DEF Inv
<1>4. PICK w : w = WriteSlot(a)
  OBVIOUS
<1>5. /\ readoffs = SlotOffs(a)
      /\ writeoffs = SlotOffs(w)
      /\ w \in 0 .. Capacity
      /\ w = Capacity => a + count = Capacity
  BY <1>1, <1>2, <1>3, <1>4, Sizes DEF Layout, WriteSlot
<1>6. remainsz >= SlotSz
  <2>1. AreaSz - count * SlotSz >= SlotSz
    BY <1>1, <1>2, RoomForOne, Sizes
  <2>. QED
    BY <2>1 DEF Inv
<1>7. writeoffs >= quu_startoffs
  BY <1>5, SlotOrder
<1>8. ASSUME PastEnd(SlotSz) PROVE FrontFree(SlotSz)
  <2>1. w = Capacity
    <3>1. w < Capacity => writeoffs + SlotSz <= quu_endoffs
      BY <1>5, SlotBounds
    <3>2. writeoffs \in Nat
      BY <1>5, SlotOrder
    <3>. QED
      BY <1>5, <1>8, <3>1, <3>2, Sizes DEF PastEnd
  <2>2. a \in Nat /\ 1 < a
    BY <1>1, <1>2, <1>5, <2>1, Sizes
  <2>3. SlotOffs(1) = quu_startoffs + SlotSz
    BY SlotOrder, Sizes
  <2>4. SlotOffs(1) + SlotSz <= readoffs
    BY <1>5, <2>2, SlotOrder
  <2>5. readoffs \in Nat
    BY <1>5, SlotOrder
  <2>. QED
    BY <2>3, <2>4, <2>5, Sizes DEF FrontFree
<1>. QED
  BY <1>6, <1>7, <1>8 DEF Accepts

(* A pop called with the header just peeked never returns NULL. *)
LEMMA FreshPop ==
  ASSUME Inv, PopNull
  PROVE  ret # Result("peek_hdr", TRUE, <<>>)
<1>1. SUFFICES ASSUME ret = Result("peek_hdr", TRUE, <<>>) PROVE FALSE
  OBVIOUS
<1>2. count > 0 /\ peeked = readoffs
  BY <1>1 DEF Inv, FreshPeek
<1>3. count # 0
  BY <1>2 DEF Inv, TypeOK
<1>4. PICK cur \in Readings(readoffs) :
        \E elemhdr \in ArgHdrs(cur) : ~(SameElem(cur, elemhdr) /\ HasSuccessor(cur))
  BY <1>3, Zenon DEF PopNull
<1>5. PICK elemhdr \in ArgHdrs(cur) : ~(SameElem(cur, elemhdr) /\ HasSuccessor(cur))
  BY <1>4
<1>6. SameElem(cur, elemhdr)
  BY <1>2, <1>5 DEF ArgHdrs, SameElem
<1>7. cur.nextoffs = IF count = 1 THEN 0 ELSE queued[2].offs
  BY <1>2, <1>4, HeadHdr
<1>8. CASE count = 1
  <2>1. PICK a \in 0 .. Capacity : Layout(a)
    BY DEF Inv
  <2>2. readoffs = SlotOffs(a) /\ a \in Nat /\ a < Capacity
    BY <1>2, <2>1, Sizes DEF Layout
  <2>3. WriteSlot(a) = a + 1
    BY <1>8, <2>2, Sizes DEF WriteSlot
  <2>4. writeoffs = SlotOffs(a + 1)
    BY <2>1, <2>3 DEF Layout
  <2>5. readoffs < writeoffs
    BY <2>2, <2>4, SlotOrder, Sizes
  <2>. QED
    BY <1>5, <1>6, <2>5 DEF HasSuccessor
<1>9. CASE count # 1
  <2>1. 2 \in 1 .. count
    BY <1>2, <1>9 DEF Inv, TypeOK
  <2>2. queued[2].offs \in Area
    BY <2>1, QueuedElems
  <2>3. queued[2].offs # 0
    BY <2>2, Sizes DEF Area
  <2>. QED
    BY <1>5, <1>6, <1>7, <1>9, <2>3 DEF HasSuccessor
<1>. QED
  BY <1>8, <1>9

LEMMA PushRefines ==
  ASSUME Inv, Inv', NEW payload \in Payloads, PushElem(payload)
  PROVE  Fifo!Push(payload)
<1>1. count < Capacity
  <2>1. Accepts(SlotSz)
    BY UniformAssumption DEF PushElem, ElemSz, SlotSz
  <2>2. PICK a \in 0 .. Capacity : Layout(a)
    BY DEF Inv
  <2>. QED
    BY <2>1, <2>2, PushPosition
<1>2. /\ count' = count + 1
      /\ ret' = Result("push", TRUE, <<>>)
      /\ \E offs : queued' = Append(queued, [offs |-> offs, payload |-> payload])
  BY DEF PushElem
<1>3. PICK elem : queued' = Append(queued, elem) /\ elem.payload = payload
  BY <1>2
<1>4. /\ payloads' \in Seq(Payloads)
      /\ Len(payloads') = count + 1
      /\ \A i \in 1 .. count + 1 : payloads'[i] = queued'[i].payload
  BY <1>2, NextPayloadSeq
<1>5. /\ payloads \in Seq(Payloads)
      /\ Len(payloads) = count
      /\ \A i \in 1 .. count : payloads[i] = queued[i].payload
  BY PayloadSeq
<1>6. /\ count \in Nat
      /\ \A i \in 1 .. count : queued'[i] = queued[i]
      /\ queued'[count + 1] = elem
  <2>1. queued \in Seq([offs : Area, payload : Payloads]) /\ Len(queued) = count
    BY QueuedElems
  <2>. QED
    BY <1>3, <2>1
<1>7. /\ Append(payloads, payload) \in Seq(Payloads)
      /\ Len(Append(payloads, payload)) = count + 1
      /\ \A i \in 1 .. count : Append(payloads, payload)[i] = payloads[i]
      /\ Append(payloads, payload)[count + 1] = payload
  BY <1>5, AppendProperties
<1>8. ASSUME NEW i \in 1 .. count + 1
      PROVE  payloads'[i] = Append(payloads, payload)[i]
  <2>1. CASE i = count + 1
    BY <1>3, <1>4, <1>6, <1>7, <2>1
  <2>2. CASE i # count + 1
    <3>1. i \in 1 .. count
      BY <1>6, <2>2
    <3>. QED
      BY <1>4, <1>5, <1>6, <1>7, <3>1
  <2>. QED
    BY <2>1, <2>2
<1>9. payloads' = Append(payloads, payload)
  BY <1>4, <1>7, <1>8, SeqEqual
<1>. QED
  BY <1>1, <1>2, <1>5, <1>9 DEF Fifo!Push, Fifo!Result, Result

LEMMA PopRefines ==
  ASSUME Inv, Inv', PopElemData
  PROVE  Fifo!Pop
<1>1. /\ count > 0
      /\ count' = count - 1
      /\ queued' = Tail(queued)
      /\ ret' = Result("pop", TRUE, Head(queued).payload)
  BY PopEffect
<1>2. /\ payloads' \in Seq(Payloads)
      /\ Len(payloads') = count - 1
      /\ \A i \in 1 .. count - 1 : payloads'[i] = queued'[i].payload
  BY <1>1, NextPayloadSeq
<1>3. /\ payloads \in Seq(Payloads)
      /\ Len(payloads) = count
      /\ payloads # <<>>
      /\ \A i \in 1 .. count : payloads[i] = queued[i].payload
      /\ Head(payloads) = Head(queued).payload
  BY <1>1, PayloadSeq DEF Inv, TypeOK
<1>4. \A i \in 1 .. count - 1 : queued'[i] = queued[i + 1]
  <2>1. /\ queued \in Seq([offs : Area, payload : Payloads])
        /\ Len(queued) = count
        /\ queued # <<>>
    BY <1>1, QueuedElems, HeadHdr
  <2>. QED
    BY <1>1, <2>1, HeadTailProperties
<1>5. /\ Tail(payloads) \in Seq(Payloads)
      /\ Len(Tail(payloads)) = count - 1
      /\ \A i \in 1 .. count - 1 : Tail(payloads)[i] = payloads[i + 1]
  BY <1>3, HeadTailProperties
<1>6. ASSUME NEW i \in 1 .. count - 1
      PROVE  payloads'[i] = Tail(payloads)[i]
  <2>1. i + 1 \in 1 .. count
    BY <1>1 DEF Inv, TypeOK
  <2>. QED
    BY <1>2, <1>3, <1>4, <1>5, <2>1
<1>7. payloads' = Tail(payloads)
  BY <1>2, <1>5, <1>6, SeqEqual
<1>. QED
  BY <1>1, <1>3, <1>7 DEF Fifo!Pop, Fifo!Result, Result

LEMMA SamePayloads ==
  ASSUME UNCHANGED queued
  PROVE  payloads' = payloads
BY DEF payloads

(***************************************************************************)
(* A junk with elements of one size is a FIFO: every sequence of library   *)
(* calls does to the queued payloads, and returns, what JunkFifo says.     *)
(***************************************************************************)
THEOREM Refinement == Spec => FifoSpec
<1>1. Init => Fifo!Init
  <2>. SUFFICES ASSUME Init PROVE Fifo!Init
    OBVIOUS
  <2>1. payloads = <<>>
    BY InitInv, PayloadSeq DEF Init
  <2>. QED
    BY <2>1 DEF Init, Fifo!Init, Fifo!Result, Result
<1>2. Inv /\ Inv' /\ [Next]_vars => [Fifo!Next]_(Fifo!vars)
  <2>. SUFFICES ASSUME Inv, Inv', [Next]_vars
                PROVE  [Fifo!Next]_(Fifo!vars)
    OBVIOUS
  <2>1. ASSUME NEW payload \in Payloads, PushElem(payload)
        PROVE  Fifo!Next
    BY <2>1, PushRefines DEF Fifo!Next
  <2>2. ASSUME NEW payload \in Payloads, PushRefused(payload)
        PROVE  Fifo!Next
    <3>1. ~Accepts(SlotSz)
      BY <2>2, UniformAssumption DEF PushRefused, ElemSz, SlotSz
    <3>2. Len(payloads) + 1 >= Capacity
      BY <3>1, RefusalReason, PayloadSeq
    <3>3. payloads' = payloads
      BY <2>2, SamePayloads DEF PushRefused
    <3>4. Fifo!RefusePush
      BY <2>2, <3>2, <3>3 DEF PushRefused, Fifo!RefusePush, Fifo!Result, Result
    <3>. QED
      BY <3>4 DEF Fifo!Next
  <2>3. CASE PeekElemHdr
    <3>1. payloads # <<>> <=> count > 0
      BY PayloadSeq DEF Inv, TypeOK
    <3>2. payloads' = payloads
      BY <2>3, SamePayloads DEF PeekElemHdr
    <3>3. Fifo!PeekHdr
      BY <2>3, <3>1, <3>2 DEF PeekElemHdr, Fifo!PeekHdr, Fifo!Result, Result
    <3>. QED
      BY <3>3 DEF Fifo!Next
  <2>4. CASE PeekElemData
    <3>1. payloads' = payloads
      BY <2>4, SamePayloads DEF PeekElemData
    <3>2. CASE count = 0
      <4>1. ret' = Result("peek_data", FALSE, <<>>)
        BY <2>4, <3>2 DEF PeekElemData
      <4>. QED
        BY <3>1, <3>2, <4>1, PayloadSeq DEF Fifo!Next, Fifo!PeekData, Fifo!Result, Result
    <3>3. CASE count # 0
      <4>1. count > 0
        BY <3>3 DEF Inv, TypeOK
      <4>2. PICK cur \in Readings(readoffs) :
              ret' = Result("peek_data", TRUE, DataAt(readoffs, cur.size))
        BY <2>4, <3>3, Zenon DEF PeekElemData
      <4>3. cur.size = DataSz
        BY <4>1, <4>2, HeadHdr
      <4>4. ret' = Result("peek_data", TRUE, Head(payloads))
        BY <4>1, <4>2, <4>3, HeadHdr, PayloadSeq
      <4>5. Fifo!PeekData
        BY <3>1, <3>3, <4>4, PayloadSeq DEF Fifo!PeekData, Fifo!Result, Result
      <4>. QED
        BY <4>5 DEF Fifo!Next
    <3>. QED
      BY <3>2, <3>3
  <2>5. CASE PopElemData
    BY <2>5, PopRefines DEF Fifo!Next
  <2>6. CASE PopNull
    <3>1. payloads' = payloads
      BY <2>6, SamePayloads DEF PopNull
    <3>2. ret # Result("peek_hdr", TRUE, <<>>) /\ ret' = Result("pop", FALSE, <<>>)
      BY <2>6, FreshPop DEF PopNull
    <3>3. Fifo!PopNull
      BY <3>1, <3>2 DEF Fifo!PopNull, Fifo!Result, Result
    <3>. QED
      BY <3>3 DEF Fifo!Next
  <2>7. CASE ClearJunk
    <3>1. payloads' = <<>>
      <4>1. queued' = <<>>
        BY <2>7 DEF ClearJunk
      <4>2. /\ <<>> \in Seq([offs : Area, payload : Payloads])
            /\ Len(<<>>) = 0
        BY EmptySeq
      <4>3. payloads' = [i \in 1 .. Len(<<>>) |-> (<<>>)[i].payload]
        BY <4>1 DEF payloads
      <4>. QED
        BY <4>2, <4>3, PayloadsOf
    <3>2. Fifo!Clear
      BY <2>7, <3>1 DEF ClearJunk, Fifo!Clear, Fifo!Result, Result
    <3>. QED
      BY <3>2 DEF Fifo!Next
  <2>8. CASE UNCHANGED vars
    <3>1. payloads' = payloads /\ ret' = ret
      BY <2>8, SamePayloads DEF vars
    <3>. QED
      BY <3>1 DEF Fifo!vars
  <2>. QED
    BY <2>1, <2>2, <2>3, <2>4, <2>5, <2>6, <2>7, <2>8 DEF Next
<1>. QED
  BY <1>1, <1>2, Invariance, PTL DEF Spec, FifoSpec, Fifo!Spec

=============================================================================
