---------------------------- MODULE UniformQueue ----------------------------
(***************************************************************************)
(* A junk whose callers push elements of one size, as every program of the *)
(* repository does (sizeof(testelem_t), sizeof(test_packet_t)).  Then the  *)
(* elements sit in slots of equal length, and the junk is a FIFO with room *)
(* for Capacity elements.                                                  *)
(***************************************************************************)
EXTENDS JunkQueue

CONSTANT DataSz  \* the size every caller passes

ASSUME UniformAssumption ==
  /\ DataSz \in Nat \ {0}
  /\ Payloads # {}
  /\ \A payload \in Payloads : Len(payload) = DataSz

SlotSz == HdrSz + DataSz

Capacity == AreaSz \div SlotSz

(***************************************************************************)
(* The junk holds at least one element.                                    *)
(***************************************************************************)
ASSUME CapacityAssumption == SlotSz <= AreaSz

(***************************************************************************)
(* The offset of slot k, and the slot of the i-th queued element when the  *)
(* first one is in slot a.                                                 *)
(***************************************************************************)
SlotOffs(k) == quu_startoffs + k * SlotSz

Wrap(k) == IF k < Capacity THEN k ELSE k - Capacity

ElemSlot(a, i) == Wrap(a + i - 1)

(***************************************************************************)
(* The write position is one slot behind the newest element; only that     *)
(* position may be the end of the last slot.                               *)
(***************************************************************************)
WriteSlot(a) ==
  IF a + count <= Capacity THEN a + count ELSE a + count - Capacity

Layout(a) ==
  /\ readoffs = SlotOffs(a)
  /\ count > 0 => a < Capacity
  /\ writeoffs = SlotOffs(WriteSlot(a))
  /\ \A i \in 1 .. count : queued[i].offs = SlotOffs(ElemSlot(a, i))

SlotHdrs ==
  \A k \in 0 .. Capacity - 1 : hdrs[SlotOffs(k)] \in Hdr

(***************************************************************************)
(* After a peek that found an element, the caller points at the head.      *)
(***************************************************************************)
FreshPeek ==
  ret = Result("peek_hdr", TRUE, <<>>) => count > 0 /\ peeked = readoffs

(***************************************************************************)
(* The inductive invariant: where the elements are, what remainsz and      *)
(* prev_writeoffs say about them, and that their bytes are intact.         *)
(***************************************************************************)
Inv ==
  /\ TypeOK
  /\ count <= Capacity
  /\ remainsz = AreaSz - count * SlotSz
  /\ \E a \in 0 .. Capacity : Layout(a)
  /\ prev_writeoffs = 0 \/ \E k \in 0 .. Capacity - 1 : prev_writeoffs = SlotOffs(k)
  /\ count > 0 => prev_writeoffs = queued[count].offs
  /\ SlotHdrs
  /\ BacklogIntact
  /\ FreshPeek

(***************************************************************************)
(* The junk implements the FIFO of JunkFifo: every call does to the        *)
(* queued payloads what it promises, and returns what it promises.         *)
(***************************************************************************)
payloads == [i \in 1 .. Len(queued) |-> queued[i].payload]

Fifo == INSTANCE JunkFifo WITH q <- payloads

FifoSpec == Fifo!Spec
=============================================================================
