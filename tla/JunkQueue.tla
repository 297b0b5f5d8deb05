------------------------------ MODULE JunkQueue ------------------------------
(***************************************************************************)
(* One assigned junk of the shared memory: its header (wv_shm_junk_hdr_t)  *)
(* and the queue area behind it, as the library calls of wv_shm_mngt.c     *)
(* read and write them.  Each action is one call, run to its end by a      *)
(* process that has the junk for itself (it holds the junk's semaphore, or *)
(* is the only process).                                                   *)
(*                                                                         *)
(* An offset names one cell of the area.  A cell is seen in two ways: as   *)
(* the first cell of an element header (hdrs) and as a byte of data        *)
(* (data).  Writing an element overwrites both views of every cell it      *)
(* covers, so an element written over another one destroys it here as it   *)
(* does in memory.  Pointers are offsets, and 0 is NULL.                   *)
(***************************************************************************)
EXTENDS Integers, Sequences

CONSTANTS
  quu_startoffs,  \* first offset of the queue area
  quu_endoffs,    \* first offset behind the queue area
  HdrSz,          \* sizeof(wv_shm_junk_elem_hdr_t)
  Bytes,          \* the bytes the data of an element is made of
  Payloads,       \* the data callers push, each a non-empty sequence of bytes
  NoByte,         \* a cleared byte, or a byte of an element header
  NoHdr           \* what hdrs shows at a cell where no header starts

ASSUME AreaAssumption ==
  /\ quu_startoffs \in Nat \ {0}
  /\ quu_endoffs \in Nat
  /\ quu_startoffs < quu_endoffs
  /\ HdrSz \in Nat \ {0}

Hdr == [size : Nat, nextoffs : Nat]

ASSUME PayloadAssumption ==
  /\ Payloads \subseteq Seq(Bytes) \ {<<>>}
  /\ NoByte \notin Bytes
  /\ NoHdr \notin Hdr

VARIABLES
  writeoffs, prev_writeoffs, readoffs, remainsz, count,  \* the junk header
  hdrs, data,                                            \* the queue area
  peeked,   \* the element header pointer the caller holds, NULL at first
  ret,      \* what the last call returned
  queued    \* history: the elements pushed and not popped, oldest first

jhdr == <<writeoffs, prev_writeoffs, readoffs, remainsz, count>>
vars == <<jhdr, hdrs, data, peeked, ret, queued>>

Area == quu_startoffs .. quu_endoffs - 1
AreaSz == quu_endoffs - quu_startoffs
ZeroHdr == [size |-> 0, nextoffs |-> 0]
Result(op, ok, val) == [op |-> op, ok |-> ok, val |-> val]

-----------------------------------------------------------------------------
(***************************************************************************)
(* Reading the area.  Payload bytes read as a header can be anything, and  *)
(* a size read from them can lead beyond the area, where the bytes of no   *)
(* payload of this junk are.                                               *)
(***************************************************************************)
Readings(offs) ==
  IF offs \in Area /\ hdrs[offs] # NoHdr
  THEN {hdrs[offs]}
  ELSE [size : 0 .. AreaSz, nextoffs : {0} \cup Area]

StoredAt(offs, size) == [i \in 1 .. size |-> data[offs + HdrSz + i - 1]]

DataAt(offs, size) ==
  [i \in 1 .. size |->
     IF offs + HdrSz + i - 1 \in Area THEN data[offs + HdrSz + i - 1] ELSE NoByte]

(***************************************************************************)
(* Writing the area: the memcpy of an element header, the memcpy of its    *)
(* data, and the link from the previous element.                           *)
(***************************************************************************)
LinkElemsBackwards(prevoffs, curoffs) ==
  IF prevoffs # 0 /\ curoffs > prevoffs
  THEN [hdrs EXCEPT ![prevoffs] = [size |-> @.size, nextoffs |-> curoffs]]
  ELSE hdrs

LinkElems(prevoffs, curoffs) ==
  IF prevoffs # 0 /\ curoffs # 0
  THEN [hdrs EXCEPT ![prevoffs] = [size |-> @.size, nextoffs |-> curoffs]]
  ELSE hdrs

StoreHdr(h, offs, size) ==
  [o \in Area |->
     IF o = offs THEN [size |-> size, nextoffs |-> 0]
     ELSE IF o \in offs .. offs + HdrSz + size - 1 THEN NoHdr
     ELSE h[o]]

StoreDataOverHdr(offs, payload) ==
  [o \in Area |->
     IF o \in offs .. offs + Len(payload) - 1
     THEN payload[o - offs + 1]
     ELSE data[o]]

StoreData(offs, payload) ==
  [o \in Area |->
     IF o \in offs + HdrSz .. offs + HdrSz + Len(payload) - 1
     THEN payload[o - (offs + HdrSz) + 1]
     ELSE IF o \in offs .. offs + HdrSz - 1 THEN NoByte
     ELSE data[o]]

-----------------------------------------------------------------------------
(***************************************************************************)
(* The tests wv_shm_push_elem makes before it writes anything.             *)
(***************************************************************************)
ElemSz(payload) == HdrSz + Len(payload)

PastEndOfData(elemsz) == writeoffs + elemsz - HdrSz > quu_endoffs

PastEnd(elemsz) == writeoffs + elemsz > quu_endoffs

FrontFree(elemsz) ==
  /\ readoffs # quu_startoffs
  /\ elemsz < readoffs - quu_startoffs

AcceptsAnyway(elemsz) ==
  /\ writeoffs >= quu_startoffs
  /\ PastEnd(elemsz) => FrontFree(elemsz)

Accepts(elemsz) ==
  /\ remainsz >= elemsz
  /\ writeoffs >= quu_startoffs
  /\ PastEnd(elemsz) => FrontFree(elemsz)

WritePos(elemsz) == IF PastEnd(elemsz) THEN quu_startoffs ELSE writeoffs

(***************************************************************************)
(* A drained queue whose write position wraps takes its read position      *)
(* along.                                                                  *)
(***************************************************************************)
ReadPosLeftBehind(elemsz) == readoffs

ReadPosAfterPush(elemsz) ==
  IF PastEnd(elemsz) /\ readoffs = writeoffs THEN quu_startoffs ELSE readoffs

PushElem(payload) ==
  LET elemsz == ElemSz(payload)
      offs   == WritePos(elemsz)
  IN
  /\ Accepts(elemsz)
  /\ readoffs' = ReadPosAfterPush(elemsz)
  /\ hdrs' = StoreHdr(LinkElems(prev_writeoffs, offs), offs, Len(payload))
  /\ data' = StoreData(offs, payload)
  /\ prev_writeoffs' = offs
  /\ writeoffs' = offs + elemsz
  /\ remainsz' = remainsz - elemsz
  /\ count' = count + 1
  /\ queued' = Append(queued, [offs |-> offs, payload |-> payload])
  /\ ret' = Result("push", TRUE, <<>>)
  /\ UNCHANGED peeked

PushRefused(payload) ==
  /\ ~Accepts(ElemSz(payload))
  /\ ret' = Result("push", FALSE, <<>>)
  /\ UNCHANGED <<jhdr, hdrs, data, peeked, queued>>

-----------------------------------------------------------------------------
(***************************************************************************)
(* wv_shm_peek_elem_hdr hands out a pointer into the area, not a copy: what *)
(* the caller reads through it is whatever the area holds by then.         *)
(***************************************************************************)
PeekElemHdr ==
  /\ IF count > 0 THEN peeked' = readoffs ELSE UNCHANGED peeked
  /\ ret' = Result("peek_hdr", count > 0, <<>>)
  /\ UNCHANGED <<jhdr, hdrs, data, queued>>

PeekElemData ==
  /\ \/ /\ count > 0
        /\ \E cur \in Readings(readoffs) :
             ret' = Result("peek_data", TRUE, DataAt(readoffs, cur.size))
     \/ /\ count = 0
        /\ ret' = Result("peek_data", FALSE, <<>>)
  /\ UNCHANGED <<jhdr, hdrs, data, peeked, queued>>

(***************************************************************************)
(* wv_shm_pop_elem_data compares the header it is called with to the one   *)
(* at the read position; a nextoffs of 0 on either side matches any.       *)
(***************************************************************************)
ArgHdrs(cur) == IF peeked = readoffs THEN {cur} ELSE Readings(peeked)

SameElem(cur, elemhdr) ==
  /\ cur.nextoffs # 0 /\ elemhdr.nextoffs # 0 => cur.nextoffs = elemhdr.nextoffs
  /\ cur.size = elemhdr.size

(***************************************************************************)
(* The last element has no nextoffs.  If the write position is not ahead   *)
(* of it the reader goes on at the front of the area, provided the element *)
(* there has a successor.  (The front of the area is always a header: no   *)
(* element covers it with its data.)                                       *)
(***************************************************************************)
HasSuccessorAhead(cur) == cur.nextoffs # 0 \/ readoffs < writeoffs

HasSuccessor(cur) ==
  \/ cur.nextoffs # 0
  \/ readoffs < writeoffs
  \/ hdrs[quu_startoffs].nextoffs # 0

NextReadPos(cur) ==
  IF cur.nextoffs # 0 THEN cur.nextoffs
  ELSE IF readoffs >= writeoffs THEN quu_startoffs
  ELSE writeoffs

PopElemData ==
  /\ peeked # 0
  /\ count # 0
  /\ \E cur \in Readings(readoffs) : \E elemhdr \in ArgHdrs(cur) :
       /\ SameElem(cur, elemhdr)
       /\ HasSuccessor(cur)
       /\ ret' = Result("pop", TRUE, DataAt(readoffs, cur.size))
       /\ readoffs' = NextReadPos(cur)
       /\ remainsz' = remainsz + HdrSz + elemhdr.size
  /\ count' = count - 1
  /\ queued' = IF queued = <<>> THEN <<>> ELSE Tail(queued)
  /\ UNCHANGED <<writeoffs, prev_writeoffs, hdrs, data, peeked>>

PopNull ==
  /\ peeked # 0
  /\ \/ count = 0
     \/ \E cur \in Readings(readoffs) : \E elemhdr \in ArgHdrs(cur) :
          ~(SameElem(cur, elemhdr) /\ HasSuccessor(cur))
  /\ ret' = Result("pop", FALSE, <<>>)
  /\ UNCHANGED <<jhdr, hdrs, data, peeked, queued>>

-----------------------------------------------------------------------------
(***************************************************************************)
(* wv_shm_clear_junk zeroes the area and rewinds the header.  Assigning a  *)
(* junk ends with this call, so it also gives the initial state.           *)
(***************************************************************************)
ClearJunk ==
  /\ hdrs' = [o \in Area |-> ZeroHdr]
  /\ data' = [o \in Area |-> NoByte]
  /\ writeoffs' = quu_startoffs
  /\ readoffs' = quu_startoffs
  /\ prev_writeoffs' = 0
  /\ remainsz' = AreaSz
  /\ count' = 0
  /\ queued' = <<>>
  /\ ret' = Result("clear", TRUE, <<>>)
  /\ UNCHANGED peeked

Init ==
  /\ hdrs = [o \in Area |-> ZeroHdr]
  /\ data = [o \in Area |-> NoByte]
  /\ writeoffs = quu_startoffs
  /\ readoffs = quu_startoffs
  /\ prev_writeoffs = 0
  /\ remainsz = AreaSz
  /\ count = 0
  /\ queued = <<>>
  /\ ret = Result("none", TRUE, <<>>)
  /\ peeked = 0

Next ==
  \/ \E payload \in Payloads : PushElem(payload) \/ PushRefused(payload)
  \/ PeekElemHdr
  \/ PeekElemData
  \/ PopElemData
  \/ PopNull
  \/ ClearJunk

Spec == Init /\ [][Next]_vars

-----------------------------------------------------------------------------
(***************************************************************************)
(* Type invariant of the junk header, the area and the caller's pointer.   *)
(***************************************************************************)
Results ==
  [op : {"none", "push", "peek_hdr", "peek_data", "pop", "clear"},
   ok : BOOLEAN,
   val : Seq(Bytes)]

TypeOK ==
  /\ writeoffs \in quu_startoffs .. quu_endoffs
  /\ prev_writeoffs \in {0} \cup Area
  /\ readoffs \in quu_startoffs .. quu_endoffs
  /\ remainsz \in 0 .. AreaSz
  /\ count \in Nat
  /\ hdrs \in [Area -> Hdr \cup {NoHdr}]
  /\ data \in [Area -> Bytes \cup {NoByte}]
  /\ peeked \in {0} \cup Area
  /\ ret \in Results
  /\ queued \in Seq([offs : Area, payload : Payloads])

(***************************************************************************)
(* No write of the library damages an element that is still in the queue:  *)
(* following nextoffs from the read position meets the headers and the     *)
(* data of exactly the elements pushed and not yet popped, in the order    *)
(* they were pushed (wv_shm_push_elem, wv_shm_pop_elem_data).              *)
(***************************************************************************)
BacklogIntact ==
  /\ count = Len(queued)
  /\ queued # <<>> => readoffs = Head(queued).offs
  /\ \A i \in 1 .. Len(queued) :
       LET elem == queued[i]
           last == i = Len(queued)
       IN
       /\ hdrs[elem.offs] =
            [size |-> Len(elem.payload),
             nextoffs |-> IF last THEN 0 ELSE queued[i + 1].offs]
       /\ StoredAt(elem.offs, Len(elem.payload)) = elem.payload

(***************************************************************************)
(* A pop that returns data returns the data of the oldest element in the   *)
(* queue (tests/data_integrity.c compares every popped message to the one  *)
(* pushed in its turn).                                                    *)
(***************************************************************************)
PopsOldest ==
  [][ret'.op = "pop" /\ ret'.ok /\ queued' # queued =>
       ret'.val = Head(queued).payload]_vars

(***************************************************************************)
(* A pop that returns data returns the data of the element whose header    *)
(* the caller passed: the check in wv_shm_pop_elem_data reports a header   *)
(* that is not the current one instead of popping another element.         *)
(***************************************************************************)
PopReturnsPeeked ==
  [][ret'.op = "pop" /\ ret'.ok /\ queued' # queued => peeked = readoffs]_vars
=============================================================================
