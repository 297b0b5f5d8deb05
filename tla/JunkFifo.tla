------------------------------ MODULE JunkFifo ------------------------------
(***************************************************************************)
(* What one shared-memory "junk" promises to the processes that use it,    *)
(* whatever its bytes look like: a FIFO of elements with room for Capacity *)
(* of them.  wv_shm_push_elem appends, wv_shm_peek_elem_hdr and            *)
(* wv_shm_peek_elem_data look at the head, wv_shm_pop_elem_data removes    *)
(* the head and hands out a copy of it, wv_shm_clear_junk empties it.      *)
(***************************************************************************)
EXTENDS Naturals, Sequences

CONSTANTS
  Payloads,  \* the data of the elements, each a sequence of bytes
  Capacity   \* the number of elements the area has room for

VARIABLES
  q,    \* the payloads pushed and not yet popped, oldest first
  ret   \* what the last call returned

vars == <<q, ret>>

Result(op, ok, val) == [op |-> op, ok |-> ok, val |-> val]

Init ==
  /\ q = <<>>
  /\ ret = Result("none", TRUE, <<>>)

Push(payload) ==
  /\ Len(q) < Capacity
  /\ q' = Append(q, payload)
  /\ ret' = Result("push", TRUE, <<>>)

(***************************************************************************)
(* The only refusals: the queue is full, or a single slot is missing.      *)
(***************************************************************************)
RefusePush ==
  /\ Len(q) + 1 >= Capacity
  /\ ret' = Result("push", FALSE, <<>>)
  /\ UNCHANGED q

PeekHdr ==
  /\ ret' = Result("peek_hdr", q # <<>>, <<>>)
  /\ UNCHANGED q

PeekData ==
  /\ ret' = Result("peek_data", q # <<>>, IF q = <<>> THEN <<>> ELSE Head(q))
  /\ UNCHANGED q

Pop ==
  /\ q # <<>>
  /\ q' = Tail(q)
  /\ ret' = Result("pop", TRUE, Head(q))

(***************************************************************************)
(* A pop may return NULL, but never right after the peek that returned the *)
(* header it is called with.                                               *)
(***************************************************************************)
PopNull ==
  /\ ret # Result("peek_hdr", TRUE, <<>>)
  /\ ret' = Result("pop", FALSE, <<>>)
  /\ UNCHANGED q

Clear ==
  /\ q' = <<>>
  /\ ret' = Result("clear", TRUE, <<>>)

Next ==
  \/ \E payload \in Payloads : Push(payload)
  \/ RefusePush
  \/ PeekHdr
  \/ PeekData
  \/ Pop
  \/ PopNull
  \/ Clear

Spec == Init /\ [][Next]_vars
=============================================================================
