------------------------------ MODULE MCSegment ------------------------------
(* Three processes, one of which may remove the segment it finds. *)
EXTENDS Segment
CONSTANTS p1, p2, p3
MCProcs == {p1, p2, p3}
MCOneRemover == {p1}
=============================================================================
