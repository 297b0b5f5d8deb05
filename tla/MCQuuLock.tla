----------------------------- MODULE MCQuuLock -----------------------------
(* Three processes and all faults. *)
EXTENDS QuuLock
CONSTANTS p1, p2, p3
MCProcs == {p1, p2, p3}
=============================================================================
