----------------------------- MODULE MCDumpLoad -----------------------------
(* One process that assigns, dumps and loads, and one that uses the junks. *)
EXTENDS DumpLoad, TLC
CONSTANTS p1, p2, l, m, n
MCProcs == {p1, p2}
MCCalls ==
  (p1 :> {"assign", "unassign", "dump", "load"}) @@ (p2 :> {"push", "pop", "clear"})
MCHeld == (p1 :> {}) @@ (p2 :> {1})
MCNames == {l, m, n}
MCMatches == {<<k, k>> : k \in MCNames}
MCGiven == <<m, n>>
=============================================================================
