----------------------------- MODULE MCRegistry -----------------------------
(* Two processes and more names than junks, one of which begins another. *)
EXTENDS Registry
CONSTANTS p1, p2, a, b
MCProcs == {p1, p2}
MCBytes == {a, b, Nul}
MCNames == {<<a, Nul, Nul>>, <<a, b, Nul>>}

(* Nothing but types is claimed of what follows a race: TLC goes no further. *)
Calm == ~raced
=============================================================================
