---------------------------- MODULE MCSharedJunk ----------------------------
(* Three slots of two cells and one wasted cell, two processes.            *)
EXTENDS SharedJunk
CONSTANTS p1, p2, b1, b2
MCProcs == {p1, p2}
MCBytes == {b1, b2}
MCPayloads == {<<b1>>, <<b2>>}
MCOnePayload == {<<b1>>}
MCDrainedMove == {"move_both"}
=============================================================================
