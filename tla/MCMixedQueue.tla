---------------------------- MODULE MCMixedQueue ----------------------------
(* Elements of three different sizes in one junk.                          *)
EXTENDS JunkQueue
CONSTANTS b1
MCBytes == {b1}
MCPayloads == {<<b1>>, <<b1, b1>>, <<b1, b1, b1>>}
=============================================================================
