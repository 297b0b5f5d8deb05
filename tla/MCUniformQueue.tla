--------------------------- MODULE MCUniformQueue ---------------------------
(* Bounds for TLC: headers of two cells, data of two, two payloads that   *)
(* differ in every byte.                                                  *)
EXTENDS UniformQueue
CONSTANTS b1, b2
MCBytes == {b1, b2}
MCPayloads == {<<b1, b2>>, <<b2, b1>>}
=============================================================================
