---------------------------- MODULE MCPartWrite ----------------------------
(* A two-block partition and images shorter, equal and longer than it. *)
EXTENDS PartWrite

CONSTANTS a, b

MCBlock == {a, b}
MCImages == {<<>>, <<b>>, <<b, a>>, <<a, b>>, <<b, b, a>>}
=============================================================================
