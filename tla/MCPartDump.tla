----------------------------- MODULE MCPartDump -----------------------------
(* A partition of four bytes (two sectors, one page), a pipe of one, two    *)
(* dumps over one file: whole ones, aligned and unaligned ranges, a range   *)
(* up to the last byte and one past it.                                     *)
EXTENDS PartDump

CONSTANTS a, b

MCBlock == {a, b}
MCRanges == [off : {1}, len : {2, 3}] \cup {[off |-> 3, len |-> 2], [off |-> 0, len |-> 4]}
\* Bytes are copied and compared, never computed with: contents that tell places apart.
MCContents == {<<a, b, b, a>>, <<b, b, a, a>>, <<a, b, a, b>>, <<b, a, a, a>>}
=============================================================================
