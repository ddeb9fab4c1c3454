------------------------------- MODULE MCPage -------------------------------
(***************************************************************************)
(* A page small enough for TLC: room for the header and 26 bytes, so that  *)
(* three tuples fit, the fourth only after a compaction, and slot entries  *)
(* and tuples meet exactly in the middle.                                  *)
(***************************************************************************)
EXTENDS Page

CONSTANTS b0, b1, b2

MCPageSize == HeaderSize + 26
MCByte == {b0, b1, b2}

\* Tuples of different lengths and contents, one that can be told from itself
\* shifted by a byte, and two slices InsertTuple must reject.
MCData == {<<b1>>, <<b1, b2, b1>>, <<b2, b2, b1, b1, b2>>, <<>>,
           [k \in 1 .. MCPageSize + 1 |-> b1]}
=============================================================================
