--------------------------- MODULE MCAppendBuffer ---------------------------
(* Messages of up to four bytes: long enough for a write that takes the    *)
(* half of a block, and for three blocks in the list.                      *)
EXTENDS AppendBuffer
=============================================================================
