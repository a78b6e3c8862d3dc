------------------------- MODULE MCBufReaderLineWriter -------------------------
(***************************************************************************)
(* Instances of BufReaderLineWriter for TLC.                               *)
(***************************************************************************)
EXTENDS BufReaderLineWriter

CONSTANT x  \* A byte that does not end a line, as a model value.

TextBytes == {x, Newline}
================================================================================
