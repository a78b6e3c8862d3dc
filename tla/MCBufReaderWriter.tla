--------------------------- MODULE MCBufReaderWriter ---------------------------
(***************************************************************************)
(* Instances of BufReaderWriter for TLC.                                   *)
(***************************************************************************)
EXTENDS BufReaderWriter

CONSTANTS a, b  \* Two bytes, as model values.

TwoBytes == {a, b}

\* No action and no safety property names a byte, so the two are
\* interchangeable.
Symmetry == Permutations(Byte)
================================================================================
