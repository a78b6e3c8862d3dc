----------------------------- MODULE MCPipedThread -----------------------------
(***************************************************************************)
(* Instances of PipedThread for TLC.                                       *)
(***************************************************************************)
EXTENDS PipedThread

CONSTANTS a, b   \* Two bytes, as model values.

TwoBytes == {a, b}
================================================================================
