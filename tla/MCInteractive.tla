----------------------------- MODULE MCInteractive -----------------------------
(***************************************************************************)
(* An instance of Interactive for TLC.  The only byte is a model value: it *)
(* is what a request is made of, and the delimiter of read_until.          *)
(***************************************************************************)
EXTENDS Interactive

CONSTANTS a

OneByte == {a}
================================================================================
