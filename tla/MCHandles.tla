------------------------------- MODULE MCHandles -------------------------------
(***************************************************************************)
(* Instances of Handles for TLC.                                           *)
(***************************************************************************)
EXTENDS Handles

CONSTANTS
    n1, n2, n3, n4,  \* Numbers, as model values.
    h1, h2           \* Slots, as model values.

FourNumbers == {n1, n2, n3, n4}
TwoSlots == {h1, h2}
Symmetry == Permutations(FourNumbers) \cup Permutations(TwoSlots)
================================================================================
