------------------------------- MODULE MCLockers -------------------------------
(***************************************************************************)
(* Instances of Lockers for TLC.                                           *)
(***************************************************************************)
EXTENDS Lockers

CONSTANTS
    t1, t2,      \* Two threads of the application, as model values.
    l1, l2, l3   \* Three lockers, one more than the streams have.

TwoThreads == {t1, t2}
ThreeLockers == {l1, l2, l3}
================================================================================
