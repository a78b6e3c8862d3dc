------------------------------ MODULE DuplexStream ------------------------------
(***************************************************************************)
(* What a buffered duplex handle promises, whatever it does inside: two    *)
(* byte streams, one in each direction, each a first-in first-out queue.   *)
(* A byte the handle has accepted from its owner is delivered to the inner *)
(* writer at most once and in order; a byte the inner reader has supplied  *)
(* reaches the owner at most once and in order.  A transfer may go past a  *)
(* buffer only when nothing waits in it.  Nothing moves after the close.   *)
(*                                                                         *)
(* An action says which stream grows and leaves the other alone; how much  *)
(* it grows by is up to the implementation.                                *)
(***************************************************************************)
EXTENDS SequencesExt

VARIABLES
    accepted,   \* the bytes accepted from the owner
    delivered,  \* the bytes the inner writer has acknowledged
    supplied,   \* the bytes the inner reader has supplied
    taken,      \* the bytes handed to the owner
    open        \* the handle has not been closed

outward == <<accepted, delivered>>
inward  == <<supplied, taken>>

Init ==
    /\ accepted = <<>> /\ delivered = <<>>
    /\ supplied = <<>> /\ taken = <<>>
    /\ open = TRUE

Accept ==
    /\ IsStrictPrefix(accepted, accepted')
    /\ UNCHANGED <<delivered, inward>>

Deliver ==
    /\ IsStrictPrefix(delivered, delivered')
    /\ IsPrefix(delivered', accepted)
    /\ UNCHANGED <<accepted, inward>>

WriteThrough ==
    /\ delivered = accepted
    /\ IsStrictPrefix(accepted, accepted')
    /\ delivered' = accepted'
    /\ UNCHANGED inward

Supply ==
    /\ IsStrictPrefix(supplied, supplied')
    /\ UNCHANGED <<taken, outward>>

Take ==
    /\ IsStrictPrefix(taken, taken')
    /\ IsPrefix(taken', supplied)
    /\ UNCHANGED <<supplied, outward>>

ReadThrough ==
    /\ taken = supplied
    /\ IsStrictPrefix(supplied, supplied')
    /\ taken' = supplied'
    /\ UNCHANGED outward

Transfer == Accept \/ Deliver \/ WriteThrough \/ Supply \/ Take \/ ReadThrough

Close == open' = FALSE /\ UNCHANGED <<outward, inward>>

Next == open /\ (Close \/ (Transfer /\ UNCHANGED open))

Spec == Init /\ [][Next]_<<outward, inward, open>>
================================================================================
