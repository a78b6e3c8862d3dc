------------------------------ MODULE Interactive ------------------------------
(***************************************************************************)
(* A BufReaderWriter and the peer at the other end of an interactive       *)
(* stream, who answers every request with a reply.  A byte stands for a    *)
(* request, or for a reply.                                                *)
(*                                                                         *)
(* The inner writer may have buffers of its own (it is any Write), so only *)
(* what has been flushed through it is sure to arrive.  The inner reader   *)
(* blocks until a reply is there: unlike in BufReaderWriter it does not    *)
(* come to an end.  A wrapper that waits for a reply while the peer waits  *)
(* for the request is the hazard of buffering both ways.                   *)
(***************************************************************************)
EXTENDS BufReaderWriter

VARIABLES
    arrived,   \* how many requests have reached the peer
    replied    \* how many of them it has answered

interactive_vars == <<vars, arrived, replied>>

\* A call of the inner reader, for at least one byte.
AsksForReply ==
    \/ At("read_direct") /\ Limit > 0
    \/ At("fill_buf") /\ pos = Len(reader_buf)

\* The inner reader is given replies only, and at least one.
NoReplyTooEarly ==
    /\ Len(supplied') <= replied
    /\ AsksForReply /\ op' # "none" => supplied' # supplied

\* A flush of the inner writer gets everything to the peer.
Owner(A) ==
    /\ A
    /\ NoReplyTooEarly
    /\ arrived' = IF flushed' THEN Len(sink') ELSE arrived
    /\ UNCHANGED replied

\* What has been written may also arrive by itself.
Arrives ==
    /\ arrived < Len(sink)
    /\ arrived' = arrived + 1
    /\ UNCHANGED <<vars, replied>>

Replies ==
    /\ replied < arrived
    /\ replied' = replied + 1
    /\ UNCHANGED <<vars, arrived>>

InteractiveInit == Init /\ arrived = 0 /\ replied = 0

InteractiveNext == Owner(Next) \/ Arrives \/ Replies

\* The step of a call that no failure of the inner reader cuts short.
Serves == Run /\ ~ReadFails

\* The thread in a call runs on, and the peer answers; nothing else is sure to
\* happen: not a failure that would end a wait, nor an early arrival.
InteractiveSpec ==
    /\ InteractiveInit /\ [][InteractiveNext]_interactive_vars
    /\ WF_interactive_vars(Owner(Serves)) /\ WF_interactive_vars(Replies)

(***************************************************************************)
(* Properties                                                              *)
(***************************************************************************)
\* The owner has asked for more than it has read.
Owed == Len(Stream) > Len(taken)

\* While the wrapper waits in the inner reader, every request is at the peer,
\* and when it is owed a reply one of them is a request whose reply it has not
\* been given: the two never wait for each other.  fill_buf, which does not
\* flush first, keeps this promise when nothing waits to be flushed.
NeverBothWait ==
    AsksForReply /\ (op \in ReadOps \/ (writer_buf = <<>> /\ flushed))
        => arrived = Len(Stream) /\ (Owed => Len(supplied) < arrived)

\* A read that waits for the answer to a request is over at some time, however
\* the requests were written and buffered: the wrapper never waits for a reply
\* while the peer waits for the request.
RequestAnswered == (op \in ReadOps /\ Owed) ~> (op = "none")

\* fill_buf, which does not flush first, keeps this promise only after a flush
\* (or when what it returns is there already).
FillAnsweredIfFlushed ==
    (op = "fill_buf" /\ Owed /\ writer_buf = <<>> /\ flushed) ~> (op = "none")
================================================================================
