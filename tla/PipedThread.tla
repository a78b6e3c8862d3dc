------------------------------ MODULE PipedThread ------------------------------
(***************************************************************************)
(* ReadHandle and WriteHandle over a boxed reader or writer: piped_thread, *)
(* str and bytes, the Read and Write of the handles, map_err, flush and    *)
(* drop (src/posish.rs; src/winx.rs has the same code).                    *)
(*                                                                         *)
(* A thread copies between the boxed object and a pipe; the handle has the *)
(* other end.  The handle holds Some((pipe end, join handle)) until an     *)
(* error, a flush or the drop takes it: it then closes its end and joins   *)
(* the thread, and unwraps what the thread returns.                        *)
(*                                                                         *)
(* A call of the handle, the thread and the failures of both interleave.   *)
(* A descriptor whose pipe end has been closed answers EBADF; what happens *)
(* when its number is used again is in Handles.                            *)
(***************************************************************************)
EXTENDS Integers, SequencesExt

CONSTANTS
    Byte,          \* The values of a byte.
    PipeCapacity,  \* How many bytes a pipe holds.
    PipeBuf,       \* libc::PIPE_BUF, up to which bytes() needs no thread.
    Faults,        \* What may fail.
    StreamLength,  \* Bound: how many bytes ever go through.
    MaxLen         \* Bound: the longest slice of a call.

\* The boxed object fails or panics; a new pipe or thread cannot be had; a
\* call on the pipe is interrupted; the bytes read are no UTF-8, or a Display
\* passed to write_fmt fails.
FaultKinds == {"boxed", "panic", "spawn", "interrupted", "format"}

ASSUME CapacityAssumption == PipeCapacity \in Nat \ {0} /\ PipeBuf \in 0..PipeCapacity
ASSUME BoundAssumption == StreamLength \in Nat /\ MaxLen \in Nat
ASSUME FaultAssumption == Faults \subseteq FaultKinds

VARIABLES
    kind,       \* "reader", "writer", or "bytes", which has no thread
    life,       \* "new", "open", "dropped", or "aborted" by a second panic
    held,       \* the resource is Some: our end of the pipe is open
    thread,     \* what the thread does, or what it returned; "none" if joined
    carry,      \* the bytes copy has read and has yet to write
    pipe,       \* the bytes in the pipe
    call,       \* the call in progress, and what is left of it
    ret,        \* what the last call returned
    told,       \* history: a call has failed or panicked
    unwinding,  \* a panic of a call is unwinding through the handle's owner
    accepted,   \* the bytes the pipe has taken from the owner
    delivered,  \* the bytes the boxed writer has taken
    synced,     \* the boxed writer was flushed since
    supplied,   \* the bytes the boxed reader, or bytes(), has supplied
    taken       \* the bytes the owner has been given

outward == <<accepted, delivered, synced>>
inward  == <<supplied, taken>>
worker  == <<thread, carry>>
frame   == <<kind, life, call, ret, told, unwinding>>
vars    == <<frame, held, worker, pipe, outward, inward>>

Strings(n) == UNION {[1..k -> Byte] : k \in 0..n}
Least(m, n) == IF m <= n THEN m ELSE n
Rest(s, n) == SubSeq(s, n + 1, Len(s))

ReadOps  == {"read", "read_exact", "read_to_end", "read_to_string"}
WriteOps == {"write", "write_all", "write_fmt"}
Endless  == {"read_to_end", "read_to_string"}

\* `want' is how many bytes are still to be read; `todo' the bytes still to be
\* written, or those that read_to_string has read and has yet to look at.  At
\* "join" the call has closed our end and waits for the thread.
CallOf(op, want, todo) == [op |-> op, at |-> "pipe", want |-> want, todo |-> todo]
Idle == CallOf("none", 0, <<>>)

InCall == call.op # "none"
OnPipe(ops) == call.op \in ops /\ call.at = "pipe"
Joining(ops) == call.op \in ops /\ call.at = "join"

Ended == thread \in {"ok", "err", "panic"}
Room == PipeCapacity - Len(pipe)

(***************************************************************************)
(* Entering and leaving calls                                              *)
(***************************************************************************)
Enter(c) ==
    /\ life = "open" /\ ~InCall /\ ~unwinding
    /\ call' = c
    /\ UNCHANGED <<kind, life, ret, told, unwinding, held, worker, pipe, outward, inward>>

\* A panic leaves the call as well; its owner catches it or is unwound.
Leave(r) ==
    /\ call' = Idle /\ ret' = r
    /\ told' = (told \/ r \in {"err", "panic"})
    /\ unwinding' \in (IF r = "panic" THEN BOOLEAN ELSE {FALSE})
    /\ UNCHANGED <<kind, life>>

Goes(c) == call' = c /\ UNCHANGED <<kind, life, ret, told, unwinding>>

\* Mutant: the thread is joined with our end of the pipe still open.
LetGoLate == UNCHANGED <<held, pipe>>

\* take() and the drop of our end: what is in the pipe is lost to a reader,
\* and stays for the thread of a writer.
LetGo == /\ held' = FALSE
         /\ pipe' = IF kind = "writer" THEN pipe ELSE <<>>

Join(op) == LetGo /\ Goes([call EXCEPT !.op = op, !.at = "join"])

\* Every Err of the descriptor goes through map_err, whose take().unwrap()
\* finds None if an earlier one has been there.
MapErr ==
    \/ kind = "bytes" /\ Leave("err") /\ UNCHANGED <<held, pipe>>
    \/ kind # "bytes" /\ held /\ Join(call.op)
    \/ kind # "bytes" /\ ~held /\ Leave("panic") /\ UNCHANGED <<held, pipe>>

\* join().unwrap().unwrap_err()
MapErrJoin ==
    /\ Joining(ReadOps \cup WriteOps) /\ Ended
    /\ Leave(IF thread = "err" THEN "err" ELSE "panic")
    /\ thread' = "none"
    /\ UNCHANGED <<held, carry, pipe, outward, inward>>

(***************************************************************************)
(* Construction                                                            *)
(***************************************************************************)
Build(k, s) ==
    /\ life = "new"
    /\ kind' = k /\ life' = "open" /\ held' = TRUE
    /\ thread' = IF k = "bytes" THEN "none" ELSE "copying"
    /\ pipe' = s /\ supplied' = s
    /\ UNCHANGED <<call, ret, told, unwinding, carry, outward, taken>>

PipedReader == Build("reader", <<>>)
PipedWriter == Build("writer", <<>>)

\* Up to PIPE_BUF bytes are in the pipe, and its writer closed, before bytes
\* returns; more are read from a Cursor by a thread, as by PipedReader.
Bytes == \E s \in Strings(PipeBuf) : Build("bytes", s)

BuildFails ==
    /\ life = "new" /\ "spawn" \in Faults
    /\ life' = "dropped"
    /\ UNCHANGED <<kind, call, ret, told, unwinding, held, worker, pipe, outward, inward>>

(***************************************************************************)
(* Reading                                                                 *)
(***************************************************************************)
ReadCall ==
    /\ kind \in {"reader", "bytes"}
    /\ \/ \E op \in {"read", "read_exact"}, n \in 1..MaxLen : Enter(CallOf(op, n, <<>>))
       \/ \E op \in Endless : Enter(CallOf(op, 0, <<>>))

ReadSome ==
    /\ OnPipe(ReadOps \ {"read_to_string"}) /\ held /\ pipe # <<>>
    /\ LET n == IF call.op \in Endless THEN Len(pipe) ELSE Least(call.want, Len(pipe)) IN
       /\ pipe' = Rest(pipe, n)
       /\ taken' = taken \o SubSeq(pipe, 1, n)
       /\ IF call.op = "read" \/ n = call.want THEN Leave("ok")
          ELSE Goes([call EXCEPT !.want = IF call.op \in Endless THEN 0 ELSE @ - n])
    /\ UNCHANGED <<held, worker, outward, supplied>>

\* read_to_string reads to the end before it looks whether this is UTF-8.
Gather ==
    /\ OnPipe({"read_to_string"}) /\ held /\ pipe # <<>>
    /\ Goes([call EXCEPT !.todo = @ \o pipe])
    /\ pipe' = <<>>
    /\ UNCHANGED <<held, worker, outward, inward>>

AtEof == held /\ pipe = <<>> /\ thread # "copying"

ReadEnd ==
    /\ OnPipe({"read"} \cup Endless) /\ AtEof
    /\ taken' = taken \o call.todo
    /\ Leave("end")
    /\ UNCHANGED <<held, worker, pipe, outward, supplied>>

\* read_exact makes UnexpectedEof of the end; read_to_string may find no UTF-8,
\* and throws away what it has read; a lone read hands back Interrupted, which
\* the loops of the others retry.
ReadFails ==
    /\ \/ OnPipe(ReadOps) /\ ~held
       \/ OnPipe({"read_exact"}) /\ AtEof
       \/ OnPipe({"read_to_string"}) /\ AtEof /\ call.todo # <<>> /\ "format" \in Faults
       \/ OnPipe({"read"}) /\ "interrupted" \in Faults
    /\ MapErr
    /\ UNCHANGED <<worker, outward, inward>>

(***************************************************************************)
(* Writing                                                                 *)
(***************************************************************************)
WriteCall ==
    /\ kind = "writer"
    /\ \E op \in WriteOps, s \in Strings(MaxLen) \ {<<>>} : Enter(CallOf(op, 0, s))

\* Mutant: the pipe is written past its capacity.
WriteSomePastCapacity ==
    /\ OnPipe(WriteOps) /\ held /\ thread = "copying"
    /\ Len(accepted) + Len(call.todo) <= StreamLength
    /\ pipe' = pipe \o call.todo
    /\ accepted' = accepted \o call.todo
    /\ Leave("ok")
    /\ UNCHANGED <<held, worker, delivered, synced, inward>>

\* The pipe takes some of the bytes; it blocks as long as it is full.
WriteSome ==
    /\ OnPipe(WriteOps) /\ held /\ thread = "copying"
    /\ \E n \in 1..Least(Len(call.todo), Least(Room, StreamLength - Len(accepted))) :
         /\ pipe' = pipe \o SubSeq(call.todo, 1, n)
         /\ accepted' = accepted \o SubSeq(call.todo, 1, n)
         /\ IF call.op = "write" \/ n = Len(call.todo) THEN Leave("ok")
            ELSE Goes([call EXCEPT !.todo = Rest(@, n)])
    /\ UNCHANGED <<held, worker, delivered, synced, inward>>

\* EPIPE once the thread has gone, and what may fail before it has.
WriteFails ==
    /\ \/ OnPipe(WriteOps) /\ (~held \/ thread # "copying")
       \/ OnPipe({"write"}) /\ "interrupted" \in Faults
       \/ OnPipe({"write_fmt"}) /\ "format" \in Faults
    /\ MapErr
    /\ UNCHANGED <<worker, outward, inward>>

\* The flush of the descriptor does nothing; then take().unwrap().
Flush ==
    /\ kind = "writer" /\ life = "open" /\ ~InCall /\ ~unwinding
    /\ IF held THEN Join("flush") ELSE Leave("panic") /\ UNCHANGED <<held, pipe>>
    /\ UNCHANGED <<worker, outward, inward>>

\* join().unwrap().unwrap(), and a new pipe and thread for the boxed writer.
FlushJoin ==
    /\ Joining({"flush"}) /\ Ended
    /\ \/ thread = "ok" /\ Leave("ok") /\ held' = TRUE /\ thread' = "copying"
       \/ thread = "ok" /\ "spawn" \in Faults /\ Leave("err") /\ held' = FALSE /\ thread' = "none"
       \/ thread # "ok" /\ Leave("panic") /\ held' = FALSE /\ thread' = "none"
    /\ UNCHANGED <<carry, pipe, outward, inward>>

(***************************************************************************)
(* Drop                                                                    *)
(***************************************************************************)
\* The handle is gone; a panic on the way during another one aborts.
Gone(r) ==
    /\ life' = IF r = "panic" /\ unwinding THEN "aborted" ELSE "dropped"
    /\ call' = Idle /\ ret' = r
    /\ UNCHANGED <<kind, told, unwinding>>

Dropping == life = "open" /\ ~InCall

\* Mutant: the thread is left to itself.
DropDetached ==
    /\ Dropping
    /\ LetGo /\ Gone("ok")
    /\ UNCHANGED <<worker, outward, inward>>

\* Mutant: the drop of a writer too unwraps what it takes.
DropUnwrapping ==
    /\ Dropping
    /\ \/ kind # "bytes" /\ held /\ Join("drop")
       \/ kind # "bytes" /\ ~held /\ Gone("panic") /\ UNCHANGED <<held, pipe>>
       \/ kind = "bytes" /\ Gone("ok") /\ UNCHANGED <<held, pipe>>
    /\ UNCHANGED <<worker, outward, inward>>

\* With nothing to take the drop of a reader panics, that of a writer returns.
Drop ==
    /\ Dropping
    /\ \/ kind # "bytes" /\ held /\ Join("drop")
       \/ kind = "reader" /\ ~held /\ Gone("panic") /\ UNCHANGED <<held, pipe>>
       \/ kind = "writer" /\ ~held /\ Gone("ok") /\ UNCHANGED <<held, pipe>>
       \/ kind = "bytes" /\ LetGo /\ Gone("ok")
    /\ UNCHANGED <<worker, outward, inward>>

\* Mutant: what the thread returned is not looked at.
DropJoinUnchecked ==
    /\ Joining({"drop"}) /\ Ended
    /\ Gone("ok")
    /\ thread' = "none"
    /\ UNCHANGED <<held, carry, pipe, outward, inward>>

DropJoin ==
    /\ Joining({"drop"}) /\ Ended
    /\ Gone(IF thread = "ok" THEN "ok" ELSE "panic")
    /\ thread' = "none"
    /\ UNCHANGED <<held, carry, pipe, outward, inward>>

(***************************************************************************)
(* The thread: io::copy, and for a boxed writer its flush                  *)
(***************************************************************************)
Returns(r) == thread' = r /\ carry' = <<>>

\* The thread's end of the pipe goes with it: a writer's bytes are lost.
Fails(r) == Returns(r) /\ pipe' = IF kind = "writer" THEN <<>> ELSE pipe

CopyFromPipe ==
    /\ kind = "writer" /\ thread = "copying" /\ carry = <<>>
    /\ \E n \in 1..Len(pipe) : carry' = SubSeq(pipe, 1, n) /\ pipe' = Rest(pipe, n)
    /\ UNCHANGED <<frame, held, thread, outward, inward>>

CopyToBoxed ==
    /\ kind = "writer" /\ thread = "copying"
    /\ \E n \in 1..Len(carry) : /\ delivered' = delivered \o SubSeq(carry, 1, n)
                                /\ carry' = Rest(carry, n)
    /\ synced' = FALSE
    /\ UNCHANGED <<frame, held, thread, pipe, accepted, inward>>

\* The end of the pipe: it is empty and the handle has closed its end.
CopyEnds ==
    /\ kind = "writer" /\ thread = "copying" /\ carry = <<>> /\ pipe = <<>> /\ ~held
    /\ thread' = "flushing"
    /\ UNCHANGED <<frame, held, carry, pipe, outward, inward>>

\* Mutant: the thread returns the boxed writer without flushing it.
ReturnUnflushed ==
    /\ thread = "flushing"
    /\ Returns("ok")
    /\ UNCHANGED <<frame, held, pipe, outward, inward>>

FlushBoxed ==
    /\ thread = "flushing"
    /\ Returns("ok") /\ synced' = TRUE
    /\ UNCHANGED <<frame, held, pipe, accepted, delivered, inward>>

CopyFromBoxed ==
    /\ kind = "reader" /\ thread = "copying" /\ carry = <<>>
    /\ \E s \in Strings(Least(MaxLen, StreamLength - Len(supplied))) :
         IF s = <<>>
         THEN Returns("ok") /\ UNCHANGED supplied
         ELSE carry' = s /\ supplied' = supplied \o s /\ UNCHANGED thread
    /\ UNCHANGED <<frame, held, pipe, outward, taken>>

\* Mutant: one write is taken to have written all that was read.
CopyToPipeOnce ==
    /\ kind = "reader" /\ thread = "copying" /\ held
    /\ \E n \in 1..Least(Len(carry), Room) : pipe' = pipe \o SubSeq(carry, 1, n)
    /\ carry' = <<>>
    /\ UNCHANGED <<frame, held, thread, outward, inward>>

CopyToPipe ==
    /\ kind = "reader" /\ thread = "copying" /\ held
    /\ \E n \in 1..Least(Len(carry), Room) :
         pipe' = pipe \o SubSeq(carry, 1, n) /\ carry' = Rest(carry, n)
    /\ UNCHANGED <<frame, held, thread, outward, inward>>

\* EPIPE: the handle has closed its end.
CopyBroken ==
    /\ kind = "reader" /\ thread = "copying" /\ carry # <<>> /\ ~held
    /\ Returns("err")
    /\ UNCHANGED <<frame, held, pipe, outward, inward>>

\* A call of the boxed object fails or panics.
BoxedFails ==
    /\ \/ thread = "copying" /\ (carry # <<>> <=> kind = "writer")
       \/ thread = "flushing"
    /\ \/ "boxed" \in Faults /\ Fails("err")
       \/ "panic" \in Faults /\ Fails("panic")
    /\ UNCHANGED <<frame, held, outward, inward>>

(***************************************************************************)
(* The specification                                                       *)
(***************************************************************************)
Init ==
    /\ kind = "bytes" /\ life = "new" /\ held = FALSE
    /\ thread = "none" /\ carry = <<>> /\ pipe = <<>>
    /\ call = Idle /\ ret = "none" /\ told = FALSE /\ unwinding = FALSE
    /\ accepted = <<>> /\ delivered = <<>> /\ synced = TRUE
    /\ supplied = <<>> /\ taken = <<>>

Construct == PipedReader \/ PipedWriter \/ Bytes \/ BuildFails

OwnerCalls == ReadCall \/ WriteCall \/ Flush \/ Drop

Run == ReadSome \/ Gather \/ ReadEnd \/ ReadFails \/ WriteSome \/ WriteFails
       \/ MapErrJoin \/ FlushJoin \/ DropJoin

Thread == CopyFromPipe \/ CopyToBoxed \/ CopyEnds \/ FlushBoxed \/ CopyFromBoxed
          \/ CopyToPipe \/ CopyBroken \/ BoxedFails

\* A writer that has come to the bound of the model blocks.
AtBound == OnPipe(WriteOps) /\ Len(accepted) = StreamLength

Blocked == AtBound /\ UNCHANGED vars

Closed == life \in {"dropped", "aborted"} /\ UNCHANGED vars

Next == Construct \/ OwnerCalls \/ Run \/ Thread \/ Blocked \/ Closed

\* The thread in a call and the copying thread run on, and the boxed object
\* answers; the owner need not do anything.
Spec == Init /\ [][Next]_vars /\ WF_vars(Run) /\ WF_vars(Thread)

(***************************************************************************)
(* Properties                                                              *)
(***************************************************************************)
\* Types, and what goes with what: the pipe within its capacity (so bytes()
\* never blocks on a pipe nobody reads), a joining call without our end of the
\* pipe, a thread only where one was started, and none left by a drop.
TypeOK ==
    /\ kind \in {"reader", "writer", "bytes"}
    /\ life \in {"new", "open", "dropped", "aborted"}
    /\ thread \in {"none", "copying", "flushing", "ok", "err", "panic"}
    /\ pipe \in Seq(Byte) /\ carry \in Seq(Byte) /\ Len(pipe) <= PipeCapacity
    /\ call \in [op : ReadOps \cup WriteOps \cup {"none", "flush", "drop"},
                 at : {"pipe", "join"}, want : 0..MaxLen, todo : Seq(Byte)]
    /\ ret \in {"none", "ok", "end", "err", "panic"}
    /\ held \in BOOLEAN /\ told \in BOOLEAN /\ unwinding \in BOOLEAN /\ synced \in BOOLEAN
    /\ accepted \in Seq(Byte) /\ delivered \in Seq(Byte)
    /\ supplied \in Seq(Byte) /\ taken \in Seq(Byte)
    /\ call.at = "join" => InCall /\ ~held /\ thread # "none"
    /\ kind = "bytes" \/ life # "open" => thread = "none"

Answers(r) == InCall /\ ~(call'.op # "none") /\ ret' = r

\* "To ensure data is flushed all the way through the thread and into the
\* boxed Write implementation, call flush()": when it returns Ok, every byte
\* the handle ever took has been written to the boxed writer, which has been
\* flushed since, over any number of flushes before.
FlushReachesBoxed ==
    [][call.op = "flush" /\ Answers("ok") => delivered' = accepted /\ synced']_vars

\* A read says that the stream has ended only when the owner has been given
\* every byte the boxed reader, or bytes(), supplied: none is still with the
\* thread or in the pipe, and none has been thrown away but by a read_to_string
\* of a bytes() handle that said so.  (A reader's leaves no handle to read on.)
EofIsEnd ==
    [][Answers("end") => taken' = supplied \/ (kind = "bytes" /\ told)]_vars

QuietDrop == life = "open" /\ life' = "dropped" /\ ret' = "ok" /\ ~told

\* No loss is silent, though errors surface late and on other calls: if no
\* call of the handle failed or panicked and neither did its drop, then all
\* that was written has reached the boxed writer and been flushed, and a
\* reader that said the stream had ended was not cut short by a failure.
NoSilentLoss ==
    [][QuietDrop =>
         /\ kind = "writer" => delivered = accepted /\ synced
         /\ kind = "reader" /\ ret = "end" => taken = supplied /\ thread = "ok"]_vars

\* A panic of a WriteHandle's own call, unwinding through the handle, does not
\* meet a second one in its drop, which would abort the process.
WriterNeverAborts == kind = "writer" => life # "aborted"

\* map_err unwraps an error from the thread: whenever a call of the handle has
\* failed and joins the thread, the thread too has failed.
MapErrFindsError == Joining(ReadOps \cup WriteOps) => thread # "ok"

\* Every call returns: no join waits for a thread that waits for our end of
\* the pipe, and no read or write for a thread that is gone.  (A write beyond
\* the bound of the model is left alone.)
CallReturns == InCall ~> (~InCall \/ AtBound)

\* Inside its thread a piped handle is a byte stream.
Duplex == INSTANCE DuplexStream WITH open <- (life \in {"new", "open"})

ImplementsDuplexStream == Duplex!Spec
================================================================================
