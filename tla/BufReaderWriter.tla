---------------------------- MODULE BufReaderWriter ----------------------------
(***************************************************************************)
(* BufReaderWriterBackend and the public wrapper BufReaderWriter           *)
(* (src/buffered/buf_reader_writer.rs): a writer buffer and a reader       *)
(* buffer around one inner handle that is both Read and Write.             *)
(*                                                                         *)
(* A call of the owner sets a plan `todo', the backend steps it runs in    *)
(* order; the head of the plan executes, and the first step that fails     *)
(* abandons the rest, which is what `?' and an unwinding panic do.  One    *)
(* step makes at most one call of the inner handle, so everything the      *)
(* handle may answer (a short count, zero, an error, Interrupted, a panic) *)
(* is a choice made between two steps.                                     *)
(*                                                                         *)
(* write_vectored and read_vectored run the steps of write and read on the *)
(* concatenation of their slices, and are not distinguished from them.     *)
(***************************************************************************)
EXTENDS Integers, SequencesExt

CONSTANTS
    Byte,            \* The values of a byte.
    WriterCapacity,  \* Capacity of writer_buf.
    ReaderCapacity,  \* Length of reader_buf.
    Faults,          \* What the inner handle may do besides answering Ok.
    SinkCapacity,    \* Bound: how many bytes the inner writer ever accepts.
    SourceLength,    \* Bound: how many bytes the inner reader ever supplies.
    MaxLen           \* Bound: the longest slice the owner passes to a call.

FaultKinds == {"err", "interrupted", "panic"}

ASSUME CapacityAssumption == WriterCapacity \in Nat /\ ReaderCapacity \in Nat
ASSUME BoundAssumption == SinkCapacity \in Nat /\ SourceLength \in Nat /\ MaxLen \in Nat
ASSUME FaultAssumption == Faults \subseteq FaultKinds

VARIABLES
    life,        \* "open", "unwrapped" by into_inner, or "dropped"
    writer_buf,  \* self.writer_buf
    panicked,    \* self.panicked
    reader_buf,  \* self.reader_buf[0..self.cap]; Len(reader_buf) is self.cap
    pos,         \* self.pos
    op,          \* the call the owner is in, "none" between calls
    data,        \* the bytes passed to the call (read_until, read_line: the delimiter)
    todo,        \* the backend steps the call has yet to run
    done,        \* how many bytes the call has transferred
    written,     \* BufGuard::written, 0 outside flush_buf
    ret,         \* what the last call returned
    sink,        \* the bytes the inner writer has acknowledged
    flushed,     \* the inner writer was flushed since the sink last grew
    supplied,    \* the bytes the inner reader has supplied
    taken,       \* the bytes read or consumed on the owner's behalf: he has
                 \* them all, but for those of a read_line that failed
    base,        \* history: Stream when the call began
    doubt        \* history: how many leading bytes of writer_buf were offered
                 \* to a write that panicked and to no write since

guts   == <<writer_buf, panicked, written, doubt>>
reader == <<reader_buf, pos>>
out    == <<sink, flushed>>
in     == <<supplied, taken>>
frame  == <<life, op, data, todo, done, ret, base>>
vars   == <<guts, reader, out, in, frame>>

(***************************************************************************)
(* Streams                                                                 *)
(***************************************************************************)
Strings(n) == UNION {[1..k -> Byte] : k \in 0..n}

Least(m, n) == IF m <= n THEN m ELSE n

\* BufGuard::remaining
Remaining == SubSeq(writer_buf, written + 1, Len(writer_buf))

\* What the owner has handed over and the wrapper has accepted: the bytes
\* already out, then the bytes still waiting in the buffer.
Stream == sink \o Remaining

\* BufReaderWriterBackend::reader_buffer
Unread == SubSeq(reader_buf, pos + 1, Len(reader_buf))

\* The inner writer acknowledges s.
Send(s) == /\ sink' = sink \o s
           /\ flushed' = (flushed /\ s = <<>>)

Room == SinkCapacity - Len(sink)

\* The answers of the inner reader to a read of up to n bytes.
Supplies(n) == Strings(Least(n, SourceLength - Len(supplied)))

(***************************************************************************)
(* Calls, steps and returns                                                *)
(***************************************************************************)
Step(s, n) == [step |-> s, n |-> n]

Steps == {"write", "write_all", "extend", "direct", "direct_all",
          "flush_buf", "flush_inner",
          "read", "read_direct", "fill_buf", "take", "scan"}

Ops == {"write", "write_all", "flush", "into_inner", "drop",
        "read", "read_until", "read_line", "fill_buf"}

ReadOps == {"read", "read_until", "read_line"}

Results == {"none", "ok", "zero", "invalid"} \cup FaultKinds

At(s) == todo # <<>> /\ Head(todo).step = s

\* The part of `data' the step at the head of the plan is about.
Limit == Head(todo).n
Slice(m) == SubSeq(data, done + 1, done + m)

Call(o, d, plan) ==
    /\ life = "open" /\ op = "none"
    /\ op' = o /\ data' = d /\ todo' = plan /\ base' = Stream
    /\ done' = 0 /\ ret' = [kind |-> "none", n |-> 0]
    /\ UNCHANGED <<life, guts, reader, out, in>>

Proceed(plan, d) ==
    /\ todo' = plan /\ done' = d
    /\ UNCHANGED <<life, op, data, ret, base>>

\* The call ends with result `kind'.  Drop ends with the value gone whatever
\* the flush did; into_inner gives the handle back, keeps the wrapper in the
\* IntoInnerError when it fails, and loses it to the unwinding of a panic.
Leave(kind) ==
    /\ op' = "none" /\ data' = <<>> /\ todo' = <<>> /\ base' = <<>> /\ done' = 0
    /\ ret' = [kind |-> kind, n |-> IF kind = "ok" THEN done ELSE 0]
    /\ life' = IF op = "drop" \/ (op = "into_inner" /\ kind = "panic") THEN "dropped"
               ELSE IF op = "into_inner" /\ kind = "ok" THEN "unwrapped" ELSE life

Return ==
    /\ op # "none" /\ todo = <<>>
    /\ Leave("ok")
    /\ UNCHANGED <<guts, reader, out, in>>

(***************************************************************************)
(* The owner's calls                                                       *)
(***************************************************************************)
FlushPlan == <<Step("flush_buf", 0), Step("flush_inner", 0)>>

Write(d)    == Call("write", d, <<Step("write", Len(d))>>)
WriteAll(d) == Call("write_all", d, <<Step("write_all", Len(d))>>)
Flush       == Call("flush", <<>>, FlushPlan)
\* Mutant: a read that flushes the handle but does not write the buffer out.
ReadUnwritten(n) ==
    Call("read", <<>>, <<Step("flush_inner", 0), Step("read", n)>>)

\* Mutant: a read that writes the buffer out but does not flush the handle.
ReadWithoutSync(n) ==
    Call("read", <<>>, <<Step("flush_buf", 0), Step("read", n)>>)

Read(n)     == Call("read", <<>>, FlushPlan \o <<Step("read", n)>>)
FillBuf     == Call("fill_buf", <<>>, <<Step("fill_buf", 0)>>)
IntoInner   == Call("into_inner", <<>>, <<Step("flush_buf", 0)>>)

Search(o, b) ==
    Call(o, <<b>>, FlushPlan \o <<Step("fill_buf", 0), Step("scan", 0)>>)

ReadUntil(b) == Search("read_until", b)

\* std's read_line searches for the newline; which of the bytes that is does
\* not matter here.  What it found it gives to the owner as a String.
ReadLine(b) == Search("read_line", b)

\* Mutant: pos is advanced without the clamp to cap.
ConsumePastCap(n) ==
    /\ life = "open" /\ op = "none"
    /\ pos' = pos + n
    /\ taken' = taken \o SubSeq(reader_buf, pos + 1, Least(pos + n, Len(reader_buf)))
    /\ UNCHANGED <<guts, reader_buf, out, supplied, frame>>

Consume(n) ==
    /\ life = "open" /\ op = "none"
    /\ LET used == Least(n, Len(reader_buf) - pos) IN
       /\ pos' = pos + used
       /\ taken' = taken \o SubSeq(reader_buf, pos + 1, pos + used)
    /\ UNCHANGED <<guts, reader_buf, out, supplied, frame>>

Drop ==
    \/ /\ ~panicked
       /\ Call("drop", <<>>, <<Step("flush_buf", 0)>>)
    \/ /\ life = "open" /\ op = "none" /\ panicked
       /\ life' = "dropped"
       /\ UNCHANGED <<guts, reader, out, in, op, data, todo, done, ret, base>>

(***************************************************************************)
(* The steps of write, write_all and write_vectored                        *)
(***************************************************************************)
\* Mutant: only the new bytes are compared with the capacity.
NeedsFlushOfSlice(n) == n > WriterCapacity

NeedsFlush(n) == Len(writer_buf) + n > WriterCapacity

\* Mutant: bytes that go straight to the handle do not wait for the buffer.
CheckRoomOvertaking ==
    /\ At("write") \/ At("write_all")
    /\ LET n     == Limit - done
           place == IF n < WriterCapacity THEN "extend"
                    ELSE IF At("write") THEN "direct" ELSE "direct_all"
           flush == IF NeedsFlush(n) /\ n < WriterCapacity
                    THEN <<Step("flush_buf", 0)>> ELSE <<>>
       IN Proceed(flush \o <<Step(place, Limit)>> \o Tail(todo), done)
    /\ UNCHANGED <<guts, reader, out, in>>

\* The two tests every write makes on entry, and where they send the bytes.
CheckRoom ==
    /\ At("write") \/ At("write_all")
    /\ LET n     == Limit - done
           place == IF n < WriterCapacity THEN "extend"
                    ELSE IF At("write") THEN "direct" ELSE "direct_all"
           flush == IF NeedsFlush(n) THEN <<Step("flush_buf", 0)>> ELSE <<>>
       IN Proceed(flush \o <<Step(place, Limit)>> \o Tail(todo), done)
    /\ UNCHANGED <<guts, reader, out, in>>

Extend ==
    /\ At("extend")
    /\ writer_buf' = writer_buf \o Slice(Limit - done)
    /\ Proceed(Tail(todo), Limit)
    /\ UNCHANGED <<panicked, written, doubt, reader, out, in>>

\* One call of inner.write with the owner's bytes.
Direct ==
    /\ At("direct")
    /\ \E m \in 0..Least(Limit - done, Room) :
         /\ Send(Slice(m))
         /\ Proceed(Tail(todo), done + m)
    /\ panicked' = FALSE
    /\ UNCHANGED <<writer_buf, written, doubt, reader, in>>

\* inner.write_all: std's loop over inner.write, panicked raised throughout.
DirectAll ==
    /\ At("direct_all")
    /\ \/ \E m \in 1..Least(Limit - done, Room) :
            /\ Send(Slice(m))
            /\ panicked' = TRUE
            /\ Proceed(todo, done + m)
       \/ /\ done = Limit
          /\ panicked' = FALSE
          /\ Proceed(Tail(todo), done)
          /\ UNCHANGED out
    /\ UNCHANGED <<writer_buf, written, doubt, reader, in>>

\* write_all makes WriteZero of Ok(0) and hands back every error but
\* Interrupted, which it retries; write hands back what it gets.
DirectFails ==
    /\ \/ At("direct") /\ \E k \in Faults \ {"panic"} : Leave(k)
       \/ At("direct_all") /\ done < Limit /\ Leave("zero")
       \/ At("direct_all") /\ done < Limit /\ "err" \in Faults /\ Leave("err")
    /\ panicked' = FALSE
    /\ UNCHANGED <<writer_buf, written, doubt, reader, out, in>>

DirectRetry ==
    /\ At("direct_all") /\ done < Limit /\ "interrupted" \in Faults
    /\ panicked' = TRUE
    /\ UNCHANGED <<writer_buf, written, doubt, reader, out, in, frame>>

DirectPanics ==
    /\ At("direct") \/ (At("direct_all") /\ done < Limit)
    /\ "panic" \in Faults
    /\ Leave("panic")
    /\ panicked' = TRUE
    /\ UNCHANGED <<writer_buf, written, doubt, reader, out, in>>

(***************************************************************************)
(* The steps of flush                                                      *)
(***************************************************************************)
\* Mutant: the bytes go but the count of them stays.
DrainKeepingCount == writer_buf' = Remaining /\ UNCHANGED written

\* BufGuard's drop: whatever way flush_buf is left, the bytes it wrote go.
Drain == writer_buf' = Remaining /\ written' = 0

\* Mutant: one write is taken to have written the whole buffer.
FlushBufOneWrite ==
    /\ At("flush_buf") /\ (written > 0 \/ writer_buf = <<>>)
    /\ Drain
    /\ Proceed(Tail(todo), done)
    /\ UNCHANGED <<panicked, doubt, reader, out, in>>

\* Mutant: the loop waits for more than there is to write.
FlushBufPastEnd ==
    /\ At("flush_buf") /\ written > Len(writer_buf)
    /\ Drain
    /\ Proceed(Tail(todo), done)
    /\ UNCHANGED <<panicked, doubt, reader, out, in>>

FlushBuf ==
    /\ At("flush_buf") /\ written >= Len(writer_buf)
    /\ Drain
    /\ Proceed(Tail(todo), done)
    /\ UNCHANGED <<panicked, doubt, reader, out, in>>

\* Mutant: the guard is not told how many bytes the handle has taken.
FlushWriteUncounted ==
    /\ At("flush_buf") /\ written < Len(writer_buf)
    /\ \E m \in 1..Least(Len(Remaining), Room) : Send(SubSeq(Remaining, 1, m))
    /\ panicked' = FALSE /\ doubt' = 0
    /\ UNCHANGED <<writer_buf, written, reader, in, frame>>

FlushWrite ==
    /\ At("flush_buf") /\ written < Len(writer_buf)
    /\ \E m \in 1..Least(Len(Remaining), Room) :
         /\ Send(SubSeq(Remaining, 1, m))
         /\ written' = written + m
    /\ panicked' = FALSE /\ doubt' = 0
    /\ UNCHANGED <<writer_buf, reader, in, frame>>

FlushRetry ==
    /\ At("flush_buf") /\ written < Len(writer_buf) /\ "interrupted" \in Faults
    /\ panicked' = FALSE /\ doubt' = 0
    /\ UNCHANGED <<writer_buf, written, reader, out, in, frame>>

\* Mutant: no guard, an error leaves the bytes already written in the buffer.
FlushFailsUndrained ==
    /\ At("flush_buf") /\ written < Len(writer_buf)
    /\ \/ Leave("zero")
       \/ "err" \in Faults /\ Leave("err")
    /\ written' = 0
    /\ panicked' = FALSE /\ doubt' = 0
    /\ UNCHANGED <<writer_buf, reader, out, in>>

FlushFails ==
    /\ At("flush_buf") /\ written < Len(writer_buf)
    /\ \/ Leave("zero")
       \/ "err" \in Faults /\ Leave("err")
    /\ Drain
    /\ panicked' = FALSE /\ doubt' = 0
    /\ UNCHANGED <<reader, out, in>>

\* Mutant: panicked is lowered by the unwinding.
FlushPanicsLowered ==
    /\ At("flush_buf") /\ written < Len(writer_buf) /\ "panic" \in Faults
    /\ Leave("panic")
    /\ Drain
    /\ panicked' = FALSE /\ doubt' = Len(Remaining)
    /\ UNCHANGED <<reader, out, in>>

FlushPanics ==
    /\ At("flush_buf") /\ written < Len(writer_buf) /\ "panic" \in Faults
    /\ Leave("panic")
    /\ Drain
    /\ panicked' = TRUE /\ doubt' = Len(Remaining)
    /\ UNCHANGED <<reader, out, in>>

FlushInner ==
    /\ At("flush_inner")
    /\ \/ flushed' = TRUE /\ Proceed(Tail(todo), done)
       \/ flushed' = flushed /\ \E k \in Faults : Leave(k)
    /\ UNCHANGED <<guts, reader, sink, in>>

(***************************************************************************)
(* The steps of read, read_until, read_line and fill_buf                   *)
(***************************************************************************)
\* Mutant: a long read goes past the buffer even when bytes wait in it.
BypassesUnread(n) == n >= ReaderCapacity

\* A read at least as long as the buffer goes past it, when it is empty.
BypassesBuffer(n) == pos = Len(reader_buf) /\ n >= ReaderCapacity

ChooseRead ==
    /\ At("read")
    /\ IF BypassesBuffer(Limit)
       THEN /\ reader_buf' = <<>> /\ pos' = 0
            /\ Proceed(<<Step("read_direct", Limit)>> \o Tail(todo), done)
       ELSE /\ UNCHANGED reader
            /\ Proceed(<<Step("fill_buf", 0), Step("take", Limit)>> \o Tail(todo), done)
    /\ UNCHANGED <<guts, out, in>>

ReadDirect ==
    /\ At("read_direct")
    /\ \E s \in Supplies(Limit) :
         /\ supplied' = supplied \o s
         /\ taken' = taken \o s
         /\ Proceed(Tail(todo), Len(s))
    /\ UNCHANGED <<guts, reader, out>>

\* Mutant: the buffer is refilled before its last byte has been taken.
FillEarly ==
    /\ At("fill_buf")
    /\ \E s \in Supplies(ReaderCapacity) :
         /\ supplied' = supplied \o s
         /\ reader_buf' = s
    /\ pos' = 0
    /\ Proceed(Tail(todo), done)
    /\ UNCHANGED <<guts, out, taken>>

Fill ==
    /\ At("fill_buf")
    /\ \/ /\ pos < Len(reader_buf)
          /\ UNCHANGED <<reader, supplied>>
       \/ /\ pos >= Len(reader_buf)
          /\ \E s \in Supplies(ReaderCapacity) :
               /\ supplied' = supplied \o s
               /\ reader_buf' = s
          /\ pos' = 0
    /\ Proceed(Tail(todo), done)
    /\ UNCHANGED <<guts, out, taken>>

\* std's read_line has come to its end and finds that the bytes are no UTF-8:
\* they have been consumed, and the String is cut back to what it was.
NotUtf8 == op = "read_line" /\ todo = <<>> /\ done > 0 /\ Leave("invalid")

\* The search of read_until and read_line retries an Interrupted fill_buf,
\* which changes nothing.
ReadFails ==
    /\ \/ /\ At("read_direct") \/ (At("fill_buf") /\ pos >= Len(reader_buf))
          /\ \E k \in Faults : /\ ~(op \in {"read_until", "read_line"} /\ k = "interrupted")
                               /\ Leave(k)
       \/ NotUtf8
    /\ UNCHANGED <<guts, reader, out, in>>

Consumed(used) ==
    /\ pos' = pos + used
    /\ taken' = taken \o SubSeq(reader_buf, pos + 1, pos + used)

Take ==
    /\ At("take")
    /\ LET size == Least(Limit, Len(Unread)) IN
       /\ Consumed(size)
       /\ Proceed(Tail(todo), size)
    /\ UNCHANGED <<guts, reader_buf, out, supplied>>

\* Mutant: the end of the stream is taken for an empty turn.
ScanAgain ==
    /\ At("scan")
    /\ \E used \in 0..Len(Unread) :
         LET hit == used > 0 /\ Unread[used] = Head(data) IN
         /\ \A i \in 1..(used - 1) : Unread[i] # Head(data)
         /\ hit \/ used = Len(Unread)
         /\ Consumed(used)
         /\ Proceed(IF hit THEN Tail(todo) ELSE <<Step("fill_buf", 0)>> \o todo, done + used)
    /\ UNCHANGED <<guts, reader_buf, out, supplied>>

\* One turn of the search (std's read_until): take the bytes up to and with the delimiter,
\* or all of them and go round again, until the handle has no more.
Scan ==
    /\ At("scan")
    /\ \E used \in 0..Len(Unread) :
         LET hit == used > 0 /\ Unread[used] = Head(data) IN
         /\ \A i \in 1..(used - 1) : Unread[i] # Head(data)
         /\ hit \/ used = Len(Unread)
         /\ Consumed(used)
         /\ Proceed(IF hit \/ used = 0 THEN Tail(todo)
                    ELSE <<Step("fill_buf", 0)>> \o todo,
                    done + used)
    /\ UNCHANGED <<guts, reader_buf, out, supplied>>

(***************************************************************************)
(* The specification                                                       *)
(***************************************************************************)
Init ==
    /\ life = "open"
    /\ writer_buf = <<>> /\ panicked = FALSE /\ written = 0 /\ doubt = 0
    /\ reader_buf = <<>> /\ pos = 0
    /\ op = "none" /\ data = <<>> /\ todo = <<>> /\ done = 0 /\ base = <<>>
    /\ ret = [kind |-> "none", n |-> 0]
    /\ sink = <<>> /\ flushed = TRUE
    /\ supplied = <<>> /\ taken = <<>>

WriteCalls == \E d \in Strings(MaxLen) : Write(d) \/ WriteAll(d)

ReadCalls ==
    \/ \E n \in 0..MaxLen : Read(n) \/ Consume(n)
    \/ \E b \in Byte : ReadUntil(b) \/ ReadLine(b)
    \/ FillBuf

CloseCalls == IntoInner \/ Drop

WriterSteps == CheckRoom \/ Extend \/ Direct \/ DirectAll \/ DirectFails
               \/ DirectRetry \/ DirectPanics

FlushSteps == FlushBuf \/ FlushWrite \/ FlushRetry \/ FlushFails \/ FlushPanics
              \/ FlushInner

ReaderSteps == ChooseRead \/ ReadDirect \/ Fill \/ ReadFails \/ Take \/ Scan

Run == WriterSteps \/ FlushSteps \/ ReaderSteps \/ Return

Closed == life # "open" /\ UNCHANGED vars

Next == WriteCalls \/ Flush \/ ReadCalls \/ CloseCalls \/ Run \/ Closed

\* The thread in a call runs on and the inner handle answers.  An answer of
\* Interrupted alone changes nothing, so this also says that the handle does
\* not answer Interrupted for ever.
Spec == Init /\ [][Next]_vars /\ WF_vars(Run)

(***************************************************************************)
(* Properties                                                              *)
(***************************************************************************)
TypeOver(steps) ==
    /\ life \in {"open", "unwrapped", "dropped"}
    /\ writer_buf \in Seq(Byte) /\ panicked \in BOOLEAN
    /\ reader_buf \in Seq(Byte) /\ pos \in 0..Len(reader_buf)
    /\ op \in Ops \cup {"none"} /\ data \in Seq(Byte)
    /\ todo \in Seq([step : steps, n : Nat]) /\ done \in Nat
    /\ written \in 0..Len(writer_buf) /\ doubt \in 0..Len(writer_buf)
    /\ ret \in [kind : Results, n : Nat]
    /\ sink \in Seq(Byte) /\ flushed \in BOOLEAN
    /\ supplied \in Seq(Byte) /\ taken \in Seq(Byte) /\ base \in Seq(Byte)

\* Types, and the indices into the buffers within their bounds: pos never
\* passes cap, and BufGuard::written and the doubtful bytes never pass the end
\* of writer_buf.
TypeOK == TypeOver(Steps)

\* with_capacities allocates writer_buf once and write_to_buf subtracts its
\* length from its capacity: no sequence of writes, failed flushes and retries
\* ever puts more than the capacity into it, so it is never reallocated.
NoRealloc == Len(writer_buf) <= WriterCapacity

\* A read that may block in the inner reader (read, read_vectored, read_until,
\* read_line) gets there only after every byte the owner wrote has been
\* acknowledged by the inner writer and flushed through it: a peer that
\* answers requests has been sent the request.
FlushedBeforeRead ==
    op \in ReadOps /\ (todo = <<>> \/ Head(todo).step \notin {"flush_buf", "flush_inner"})
        => writer_buf = <<>> /\ flushed

\* The bytes supplied by the inner reader are exactly those that calls have
\* taken for the owner followed by those still unread in reader_buf: the bypass
\* of the buffer, the refill and consume lose, repeat and reorder nothing.  (A
\* read_line that finds no UTF-8 throws away what it has taken, and says so.)
ReadInOrder == supplied = taken \o Unread

\* #30888: the destructor never offers the inner writer bytes that the last
\* write they were offered to panicked over.  It says no more than that: once a
\* later write of them has answered, if only to fail, flush_buf has lowered
\* `panicked', and the destructor does offer them again.
DropHeedsPanic == op = "drop" => doubt = 0

Returns == op # "none" /\ op' = "none"

\* What a call reports about the owner's bytes is what happened to them: Ok(n)
\* means the first n bytes of the slice, and nothing else, joined the stream;
\* a failed write took none of them; a failed write_all took some prefix; and
\* no other call adds, drops or reorders a byte, however it ends.
HonestReturns ==
    [][Returns =>
         IF ret'.kind = "ok" /\ op \in {"write", "write_all"}
         THEN /\ Stream' = base \o SubSeq(data, 1, ret'.n)
              /\ op = "write_all" => ret'.n = Len(data)
         ELSE IF op = "write_all"
         THEN IsPrefix(base, Stream') /\ IsPrefix(Stream', base \o data)
         ELSE Stream' = base]_vars

\* "Calling flush ensures that the writer buffer is empty": when flush
\* returns Ok, and when into_inner hands the inner handle back, every accepted
\* byte has been acknowledged, and after flush the inner writer has been
\* flushed since.
FlushDelivers ==
    [][Returns /\ ret'.kind = "ok" /\ op \in {"flush", "into_inner"}
         => sink' = base /\ writer_buf' = <<>> /\ (op = "flush" => flushed')]_vars

\* "Dropping will attempt to flush the contents of the writer buffer": the
\* destructor gives up on a non-empty buffer without an attempt only when the
\* buffer's bytes were offered to a write that panicked.
DropAttemptsFlush ==
    [][life = "open" /\ op = "none" /\ life' = "dropped"
         => writer_buf = <<>> \/ doubt > 0]_vars

\* Every call returns: the loops of flush_buf, write_all and read_until end,
\* the answer Ok(0) included, unless the handle answers Interrupted or
\* supplies bytes without the delimiter for ever.
CallReturns == (op # "none") ~> (op = "none")

\* What is left of the plan of a call, with the steps its last step may turn into.
StepsLeft ==
    Len(todo) + IF todo # <<>> /\ todo[Len(todo)].step \in {"write", "write_all", "read"}
                THEN 2 ELSE 0

\* The bytes on their way from the owner to the inner writer.
BytesLeft ==
    Len(Remaining) + IF op \in {"write", "write_all"} THEN Len(data) - done ELSE 0

\* A bound on the steps the call in progress can still make: a byte that the
\* owner has yet to take may cost read_until a fill_buf and a scan.
Work == StepsLeft + BytesLeft + 2 * (SourceLength - Len(taken))

\* No loop turns in vain: every step of a call ends it or leaves less work, so
\* that the call makes no more of them than there was work at its beginning,
\* but for the repetitions that Interrupted asks for.  The loops of flush_buf,
\* of write_all and of read_until all use up what their next turn is about, and
\* the end of the stream is no occasion to look again.
NoIdleTurn ==
    [][op # "none" => /\ Work \in Nat
                      /\ op' = "none" \/ Work' < Work \/ FlushRetry \/ DirectRetry]_vars

\* Inside all its buffering the wrapper is a pair of byte streams.
Duplex == INSTANCE DuplexStream WITH
    accepted <- Stream, delivered <- sink, open <- (life = "open")

ImplementsDuplexStream == Duplex!Spec
================================================================================
