-------------------------- MODULE BufReaderLineWriter --------------------------
(***************************************************************************)
(* BufReaderLineWriter (src/buffered/buf_reader_line_writer.rs): a         *)
(* BufReaderWriterBackend whose write, write_vectored and write_all go     *)
(* through BufReaderLineWriterShim (src/buffered/                          *)
(* buf_reader_line_writer_shim.rs).  The shim sends everything up to the   *)
(* last newline of a slice to the inner writer and buffers the rest; it    *)
(* uses the backend's own flush_buf, write and write_all, so its calls are *)
(* plans of the backend's steps plus four steps of its own.  Everything    *)
(* but the three write calls is the backend's.                             *)
(*                                                                         *)
(* The direct writes of the shim leave `panicked' alone.                   *)
(***************************************************************************)
EXTENDS BufReaderWriter

CONSTANT Newline  \* The byte that ends a line.

ASSUME NewlineAssumption == Newline \in Byte

LineSteps == {"write_lines", "write_bufs", "lines_all", "buffer_tail"}

\* memrchr: the place of the last newline of s, 0 if there is none.
LastNewline(s) == Max({0} \cup {i \in 1..Len(s) : s[i] = Newline})

HasNewline(s) == LastNewline(s) # 0

\* Mutant: a completed line left by a partial write is not retried.
NoRetryOfCompletedLine == <<>>

\* flush_if_completed_line: it looks at the last byte of the buffer only.
FlushIfCompletedLine ==
    IF writer_buf # <<>> /\ Last(writer_buf) = Newline
    THEN <<Step("flush_buf", 0)>> ELSE <<>>

(***************************************************************************)
(* The owner's write calls                                                 *)
(***************************************************************************)
\* Mutant: the lines overtake what is buffered.
LineWriteOvertaking(d) ==
    Call("write", d,
         IF HasNewline(d) THEN <<Step("write_lines", LastNewline(d))>>
         ELSE FlushIfCompletedLine \o <<Step("write", Len(d))>>)

LineWrite(d) ==
    Call("write", d,
         IF HasNewline(d)
         THEN <<Step("flush_buf", 0), Step("write_lines", LastNewline(d))>>
         ELSE FlushIfCompletedLine \o <<Step("write", Len(d))>>)

\* The slices of a vectored write matter only through k, the end of the slice
\* that holds the last newline: everything up to there is one inner write.
LineWriteVectored(d, k) ==
    Call("write", d,
         IF HasNewline(d)
         THEN <<Step("flush_buf", 0), Step("write_bufs", k)>>
         ELSE FlushIfCompletedLine \o <<Step("write", Len(d))>>)

LineWriteAll(d) ==
    Call("write_all", d,
         IF ~HasNewline(d)
         THEN FlushIfCompletedLine \o <<Step("write_all", Len(d))>>
         ELSE IF writer_buf = <<>>
         THEN <<Step("lines_all", LastNewline(d)), Step("write_all", Len(d))>>
         ELSE <<Step("write_all", LastNewline(d)), Step("flush_buf", 0),
                Step("write_all", Len(d))>>)

(***************************************************************************)
(* The shim's steps                                                        *)
(***************************************************************************)
\* Mutant: the tail runs to the end of the slice, whatever was not written.
TailEndOfSlice(m, k) == Len(data)

\* Where the bytes to buffer end when the inner writer took the first m of the
\* k bytes of the lines: at the end of the slice if it took them all; else at
\* the last newline, if that fits in the buffer; else at the last newline that
\* does; else where the buffer is full.
TailEnd(m, k) ==
    IF m >= k THEN Len(data)
    ELSE IF k - m <= WriterCapacity THEN k
    ELSE LET newline == LastNewline(SubSeq(data, m + 1, m + WriterCapacity))
         IN m + (IF newline # 0 THEN newline ELSE WriterCapacity)

\* The one attempt of write to send the lines.  Ok(0) is handed to the owner.
WriteLines ==
    /\ At("write_lines")
    /\ \E m \in 0..Least(Limit, Room) :
         /\ Send(Slice(m))
         /\ Proceed(IF m = 0 THEN Tail(todo)
                    ELSE <<Step("buffer_tail", TailEnd(m, Limit))>> \o Tail(todo), m)
    /\ UNCHANGED <<guts, reader, in>>

\* The one attempt of write_vectored.  A partial write is handed to the owner
\* as it is, without buffering.
WriteBufs ==
    /\ At("write_bufs")
    /\ \E m \in 0..Least(Limit, Room) :
         /\ Send(Slice(m))
         /\ Proceed(IF m < Limit THEN Tail(todo)
                    ELSE <<Step("buffer_tail", Len(data))>> \o Tail(todo), m)
    /\ UNCHANGED <<guts, reader, in>>

\* Mutant: the tail is buffered whole.
BufferWholeTail ==
    /\ At("buffer_tail")
    /\ writer_buf' = writer_buf \o Slice(Limit - done)
    /\ Proceed(Tail(todo), Limit)
    /\ UNCHANGED <<panicked, written, doubt, reader, out, in>>

\* Mutant: the count returned is that of the tail, not of what fitted.
BufferTailMiscounted ==
    /\ At("buffer_tail")
    /\ LET amt == Least(WriterCapacity - Len(writer_buf), Limit - done) IN
       /\ writer_buf' = writer_buf \o Slice(amt)
       /\ Proceed(Tail(todo), Limit)
    /\ UNCHANGED <<panicked, written, doubt, reader, out, in>>

\* BufReaderWriterBackend::write_to_buf of the tail: as much as fits.
BufferTail ==
    /\ At("buffer_tail")
    /\ LET amt == Least(WriterCapacity - Len(writer_buf), Limit - done) IN
       /\ writer_buf' = writer_buf \o Slice(amt)
       /\ Proceed(Tail(todo), done + amt)
    /\ UNCHANGED <<panicked, written, doubt, reader, out, in>>

\* inner.write_all of the lines, when nothing is buffered.
LinesAll ==
    /\ At("lines_all")
    /\ \/ \E m \in 1..Least(Limit - done, Room) :
            Send(Slice(m)) /\ Proceed(todo, done + m)
       \/ /\ done = Limit
          /\ Proceed(Tail(todo), done)
          /\ UNCHANGED out
    /\ UNCHANGED <<guts, reader, in>>

LinesFail ==
    /\ \/ At("write_lines") /\ \E k \in Faults : Leave(k)
       \/ At("write_bufs") /\ \E k \in Faults : Leave(k)
       \/ /\ At("lines_all") /\ done < Limit
          /\ \E k \in {"zero"} \cup (Faults \ {"interrupted"}) : Leave(k)
    /\ UNCHANGED <<guts, reader, out, in>>

(***************************************************************************)
(* The specification                                                       *)
(***************************************************************************)
LineWriteCalls ==
    \E d \in Strings(MaxLen) :
        \/ LineWrite(d)
        \/ LineWriteAll(d)
        \/ \E k \in LastNewline(d)..Len(d) : LineWriteVectored(d, k)

ShimSteps == WriteLines \/ WriteBufs \/ BufferTail \/ LinesAll \/ LinesFail

LineRun == Run \/ ShimSteps

LineNext == LineWriteCalls \/ Flush \/ ReadCalls \/ CloseCalls \/ LineRun \/ Closed

LineSpec == Init /\ [][LineNext]_vars /\ WF_vars(LineRun)

(***************************************************************************)
(* Properties                                                              *)
(***************************************************************************)
\* Types and indices, with the shim's steps among those a plan may hold.
LineTypeOK == TypeOver(Steps \cup LineSteps)

\* flush_if_completed_line looks only at the last byte, and write_vectored is
\* documented to flush "the existing buffer if it contains any newlines": the
\* two agree because a buffer that holds newlines, one or several, ends with
\* one: the beginning of a line is never buffered behind a completed line, not
\* after a partial write, a failed flush or a panic.
NewlineLast == HasNewline(writer_buf) => Last(writer_buf) = Newline

\* Completed lines go out: once a write of less than a line, or any write_all,
\* has returned Ok, the buffer holds no line end, however many partial writes
\* and errors came before.
LinesGoOut ==
    [][Returns /\ ret'.kind = "ok"
         /\ (op = "write_all" \/ (op = "write" /\ ~HasNewline(data)))
         => ~HasNewline(writer_buf')]_vars

\* A line writer is the same pair of byte streams as a block writer.
LineImplementsDuplexStream == Duplex!Spec
================================================================================
