--------------------------- MODULE PipedThread_proofs ---------------------------
(***************************************************************************)
(* Proofs about PipedThread, for every byte set, every capacity of the     *)
(* pipe, every bound and every set of faults.                              *)
(***************************************************************************)
EXTENDS PipedThread, SequenceTheorems, TLAPS

(***************************************************************************)
(* The inductive invariant                                                 *)
(***************************************************************************)
\* Calls belong to their kind of handle, only an open handle is in one, and
\* only a write and a read_to_string hold bytes.
CallOK ==
    /\ InCall => life = "open"
    /\ call.op \notin WriteOps \cup {"read_to_string"} => call.todo = <<>>
    /\ call.op \in ReadOps => kind # "writer"
    /\ call.op \in WriteOps \cup {"flush"} => kind = "writer"
    /\ call.op \in {"flush", "drop"} => call.at = "join"
    /\ kind = "bytes" => call.at = "pipe"

\* Without our end of the pipe there is a thread only while a call joins it,
\* and only a copying thread carries bytes.
ThreadOK ==
    /\ held => life = "open"
    /\ ~held /\ call.at = "pipe" => thread = "none"
    /\ held /\ kind # "bytes" => thread # "none"
    /\ thread # "copying" => carry = <<>>
    /\ thread = "flushing" => kind = "writer"

\* Until its thread fails, what a writer has taken is in the boxed writer, with
\* the thread, or in the pipe; a thread that is done has left nothing.
WriterOK ==
    kind = "writer" =>
        /\ thread \in {"copying", "flushing", "ok"} => accepted = delivered \o carry \o pipe
        /\ thread \in {"flushing", "ok"} => pipe = <<>> /\ ~held
        /\ thread = "ok" => synced

\* What has left the pipe, and what a read_to_string may have thrown away: all
\* the rest of a bytes(), and then it has said so.
Got == taken \o call.todo
Thrown == kind = "bytes" /\ told /\ pipe = <<>> /\ call.todo = <<>>

\* As long as it has the pipe, what a reader was supplied with is with the
\* owner, with a read_to_string, in the pipe, or with the thread.
ReaderOK == kind # "writer" /\ held => supplied = Got \o pipe \o carry \/ Thrown

\* Once a read has said so, the stream has ended, and stays at its end.
EndOK ==
    kind # "writer" /\ ret = "end" /\ life = "open" =>
        /\ taken = supplied \/ (kind = "bytes" /\ told)
        /\ thread # "copying"
        /\ held => pipe = <<>>

\* A panic of a call leaves the handle without its thread, and a writer that
\* has lost its thread has said so.
PanicOK ==
    /\ unwinding => ~held /\ ~InCall
    /\ kind = "writer" /\ life = "open" /\ ~held /\ call.at = "pipe" => told
    /\ WriterNeverAborts

\* Before the construction there is nothing.
NewOK ==
    life = "new" =>
        /\ kind = "bytes" /\ ~held /\ ~unwinding /\ call = Idle /\ ret = "none"
        /\ thread = "none" /\ carry = <<>> /\ pipe = <<>>
        /\ accepted = <<>> /\ delivered = <<>> /\ synced
        /\ supplied = <<>> /\ taken = <<>>

IInv == TypeOK /\ CallOK /\ ThreadOK /\ WriterOK /\ ReaderOK /\ EndOK /\ PanicOK /\ NewOK

(***************************************************************************)
(* Sequences                                                               *)
(***************************************************************************)
LEMMA StringsAreSequences ==
    ASSUME NEW n \in Int, NEW s \in Strings(n)
    PROVE  s \in Seq(Byte) /\ Len(s) \in Nat /\ Len(s) <= n
<1>1. PICK k \in 0 .. n : s \in [1 .. k -> Byte]
  BY DEF Strings
<1> QED
  BY <1>1

LEMMA LeastIsLess ==
    ASSUME NEW m \in Int, NEW n \in Int
    PROVE  Least(m, n) \in {m, n} /\ Least(m, n) <= m /\ Least(m, n) <= n
BY DEF Least

\* What is cut off the front of a sequence and what is left make it up.
LEMMA Split ==
    ASSUME NEW s \in Seq(Byte), NEW n \in 0 .. Len(s)
    PROVE  /\ SubSeq(s, 1, n) \in Seq(Byte) /\ Len(SubSeq(s, 1, n)) = n
           /\ Rest(s, n) \in Seq(Byte) /\ Len(Rest(s, n)) = Len(s) - n
           /\ SubSeq(s, 1, n) \o Rest(s, n) = s
<1>1. Len(s) \in Nat /\ \A i \in 1 .. Len(s) : s[i] \in Byte
  BY LenProperties, ElementOfSeq
<1>2. SubSeq(s, 1, n) \in Seq(Byte) /\ Len(SubSeq(s, 1, n)) = n
  BY <1>1, SubSeqProperties
<1>3. Rest(s, n) \in Seq(Byte) /\ Len(Rest(s, n)) = Len(s) - n
  BY <1>1, SubSeqProperties DEF Rest
<1>4. SubSeq(s, 1, n) \o Rest(s, n) = SubSeq(s, 1, Len(s))
  <2>1. 1 \in 1 .. Len(s) + 1 /\ n \in 1 - 1 .. Len(s) /\ Len(s) \in n .. Len(s)
    BY <1>1
  <2> QED
    BY <2>1, ConcatAdjacentSubSeq DEF Rest
<1>5. SubSeq(s, 1, Len(s)) = s
  BY SubSeqFull
<1> QED
  BY <1>2, <1>3, <1>4, <1>5

LEMMA Assoc ==
    ASSUME NEW r \in Seq(Byte), NEW s \in Seq(Byte), NEW t \in Seq(Byte)
    PROVE  (r \o s) \o t = r \o (s \o t)
BY SMTT(60), ConcatAssociative

\* Moving bytes from the front of one sequence to the end of the one before.
LEMMA Shift ==
    ASSUME NEW r \in Seq(Byte), NEW s \in Seq(Byte), NEW n \in 0 .. Len(s)
    PROVE  (r \o SubSeq(s, 1, n)) \o Rest(s, n) = r \o s
<1> DEFINE A == SubSeq(s, 1, n)
           B == Rest(s, n)
<1>1. A \in Seq(Byte) /\ B \in Seq(Byte) /\ A \o B = s
  BY Split
<1> HIDE DEF A, B
<1>2. (r \o A) \o B = r \o s
  BY <1>1, Assoc
<1> QED
  BY <1>2 DEF A, B

LEMMA Joined ==
    ASSUME NEW r \in Seq(Byte), NEW s \in Seq(Byte)
    PROVE  r \o s \in Seq(Byte) /\ Len(r \o s) = Len(r) + Len(s)
           /\ r \o <<>> = r /\ <<>> \o r = r
BY ConcatProperties, ConcatEmptySeq

LEMMA Types ==
    IInv => /\ pipe \in Seq(Byte) /\ carry \in Seq(Byte) /\ accepted \in Seq(Byte)
            /\ delivered \in Seq(Byte) /\ supplied \in Seq(Byte) /\ taken \in Seq(Byte)
            /\ Len(pipe) \in Nat /\ Len(carry) \in Nat /\ Len(pipe) <= PipeCapacity
            /\ <<>> \in Seq(Byte) /\ Len(<<>>) = 0
            /\ PipeCapacity \in Nat /\ Room \in Nat
            /\ call.todo \in Seq(Byte) /\ Got \in Seq(Byte)
<1> SUFFICES ASSUME IInv PROVE Types!2
  OBVIOUS
<1>1. call.todo \in Seq(Byte) /\ taken \in Seq(Byte)
  BY DEF IInv, TypeOK
<1>2. Got \in Seq(Byte)
  BY <1>1, Joined DEF Got
<1> QED
  BY <1>1, <1>2, LenProperties, EmptySeq, CapacityAssumption DEF IInv, TypeOK, Room

\* What a writer has taken is a sum of what is where; so is what a reader has.
Outward == delivered \o carry \o pipe
Inward  == Got \o pipe \o carry

(***************************************************************************)
(* The thread                                                              *)
(***************************************************************************)
Streams ==
    /\ pipe \in Seq(Byte) /\ carry \in Seq(Byte) /\ Len(pipe) <= PipeCapacity
    /\ accepted \in Seq(Byte) /\ delivered \in Seq(Byte) /\ synced \in BOOLEAN
    /\ supplied \in Seq(Byte) /\ taken \in Seq(Byte)

Threads == {"none", "copying", "flushing", "ok", "err", "panic"}

\* A step of the thread changes nothing of the handle, so all that is left to
\* show is where the bytes are.
LEMMA ThreadInv ==
    ASSUME IInv, UNCHANGED <<frame, held, accepted, taken>>, Streams',
           thread # "none", thread' \in Threads \ {"none"},
           kind = "writer" \/ thread = "copying",
           thread' = "flushing" => kind = "writer",
           thread' # "copying" => carry' = <<>>,
           WriterOK', ReaderOK'
    PROVE  IInv'
<1>1. UNCHANGED <<kind, life, call, ret, told, unwinding, held, accepted, taken>>
  BY DEF frame
<1>2. TypeOK'
  BY <1>1 DEF IInv, TypeOK, Streams, Threads, InCall
<1>3. CallOK' /\ ThreadOK' /\ PanicOK'
  BY <1>1 DEF IInv, CallOK, ThreadOK, PanicOK, WriterNeverAborts, InCall
<1>4. EndOK' /\ NewOK'
  BY <1>1 DEF IInv, EndOK, NewOK
<1> QED
  BY <1>2, <1>3, <1>4 DEF IInv

LEMMA CopyFromPipeInv == IInv /\ CopyFromPipe => IInv'
<1> SUFFICES ASSUME IInv, CopyFromPipe PROVE IInv'
  OBVIOUS
<1>1. PICK n \in 1 .. Len(pipe) : carry' = SubSeq(pipe, 1, n) /\ pipe' = Rest(pipe, n)
  BY DEF CopyFromPipe
<1>2. /\ carry' \in Seq(Byte) /\ pipe' \in Seq(Byte) /\ Len(pipe') <= PipeCapacity
      /\ n \in 0 .. Len(pipe)
  BY <1>1, Types, Split
<1>3. Outward' = Outward
  <2>1. delivered \o carry = delivered /\ delivered' = delivered
    BY Types, Joined DEF CopyFromPipe, outward
  <2>2. (delivered \o SubSeq(pipe, 1, n)) \o Rest(pipe, n) = delivered \o pipe
    BY <1>2, Types, Shift
  <2> QED
    BY <2>1, <2>2, <1>1 DEF Outward
<1>4. /\ UNCHANGED <<frame, held, thread, accepted, delivered, synced, supplied, taken>>
      /\ kind = "writer" /\ thread = "copying"
  BY DEF CopyFromPipe, outward, inward
<1>5. WriterOK' /\ ReaderOK'
  BY <1>3, <1>4 DEF IInv, WriterOK, ReaderOK, Outward, frame
<1>6. Streams'
  BY <1>2, <1>4 DEF Streams, IInv, TypeOK
<1> QED
  BY <1>4, <1>5, <1>6, ThreadInv DEF Threads

LEMMA CopyToBoxedInv == IInv /\ CopyToBoxed => IInv'
<1> SUFFICES ASSUME IInv, CopyToBoxed PROVE IInv'
  OBVIOUS
<1>1. PICK n \in 1 .. Len(carry) :
        delivered' = delivered \o SubSeq(carry, 1, n) /\ carry' = Rest(carry, n)
  BY DEF CopyToBoxed
<1>2. carry' \in Seq(Byte) /\ delivered' \in Seq(Byte) /\ n \in 0 .. Len(carry)
  BY <1>1, Types, Split, Joined
<1>3. delivered' \o carry' = delivered \o carry
  BY <1>1, <1>2, Types, Shift
<1>4. /\ UNCHANGED <<frame, held, thread, pipe, accepted, supplied, taken>>
      /\ kind = "writer" /\ thread = "copying" /\ synced' = FALSE
  BY DEF CopyToBoxed, inward
<1>5. WriterOK' /\ ReaderOK'
  BY <1>3, <1>4 DEF IInv, WriterOK, ReaderOK, frame
<1>6. Streams'
  BY <1>2, <1>4 DEF Streams, IInv, TypeOK
<1> QED
  BY <1>4, <1>5, <1>6, ThreadInv DEF Threads

LEMMA ThreadEndsInv ==
    IInv /\ (CopyEnds \/ FlushBoxed \/ CopyBroken \/ BoxedFails) => IInv'
<1> SUFFICES ASSUME IInv, CopyEnds \/ FlushBoxed \/ CopyBroken \/ BoxedFails PROVE IInv'
  OBVIOUS
<1> USE DEF outward, inward, Returns, Fails
<1>1. /\ UNCHANGED <<frame, held, accepted, delivered, supplied, taken>>
      /\ thread \in {"copying", "flushing"} /\ thread' \in {"flushing", "ok", "err", "panic"}
      /\ carry' = <<>> /\ (pipe' = pipe \/ pipe' = <<>>) /\ synced' \in BOOLEAN
      /\ thread' = "flushing" => kind = "writer"
  BY Types DEF CopyEnds, FlushBoxed, CopyBroken, BoxedFails, IInv, TypeOK
<1>2. Streams'
  <2>1. pipe' \in Seq(Byte) /\ Len(pipe') <= PipeCapacity /\ carry' \in Seq(Byte)
    <3>1. /\ <<>> \in Seq(Byte) /\ Len(<<>>) = 0 /\ 0 <= PipeCapacity
          /\ pipe \in Seq(Byte) /\ Len(pipe) <= PipeCapacity
      BY Types
    <3>2. CASE pipe' = pipe
      BY <1>1, <3>1, <3>2
    <3>3. CASE pipe' = <<>>
      BY <1>1, <3>1, <3>3
    <3> QED
      BY <1>1, <3>2, <3>3
  <2> QED
    BY <1>1, <2>1, Types DEF Streams
<1>3. WriterOK'
  <2>1. CASE CopyEnds
    BY <1>1, <2>1 DEF CopyEnds, IInv, WriterOK, frame
  <2>2. CASE FlushBoxed
    BY <1>1, <2>2 DEF FlushBoxed, IInv, WriterOK, ThreadOK, frame
  <2>3. CASE CopyBroken \/ BoxedFails
    BY <1>1, <2>3 DEF CopyBroken, BoxedFails, WriterOK, frame
  <2> QED
    BY <2>1, <2>2, <2>3
<1>4. ReaderOK'
  <2>1. CASE kind # "writer" /\ held
    <3>1. carry = <<>> /\ pipe' = pipe
      BY SMTT(30), <1>1, <2>1 DEF CopyEnds, FlushBoxed, CopyBroken, BoxedFails, IInv, ThreadOK
    <3> QED
      BY <1>1, <3>1 DEF IInv, ReaderOK, Got, Thrown, frame
  <2> QED
    BY <1>1, <2>1 DEF ReaderOK, frame
<1> QED
  BY <1>1, <1>2, <1>3, <1>4, ThreadInv DEF Threads, IInv, ThreadOK

LEMMA CopyFromBoxedInv == IInv /\ CopyFromBoxed => IInv'
<1> SUFFICES ASSUME IInv, CopyFromBoxed PROVE IInv'
  OBVIOUS
<1>1. PICK s \in Strings(Least(MaxLen, StreamLength - Len(supplied))) :
        IF s = <<>> THEN Returns("ok") /\ UNCHANGED supplied
        ELSE carry' = s /\ supplied' = supplied \o s /\ UNCHANGED thread
  BY DEF CopyFromBoxed
<1>2. s \in Seq(Byte)
  <2>1. Least(MaxLen, StreamLength - Len(supplied)) \in Int
    BY Types, LenProperties, BoundAssumption, LeastIsLess
  <2> QED
    BY <2>1, StringsAreSequences
<1>3. /\ UNCHANGED <<frame, held, pipe, accepted, delivered, synced, taken>>
      /\ kind = "reader" /\ thread = "copying" /\ carry = <<>>
  BY DEF CopyFromBoxed, outward
<1>4. /\ carry' \in Seq(Byte) /\ supplied' \in Seq(Byte) /\ thread' \in {"copying", "ok"}
      /\ thread' # "copying" => carry' = <<>>
      /\ supplied' = supplied \o carry'
  <2>1. supplied \in Seq(Byte) /\ <<>> \in Seq(Byte)
    BY Types
  <2>2. supplied \o s \in Seq(Byte) /\ supplied \o <<>> = supplied
    BY <2>1, <1>2, Joined
  <2> QED
    BY <1>1, <1>2, <1>3, <2>1, <2>2 DEF Returns
<1>5. ReaderOK'
  <2>1. CASE held
    <3>1. Got \o pipe \in Seq(Byte) /\ Got' = Got
      BY <1>3, Types, Joined DEF Got, frame
    <3>2. supplied = (Got \o pipe) \o <<>>
      BY <1>3, <2>1 DEF IInv, ReaderOK, Thrown
    <3>3. supplied = Got \o pipe
      BY <3>1, <3>2, Joined
    <3> QED
      BY <1>3, <1>4, <3>1, <3>3 DEF ReaderOK
  <2> QED
    BY <1>3, <2>1 DEF ReaderOK
<1>6. WriterOK' /\ Streams'
  BY <1>3, <1>4, Types DEF WriterOK, Streams, frame, IInv, TypeOK
<1> QED
  BY <1>3, <1>4, <1>5, <1>6, ThreadInv DEF Threads

LEMMA CopyToPipeInv == IInv /\ CopyToPipe => IInv'
<1> SUFFICES ASSUME IInv, CopyToPipe PROVE IInv'
  OBVIOUS
<1>1. PICK n \in 1 .. Least(Len(carry), Room) :
        pipe' = pipe \o SubSeq(carry, 1, n) /\ carry' = Rest(carry, n)
  BY DEF CopyToPipe
<1>2. n \in 0 .. Len(carry) /\ n <= Room
  <2>1. Len(carry) \in Int /\ Room \in Int
    BY Types
  <2>2. Least(Len(carry), Room) \in Int /\ Least(Len(carry), Room) <= Len(carry)
        /\ Least(Len(carry), Room) <= Room
    BY <2>1, LeastIsLess
  <2> QED
    BY <1>1, <2>1, <2>2
<1> DEFINE A == SubSeq(carry, 1, n)
<1>3. A \in Seq(Byte) /\ Len(A) = n /\ carry' \in Seq(Byte)
  BY <1>1, <1>2, Types, Split
<1>4. pipe' \in Seq(Byte) /\ Len(pipe') <= PipeCapacity
  <2>1. pipe' \in Seq(Byte) /\ Len(pipe') = Len(pipe) + n
    BY <1>1, <1>3, Types, Joined
  <2> QED
    BY <2>1, <1>2, Types DEF Room
<1>5. Inward' = Inward
  <2>1. Got \o pipe \in Seq(Byte) /\ Got' = Got
    BY Types, Joined DEF CopyToPipe, inward, frame, Got
  <2>2. ((Got \o pipe) \o A) \o Rest(carry, n) = (Got \o pipe) \o carry
    BY <2>1, <1>2, Types, Shift
  <2>0. Got \in Seq(Byte) /\ pipe \in Seq(Byte) /\ A \in Seq(Byte)
    BY <1>3, Types
  <2> HIDE DEF A
  <2>3. (Got \o pipe) \o A = Got \o (pipe \o A)
    BY <2>0, Assoc
  <2>4. pipe' = pipe \o A /\ carry' = Rest(carry, n)
    BY <1>1 DEF A
  <2> QED
    BY <2>1, <2>2, <2>3, <2>4 DEF Inward
<1>6. /\ UNCHANGED <<frame, held, thread, accepted, delivered, synced, supplied, taken>>
      /\ kind = "reader" /\ thread = "copying"
  BY DEF CopyToPipe, outward, inward
<1>7. WriterOK' /\ ReaderOK'
  BY <1>5, <1>6 DEF IInv, WriterOK, ReaderOK, Inward, Thrown, frame
<1>8. Streams'
  BY <1>3, <1>4, <1>6 DEF Streams, IInv, TypeOK
<1> QED
  BY <1>6, <1>7, <1>8, ThreadInv DEF Threads

(***************************************************************************)
(* The calls of the handle                                                 *)
(***************************************************************************)
Calls == [op : ReadOps \cup WriteOps \cup {"none", "flush", "drop"},
          at : {"pipe", "join"}, want : 0..MaxLen, todo : Seq(Byte)]

LEMMA IdleIsCall ==
    Idle \in Calls /\ Idle.op = "none" /\ Idle.at = "pipe" /\ Idle.todo = <<>>
<1>1. 0 \in 0 .. MaxLen /\ <<>> \in Seq(Byte)
  BY BoundAssumption, EmptySeq
<1> QED
  BY <1>1 DEF Idle, CallOf, Calls

\* Between calls nothing is joined, and nothing is left of a call.
LEMMA BetweenCalls == IInv /\ ~InCall => call.at = "pipe" /\ call.todo = <<>>
BY DEF IInv, TypeOK, CallOK, InCall, WriteOps

\* A call that ends: what is left to show is what became of the thread.
LEMMA LeaveInv ==
    ASSUME IInv, life = "open", NEW r \in {"ok", "end", "err", "panic"}, Leave(r),
           Streams', held' \in BOOLEAN, thread' \in Threads,
           thread' # "copying" => carry' = <<>>,
           thread' = "none" <=> (kind = "bytes" \/ ~held'),
           thread' = "flushing" => kind = "writer",
           r = "panic" => ~held',
           kind = "writer" /\ ~held' => told \/ r \in {"err", "panic"},
           WriterOK', ReaderOK',
           kind # "writer" /\ r = "end" =>
               /\ taken' = supplied' \/ (kind = "bytes" /\ told)
               /\ thread' # "copying"
               /\ held' => pipe' = <<>>
    PROVE  IInv'
<1>1. /\ UNCHANGED <<kind, life>> /\ ret' = r /\ unwinding' \in BOOLEAN
      /\ unwinding' => r = "panic"
      /\ call' \in Calls /\ call'.op = "none" /\ call'.at = "pipe" /\ call'.todo = <<>>
  BY IdleIsCall DEF Leave
<1>2. told' \in BOOLEAN /\ (told' <=> told \/ r \in {"err", "panic"})
  BY DEF Leave, IInv, TypeOK
<1>3. TypeOK'
  BY <1>1, <1>2 DEF IInv, TypeOK, Streams, Threads, Calls, InCall
<1>4. CallOK' /\ ThreadOK'
  BY <1>1 DEF CallOK, ThreadOK, InCall, ReadOps, WriteOps
<1>5. EndOK' /\ PanicOK' /\ NewOK'
  BY <1>1, <1>2 DEF EndOK, PanicOK, NewOK, WriterNeverAborts, InCall
<1> QED
  BY <1>3, <1>4, <1>5 DEF IInv

\* A call that begins, goes on, or comes to the join.
LEMMA GoesInv ==
    ASSUME IInv, life = "open", ~unwinding, NEW c \in Calls, Goes(c),
           Streams', held' \in BOOLEAN, UNCHANGED <<thread, carry>>,
           c.op # "none",
           c.op \in ReadOps => kind # "writer",
           c.op \in WriteOps \cup {"flush"} => kind = "writer",
           c.op \notin WriteOps \cup {"read_to_string"} => c.todo = <<>>,
           c.op \in {"flush", "drop"} => c.at = "join",
           c.at = "join" => kind # "bytes" /\ ~held' /\ thread # "none",
           c.at = "pipe" => held' = held /\ call.at = "pipe",
           WriterOK', ReaderOK', EndOK'
    PROVE  IInv'
<1>1. UNCHANGED <<kind, life, ret, told, unwinding>> /\ call' = c
  BY DEF Goes
<1>2. TypeOK'
  BY <1>1 DEF IInv, TypeOK, Streams, Calls, InCall
<1>3. CallOK' /\ ThreadOK'
  BY <1>1 DEF IInv, CallOK, ThreadOK, InCall, Calls
<1>4. PanicOK' /\ NewOK'
  BY <1>1 DEF IInv, PanicOK, NewOK, WriterNeverAborts, InCall, Calls
<1> QED
  BY <1>2, <1>3, <1>4 DEF IInv

\* A drop that is over.
LEMMA GoneInv ==
    ASSUME IInv, life = "open", NEW r \in {"ok", "panic"}, Gone(r),
           kind = "writer" => r = "ok" \/ ~unwinding,
           Streams', held' = FALSE, thread' = "none", carry' = <<>>
    PROVE  IInv'
<1>1. /\ UNCHANGED <<kind, told, unwinding>> /\ ret' = r
      /\ life' \in {"dropped", "aborted"} /\ (kind = "writer" => life' = "dropped")
      /\ call' \in Calls /\ call'.op = "none" /\ call'.at = "pipe" /\ call'.todo = <<>>
  BY IdleIsCall DEF Gone, IInv, TypeOK
<1>2. TypeOK'
  BY <1>1 DEF IInv, TypeOK, Streams, Calls, InCall
<1>3. CallOK' /\ ThreadOK'
  BY <1>1 DEF CallOK, ThreadOK, InCall, ReadOps, WriteOps
<1>4. WriterOK' /\ ReaderOK' /\ EndOK' /\ NewOK'
  BY <1>1 DEF WriterOK, ReaderOK, EndOK, NewOK
<1>5. PanicOK'
  BY <1>1 DEF PanicOK, WriterNeverAborts, InCall
<1> QED
  BY <1>2, <1>3, <1>4, <1>5 DEF IInv

LEMMA StreamsNow == IInv => Streams /\ thread \in Threads /\ held \in BOOLEAN /\ call \in Calls
BY DEF IInv, TypeOK, Streams, Threads, Calls

\* Closing our end of the pipe.
LEMMA LetGoes ==
    ASSUME IInv, LetGo, UNCHANGED <<kind, ret, life, told, worker, outward, inward>>
    PROVE  Streams' /\ held' = FALSE /\ WriterOK' /\ ReaderOK' /\ EndOK'
<1>1. held' = FALSE /\ UNCHANGED <<kind, ret, life, told, thread, carry, accepted, delivered, synced,
                                  supplied, taken>>
  BY DEF LetGo, worker, outward, inward
<1>2. pipe' \in Seq(Byte) /\ Len(pipe') <= PipeCapacity
  <2>1. /\ <<>> \in Seq(Byte) /\ Len(<<>>) = 0 /\ 0 <= PipeCapacity
        /\ pipe \in Seq(Byte) /\ Len(pipe) <= PipeCapacity
    BY Types
  <2>2. CASE kind = "writer"
    BY <2>1, <2>2 DEF LetGo
  <2>3. CASE kind # "writer"
    BY <2>1, <2>3 DEF LetGo
  <2> QED
    BY <2>2, <2>3
<1>3. Streams'
  BY <1>1, <1>2, StreamsNow DEF Streams
<1>4. WriterOK'
  <2>1. kind = "writer" => pipe' = pipe
    BY DEF LetGo
  <2> QED
    BY <1>1, <2>1 DEF IInv, WriterOK
<1>5. ReaderOK' /\ EndOK'
  BY <1>1 DEF IInv, ReaderOK, EndOK
<1> QED
  BY <1>1, <1>3, <1>4, <1>5

\* What is true of the streams stays true while nothing touches them.
LEMMA StreamsStay ==
    ASSUME IInv, UNCHANGED <<kind, held, worker, pipe, outward, inward>>, told => told',
           \/ kind = "writer" \/ ~held
           \/ call'.todo = call.todo
           \/ kind = "bytes" /\ told' /\ pipe = <<>> /\ call'.todo = <<>>
    PROVE  /\ Streams' /\ WriterOK' /\ ReaderOK'
           /\ UNCHANGED <<ret, life>> => EndOK'
<1>1. Streams' /\ WriterOK'
  BY StreamsNow DEF IInv, Streams, WriterOK, worker, outward, inward
<1>2. UNCHANGED <<ret, life>> => EndOK'
  BY DEF IInv, EndOK, worker, inward
<1>3. ReaderOK'
  <2>1. UNCHANGED <<kind, held, pipe, carry, supplied, taken>>
    BY DEF worker, inward
  <2>2. CASE kind = "writer" \/ ~held
    BY <2>1, <2>2 DEF ReaderOK
  <2>3. CASE call'.todo = call.todo
    BY <2>1, <2>3 DEF IInv, ReaderOK, Got, Thrown
  <2>4. CASE kind = "bytes" /\ told' /\ pipe = <<>> /\ call'.todo = <<>>
    BY <2>1, <2>4 DEF ReaderOK, Thrown
  <2> QED
    BY <2>2, <2>3, <2>4
<1> QED
  BY <1>1, <1>2, <1>3

LEMMA EnterInv ==
    ASSUME IInv, NEW c \in Calls, c.at = "pipe", Enter(c),
           c.op \in ReadOps \cup WriteOps, c.op \in ReadOps <=> kind # "writer",
           c.op \in ReadOps => c.todo = <<>>
    PROVE  IInv'
<1>1. /\ life = "open" /\ ~unwinding /\ ~InCall /\ Goes(c) /\ call' = c
      /\ UNCHANGED <<kind, ret, life, told, held, worker, pipe, outward, inward>>
  BY DEF Enter, Goes
<1>2. call.at = "pipe" /\ (kind # "writer" => call'.todo = call.todo)
  BY <1>1, BetweenCalls
<1>3. Streams' /\ WriterOK' /\ ReaderOK' /\ EndOK'
  BY <1>1, <1>2, StreamsStay
<1>4. c.op \notin {"none", "flush", "drop"} /\ UNCHANGED <<thread, carry, held>> /\ held' \in BOOLEAN
  BY <1>1, StreamsNow DEF ReadOps, WriteOps, worker
<1>5. /\ c.op \in ReadOps => kind # "writer"
      /\ c.op \in WriteOps \cup {"flush"} => kind = "writer"
      /\ c.op \notin WriteOps \cup {"read_to_string"} => c.todo = <<>>
  BY DEF ReadOps, WriteOps
<1> QED
  BY <1>1, <1>2, <1>3, <1>4, <1>5, GoesInv

LEMMA CallsOfOwnerInv == IInv /\ (ReadCall \/ WriteCall) => IInv'
<1> SUFFICES ASSUME IInv, ReadCall \/ WriteCall PROVE IInv'
  OBVIOUS
<1>0. <<>> \in Seq(Byte) /\ 0 \in 0 .. MaxLen
  BY EmptySeq, BoundAssumption
<1>1. ASSUME NEW op \in {"read", "read_exact"}, NEW n \in 1 .. MaxLen, kind # "writer",
             Enter(CallOf(op, n, <<>>))
      PROVE  IInv'
  <2> DEFINE c == CallOf(op, n, <<>>)
  <2>1. c \in Calls /\ c.at = "pipe" /\ Enter(c)
        /\ c.op \in ReadOps \cup WriteOps /\ (c.op \in ReadOps <=> kind # "writer")
        /\ c.todo = <<>>
    BY <1>0, <1>1 DEF CallOf, Calls, ReadOps
  <2> HIDE DEF c
  <2> QED
    BY <2>1, EnterInv
<1>2. ASSUME NEW op \in Endless, kind # "writer", Enter(CallOf(op, 0, <<>>))
      PROVE  IInv'
  <2> DEFINE c == CallOf(op, 0, <<>>)
  <2>1. c \in Calls /\ c.at = "pipe" /\ Enter(c)
        /\ c.op \in ReadOps \cup WriteOps /\ (c.op \in ReadOps <=> kind # "writer")
        /\ c.todo = <<>>
    BY <1>0, <1>2 DEF CallOf, Calls, ReadOps, Endless
  <2> HIDE DEF c
  <2> QED
    BY <2>1, EnterInv
<1>3. ASSUME NEW op \in WriteOps, NEW s \in Strings(MaxLen), kind = "writer",
             Enter(CallOf(op, 0, s))
      PROVE  IInv'
  <2>1. s \in Seq(Byte)
    BY BoundAssumption, StringsAreSequences
  <2>2. CallOf(op, 0, s) \in Calls /\ CallOf(op, 0, s).at = "pipe"
        /\ CallOf(op, 0, s).op \in ReadOps \cup WriteOps
        /\ (CallOf(op, 0, s).op \in ReadOps <=> kind # "writer")
        /\ CallOf(op, 0, s).op \notin ReadOps
    BY <1>0, <1>3, <2>1 DEF CallOf, Calls, ReadOps, WriteOps
  <2> QED
    BY <1>3, <2>2, EnterInv
<1> QED
  BY <1>1, <1>2, <1>3 DEF ReadCall, WriteCall

\* The join of a call begins.
LEMMA JoinInv ==
    ASSUME IInv, life = "open", held, kind # "bytes",
           NEW op \in ReadOps \cup WriteOps \cup {"flush", "drop"}, Join(op),
           op \in ReadOps => kind # "writer",
           op \in WriteOps \cup {"flush"} => kind = "writer",
           op = call.op \/ ~InCall,
           UNCHANGED <<worker, outward, inward>>
    PROVE  IInv'
<1> DEFINE c == [call EXCEPT !.op = op, !.at = "join"]
<1>1. c \in Calls /\ c.op = op /\ c.at = "join" /\ c.todo = call.todo
  BY StreamsNow DEF Calls
<1>6. op \notin WriteOps \cup {"read_to_string"} => call.todo = <<>>
  BY BetweenCalls DEF IInv, CallOK
<1>2. Goes(c) /\ LetGo /\ UNCHANGED <<kind, ret, life, told>>
  BY DEF Join, Goes
<1>3. Streams' /\ held' = FALSE /\ WriterOK' /\ ReaderOK' /\ EndOK'
  BY <1>2, LetGoes
<1>4. thread # "none" /\ ~unwinding /\ UNCHANGED <<thread, carry>>
  BY DEF IInv, ThreadOK, PanicOK, worker
<1>5. op # "none"
  BY DEF ReadOps, WriteOps
<1> HIDE DEF c
<1> QED
  BY <1>1, <1>2, <1>3, <1>4, <1>5, <1>6, GoesInv

\* A read_to_string of a bytes() that fails with bytes in hand is at the end.
LEMMA MapErrInv ==
    ASSUME IInv, OnPipe(ReadOps \cup WriteOps), MapErr, UNCHANGED <<worker, outward, inward>>,
           kind = "bytes" /\ held => call.todo = <<>> \/ pipe = <<>>
    PROVE  IInv'
<1>1. /\ life = "open" /\ call.op \in ReadOps \cup WriteOps /\ call.at = "pipe"
      /\ call.op \in ReadOps => kind # "writer"
      /\ call.op \in WriteOps \cup {"flush"} => kind = "writer"
  BY DEF OnPipe, IInv, CallOK, InCall, ReadOps, WriteOps
<1>2. CASE kind # "bytes" /\ held /\ Join(call.op)
  BY <1>1, <1>2, JoinInv
<1>3. ASSUME NEW r \in {"err", "panic"}, Leave(r), UNCHANGED <<held, pipe>>,
             r = "panic" => ~held, kind = "bytes" \/ ~held
      PROVE  IInv'
  <2>4. told' /\ UNCHANGED kind /\ call'.todo = <<>>
    BY <1>3, IdleIsCall DEF Leave
  <2>5. \/ kind = "writer" \/ ~held
        \/ call'.todo = call.todo
        \/ kind = "bytes" /\ told' /\ pipe = <<>> /\ call'.todo = <<>>
    BY <1>3, <2>4 DEF Leave
  <2>6. UNCHANGED <<kind, held, worker, pipe, outward, inward>>
    BY <1>3, <2>4
  <2>1. Streams' /\ WriterOK' /\ ReaderOK'
    BY <2>4, <2>5, <2>6, StreamsStay
  <2>2. UNCHANGED <<held, thread, carry>> /\ thread \in Threads /\ held \in BOOLEAN
    BY <1>3, StreamsNow DEF worker
  <2>3. /\ thread # "copying" => carry = <<>>
        /\ thread = "none" <=> (kind = "bytes" \/ ~held)
        /\ thread # "flushing"
    BY <1>1, <1>3 DEF IInv, ThreadOK, TypeOK
  <2> QED
    BY <1>1, <1>3, <2>1, <2>2, <2>3, LeaveInv
<1> QED
  BY <1>2, <1>3 DEF MapErr

LEMMA MapErrJoinInv == IInv /\ MapErrJoin => IInv'
<1> SUFFICES ASSUME IInv, MapErrJoin PROVE IInv'
  OBVIOUS
<1>1. /\ life = "open" /\ call.at = "join" /\ held' = FALSE
      /\ thread \in {"ok", "err", "panic"} /\ thread' = "none"
      /\ UNCHANGED <<held, carry, pipe, outward, inward>>
  BY DEF MapErrJoin, Joining, Ended, IInv, CallOK, TypeOK, InCall, ReadOps, WriteOps
<1>2. PICK r \in {"err", "panic"} : Leave(r)
  BY DEF MapErrJoin
<1>3. Streams' /\ WriterOK' /\ ReaderOK' /\ carry' = <<>>
  BY <1>1, <1>2, StreamsNow
     DEF Streams, WriterOK, ReaderOK, Leave, IInv, ThreadOK, outward, inward
<1> QED
  BY <1>1, <1>2, <1>3, LeaveInv DEF Threads

(***************************************************************************)
(* Construction                                                            *)
(***************************************************************************)
LEMMA BuildInv ==
    ASSUME IInv, NEW k \in {"reader", "writer", "bytes"}, NEW s \in Seq(Byte),
           Len(s) <= PipeCapacity, k = "writer" => s = <<>>, Build(k, s)
    PROVE  IInv'
<1>1. /\ UNCHANGED <<call, ret, told, unwinding, carry, accepted, delivered, synced, taken>>
      /\ kind' = k /\ life' = "open" /\ held' = TRUE /\ pipe' = s /\ supplied' = s
      /\ thread' = IF k = "bytes" THEN "none" ELSE "copying"
  BY DEF Build, outward
<1>2. /\ call = Idle /\ ret = "none" /\ ~unwinding /\ carry = <<>>
      /\ accepted = <<>> /\ delivered = <<>> /\ taken = <<>>
      /\ call \in Calls /\ call.op = "none" /\ call.at = "pipe" /\ call.todo = <<>>
  BY IdleIsCall DEF Build, IInv, NewOK
<1>3. TypeOK'
  BY <1>1, <1>2 DEF IInv, TypeOK, Calls, InCall
<1>4. CallOK' /\ ThreadOK' /\ PanicOK'
  BY <1>1, <1>2 DEF CallOK, ThreadOK, PanicOK, WriterNeverAborts, InCall, ReadOps, WriteOps
<1>5. <<>> \o s = s /\ s \o <<>> = s /\ <<>> \o <<>> = <<>>
  BY Types, Joined
<1>6. WriterOK' /\ ReaderOK'
  BY <1>1, <1>2, <1>5 DEF WriterOK, ReaderOK, Got
<1>7. EndOK' /\ NewOK'
  BY <1>1, <1>2 DEF EndOK, NewOK
<1> QED
  BY <1>3, <1>4, <1>6, <1>7 DEF IInv

LEMMA ConstructInv == IInv /\ Construct => IInv'
<1> SUFFICES ASSUME IInv, Construct PROVE IInv'
  OBVIOUS
<1>0. <<>> \in Seq(Byte) /\ Len(<<>>) <= PipeCapacity
  BY Types
<1>1. CASE PipedReader
  <2>1. Build("reader", <<>>)
    BY <1>1 DEF PipedReader
  <2> QED
    BY <1>0, <2>1, BuildInv
<1>2. CASE PipedWriter
  <2>1. Build("writer", <<>>)
    BY <1>2 DEF PipedWriter
  <2> QED
    BY <1>0, <2>1, BuildInv
<1>3. CASE Bytes
  <2>1. PICK s \in Strings(PipeBuf) : Build("bytes", s)
    BY <1>3 DEF Bytes
  <2>2. PipeBuf \in Int /\ PipeBuf <= PipeCapacity /\ PipeCapacity \in Nat
    BY CapacityAssumption
  <2>3. s \in Seq(Byte) /\ Len(s) <= PipeCapacity
    BY <2>2, StringsAreSequences
  <2> QED
    BY <2>1, <2>3, BuildInv
<1>4. CASE BuildFails
  <2>1. /\ UNCHANGED <<kind, call, ret, told, unwinding, held, thread, carry, pipe, accepted,
                       delivered, synced, supplied, taken>>
        /\ life = "new" /\ life' = "dropped"
    BY <1>4 DEF BuildFails, worker, outward, inward
  <2>2. TypeOK'
    BY <2>1 DEF IInv, TypeOK, NewOK, InCall
  <2>3. CallOK' /\ ThreadOK' /\ PanicOK'
    BY <2>1, IdleIsCall DEF IInv, CallOK, ThreadOK, PanicOK, WriterNeverAborts, InCall, NewOK
  <2>4. WriterOK' /\ ReaderOK' /\ EndOK' /\ NewOK'
    BY <2>1 DEF IInv, WriterOK, ReaderOK, EndOK, NewOK
  <2> QED
    BY <2>2, <2>3, <2>4 DEF IInv
<1> QED
  BY <1>1, <1>2, <1>3, <1>4 DEF Construct

(***************************************************************************)
(* Reading                                                                 *)
(***************************************************************************)
\* What holds in a call on the pipe.
LEMMA OnThePipe ==
    ASSUME IInv, OnPipe(ReadOps \cup WriteOps)
    PROVE  /\ life = "open" /\ ~unwinding /\ call.at = "pipe" /\ call \in Calls
           /\ call.op \notin {"none", "flush", "drop"}
           /\ call.op \in ReadOps => kind # "writer"
           /\ call.op \in WriteOps \cup {"flush"} => kind = "writer"
           /\ thread = "none" <=> (kind = "bytes" \/ ~held)
           /\ thread # "copying" => carry = <<>>
           /\ thread = "flushing" => kind = "writer"
<1>1. call.at = "pipe" /\ call.op \notin {"none", "flush", "drop"} /\ InCall /\ call \in Calls
  BY StreamsNow DEF OnPipe, InCall, ReadOps, WriteOps
<1>2. life = "open" /\ ~unwinding
  BY <1>1 DEF IInv, CallOK, PanicOK
<1> QED
  BY <1>1, <1>2 DEF IInv, CallOK, ThreadOK, TypeOK

LEMMA ReadSomeInv == IInv /\ ReadSome => IInv'
<1> SUFFICES ASSUME IInv, ReadSome PROVE IInv'
  OBVIOUS
<1> DEFINE n == IF call.op \in Endless THEN Len(pipe) ELSE Least(call.want, Len(pipe))
           c == [call EXCEPT !.want = IF call.op \in Endless THEN 0 ELSE @ - n]
<1>0. /\ OnPipe(ReadOps \cup WriteOps) /\ call.op \in ReadOps /\ held /\ pipe # <<>>
      /\ pipe' = Rest(pipe, n) /\ taken' = taken \o SubSeq(pipe, 1, n)
      /\ Leave("ok") \/ Goes(c)
      /\ UNCHANGED <<held, thread, carry, accepted, delivered, synced, supplied>>
  BY DEF ReadSome, OnPipe, worker, outward
<1>11. call.todo = <<>>
  BY DEF ReadSome, OnPipe, IInv, CallOK, ReadOps, WriteOps
<1>1. /\ life = "open" /\ ~unwinding /\ call.at = "pipe" /\ call \in Calls
      /\ call.op \notin {"none", "flush", "drop"} /\ kind # "writer"
      /\ thread = "none" <=> (kind = "bytes" \/ ~held)
      /\ thread # "copying" => carry = <<>>
      /\ thread = "flushing" => kind = "writer"
  BY <1>0, OnThePipe
<1>2. call.want \in 0 .. MaxLen /\ MaxLen \in Nat
  BY <1>1, BoundAssumption DEF Calls
<1>3. n \in 0 .. Len(pipe) /\ (call.op \notin Endless => n <= call.want)
  <2>1. call.want \in Int /\ Len(pipe) \in Int /\ Len(pipe) \in Nat /\ call.want >= 0
    BY <1>2, Types
  <2>2. /\ Least(call.want, Len(pipe)) \in {call.want, Len(pipe)}
        /\ Least(call.want, Len(pipe)) <= call.want /\ Least(call.want, Len(pipe)) <= Len(pipe)
    BY <2>1, LeastIsLess
  <2> QED
    BY <2>1, <2>2
<1>4. c \in Calls /\ c.op = call.op /\ c.at = "pipe" /\ c.todo = <<>>
  BY <1>1, <1>2, <1>3, <1>11 DEF Calls
<1> HIDE DEF n, c
<1>5. pipe' \in Seq(Byte) /\ taken' \in Seq(Byte) /\ Len(pipe') <= PipeCapacity
      /\ taken' \o pipe' = taken \o pipe
  <2>1. /\ pipe \in Seq(Byte) /\ taken \in Seq(Byte) /\ Len(pipe) \in Nat
        /\ Len(pipe) <= PipeCapacity /\ PipeCapacity \in Nat
    BY Types
  <2>2. /\ SubSeq(pipe, 1, n) \in Seq(Byte) /\ Rest(pipe, n) \in Seq(Byte)
        /\ Len(Rest(pipe, n)) = Len(pipe) - n
    BY <2>1, <1>3, Split
  <2>3. (taken \o SubSeq(pipe, 1, n)) \o Rest(pipe, n) = taken \o pipe
    BY <2>1, <1>3, Shift
  <2>4. taken \o SubSeq(pipe, 1, n) \in Seq(Byte)
    BY <2>1, <2>2, Joined
  <2>5. Len(pipe) - n <= PipeCapacity
    BY <2>1, <1>3
  <2>6. Len(pipe') <= PipeCapacity
    BY <2>2, <2>5, <1>0
  <2> QED
    BY <2>2, <2>3, <2>4, <2>6, <1>0
<1>6. Streams'
  BY <1>0, <1>5, StreamsNow DEF Streams
<1>7. kind' = kind /\ held' \in BOOLEAN /\ thread' \in Threads /\ held'
  BY <1>0, StreamsNow DEF Leave, Goes
<1>12. Got = taken /\ Got' = taken'
  <2>1. call'.todo = <<>>
    BY <1>0, <1>4, IdleIsCall DEF Leave, Goes
  <2> QED
    BY <2>1, <1>5, <1>11, Types, Joined DEF Got
<1>8. WriterOK' /\ ReaderOK'
  BY <1>0, <1>1, <1>5, <1>7, <1>12 DEF IInv, WriterOK, ReaderOK, Thrown
<1>9. CASE Leave("ok")
  BY <1>0, <1>1, <1>6, <1>7, <1>8, <1>9, LeaveInv
<1>10. CASE Goes(c)
  <2>1. EndOK'
    BY <1>0, <1>1, <1>10 DEF IInv, EndOK, Goes
  <2>2. UNCHANGED <<thread, carry, held>> /\ c.op \notin WriteOps
    BY <1>0, <1>4 DEF ReadOps, WriteOps
  <2> QED
    BY <2>1, <2>2, <1>0, <1>1, <1>4, <1>6, <1>7, <1>8, <1>10, GoesInv
<1> QED
  BY <1>0, <1>9, <1>10

LEMMA GatherInv == IInv /\ Gather => IInv'
<1> SUFFICES ASSUME IInv, Gather PROVE IInv'
  OBVIOUS
<1> DEFINE c == [call EXCEPT !.todo = @ \o pipe]
<1>0. /\ OnPipe(ReadOps \cup WriteOps) /\ call.op = "read_to_string" /\ held /\ pipe # <<>>
      /\ pipe' = <<>> /\ Goes(c)
      /\ UNCHANGED <<kind, life, ret, held, thread, carry, accepted, delivered, synced, supplied,
                     taken>>
  BY DEF Gather, OnPipe, Goes, worker, outward, inward, ReadOps
<1>1. /\ life = "open" /\ ~unwinding /\ call.at = "pipe" /\ call \in Calls
      /\ kind # "writer"
  BY <1>0, OnThePipe DEF ReadOps
<1>2. /\ taken \in Seq(Byte) /\ call.todo \in Seq(Byte) /\ pipe \in Seq(Byte)
      /\ call.todo \o pipe \in Seq(Byte)
  BY Types, Joined
<1>3. c \in Calls /\ c.op = call.op /\ c.at = "pipe" /\ c.todo = call.todo \o pipe
  BY <1>1, <1>2 DEF Calls
<1> HIDE DEF c
<1>4. Got' \o pipe' = Got \o pipe
  <2>1. Got' = taken \o (call.todo \o pipe) /\ pipe' = <<>>
    BY <1>0, <1>3 DEF Got, Goes
  <2>2. (taken \o call.todo) \o pipe = taken \o (call.todo \o pipe)
    BY <1>2, Assoc
  <2>3. (taken \o (call.todo \o pipe)) \o <<>> = taken \o (call.todo \o pipe)
    BY <1>2, Joined
  <2> QED
    BY <2>1, <2>2, <2>3 DEF Got
<1>5. WriterOK' /\ ReaderOK'
  BY <1>0, <1>1, <1>4 DEF IInv, WriterOK, ReaderOK, Thrown
<1>6. Streams' /\ EndOK'
  BY <1>0, StreamsNow, Types DEF Streams, IInv, EndOK, Goes
<1>7. UNCHANGED <<thread, carry, held>> /\ held' \in BOOLEAN
      /\ c.op \notin WriteOps \cup {"none", "flush", "drop"}
      /\ c.op \in WriteOps \cup {"read_to_string"}
  BY <1>0, <1>3, StreamsNow DEF WriteOps
<1> QED
  BY <1>0, <1>1, <1>3, <1>5, <1>6, <1>7, GoesInv

LEMMA ReadEndInv == IInv /\ ReadEnd => IInv'
<1> SUFFICES ASSUME IInv, ReadEnd PROVE IInv'
  OBVIOUS
<1>0. /\ OnPipe(ReadOps \cup WriteOps) /\ call.op \in ReadOps
      /\ held /\ pipe = <<>> /\ thread # "copying" /\ Leave("end")
      /\ taken' = Got
      /\ UNCHANGED <<kind, held, thread, carry, pipe, accepted, delivered, synced, supplied>>
  BY DEF ReadEnd, AtEof, OnPipe, ReadOps, Endless, Leave, worker, outward, Got
<1>1. /\ life = "open" /\ kind # "writer"
      /\ thread = "none" <=> (kind = "bytes" \/ ~held)
      /\ carry = <<>> /\ thread # "flushing"
  BY <1>0, OnThePipe
<1>2. Streams' /\ WriterOK' /\ thread \in Threads
  BY <1>0, <1>1, StreamsNow, Types DEF Streams, WriterOK
<1>3. supplied = Got \/ Thrown
  <2>1. supplied = (Got \o <<>>) \o <<>> \/ Thrown
    BY <1>0, <1>1 DEF IInv, ReaderOK
  <2>2. Got \o <<>> = Got
    BY Types, Joined
  <2> QED
    BY <2>1, <2>2
<1>4. held' \in BOOLEAN /\ thread' \in Threads
  BY <1>0, StreamsNow
<1>5. ReaderOK'
  <2>1. call'.todo = <<>> /\ (told => told')
    BY <1>0, IdleIsCall DEF Leave
  <2>2. Got' = Got /\ (Got \o <<>>) \o <<>> = Got
    BY <1>0, <2>1, Types, Joined DEF Got
  <2>3. Thrown => Thrown'
    BY <1>0, <2>1 DEF Thrown
  <2> QED
    BY <1>0, <1>1, <1>3, <2>2, <2>3 DEF ReaderOK
<1>6. taken' = supplied' \/ (kind = "bytes" /\ told)
  BY <1>0, <1>3 DEF Thrown
<1> QED
  BY <1>0, <1>1, <1>2, <1>4, <1>5, <1>6, LeaveInv

LEMMA FailsInv == IInv /\ (ReadFails \/ WriteFails) => IInv'
<1> SUFFICES ASSUME IInv, ReadFails \/ WriteFails PROVE IInv'
  OBVIOUS
<1>1. OnPipe(ReadOps \cup WriteOps)
  BY DEF ReadFails, WriteFails, OnPipe, ReadOps, WriteOps
<1>2. MapErr /\ UNCHANGED <<worker, outward, inward>>
  BY DEF ReadFails, WriteFails
<1>3. kind = "bytes" /\ held => call.todo = <<>> \/ pipe = <<>>
  BY DEF ReadFails, WriteFails, AtEof, OnPipe, IInv, CallOK, ReadOps, WriteOps
<1> QED
  BY <1>1, <1>2, <1>3, MapErrInv

(***************************************************************************)
(* Writing                                                                 *)
(***************************************************************************)
LEMMA WriteSomeInv == IInv /\ WriteSome => IInv'
<1> SUFFICES ASSUME IInv, WriteSome PROVE IInv'
  OBVIOUS
<1>0. /\ OnPipe(ReadOps \cup WriteOps) /\ call.op \in WriteOps /\ held /\ thread = "copying"
      /\ UNCHANGED <<held, thread, carry, delivered, synced, supplied, taken>>
  BY DEF WriteSome, OnPipe, worker, inward
<1>1. /\ life = "open" /\ ~unwinding /\ call.at = "pipe" /\ call \in Calls
      /\ call.op \notin {"none", "flush", "drop"} /\ kind = "writer"
      /\ thread = "none" <=> (kind = "bytes" \/ ~held)
  BY <1>0, OnThePipe
<1>2. PICK n \in 1 .. Least(Len(call.todo), Least(Room, StreamLength - Len(accepted))) :
        /\ pipe' = pipe \o SubSeq(call.todo, 1, n)
        /\ accepted' = accepted \o SubSeq(call.todo, 1, n)
        /\ Leave("ok") \/ Goes([call EXCEPT !.todo = Rest(@, n)])
  BY DEF WriteSome
<1>3. call.todo \in Seq(Byte) /\ Len(call.todo) \in Nat
  BY <1>1, LenProperties DEF Calls
<1>4. n \in 0 .. Len(call.todo) /\ n <= Room
  <2>1. /\ Len(call.todo) \in Int /\ Room \in Int /\ StreamLength - Len(accepted) \in Int
    BY <1>3, Types, LenProperties, BoundAssumption
  <2>2. /\ Least(Room, StreamLength - Len(accepted)) \in Int
        /\ Least(Room, StreamLength - Len(accepted)) <= Room
    BY <2>1, LeastIsLess
  <2> DEFINE m == Least(Room, StreamLength - Len(accepted))
  <2> HIDE DEF m
  <2>3. m \in Int /\ m <= Room /\ n \in 1 .. Least(Len(call.todo), m)
    BY <2>2 DEF m
  <2>4. /\ Least(Len(call.todo), m) \in Int /\ Least(Len(call.todo), m) <= Len(call.todo)
        /\ Least(Len(call.todo), m) <= m
    BY <2>1, <2>3, LeastIsLess
  <2> QED
    BY <2>1, <2>3, <2>4
<1> DEFINE t == SubSeq(call.todo, 1, n)
           c == [call EXCEPT !.todo = Rest(@, n)]
<1>5. t \in Seq(Byte) /\ Len(t) = n /\ Rest(call.todo, n) \in Seq(Byte)
  BY <1>3, <1>4, Split
<1>6. c \in Calls /\ c.op = call.op /\ c.at = "pipe"
  BY <1>1, <1>5 DEF Calls
<1>7. pipe' = pipe \o t /\ accepted' = accepted \o t /\ (Leave("ok") \/ Goes(c))
  BY <1>2
<1> HIDE DEF t, c
<1>8. /\ pipe' \in Seq(Byte) /\ accepted' \in Seq(Byte) /\ Len(pipe') <= PipeCapacity
      /\ accepted' = delivered' \o carry' \o pipe'
  <2>1. /\ pipe \in Seq(Byte) /\ accepted \in Seq(Byte) /\ Len(pipe) \in Nat
        /\ delivered \in Seq(Byte) /\ carry \in Seq(Byte)
        /\ PipeCapacity \in Nat /\ Room = PipeCapacity - Len(pipe)
    BY Types DEF Room
  <2>2. /\ pipe \o t \in Seq(Byte) /\ Len(pipe \o t) = Len(pipe) + n
        /\ accepted \o t \in Seq(Byte)
    BY <2>1, <1>5, Joined
  <2>3. delivered \o carry \in Seq(Byte)
    BY <2>1, Joined
  <2> DEFINE before == delivered \o carry
  <2>4. (before \o pipe) \o t = before \o (pipe \o t)
    <3>1. before \in Seq(Byte) /\ pipe \in Seq(Byte) /\ t \in Seq(Byte)
      BY <2>1, <2>3, <1>5
    <3> HIDE DEF before
    <3> QED
      BY ONLY <3>1, Assoc
  <2>5. accepted = (delivered \o carry) \o pipe
    BY <1>0, <1>1 DEF IInv, WriterOK
  <2> QED
    BY <2>1, <2>2, <2>4, <2>5, <1>0, <1>4, <1>7
<1>9. Streams'
  BY <1>0, <1>8, StreamsNow DEF Streams
<1>10. kind' = kind /\ held' \in BOOLEAN /\ held' /\ thread' \in Threads /\ thread' = "copying"
  BY <1>0, <1>7, StreamsNow DEF Leave, Goes
<1>11. WriterOK' /\ ReaderOK' /\ EndOK'
  BY <1>1, <1>8, <1>10 DEF WriterOK, ReaderOK, EndOK
<1>12. CASE Leave("ok")
  BY <1>1, <1>9, <1>10, <1>11, <1>12, LeaveInv
<1>13. CASE Goes(c)
  <2>1. UNCHANGED <<thread, carry, held>> /\ c.op \in WriteOps /\ c.op \notin ReadOps
    BY <1>0, <1>6 DEF ReadOps, WriteOps
  <2> QED
    BY <2>1, <1>1, <1>6, <1>9, <1>10, <1>11, <1>13, GoesInv
<1> QED
  BY <1>7, <1>12, <1>13

LEMMA FlushInv == IInv /\ Flush => IInv'
<1> SUFFICES ASSUME IInv, Flush PROVE IInv'
  OBVIOUS
<1>0. /\ kind = "writer" /\ life = "open" /\ ~InCall
      /\ UNCHANGED <<worker, outward, inward>>
  BY DEF Flush
<1>1. CASE held
  <2>1. Join("flush") /\ "flush" \notin ReadOps
    BY <1>1 DEF Flush, ReadOps
  <2> QED
    BY <1>0, <1>1, <2>1, JoinInv
<1>2. CASE ~held
  <2>1. Leave("panic") /\ UNCHANGED <<kind, held, pipe>> /\ (told => told')
    BY <1>2 DEF Flush, Leave
  <2>2. Streams' /\ WriterOK' /\ ReaderOK'
    BY <1>0, <2>1, StreamsStay
  <2>3. thread = "none" /\ carry = <<>>
    BY <1>0, <1>2, BetweenCalls DEF IInv, ThreadOK
  <2>4. UNCHANGED <<held, thread, carry>> /\ held' \in BOOLEAN /\ thread' \in Threads
    BY <1>0, <2>1, StreamsNow DEF worker
  <2> QED
    BY <1>0, <1>2, <2>1, <2>2, <2>3, <2>4, LeaveInv
<1> QED
  BY <1>1, <1>2

\* What holds while a call waits for the thread.
LEMMA AtTheJoin ==
    ASSUME IInv, NEW ops \in SUBSET (ReadOps \cup WriteOps \cup {"flush", "drop"}),
           Joining(ops), Ended
    PROVE  /\ life = "open" /\ call.at = "join" /\ ~held /\ ~unwinding
           /\ thread \in {"ok", "err", "panic"} /\ carry = <<>>
<1>1. call.at = "join" /\ InCall /\ thread \in {"ok", "err", "panic"}
  BY DEF Joining, Ended, InCall, ReadOps, WriteOps
<1> QED
  BY <1>1 DEF IInv, TypeOK, CallOK, ThreadOK, PanicOK

LEMMA FlushJoinInv == IInv /\ FlushJoin => IInv'
<1> SUFFICES ASSUME IInv, FlushJoin PROVE IInv'
  OBVIOUS
<1>0. /\ life = "open" /\ ~held /\ thread \in {"ok", "err", "panic"} /\ carry = <<>>
  <2>1. Joining({"flush"}) /\ Ended
    BY DEF FlushJoin
  <2> QED
    BY <2>1, AtTheJoin
<1>1. kind = "writer"
  BY DEF FlushJoin, Joining, IInv, CallOK
<1>2. UNCHANGED <<kind, carry, pipe, accepted, delivered, synced, supplied, taken>>
  BY DEF FlushJoin, Leave, outward, inward
<1>3. Streams' /\ ReaderOK'
  BY <1>1, <1>2, StreamsNow DEF Streams, ReaderOK
<1>4. CASE thread = "ok" /\ Leave("ok") /\ held' = TRUE /\ thread' = "copying"
  <2>1. WriterOK'
    BY <1>1, <1>2, <1>4 DEF IInv, WriterOK
  <2> QED
    BY <1>0, <1>1, <1>2, <1>3, <1>4, <2>1, LeaveInv DEF Threads
<1>5. ASSUME NEW r \in {"err", "panic"}, Leave(r), held' = FALSE, thread' = "none"
      PROVE  IInv'
  <2>1. WriterOK'
    BY <1>5 DEF WriterOK
  <2> QED
    BY <1>0, <1>1, <1>2, <1>3, <1>5, <2>1, LeaveInv DEF Threads
<1> QED
  BY <1>4, <1>5 DEF FlushJoin

(***************************************************************************)
(* Drop                                                                    *)
(***************************************************************************)
LEMMA DropInv == IInv /\ Drop => IInv'
<1> SUFFICES ASSUME IInv, Drop PROVE IInv'
  OBVIOUS
<1>0. life = "open" /\ ~InCall /\ call.at = "pipe" /\ UNCHANGED <<worker, outward, inward>>
  BY BetweenCalls DEF Drop, Dropping
<1>1. CASE kind # "bytes" /\ held /\ Join("drop")
  <2>1. "drop" \notin ReadOps \cup WriteOps \cup {"flush"}
    BY DEF ReadOps, WriteOps
  <2> QED
    BY <1>0, <1>1, <2>1, JoinInv
<1>2. ASSUME NEW r \in {"ok", "panic"}, Gone(r), kind = "writer" => r = "ok",
             kind = "bytes" \/ ~held,
             held' = FALSE, pipe' = pipe \/ pipe' = <<>>
      PROVE  IInv'
  <2>1. thread = "none" /\ carry = <<>>
    BY <1>0, <1>2 DEF IInv, TypeOK, ThreadOK
  <2>2. pipe' \in Seq(Byte) /\ Len(pipe') <= PipeCapacity
    <3>1. /\ <<>> \in Seq(Byte) /\ Len(<<>>) = 0 /\ 0 <= PipeCapacity
          /\ pipe \in Seq(Byte) /\ Len(pipe) <= PipeCapacity
      BY Types
    <3>2. CASE pipe' = pipe
      BY <3>1, <3>2
    <3>3. CASE pipe' = <<>>
      BY <3>1, <3>3
    <3> QED
      BY <1>2, <3>2, <3>3
  <2>3. Streams' /\ thread' = "none" /\ carry' = <<>>
    BY <1>0, <2>1, <2>2, StreamsNow DEF Streams, worker, outward, inward
  <2> QED
    BY <1>0, <1>2, <2>3, GoneInv
<1> QED
  BY <1>1, <1>2, StreamsNow DEF Drop, LetGo

LEMMA DropJoinInv == IInv /\ DropJoin => IInv'
<1> SUFFICES ASSUME IInv, DropJoin PROVE IInv'
  OBVIOUS
<1>1. life = "open" /\ ~held /\ ~unwinding /\ carry = <<>>
  <2>1. Joining({"drop"}) /\ Ended
    BY DEF DropJoin
  <2> QED
    BY <2>1, AtTheJoin
<1>2. PICK r \in {"ok", "panic"} : Gone(r)
  BY DEF DropJoin
<1>3. thread' = "none" /\ held' = FALSE /\ carry' = <<>> /\ Streams'
  BY <1>1, StreamsNow DEF DropJoin, Streams, outward, inward
<1> QED
  BY <1>1, <1>2, <1>3, GoneInv

(***************************************************************************)
(* The invariant                                                           *)
(***************************************************************************)
LEMMA InitInv == Init => IInv
<1> SUFFICES ASSUME Init PROVE IInv
  OBVIOUS
<1>1. /\ call \in Calls /\ call.op = "none" /\ call.at = "pipe" /\ call = Idle
      /\ call.todo = <<>>
  BY IdleIsCall DEF Init
<1>2. <<>> \in Seq(Byte) /\ Len(<<>>) = 0 /\ 0 <= PipeCapacity
  BY EmptySeq, LenProperties, CapacityAssumption
<1>3. TypeOK
  BY <1>1, <1>2 DEF Init, TypeOK, Calls, InCall
<1>4. CallOK /\ ThreadOK /\ PanicOK
  BY <1>1 DEF Init, CallOK, ThreadOK, PanicOK, WriterNeverAborts, InCall, ReadOps, WriteOps
<1>5. WriterOK /\ EndOK /\ NewOK /\ ReaderOK
  BY <1>1 DEF Init, WriterOK, ReaderOK, EndOK, NewOK
<1> QED
  BY <1>3, <1>4, <1>5 DEF IInv

LEMMA StutterInv == IInv /\ UNCHANGED vars => IInv'
<1> SUFFICES ASSUME IInv, UNCHANGED vars PROVE IInv'
  OBVIOUS
<1>1. UNCHANGED <<kind, life, call, ret, told, unwinding, held, thread, carry, pipe, accepted,
                 delivered, synced, supplied, taken>>
  BY DEF vars, frame, worker, outward, inward
<1>2. TypeOK'
  BY <1>1 DEF IInv, TypeOK, InCall
<1>3. CallOK' /\ ThreadOK' /\ PanicOK'
  BY <1>1 DEF IInv, CallOK, ThreadOK, PanicOK, WriterNeverAborts, InCall
<1>4. WriterOK' /\ ReaderOK' /\ EndOK' /\ NewOK'
  BY <1>1 DEF IInv, WriterOK, ReaderOK, Got, Thrown, EndOK, NewOK
<1> QED
  BY <1>2, <1>3, <1>4 DEF IInv

LEMMA StepInv == IInv /\ [Next]_vars => IInv'
<1> SUFFICES ASSUME IInv, [Next]_vars PROVE IInv'
  OBVIOUS
<1>1. CASE Construct
  BY <1>1, ConstructInv
<1>2. CASE OwnerCalls
  BY <1>2, CallsOfOwnerInv, FlushInv, DropInv DEF OwnerCalls
<1>3. CASE Run
  BY <1>3, ReadSomeInv, GatherInv, ReadEndInv, FailsInv, WriteSomeInv, MapErrJoinInv, FlushJoinInv,
     DropJoinInv DEF Run
<1>4. CASE Thread
  BY <1>4, CopyFromPipeInv, CopyToBoxedInv, ThreadEndsInv, CopyFromBoxedInv, CopyToPipeInv
     DEF Thread
<1>5. CASE UNCHANGED vars
  BY <1>5, StutterInv
<1> QED
  BY <1>1, <1>2, <1>3, <1>4, <1>5 DEF Next, Blocked, Closed

\* The inductive invariant holds: whatever happens to the thread and to the
\* calls, every byte is with the owner, in the pipe, with the thread or with
\* the boxed object, or somebody has been told otherwise.
THEOREM InvariantHolds == Spec => []IInv
<1>1. Init => IInv
  BY InitInv
<1>2. IInv /\ [Next]_vars => IInv'
  BY StepInv
<1> QED
  BY <1>1, <1>2, PTL DEF Spec

(***************************************************************************)
(* The theorems                                                            *)
(***************************************************************************)
\* Types, and what goes with what: the pipe stays within its capacity, a
\* joining call has let go of our end and has a thread to join, and a drop
\* leaves no thread.
THEOREM TypeCorrect == Spec => []TypeOK
<1>1. IInv => TypeOK
  BY DEF IInv
<1> QED
  BY <1>1, InvariantHolds, PTL

\* A panic of a WriteHandle's call, unwinding through the handle, never meets
\* a second one in its drop: by then the handle has nothing left to join.
THEOREM NeverAborts == Spec => []WriterNeverAborts
<1>1. IInv => WriterNeverAborts
  BY DEF IInv, PanicOK
<1> QED
  BY <1>1, InvariantHolds, PTL

\* A call ends in a step of its own.
LEMMA EndsInRun == [Next]_vars /\ InCall /\ call'.op = "none" => Run
<1> SUFFICES ASSUME [Next]_vars, InCall, call'.op = "none", ~Run PROVE FALSE
  OBVIOUS
<1>1. ~OwnerCalls
  BY DEF OwnerCalls, ReadCall, WriteCall, Enter, Flush, Drop, Dropping
<1>2. call' # call
  BY DEF InCall
<1>3. ~Construct
  BY <1>2 DEF Construct, PipedReader, PipedWriter, Bytes, BuildFails, Build
<1>4. ~Thread
  BY <1>2 DEF Thread, frame, CopyFromPipe, CopyToBoxed, CopyEnds, FlushBoxed, CopyFromBoxed,
       CopyToPipe, CopyBroken, BoxedFails
<1> QED
  BY <1>1, <1>2, <1>3, <1>4 DEF Next, Blocked, Closed, vars, frame

\* flush() answers Ok only when every byte the handle ever took has been
\* written to the boxed writer, and the boxed writer was flushed after it.
THEOREM FlushSynchronises == Spec => FlushReachesBoxed
<1>1. ASSUME IInv, [Next]_vars, call.op = "flush", Answers("ok")
      PROVE  delivered' = accepted /\ synced'
  <2>1. FlushJoin
    <3>1. Run /\ call.op \notin ReadOps \cup WriteOps \cup Endless \cup {"read", "read_exact", "drop"}
      BY <1>1, EndsInRun DEF Answers, ReadOps, WriteOps, Endless
    <3> QED
      BY <3>1 DEF Run, ReadSome, Gather, ReadEnd, ReadFails, WriteSome, WriteFails, MapErrJoin, DropJoin,
           OnPipe, Joining, ReadOps, WriteOps, Endless
  <2>2. thread = "ok" /\ UNCHANGED <<delivered, synced>> /\ kind = "writer"
    BY <1>1, <2>1 DEF FlushJoin, Leave, Answers, outward, IInv, CallOK
  <2>3. accepted = (delivered \o carry) \o pipe /\ carry = <<>> /\ pipe = <<>> /\ synced
    BY <1>1, <2>2 DEF IInv, WriterOK, ThreadOK
  <2>4. (delivered \o <<>>) \o <<>> = delivered
    BY <1>1, Types, Joined
  <2> QED
    BY <2>2, <2>3, <2>4
<1>2. IInv /\ [Next]_vars =>
        [call.op = "flush" /\ Answers("ok") => delivered' = accepted /\ synced']_vars
  BY <1>1
<1> QED
  BY <1>2, InvariantHolds, PTL DEF Spec, FlushReachesBoxed

\* A read answers that the stream has ended only when the owner has been given
\* every byte that was supplied, but for a bytes() one of whose calls failed.
THEOREM EndIsEnd == Spec => EofIsEnd
<1>1. ASSUME IInv, [Next]_vars, Answers("end")
      PROVE  taken' = supplied \/ (kind = "bytes" /\ told)
  <2>1. Run
    BY <1>1, EndsInRun DEF Answers
  <2>2. ReadEnd
    <3>1. call.op # "none" /\ ~(call'.op # "none") /\ ret' = "end"
      BY <1>1 DEF Answers, InCall
    <3>2. ~MapErr
      <4>1. ASSUME Join(call.op) PROVE call'.op = call.op
        BY <1>1, <4>1, StreamsNow DEF Join, Goes, Calls
      <4> QED
        BY <3>1, <4>1 DEF MapErr, Leave
    <3>3. ~ReadSome
      <4>1. ASSUME NEW w, Goes([call EXCEPT !.want = w]) PROVE call'.op = call.op
        BY <1>1, <4>1, StreamsNow DEF Goes, Calls
      <4> QED
        BY <3>1, <4>1 DEF ReadSome, Leave
    <3>4. ~WriteSome /\ ~Gather
      <4>1. ASSUME NEW w, Goes([call EXCEPT !.todo = w]) PROVE call'.op = call.op
        BY <1>1, <4>1, StreamsNow DEF Goes, Calls
      <4> QED
        BY <3>1, <4>1 DEF WriteSome, Gather, Leave
    <3>5. ~MapErrJoin /\ ~FlushJoin /\ ~DropJoin
      BY <3>1 DEF MapErrJoin, FlushJoin, DropJoin, Leave, Gone
    <3> QED
      BY <2>1, <3>2, <3>3, <3>4, <3>5 DEF Run, ReadFails, WriteFails
  <2>3. /\ kind # "writer" /\ thread # "copying" /\ held /\ pipe = <<>> /\ taken' = Got
    <3>1. OnPipe(ReadOps \cup WriteOps) /\ call.op \in ReadOps
      BY <2>2 DEF ReadEnd, OnPipe, ReadOps, Endless
    <3>2. life = "open" /\ kind # "writer"
      BY <1>1, <3>1, OnThePipe
    <3> QED
      BY <2>2, <3>2 DEF ReadEnd, AtEof, Got
  <2>4. supplied = (Got \o <<>>) \o <<>> \/ Thrown
    BY <1>1, <2>3 DEF IInv, ReaderOK, ThreadOK
  <2>5. Got \o <<>> = Got
    BY <1>1, Types, Joined
  <2> QED
    BY <2>3, <2>4, <2>5 DEF Thrown
<1>2. IInv /\ [Next]_vars =>
        [Answers("end") => taken' = supplied \/ (kind = "bytes" /\ told)]_vars
  BY <1>1
<1> QED
  BY <1>2, InvariantHolds, PTL DEF Spec, EofIsEnd

\* No loss is silent: a handle dropped without a failure of a call or of the
\* drop has delivered and flushed all it took, or was not cut short when it
\* said that its stream had ended.
THEOREM LossIsTold == Spec => NoSilentLoss
<1>1. ASSUME IInv, [Next]_vars, QuietDrop
      PROVE  /\ kind = "writer" => delivered = accepted /\ synced
             /\ kind = "reader" /\ ret = "end" => taken = supplied /\ thread = "ok"
  <2>1. DropJoin \/ Drop
    <3>1. life = "open" /\ life' = "dropped"
      BY <1>1 DEF QuietDrop
    <3>2. ~Construct /\ ~ReadCall /\ ~WriteCall /\ ~Flush
      BY <3>1 DEF Construct, PipedReader, PipedWriter, Bytes, BuildFails, Build, ReadCall,
           WriteCall, Enter, Flush, Join, Goes, Leave
    <3>3. ~Thread
      BY <3>1 DEF Thread, frame, CopyFromPipe, CopyToBoxed, CopyEnds, FlushBoxed, CopyFromBoxed,
           CopyToPipe, CopyBroken, BoxedFails
    <3>4. ~ReadSome /\ ~Gather /\ ~ReadEnd /\ ~ReadFails /\ ~WriteSome /\ ~WriteFails /\ ~MapErrJoin
          /\ ~FlushJoin
      BY <3>1 DEF ReadSome, Gather, ReadEnd, ReadFails, WriteSome, WriteFails, MapErr, Join, MapErrJoin,
           FlushJoin, Leave, Goes
    <3> QED
      BY <1>1, <3>1, <3>2, <3>3, <3>4
         DEF Next, OwnerCalls, Run, Blocked, Closed, vars, frame
  <2>2. CASE DropJoin
    <3>1. thread = "ok"
      BY <1>1, <2>2 DEF QuietDrop, DropJoin, Gone
    <3>2. call.op = "drop" /\ call.at = "join" /\ ~held
      <4>1. Joining({"drop"}) /\ Ended
        BY <2>2 DEF DropJoin
      <4> QED
        BY <1>1, <4>1, AtTheJoin DEF Joining
    <3>3. ASSUME kind = "writer" PROVE delivered = accepted /\ synced
      <4>1. accepted = (delivered \o carry) \o pipe /\ carry = <<>> /\ pipe = <<>> /\ synced
        BY <1>1, <3>1, <3>3 DEF IInv, WriterOK, ThreadOK
      <4>2. (delivered \o <<>>) \o <<>> = delivered
        BY <1>1, Types, Joined
      <4> QED
        BY <4>1, <4>2
    <3>4. ASSUME kind = "reader", ret = "end" PROVE taken = supplied /\ thread = "ok"
      BY <1>1, <3>1, <3>4 DEF IInv, EndOK, QuietDrop
    <3> QED
      BY <3>3, <3>4
  <2>3. CASE Drop
    <3>1. ~InCall /\ life = "open" /\ ~told
      BY <1>1, <2>3 DEF Drop, Dropping, QuietDrop
    <3>2. kind # "reader"
      BY <1>1, <2>3, <3>1 DEF Drop, Join, Goes, Gone, QuietDrop
    <3>3. kind = "writer" => held
      BY <1>1, <3>1, BetweenCalls DEF IInv, PanicOK
    <3>4. kind # "writer"
      BY <1>1, <2>3, <3>1, <3>3 DEF Drop, Join, Goes, QuietDrop
    <3> QED
      BY <3>2, <3>4
  <2> QED
    BY <2>1, <2>2, <2>3
<1>2. IInv /\ [Next]_vars =>
        [QuietDrop => /\ kind = "writer" => delivered = accepted /\ synced
                      /\ kind = "reader" /\ ret = "end" => taken = supplied /\ thread = "ok"]_vars
  BY <1>1
<1> QED
  BY <1>2, InvariantHolds, PTL DEF Spec, NoSilentLoss

(***************************************************************************)
(* The refinement of DuplexStream                                          *)
(***************************************************************************)
LEMMA GrowsAtItsEnd ==
    ASSUME NEW s \in Seq(Byte), NEW t \in Seq(Byte)
    PROVE  Duplex!IsPrefix(s, s \o t) /\ (s \o t = s \/ Duplex!IsStrictPrefix(s, s \o t))
<1>1. /\ s \o t \in Seq(Byte) /\ Len(s \o t) = Len(s) + Len(t)
      /\ Len(s) \in Nat /\ Len(t) \in Nat
      /\ \A i \in 1 .. Len(s) + Len(t) : (s \o t)[i] = IF i <= Len(s) THEN s[i] ELSE t[i - Len(s)]
      /\ \A i \in 1 .. Len(s) : s[i] \in Byte
  BY LenProperties, ConcatProperties, ElementOfSeq
<1> DEFINE u == s \o t
           p == SubSeq(u, 1, Len(s))
<1>2. \A i \in 1 .. Len(s) : u[i] = s[i]
  BY <1>1
<1> HIDE DEF u
<1>3. p \in Seq(Byte) /\ Len(p) = Len(s) /\ \A i \in 1 .. Len(s) : p[i] = u[i]
  <2>1. \A i \in 1 .. Len(s) : u[i] \in Byte
    BY <1>1, <1>2
  <2>2. /\ p \in Seq(Byte) /\ Len(p) = IF 1 <= Len(s) THEN Len(s) - 1 + 1 ELSE 0
        /\ \A i \in 1 .. Len(s) - 1 + 1 : p[i] = u[1 + i - 1]
    BY <2>1, <1>1, SubSeqProperties
  <2> QED
    BY <2>2, <1>1
<1> HIDE DEF p
<1>4. p = s
  BY <1>1, <1>2, <1>3, SeqEqual
<1>5. SubSeq(s, 1, Len(s)) = s
  BY SubSeqFull
<1>6. Len(s) <= Len(u) /\ SubSeq(s, 1, Len(s)) = SubSeq(u, 1, Len(s))
  BY <1>1, <1>4, <1>5 DEF p, u
<1>7. Duplex!IsPrefix(s, u)
  BY <1>6 DEF Duplex!IsPrefix
<1> QED
  BY <1>7 DEF Duplex!IsStrictPrefix, u

Open == life \in {"new", "open"}
Abstract == [Duplex!Next]_<<Duplex!outward, Duplex!inward, Open>>

LEMMA Stays ==
    ASSUME UNCHANGED <<accepted, delivered, supplied, taken, Open>>
    PROVE  Abstract
BY DEF Abstract, Duplex!outward, Duplex!inward

LEMMA Closes ==
    ASSUME Open, ~Open', UNCHANGED <<accepted, delivered, supplied, taken>>
    PROVE  Abstract
BY DEF Abstract, Duplex!outward, Duplex!inward, Duplex!Next, Duplex!Close, Open

LEMMA Moves ==
    ASSUME Open, Open',
           Duplex!Accept \/ Duplex!Deliver \/ Duplex!Supply \/ Duplex!Take
    PROVE  Abstract
BY DEF Abstract, Duplex!Next, Duplex!Transfer, Open

LEMMA ConstructRefines == IInv /\ Construct => Abstract
<1> SUFFICES ASSUME IInv, Construct PROVE Abstract
  OBVIOUS
<1>1. CASE BuildFails
  BY <1>1, Closes DEF BuildFails, outward, inward, Open
<1>2. ASSUME NEW k, NEW s \in Seq(Byte), Build(k, s) PROVE Abstract
  <2>1. /\ supplied = <<>> /\ supplied' = s /\ Open /\ Open'
        /\ UNCHANGED <<accepted, delivered, taken>>
    BY <1>2 DEF Build, IInv, NewOK, outward, Open
  <2>2. <<>> \o s = s /\ <<>> \in Seq(Byte)
    BY Types, Joined
  <2>3. s = <<>> \/ Duplex!IsStrictPrefix(<<>>, s)
    BY <2>2, GrowsAtItsEnd
  <2>4. CASE s = <<>>
    BY <2>1, <2>4, Stays
  <2>5. CASE Duplex!IsStrictPrefix(<<>>, s)
    <3>1. Duplex!Supply
      BY <2>1, <2>5 DEF Duplex!Supply, Duplex!outward
    <3> QED
      BY <2>1, <3>1, Moves
  <2> QED
    BY <2>3, <2>4, <2>5
<1>3. <<>> \in Seq(Byte) /\ \A s \in Strings(PipeBuf) : s \in Seq(Byte)
  <2>1. PipeBuf \in Int
    BY CapacityAssumption
  <2> QED
    BY <2>1, Types, StringsAreSequences
<1> QED
  BY <1>1, <1>2, <1>3 DEF Construct, PipedReader, PipedWriter, Bytes

LEMMA ReadSomeRefines == IInv /\ ReadSome => Abstract
<1> SUFFICES ASSUME IInv, ReadSome PROVE Abstract
  OBVIOUS
<1> DEFINE n == IF call.op \in Endless THEN Len(pipe) ELSE Least(call.want, Len(pipe))
<1>1. n \in 0 .. Len(pipe) /\ taken' = taken \o SubSeq(pipe, 1, n)
  <2>1. call \in Calls /\ OnPipe(ReadOps \cup WriteOps)
    BY StreamsNow DEF ReadSome, OnPipe
  <2>2. call.want \in Int /\ call.want >= 0 /\ Len(pipe) \in Nat
    BY <2>1, Types, BoundAssumption DEF Calls
  <2>3. Least(call.want, Len(pipe)) \in 0 .. Len(pipe)
    BY <2>2, LeastIsLess
  <2> QED
    BY <2>2, <2>3 DEF ReadSome
<1> DEFINE t == SubSeq(pipe, 1, n)
<1>2. t \in Seq(Byte) /\ taken \in Seq(Byte) /\ taken' = taken \o t
  BY <1>1, Types, Split
<1> HIDE DEF t, n
<1>3. /\ life = "open" /\ life' = life /\ kind # "writer" /\ kind' = kind /\ held'
      /\ UNCHANGED <<accepted, delivered, supplied>>
  <2>1. OnPipe(ReadOps \cup WriteOps) /\ call.op \in ReadOps
    BY DEF ReadSome, OnPipe
  <2> QED
    BY <2>1, OnThePipe DEF ReadSome, Leave, Goes, outward
<1>4. Duplex!IsPrefix(taken', supplied)
  <2> DEFINE b == Rest(pipe, n)
  <2>1. /\ t \in Seq(Byte) /\ b \in Seq(Byte) /\ t \o b = pipe
        /\ taken \in Seq(Byte) /\ carry \in Seq(Byte)
    BY <1>1, Types, Split DEF t
  <2> HIDE DEF b
  <2>2. supplied = (Got \o pipe) \o carry /\ Got = taken
    <3>1. call.todo = <<>> /\ pipe # <<>> /\ held
      BY DEF ReadSome, OnPipe, IInv, CallOK, ReadOps, WriteOps
    <3>2. taken \o <<>> = taken
      BY <2>1, Joined
    <3> QED
      BY <1>3, <3>1, <3>2 DEF IInv, ReaderOK, Thrown, Got
  <2>5. taken \o t \in Seq(Byte) /\ b \o carry \in Seq(Byte)
    BY <2>1, Joined
  <2>3. taken \o (t \o b) = (taken \o t) \o b
    BY <2>1, Assoc
  <2>4. ((taken \o t) \o b) \o carry = (taken \o t) \o (b \o carry)
    BY <2>1, <2>5, Assoc
  <2> QED
    BY <1>2, <2>1, <2>2, <2>3, <2>4, <2>5, GrowsAtItsEnd
<1>5. taken' = taken \/ Duplex!IsStrictPrefix(taken, taken')
  BY <1>2, GrowsAtItsEnd
<1>6. CASE taken' = taken
  BY <1>3, <1>6, Stays DEF Open
<1>7. CASE Duplex!IsStrictPrefix(taken, taken')
  <2>1. Duplex!Take
    BY <1>3, <1>4, <1>7 DEF Duplex!Take, Duplex!outward
  <2> QED
    BY <1>3, <2>1, Moves DEF Open
<1> QED
  BY <1>5, <1>6, <1>7

\* The end hands over what a read_to_string has gathered.
LEMMA ReadEndRefines == IInv /\ ReadEnd => Abstract
<1> SUFFICES ASSUME IInv, ReadEnd PROVE Abstract
  OBVIOUS
<1>1. /\ life = "open" /\ life' = life /\ kind # "writer" /\ held /\ pipe = <<>> /\ carry = <<>>
      /\ UNCHANGED <<accepted, delivered, supplied>>
  <2>1. OnPipe(ReadOps \cup WriteOps) /\ call.op \in ReadOps
    BY DEF ReadEnd, OnPipe, ReadOps, Endless
  <2> QED
    BY <2>1, OnThePipe DEF ReadEnd, AtEof, Leave, outward
<1>2. taken \in Seq(Byte) /\ call.todo \in Seq(Byte) /\ taken' = taken \o call.todo
  BY Types DEF ReadEnd
<1>3. supplied = taken' \/ call.todo = <<>>
  <2>1. supplied = (Got \o <<>>) \o <<>> \/ Thrown
    BY <1>1 DEF IInv, ReaderOK
  <2>2. Got \o <<>> = Got
    BY Types, Joined
  <2> QED
    BY <1>2, <2>1, <2>2 DEF Thrown, Got
<1>4. taken' = taken \/ Duplex!IsStrictPrefix(taken, taken')
  BY <1>2, GrowsAtItsEnd
<1>5. CASE taken' = taken
  BY <1>1, <1>5, Stays DEF Open
<1>6. CASE taken' # taken
  <2>1. call.todo # <<>>
    BY <1>2, <1>6, Joined
  <2>2. supplied = taken' /\ taken' \in Seq(Byte) /\ supplied \o <<>> = supplied
    BY <1>2, <1>3, <2>1, Types, Joined
  <2>3. Duplex!IsPrefix(taken', supplied)
    <3>1. supplied \in Seq(Byte) /\ <<>> \in Seq(Byte)
      BY Types
    <3>2. Duplex!IsPrefix(supplied, supplied \o <<>>)
      BY <3>1, GrowsAtItsEnd
    <3> QED
      BY <2>2, <3>2
  <2>4. Duplex!Take
    BY <1>1, <1>4, <1>6, <2>3 DEF Duplex!Take, Duplex!outward
  <2> QED
    BY <1>1, <2>4, Moves DEF Open
<1> QED
  BY <1>5, <1>6

LEMMA WriteSomeRefines == IInv /\ WriteSome => Abstract
<1> SUFFICES ASSUME IInv, WriteSome PROVE Abstract
  OBVIOUS
<1>1. PICK n \in 1 .. Least(Len(call.todo), Least(Room, StreamLength - Len(accepted))) :
        /\ accepted' = accepted \o SubSeq(call.todo, 1, n)
        /\ Leave("ok") \/ Goes([call EXCEPT !.todo = Rest(@, n)])
  BY DEF WriteSome
<1>2. call.todo \in Seq(Byte) /\ n \in 0 .. Len(call.todo)
  <2>1. call.todo \in Seq(Byte) /\ Len(call.todo) \in Int
    BY StreamsNow, LenProperties DEF Calls
  <2>2. Room \in Int /\ StreamLength - Len(accepted) \in Int
    BY Types, LenProperties, BoundAssumption
  <2> DEFINE m == Least(Room, StreamLength - Len(accepted))
  <2>3. m \in Int
    BY <2>2, LeastIsLess
  <2> HIDE DEF m
  <2>4. Least(Len(call.todo), m) \in Int /\ Least(Len(call.todo), m) <= Len(call.todo)
    BY <2>1, <2>3, LeastIsLess
  <2>5. n \in 1 .. Least(Len(call.todo), m)
    BY DEF m
  <2> QED
    BY <2>1, <2>4, <2>5
<1>3. SubSeq(call.todo, 1, n) \in Seq(Byte) /\ accepted \in Seq(Byte)
  BY <1>2, Types, Split
<1>4. accepted' = accepted \/ Duplex!IsStrictPrefix(accepted, accepted')
  BY <1>1, <1>3, GrowsAtItsEnd
<1>5. /\ life = "open" /\ life' = life /\ UNCHANGED <<delivered, supplied, taken>>
  <2>1. OnPipe(ReadOps \cup WriteOps)
    BY DEF WriteSome, OnPipe
  <2> QED
    BY <1>1, <2>1, OnThePipe DEF WriteSome, Leave, Goes, inward
<1>6. CASE accepted' = accepted
  BY <1>5, <1>6, Stays DEF Open
<1>7. CASE Duplex!IsStrictPrefix(accepted, accepted')
  <2>1. Duplex!Accept
    BY <1>5, <1>7 DEF Duplex!Accept, Duplex!inward
  <2> QED
    BY <1>5, <2>1, Moves DEF Open
<1> QED
  BY <1>4, <1>6, <1>7

\* A thread runs only while its handle is open.
LEMMA ThreadRefines == IInv /\ Thread => Abstract
<1> SUFFICES ASSUME IInv, Thread PROVE Abstract
  OBVIOUS
<1>1. life = "open" /\ Open /\ Open' /\ UNCHANGED <<life, kind, accepted, taken>>
  <2>1. thread # "none"
    BY DEF Thread, CopyFromPipe, CopyToBoxed, CopyEnds, FlushBoxed, CopyFromBoxed, CopyToPipe,
         CopyBroken, BoxedFails
  <2>2. UNCHANGED <<life, kind, accepted, taken>>
    BY DEF Thread, frame, CopyFromPipe, CopyToBoxed, CopyEnds, FlushBoxed, CopyFromBoxed,
         CopyToPipe, CopyBroken, BoxedFails, outward, inward
  <2> QED
    BY <2>1, <2>2 DEF IInv, TypeOK, Open
<1>2. CASE CopyToBoxed
  <2>1. PICK n \in 1 .. Len(carry) : delivered' = delivered \o SubSeq(carry, 1, n)
    BY <1>2 DEF CopyToBoxed
  <2>2. SubSeq(carry, 1, n) \in Seq(Byte) /\ delivered \in Seq(Byte)
    BY Types, Split
  <2>3. delivered' = delivered \/ Duplex!IsStrictPrefix(delivered, delivered')
    BY <2>1, <2>2, GrowsAtItsEnd
  <2>4. Duplex!IsPrefix(delivered', accepted)
    <3>1. IInv' /\ kind' = "writer" /\ thread' = "copying"
      BY <1>2, <1>1, CopyToBoxedInv DEF CopyToBoxed
    <3>2. accepted = (delivered' \o carry') \o pipe'
      BY <3>1, <1>1 DEF IInv, WriterOK
    <3>3. delivered' \in Seq(Byte) /\ pipe' \in Seq(Byte) /\ carry' \in Seq(Byte)
      BY <3>1 DEF IInv, TypeOK
    <3>4. accepted = delivered' \o (carry' \o pipe') /\ carry' \o pipe' \in Seq(Byte)
      BY <3>2, <3>3, Assoc, Joined
    <3> QED
      BY <3>3, <3>4, GrowsAtItsEnd
  <2>5. UNCHANGED <<supplied, taken>>
    BY <1>2 DEF CopyToBoxed, inward
  <2>6. CASE delivered' = delivered
    BY <1>1, <2>5, <2>6, Stays
  <2>7. CASE Duplex!IsStrictPrefix(delivered, delivered')
    <3>1. Duplex!Deliver
      BY <1>1, <2>4, <2>5, <2>7 DEF Duplex!Deliver, Duplex!inward
    <3> QED
      BY <1>1, <3>1, Moves
  <2> QED
    BY <2>3, <2>6, <2>7
<1>3. CASE CopyFromBoxed
  <2>1. PICK s \in Strings(Least(MaxLen, StreamLength - Len(supplied))) :
          supplied' = supplied \/ supplied' = supplied \o s
    BY <1>3 DEF CopyFromBoxed
  <2>2. Least(MaxLen, StreamLength - Len(supplied)) \in Int /\ supplied \in Seq(Byte)
    BY Types, LenProperties, BoundAssumption, LeastIsLess
  <2>3. s \in Seq(Byte)
    BY <2>2, StringsAreSequences
  <2>4. supplied' = supplied \/ Duplex!IsStrictPrefix(supplied, supplied')
    BY <2>1, <2>2, <2>3, GrowsAtItsEnd
  <2>5. UNCHANGED delivered
    BY <1>3 DEF CopyFromBoxed, outward
  <2>6. CASE supplied' = supplied
    BY <1>1, <2>5, <2>6, Stays
  <2>7. CASE Duplex!IsStrictPrefix(supplied, supplied')
    <3>1. Duplex!Supply
      BY <1>1, <2>5, <2>7 DEF Duplex!Supply, Duplex!outward
    <3> QED
      BY <1>1, <3>1, Moves
  <2> QED
    BY <2>4, <2>6, <2>7
<1>4. CASE ~CopyToBoxed /\ ~CopyFromBoxed
  <2>1. UNCHANGED <<delivered, supplied>>
    BY <1>4 DEF Thread, CopyFromPipe, CopyEnds, FlushBoxed, CopyToPipe, CopyBroken, BoxedFails,
         outward, inward
  <2> QED
    BY <1>1, <2>1, Stays
<1> QED
  BY <1>2, <1>3, <1>4

LEMMA DropRefines == IInv /\ (Drop \/ DropJoin) => Abstract
<1> SUFFICES ASSUME IInv, Drop \/ DropJoin PROVE Abstract
  OBVIOUS
<1>1. life = "open"
  <2>1. ASSUME DropJoin PROVE life = "open"
    <3>1. Joining({"drop"}) /\ Ended
      BY <2>1 DEF DropJoin
    <3> QED
      BY <3>1, AtTheJoin
  <2> QED
    BY <2>1 DEF Drop, Dropping
<1>2. UNCHANGED <<accepted, delivered, supplied, taken>>
  BY DEF Drop, DropJoin, outward, inward
<1>3. life' = life \/ life' \in {"dropped", "aborted"}
  BY DEF Drop, DropJoin, Join, Goes, Gone
<1>4. CASE life' = life
  BY <1>2, <1>4, Stays DEF Open
<1>5. CASE life' \in {"dropped", "aborted"}
  BY <1>1, <1>2, <1>5, Closes DEF Open
<1> QED
  BY <1>3, <1>4, <1>5

\* What moves no byte and closes nothing.
LEMMA RestRefines ==
    ReadCall \/ WriteCall \/ Flush \/ Gather \/ ReadFails \/ WriteFails \/ MapErrJoin \/ FlushJoin
        => Abstract
<1> SUFFICES ASSUME ReadCall \/ WriteCall \/ Flush \/ Gather \/ ReadFails \/ WriteFails
                    \/ MapErrJoin \/ FlushJoin
             PROVE  Abstract
  OBVIOUS
<1>1. UNCHANGED <<accepted, delivered, supplied, taken>>
  BY DEF ReadCall, WriteCall, Enter, Flush, Gather, ReadFails, WriteFails, MapErrJoin, FlushJoin,
       outward, inward
<1>2. UNCHANGED life
  BY DEF ReadCall, WriteCall, Enter, Flush, Gather, ReadFails, WriteFails, MapErrJoin, FlushJoin,
       MapErr, Join, Goes, Leave
<1> QED
  BY <1>1, <1>2, Stays DEF Open

\* A handle over a piped thread is a pair of byte streams, with the thread and
\* the pipe between the two ends of each hidden.
THEOREM IsADuplexStream == Spec => ImplementsDuplexStream
<1>1. Init => Duplex!Init
  BY DEF Init, Duplex!Init
<1>2. IInv /\ [Next]_vars => Abstract
  <2> SUFFICES ASSUME IInv, [Next]_vars PROVE Abstract
    OBVIOUS
  <2>1. CASE UNCHANGED vars
    <3>1. UNCHANGED <<accepted, delivered, supplied, taken, life>>
      BY <2>1 DEF vars, frame, outward, inward
    <3> QED
      BY <3>1, Stays DEF Open
  <2> QED
    BY <2>1, ConstructRefines, ReadSomeRefines, ReadEndRefines, WriteSomeRefines,
       ThreadRefines, DropRefines, RestRefines DEF Next, OwnerCalls, Run, Blocked, Closed
<1>3. IInv /\ [Next]_vars =>
        [Duplex!Next]_<<Duplex!outward, Duplex!inward, life \in {"new", "open"}>>
  BY <1>2 DEF Abstract, Open
<1> QED
  BY <1>1, <1>3, InvariantHolds, PTL DEF Spec, ImplementsDuplexStream, Duplex!Spec
================================================================================
