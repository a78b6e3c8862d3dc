----------------------- MODULE BufReaderWriter_refinement -----------------------
(***************************************************************************)
(* BufReaderWriter implements DuplexStream.  What each step does to        *)
(* Stream, the bytes out and the bytes waiting seen as one, comes first;   *)
(* then the steps of the abstract streams; then which step is which.       *)
(***************************************************************************)
EXTENDS BufReaderWriter_proofs

(***************************************************************************)
(* Sequences                                                               *)
(***************************************************************************)
LEMMA GrowsAtItsEnd ==
    ASSUME NEW s \in Seq(Byte), NEW t \in Seq(Byte)
    PROVE  /\ Duplex!IsPrefix(s, s \o t) /\ IsPrefix(s, s \o t)
           /\ s \o t = s \/ Duplex!IsStrictPrefix(s, s \o t)
<1>1. /\ s \o t \in Seq(Byte) /\ Len(s \o t) = Len(s) + Len(t)
      /\ Len(s) \in Nat /\ Len(t) \in Nat
      /\ \A i \in 1 .. Len(s) + Len(t) : (s \o t)[i] = IF i <= Len(s) THEN s[i] ELSE t[i - Len(s)]
      /\ \A i \in 1 .. Len(s) : s[i] \in Byte
  BY LenProperties, ConcatProperties, ElementOfSeq
<1> DEFINE u == s \o t
           p == SubSeq(u, 1, Len(s))
<1>2. \A i \in 1 .. Len(s) : u[i] = s[i]
  BY <1>1
<1> HIDE DEF u
<1>3. p \in Seq(Byte) /\ Len(p) = Len(s) /\ \A i \in 1 .. Len(s) : p[i] = u[i]
  <2>1. \A i \in 1 .. Len(s) : u[i] \in Byte
    BY <1>1, <1>2
  <2>2. /\ p \in Seq(Byte) /\ Len(p) = IF 1 <= Len(s) THEN Len(s) - 1 + 1 ELSE 0
        /\ \A i \in 1 .. Len(s) - 1 + 1 : p[i] = u[1 + i - 1]
    BY <2>1, <1>1, SubSeqProperties
  <2> QED
    BY <2>2, <1>1
<1> HIDE DEF p
<1>4. p = s
  BY <1>1, <1>2, <1>3, SeqEqual
<1>5. SubSeq(s, 1, Len(s)) = s
  BY SubSeqFull
<1>6. Len(s) <= Len(u) /\ SubSeq(s, 1, Len(s)) = SubSeq(u, 1, Len(s))
  BY <1>1, <1>4, <1>5 DEF p, u
<1>7. Duplex!IsPrefix(s, u) /\ IsPrefix(s, u)
  BY <1>6 DEF Duplex!IsPrefix, IsPrefix
<1> QED
  BY <1>7 DEF Duplex!IsStrictPrefix, u

\* A sequence cut in two and put together again.
LEMMA CutInTwo ==
    ASSUME NEW s \in Seq(Byte), NEW n \in 0 .. Len(s)
    PROVE  /\ SubSeq(s, 1, n) \in Seq(Byte) /\ SubSeq(s, n + 1, Len(s)) \in Seq(Byte)
           /\ s = SubSeq(s, 1, n) \o SubSeq(s, n + 1, Len(s))
<1>1. Len(s) \in Nat /\ n \in Nat /\ n <= Len(s)
  BY LenProperties
<1>2. SubSeq(s, 1, n) \in Seq(Byte) /\ SubSeq(s, n + 1, Len(s)) \in Seq(Byte)
  <2>1. 0 \in Nat /\ 0 + 1 = 1
    OBVIOUS
  <2>2. SubSeq(s, 0 + 1, n) \in Seq(Byte)
    BY <1>1, <2>1, Cut
  <2>3. SubSeq(s, n + 1, Len(s)) \in Seq(Byte)
    BY <1>1, Cut
  <2> QED
    BY <2>1, <2>2, <2>3
<1>3. SubSeq(s, 1, n) \o SubSeq(s, n + 1, Len(s)) = SubSeq(s, 1, Len(s))
  <2>1. 1 \in 1 .. Len(s) + 1 /\ n \in (1 - 1) .. Len(s) /\ Len(s) \in n .. Len(s)
    BY <1>1
  <2> QED
    BY <2>1, ConcatAdjacentSubSeq
<1> QED
  BY <1>2, <1>3, SubSeqFull

LEMMA Rest ==
    ASSUME NEW s \in Seq(Byte), NEW n \in Nat
    PROVE  SubSeq(s, n + 1, Len(s)) \in Seq(Byte)
<1>1. Len(s) \in Nat
  BY LenProperties
<1> QED
  BY <1>1, Cut

LEMMA Assoc ==
    ASSUME NEW a \in Seq(Byte), NEW b \in Seq(Byte), NEW c \in Seq(Byte)
    PROVE  (a \o b) \o c = a \o (b \o c)
BY SMTT(60), ConcatAssociative

(***************************************************************************)
(* What a step does to the stream                                          *)
(***************************************************************************)
LEMMA BuffersStream ==
    ASSUME BuffersOK
    PROVE  /\ sink \in Seq(Byte) /\ Remaining \in Seq(Byte) /\ Stream \in Seq(Byte)
           /\ Stream = sink \o Remaining
<1>1. sink \in Seq(Byte) /\ Remaining \in Seq(Byte)
  BY BuffersRemaining DEF BuffersOK
<1> QED
  BY <1>1, ConcatProperties DEF Stream

LEMMA StreamTypes ==
    ASSUME IInv
    PROVE  /\ sink \in Seq(Byte) /\ Remaining \in Seq(Byte) /\ Stream \in Seq(Byte)
           /\ Stream = sink \o Remaining
BY InvBuffers, BuffersStream

LEMMA StreamStays ==
    ASSUME UNCHANGED <<writer_buf, written, sink>>
    PROVE  Stream' = Stream
BY DEF Stream, Remaining

\* Outside flush_buf the whole of writer_buf is waiting.
LEMMA AllWaits ==
    ASSUME IInv, ~At("flush_buf")
    PROVE  written = 0 /\ Remaining = writer_buf
<1>1. written = 0 /\ writer_buf \in Seq(Byte)
  BY DEF IInv, DoubtOK, TypeOK, TypeOver
<1> QED
  BY <1>1, SubSeqFull DEF Remaining

\* The guard that removes the bytes written leaves the stream as it is.
LEMMA BuffersDrain ==
    ASSUME BuffersOK, Drain, UNCHANGED sink
    PROVE  Stream' = Stream
<1>1. Remaining \in Seq(Byte)
  BY BuffersRemaining
<1>2. SubSeq(Remaining, 1, Len(Remaining)) = Remaining
  BY <1>1, SubSeqFull
<1>3. Remaining' = Remaining
  <2> DEFINE r == Remaining
  <2>1. writer_buf' = r /\ written' = 0 /\ SubSeq(r, 1, Len(r)) = r
    BY <1>2 DEF Drain
  <2>2. Remaining' = SubSeq(writer_buf', written' + 1, Len(writer_buf'))
    BY DEF Remaining
  <2> HIDE DEF r
  <2>3. Remaining' = r
    BY <2>1, <2>2
  <2> QED
    BY <2>3 DEF r
<1> QED
  BY <1>3 DEF Stream

LEMMA DrainKeeps ==
    ASSUME IInv, Drain, UNCHANGED sink
    PROVE  Stream' = Stream
BY InvBuffers, BuffersDrain

\* What is put behind the buffer joins the stream.
LEMMA BuffersAppend ==
    ASSUME BuffersOK, written = 0, NEW t \in Seq(Byte),
           writer_buf' = writer_buf \o t, UNCHANGED <<sink, written>>
    PROVE  Stream' = Stream \o t
<1>1. writer_buf \in Seq(Byte) /\ sink \in Seq(Byte) /\ writer_buf \o t \in Seq(Byte)
  BY ConcatProperties DEF BuffersOK
<1>2. Remaining = writer_buf /\ Remaining' = writer_buf \o t
  BY <1>1, SubSeqFull DEF Remaining
<1>3. sink \o (writer_buf \o t) = (sink \o writer_buf) \o t
  BY <1>1, Assoc
<1> QED
  BY <1>2, <1>3 DEF Stream

LEMMA ExtendGrows ==
    ASSUME IInv, Extend
    PROVE  /\ Slice(Limit - done) \in Seq(Byte)
           /\ Stream' = Stream \o Slice(Limit - done)
<1>1. todo # <<>> /\ Head(todo).step \in WriteSteps /\ ~At("flush_buf")
  BY DEF Extend, At, WriteSteps, Placing
<1>2. Limit \in Nat /\ done \in Nat /\ done <= Limit
  BY <1>1, AtWriteStep
<1>3. Slice(Limit - done) \in Seq(Byte)
  BY <1>1, <1>2, SliceIsBytes
<1>4. writer_buf' = writer_buf \o Slice(Limit - done) /\ UNCHANGED <<sink, written>>
  BY DEF Extend, out
<1>5. written = 0
  BY <1>1, AllWaits
<1> QED
  BY <1>3, <1>4, <1>5, InvBuffers, BuffersAppend

\* Nothing waits in an empty buffer.
LEMMA NothingWaits ==
    ASSUME BuffersOK, writer_buf = <<>>, written = 0, UNCHANGED <<writer_buf, written>>
    PROVE  Stream = sink /\ Stream' = sink'
<1>1. Remaining = <<>> /\ Remaining' = <<>>
  BY EmptySeq DEF Remaining
<1>2. Stream = sink \o <<>> /\ sink \in Seq(Byte)
  BY <1>1, BuffersStream
<1>3. Stream' = sink' \o <<>>
  BY <1>1 DEF Stream
<1> QED
  BY <1>2, <1>3, ConcatEmptySeq

\* A direct write: nothing waits before it or after it.
LEMMA DirectStream ==
    ASSUME IInv, At("direct") \/ At("direct_all"), UNCHANGED <<writer_buf, written>>
    PROVE  Stream = sink /\ Stream' = sink'
BY AtDirect, InvBuffers, NothingWaits

\* A write of flush_buf moves bytes from the buffer to the sink.
LEMMA BuffersFlushWrite ==
    ASSUME BuffersOK, FlushWrite
    PROVE  /\ Stream' = Stream
           /\ \E t \in Seq(Byte) : sink' = sink \o t
           /\ Duplex!IsPrefix(sink', Stream)
<1>1. PICK m \in 1 .. Least(Len(Remaining), Room) :
        sink' = sink \o SubSeq(Remaining, 1, m) /\ written' = written + m
  BY DEF FlushWrite, Send
<1>2. m \in 0 .. Len(Remaining) /\ m \in Nat
  BY BuffersRoom, BuffersRemaining, LeastIsLess
<1> DEFINE A == SubSeq(Remaining, 1, m)
           B == SubSeq(Remaining, m + 1, Len(Remaining))
<1>3. /\ Remaining = A \o B /\ A \in Seq(Byte) /\ B \in Seq(Byte)
      /\ sink \in Seq(Byte)
  BY <1>2, CutInTwo, BuffersStream
<1>4. Remaining' = B
  <2>1. writer_buf' = writer_buf /\ written' = written + m
    BY <1>1 DEF FlushWrite
  <2>2. /\ writer_buf \in Seq(Byte) /\ Len(writer_buf) \in Nat
        /\ written \in 0 .. Len(writer_buf) /\ Len(Remaining) = Len(writer_buf) - written
    BY BuffersRemaining DEF BuffersOK
  <2> DEFINE n == Len(writer_buf)
             R == SubSeq(writer_buf, written + m + 1, n)
  <2>3. Remaining' = R
    BY <2>1 DEF Remaining
  <2>4. /\ written \in Nat /\ m \in Nat /\ n \in Nat /\ m <= n - written
        /\ Len(Remaining) = n - written
    BY <1>2, <2>2
  <2>5. /\ R \in Seq(Byte) /\ Len(R) = n - written - m
        /\ \A i \in 1 .. n - written - m : R[i] = writer_buf[written + m + i]
    <3>1. \A i \in written + m + 1 .. n : writer_buf[i] \in Byte
      BY <2>2, <2>4, ElementOfSeq
    <3>2. /\ R \in Seq(Byte)
          /\ Len(R) = IF written + m + 1 <= n THEN n - (written + m + 1) + 1 ELSE 0
          /\ \A i \in 1 .. n - (written + m + 1) + 1 : R[i] = writer_buf[written + m + 1 + i - 1]
      BY <2>2, <2>4, <3>1, SubSeqProperties
    <3> QED
      BY <2>4, <3>2
  <2>6. \A i \in 1 .. n - written : Remaining[i] = writer_buf[written + i]
    <3>1. \A i \in written + 1 .. n : writer_buf[i] \in Byte
      BY <2>2, <2>4, ElementOfSeq
    <3>2. \A i \in 1 .. n - (written + 1) + 1 : Remaining[i] = writer_buf[written + 1 + i - 1]
      BY <2>2, <2>4, <3>1, SubSeqProperties DEF Remaining
    <3> QED
      BY <2>4, <3>2
  <2>7. /\ Len(B) = n - written - m
        /\ \A i \in 1 .. n - written - m : B[i] = Remaining[m + i]
    <3>1. \A i \in m + 1 .. Len(Remaining) : Remaining[i] \in Byte
      BY <1>2, BuffersStream, ElementOfSeq
    <3>2. /\ Len(B) = IF m + 1 <= Len(Remaining) THEN Len(Remaining) - (m + 1) + 1 ELSE 0
          /\ \A i \in 1 .. Len(Remaining) - (m + 1) + 1 : B[i] = Remaining[m + 1 + i - 1]
      BY <1>2, <2>4, <3>1, BuffersStream, SubSeqProperties
    <3> QED
      BY <2>4, <3>2
  <2> HIDE DEF n, R, B
  <2>8. \A i \in 1 .. n - written - m : R[i] = B[i]
    BY <2>4, <2>5, <2>6, <2>7
  <2>9. R = B
    BY <1>3, <2>5, <2>7, <2>8, SeqEqual
  <2> QED
    BY <2>3, <2>9
<1> HIDE DEF A, B
<1>5. Stream = sink' \o B /\ Stream' = sink' \o B /\ sink' \in Seq(Byte)
  <2>1. (sink \o A) \o B = sink \o (A \o B) /\ sink \o A \in Seq(Byte)
    BY <1>3, Assoc, ConcatProperties
  <2>2. sink' = sink \o A
    BY <1>1 DEF A
  <2> QED
    BY <1>3, <1>4, <2>1, <2>2 DEF Stream
<1>6. Duplex!IsPrefix(sink', Stream)
  BY <1>3, <1>5, GrowsAtItsEnd
<1> QED
  BY <1>1, <1>3, <1>5, <1>6 DEF A

LEMMA FlushWriteMoves ==
    ASSUME IInv, FlushWrite
    PROVE  /\ Stream' = Stream
           /\ \E t \in Seq(Byte) : sink' = sink \o t
           /\ Duplex!IsPrefix(sink', Stream)
BY InvBuffers, BuffersFlushWrite

(***************************************************************************)
(* Steps of the abstract streams                                           *)
(***************************************************************************)
Open == life = "open"
Abstract == [Duplex!Next]_<<Duplex!outward, Duplex!inward, Open>>

LEMMA Stays ==
    ASSUME UNCHANGED <<Stream, sink, supplied, taken>>,
           Open' = Open \/ (Open /\ ~Open')
    PROVE  Abstract
BY DEF Abstract, Duplex!outward, Duplex!inward, Duplex!Next, Duplex!Close, Open

LEMMA Transfers ==
    ASSUME Open, Open', Duplex!Transfer
    PROVE  Abstract
BY DEF Abstract, Duplex!Next, Open

LEMMA Accepts ==
    ASSUME Open, Open', NEW t \in Seq(Byte), Stream \in Seq(Byte), Stream' = Stream \o t,
           UNCHANGED <<sink, supplied, taken>>
    PROVE  Abstract
<1>1. Stream' = Stream \/ Duplex!IsStrictPrefix(Stream, Stream')
  BY GrowsAtItsEnd
<1>2. ASSUME Duplex!IsStrictPrefix(Stream, Stream') PROVE Duplex!Transfer
  BY <1>2 DEF Duplex!Transfer, Duplex!Accept, Duplex!inward
<1> QED
  BY <1>1, <1>2, Transfers, Stays

LEMMA WritesThrough ==
    ASSUME Open, Open', NEW t \in Seq(Byte), Stream \in Seq(Byte),
           Stream = sink, Stream' = sink', sink' = sink \o t, UNCHANGED <<supplied, taken>>
    PROVE  Abstract
<1>1. Stream' = Stream \/ Duplex!IsStrictPrefix(Stream, Stream')
  BY GrowsAtItsEnd
<1>2. ASSUME Duplex!IsStrictPrefix(Stream, Stream') PROVE Duplex!Transfer
  BY <1>2 DEF Duplex!Transfer, Duplex!WriteThrough, Duplex!inward
<1>3. ASSUME Stream' = Stream PROVE UNCHANGED sink
  BY <1>3
<1> QED
  BY <1>1, <1>2, <1>3, Transfers, Stays

LEMMA Delivers ==
    ASSUME Open, Open', NEW t \in Seq(Byte), sink \in Seq(Byte), sink' = sink \o t,
           Duplex!IsPrefix(sink', Stream), UNCHANGED <<Stream, supplied, taken>>
    PROVE  Abstract
<1>1. sink' = sink \/ Duplex!IsStrictPrefix(sink, sink')
  BY GrowsAtItsEnd
<1>2. ASSUME Duplex!IsStrictPrefix(sink, sink') PROVE Duplex!Transfer
  BY <1>2 DEF Duplex!Transfer, Duplex!Deliver, Duplex!inward
<1> QED
  BY <1>1, <1>2, Transfers, Stays

LEMMA SuppliesMore ==
    ASSUME Open, Open', NEW t \in Seq(Byte), supplied \in Seq(Byte), supplied' = supplied \o t,
           UNCHANGED <<Stream, sink, taken>>
    PROVE  Abstract
<1>1. supplied' = supplied \/ Duplex!IsStrictPrefix(supplied, supplied')
  BY GrowsAtItsEnd
<1>2. ASSUME Duplex!IsStrictPrefix(supplied, supplied') PROVE Duplex!Transfer
  BY <1>2 DEF Duplex!Transfer, Duplex!Supply, Duplex!outward
<1> QED
  BY <1>1, <1>2, Transfers, Stays

LEMMA ReadsThrough ==
    ASSUME Open, Open', NEW t \in Seq(Byte), supplied \in Seq(Byte),
           taken = supplied, taken' = supplied', supplied' = supplied \o t,
           UNCHANGED <<Stream, sink>>
    PROVE  Abstract
<1>1. supplied' = supplied \/ Duplex!IsStrictPrefix(supplied, supplied')
  BY GrowsAtItsEnd
<1>2. ASSUME Duplex!IsStrictPrefix(supplied, supplied') PROVE Duplex!Transfer
  BY <1>2 DEF Duplex!Transfer, Duplex!ReadThrough, Duplex!outward
<1>3. ASSUME supplied' = supplied PROVE UNCHANGED taken
  BY <1>3
<1> QED
  BY <1>1, <1>2, <1>3, Transfers, Stays

\* The owner takes bytes that were unread.
LEMMA Takes ==
    ASSUME IInv, IInv', Open, Open', NEW t \in Seq(Byte), taken' = taken \o t,
           UNCHANGED <<Stream, sink, supplied>>
    PROVE  Abstract
<1>1. taken \in Seq(Byte)
  BY ReaderTypes
<1>2. taken' = taken \/ Duplex!IsStrictPrefix(taken, taken')
  BY <1>1, GrowsAtItsEnd
<1>3. Duplex!IsPrefix(taken', supplied)
  <2> DEFINE U == Unread'
  <2>1. supplied = taken' \o U /\ taken' \in Seq(Byte)
    BY DEF IInv, ReadInOrder, TypeOK, TypeOver
  <2>2. U \in Seq(Byte)
    <3>1. /\ reader_buf' \in Seq(Byte) /\ pos' \in Nat
          /\ Unread' = SubSeq(reader_buf', pos' + 1, Len(reader_buf'))
      BY DEF IInv, TypeOK, TypeOver, Unread
    <3> QED
      BY <3>1, Rest
  <2> HIDE DEF U
  <2> QED
    BY <2>1, <2>2, GrowsAtItsEnd
<1>4. ASSUME Duplex!IsStrictPrefix(taken, taken') PROVE Duplex!Transfer
  BY <1>3, <1>4 DEF Duplex!Transfer, Duplex!Take, Duplex!outward
<1> QED
  BY <1>2, <1>4, Transfers, Stays

(***************************************************************************)
(* Every step of BufReaderWriter is one of them                            *)
(***************************************************************************)
\* What a step of the backend leaves alone.
LEMMA InACall ==
    ASSUME IInv, todo # <<>>
    PROVE  Open /\ op # "none" /\ done \in Nat /\ Limit \in Nat
BY PlanHead DEF Open

LEMMA WriteRefines == IInv /\ (Extend \/ Direct \/ DirectAll) => Abstract
<1> SUFFICES ASSUME IInv, Extend \/ Direct \/ DirectAll PROVE Abstract
  OBVIOUS
<1>1. /\ todo # <<>> /\ Head(todo).step \in WriteSteps /\ UNCHANGED <<supplied, taken>>
      /\ Open /\ Open' /\ Limit \in Nat /\ done \in Nat /\ Stream \in Seq(Byte)
  <2>1. todo # <<>> /\ Head(todo).step \in WriteSteps /\ UNCHANGED <<supplied, taken, life>>
    BY DEF Extend, Direct, DirectAll, At, WriteSteps, Placing, in, Proceed
  <2> QED
    BY <2>1, InACall, StreamTypes DEF Open
<1>2. CASE Extend
  <2>1. UNCHANGED sink
    BY <1>2 DEF Extend, out
  <2> QED
    BY <1>1, <1>2, <2>1, ExtendGrows, Accepts
<1>3. CASE Direct \/ DirectAll
  <2>1. Stream = sink /\ Stream' = sink'
    BY <1>3, DirectStream DEF Direct, DirectAll
  <2>2. CASE UNCHANGED sink
    BY <1>1, <2>1, <2>2, Stays
  <2>3. ASSUME NEW m \in 0 .. (Limit - done), sink' = sink \o Slice(m) PROVE Abstract
    <3>1. Slice(m) \in Seq(Byte)
      BY <1>1, SliceIsBytes
    <3> QED
      BY <1>1, <2>1, <2>3, <3>1, WritesThrough
  <2>4. UNCHANGED sink \/ \E m \in 0 .. Least(Limit - done, Room) : sink' = sink \o Slice(m)
    BY <1>3 DEF Direct, DirectAll, Send, out
  <2>5. \A m \in 0 .. Least(Limit - done, Room) : m \in 0 .. (Limit - done)
    BY <1>1, RoomIsInt, LeastIsLess
  <2> QED
    BY <2>2, <2>3, <2>4, <2>5
<1> QED
  BY <1>2, <1>3

\* What neither moves a byte nor changes the stream, whether the call goes on
\* or ends, with the handle closed behind it or not.
Quiet == CheckRoom \/ DirectFails \/ DirectRetry \/ DirectPanics
         \/ FlushBuf \/ FlushRetry \/ FlushFails \/ FlushPanics \/ FlushInner
         \/ ChooseRead \/ ReadFails \/ Return

LEMMA QuietStream == IInv /\ Quiet => UNCHANGED <<Stream, sink, supplied, taken>>
<1> SUFFICES ASSUME IInv, Quiet PROVE UNCHANGED <<Stream, sink, supplied, taken>>
  OBVIOUS
<1>1. UNCHANGED <<sink, supplied, taken>>
  BY DEF Quiet, CheckRoom, DirectFails, DirectRetry, DirectPanics, FlushBuf, FlushRetry,
       FlushFails, FlushPanics, FlushInner, ChooseRead, ReadFails, NotUtf8, Return, out, in
<1>2. UNCHANGED <<writer_buf, written>> \/ Drain
  BY DEF Quiet, CheckRoom, DirectFails, DirectRetry, DirectPanics, FlushBuf, FlushRetry,
       FlushFails, FlushPanics, FlushInner, ChooseRead, ReadFails, NotUtf8, Return, guts
<1> QED
  BY <1>1, <1>2, StreamStays, DrainKeeps

LEMMA QuietRefines == IInv /\ Quiet => Abstract
<1> SUFFICES ASSUME IInv, Quiet PROVE Abstract
  OBVIOUS
<1>1. op # "none"
  <2>1. todo # <<>> \/ op # "none"
    BY DEF Quiet, CheckRoom, DirectFails, DirectRetry, DirectPanics, FlushBuf, FlushRetry,
         FlushFails, FlushPanics, FlushInner, ChooseRead, ReadFails, NotUtf8, Return, At
  <2> QED
    BY <2>1, InACall
<1>2. Open
  BY <1>1 DEF IInv, PlanOK, Open
<1>3. Open' \in BOOLEAN
  BY DEF Open
<1> QED
  BY <1>2, <1>3, QuietStream, Stays

LEMMA FlushWriteRefines == IInv /\ FlushWrite => Abstract
<1> SUFFICES ASSUME IInv, FlushWrite PROVE Abstract
  OBVIOUS
<1>1. todo # <<>> /\ UNCHANGED <<supplied, taken, life>>
  BY DEF FlushWrite, At, in, frame
<1>2. Open /\ Open'
  BY <1>1, InACall DEF Open
<1> QED
  BY <1>1, <1>2, FlushWriteMoves, StreamTypes, Delivers

LEMMA FillRefines == IInv /\ (Fill \/ ReadDirect) => Abstract
<1> SUFFICES ASSUME IInv, Fill \/ ReadDirect PROVE Abstract
  OBVIOUS
<1>1. todo # <<>> /\ UNCHANGED <<writer_buf, written, sink, life>>
  BY DEF Fill, ReadDirect, At, guts, out, Proceed
<1>2. Open /\ Open' /\ UNCHANGED <<Stream, sink>> /\ Limit \in Nat
  BY <1>1, InACall, StreamStays DEF Open
<1>3. CASE Fill
  <2>1. UNCHANGED taken
    BY <1>3 DEF Fill
  <2>2. CASE UNCHANGED supplied
    BY <1>2, <2>1, <2>2, Stays
  <2>3. ASSUME NEW s \in Supplies(ReaderCapacity), supplied' = supplied \o s PROVE Abstract
    <3>1. s \in Seq(Byte)
      BY SuppliesBytes, CapacityAssumption
    <3> QED
      BY <1>2, <2>1, <2>3, <3>1, ReaderTypes, SuppliesMore
  <2> QED
    BY <1>3, <2>2, <2>3 DEF Fill
<1>4. CASE ReadDirect
  <2>1. PICK s \in Supplies(Limit) : supplied' = supplied \o s /\ taken' = taken \o s
    BY <1>4 DEF ReadDirect
  <2>2. s \in Seq(Byte)
    BY <1>2, SuppliesBytes
  <2>3. pos = Len(reader_buf)
    BY <1>4 DEF ReadDirect, IInv, HeadOK
  <2>4. Unread = <<>>
    BY <2>3, ReaderTypes, EmptySeq
  <2>5. taken = supplied /\ supplied \in Seq(Byte)
    BY <2>4, ReaderTypes, ConcatEmptySeq
  <2> QED
    BY <1>2, <2>1, <2>2, <2>5, ReadsThrough
<1> QED
  BY <1>3, <1>4

\* The bytes a step hands to the owner are unread bytes of reader_buf.
LEMMA ConsumedBytes ==
    ASSUME IInv, NEW used \in Nat
    PROVE  SubSeq(reader_buf, pos + 1, pos + used) \in Seq(Byte) \/ used > Len(Unread)
<1>1. reader_buf \in Seq(Byte) /\ pos \in Nat /\ Len(Unread) = Len(reader_buf) - pos
  BY ReaderTypes
<1>2. ASSUME used <= Len(Unread) PROVE SubSeq(reader_buf, pos + 1, pos + used) \in Seq(Byte)
  <2>1. pos + used \in Nat /\ pos + used <= Len(reader_buf) /\ Len(reader_buf) \in Nat
    BY <1>1, <1>2, LenProperties
  <2> QED
    BY <1>1, <2>1, Cut
<1>3. Len(Unread) \in Nat
  BY ReaderTypes
<1> QED
  BY <1>2, <1>3

LEMMA TakeRefines == IInv /\ IInv' /\ (Take \/ Scan \/ \E n \in Nat : Consume(n)) => Abstract
<1> SUFFICES ASSUME IInv, IInv', Take \/ Scan \/ \E n \in Nat : Consume(n) PROVE Abstract
  OBVIOUS
<1>1. UNCHANGED <<writer_buf, written, sink, supplied, life>>
  BY DEF Take, Scan, Consume, guts, out, frame, Proceed
<1>2. Open /\ Open' /\ UNCHANGED <<Stream, sink, supplied>>
  <2>1. todo # <<>> \/ Open
    BY DEF Take, Scan, Consume, At, Open
  <2>2. Open
    BY <2>1, InACall
  <2> QED
    BY <1>1, <2>2, StreamStays DEF Open
<1>3. Limit \in Nat \/ ~Take
  BY InACall DEF Take, At
<1>4. PICK used \in 0 .. Len(Unread) :
        taken' = taken \o SubSeq(reader_buf, pos + 1, pos + used)
  <2>1. CASE Take
    <3> DEFINE size == Least(Limit, Len(Unread))
    <3>1. size \in 0 .. Len(Unread)
      BY <1>3, <2>1, ReaderTypes DEF Least
    <3>2. taken' = taken \o SubSeq(reader_buf, pos + 1, pos + size)
      BY <2>1 DEF Take, Consumed
    <3> QED
      BY <3>1, <3>2
  <2>2. CASE Scan
    BY <2>2 DEF Scan, Consumed
  <2>3. ASSUME NEW n \in Nat, Consume(n)
        PROVE  \E used \in 0 .. Len(Unread) :
                 taken' = taken \o SubSeq(reader_buf, pos + 1, pos + used)
    <3> DEFINE size == Least(n, Len(reader_buf) - pos)
    <3>1. size \in 0 .. Len(Unread)
      BY ReaderTypes DEF Least
    <3>2. taken' = taken \o SubSeq(reader_buf, pos + 1, pos + size)
      BY <2>3 DEF Consume
    <3> QED
      BY <3>1, <3>2
  <2> QED
    BY <2>1, <2>2, <2>3
<1>5. used \in Nat /\ used <= Len(Unread)
  BY ReaderTypes
<1>6. SubSeq(reader_buf, pos + 1, pos + used) \in Seq(Byte)
  BY <1>5, ConsumedBytes, ReaderTypes
<1> QED
  BY <1>2, <1>4, <1>6, Takes

\* The calls move nothing; the drop of a handle that panicked closes it.
Calling == WriteCalls \/ Flush \/ FillBuf \/ CloseCalls
           \/ \E n \in Nat : Read(n)
           \/ \E b \in Byte : ReadUntil(b) \/ ReadLine(b)

LEMMA CallingRefines == Calling => Abstract
<1> SUFFICES ASSUME Calling PROVE Abstract
  OBVIOUS
<1>1. UNCHANGED <<writer_buf, written, sink, supplied, taken>>
  BY DEF Calling, WriteCalls, Write, WriteAll, Flush, FillBuf, CloseCalls, IntoInner, Drop,
       Read, ReadUntil, ReadLine, Search, Call, guts, out, in
<1>2. Open /\ Open' \in BOOLEAN
  BY DEF Calling, WriteCalls, Write, WriteAll, Flush, FillBuf, CloseCalls, IntoInner, Drop,
       Read, ReadUntil, ReadLine, Search, Call, Open
<1> QED
  BY <1>1, <1>2, StreamStays, Stays

LEMMA NextIs ==
    Next => \/ Calling \/ \E n \in Nat : Consume(n)
            \/ Extend \/ Direct \/ DirectAll \/ Quiet \/ FlushWrite
            \/ Fill \/ ReadDirect \/ Take \/ Scan \/ UNCHANGED vars
<1>1. \A n \in 0 .. MaxLen : n \in Nat
  BY BoundAssumption
<1> QED
  BY <1>1 DEF Next, Calling, ReadCalls, Run, WriterSteps, FlushSteps, ReaderSteps, Quiet, Closed

LEMMA InitRefines == Init => Duplex!Init
<1> SUFFICES ASSUME Init PROVE Duplex!Init
  OBVIOUS
<1>1. sink = <<>> /\ writer_buf = <<>> /\ written = 0
  BY DEF Init
<1>2. Remaining = <<>>
  BY <1>1, EmptySeq DEF Remaining
<1>3. Stream = <<>>
  BY <1>1, <1>2, ConcatEmptySeq DEF Stream
<1> QED
  BY <1>3 DEF Init, Duplex!Init

LEMMA StutterRefines == UNCHANGED vars => Abstract
<1> SUFFICES ASSUME UNCHANGED vars PROVE Abstract
  OBVIOUS
<1>1. UNCHANGED <<writer_buf, written, sink, supplied, taken, life>>
  BY DEF vars, guts, out, in, frame
<1> QED
  BY <1>1, StreamStays, Stays DEF Open

LEMMA StepRefines == IInv /\ [Next]_vars => Abstract
<1> SUFFICES ASSUME IInv, [Next]_vars PROVE Abstract
  OBVIOUS
<1>1. IInv'
  BY StepInv
<1> QED
  BY <1>1, NextIs, CallingRefines, TakeRefines, WriteRefines, QuietRefines,
     FlushWriteRefines, FillRefines, StutterRefines

\* Inside all its buffering the wrapper is a pair of byte streams: whatever
\* the inner handle answers, a byte written is delivered at most once and in
\* order, a byte supplied is taken at most once and in order, and a transfer
\* goes past a buffer only when nothing waits in it.
THEOREM IsADuplexStream == Spec => ImplementsDuplexStream
<1>1. IInv /\ [Next]_vars =>
        [Duplex!Next]_<<Duplex!outward, Duplex!inward, life = "open">>
  BY StepRefines DEF Abstract, Open
<1> QED
  BY <1>1, InitRefines, InvariantHolds, PTL DEF Spec, ImplementsDuplexStream, Duplex!Spec
================================================================================
