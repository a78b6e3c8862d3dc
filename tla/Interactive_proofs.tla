--------------------------- MODULE Interactive_proofs ---------------------------
(***************************************************************************)
(* Proofs about Interactive, for every byte set, every capacity, every     *)
(* bound and every set of faults.                                          *)
(***************************************************************************)
EXTENDS Interactive, BufReaderWriter_proofs

\* What is flushed has arrived, nothing arrives that was not written, the peer
\* answers what has arrived, and the wrapper is given what was answered.
PeerOK ==
    /\ arrived \in 0..Len(sink) /\ replied \in 0..arrived
    /\ flushed => arrived = Len(sink)
    /\ Len(supplied) <= replied

\* The wrapper keeps its own invariant whatever the peer does.
IInvPeer == IInv /\ PeerOK

\* What the inner writer has acknowledged stays acknowledged.
LEMMA SinkGrows ==
    ASSUME IInv, [Next]_vars
    PROVE  Len(sink) \in Nat /\ Len(sink') \in Nat /\ Len(sink) <= Len(sink')
<1>1. sink \in Seq(Byte) /\ Len(sink) \in Nat
  BY LenProperties DEF IInv, TypeOK, TypeOver
<1>2. ASSUME NEW s \in Seq(Byte), Send(s)
      PROVE  Len(sink') \in Nat /\ Len(sink) <= Len(sink')
  BY <1>1, <1>2, ConcatProperties, LenProperties DEF Send
<1>3. CASE Direct
  <2>1. PICK m \in 0 .. Least(Limit - done, Room) : Send(Slice(m))
    BY <1>3 DEF Direct
  <2>2. todo # <<>> /\ Head(todo).step \in WriteSteps
    BY <1>3 DEF Direct, At, WriteSteps, Placing
  <2>3. m \in 0 .. (Limit - done)
    BY <2>1, <2>2, AtWriteStep, RoomIsInt, LeastIsLess
  <2> QED
    BY <1>1, <1>2, <2>1, <2>2, <2>3, SliceIsBytes
<1>4. CASE DirectAll
  <2>1. CASE UNCHANGED out
    BY <1>1, <2>1 DEF out
  <2>2. ASSUME NEW m \in 1 .. Least(Limit - done, Room), Send(Slice(m))
        PROVE  Len(sink') \in Nat /\ Len(sink) <= Len(sink')
    <3>1. todo # <<>> /\ Head(todo).step \in WriteSteps
      BY <1>4 DEF DirectAll, At, WriteSteps, Placing
    <3>2. m \in 0 .. (Limit - done)
      BY <3>1, AtWriteStep, RoomIsInt, LeastIsLess
    <3> QED
      BY <1>1, <1>2, <2>2, <3>1, <3>2, SliceIsBytes
  <2>3. \/ UNCHANGED out
        \/ \E m \in 1 .. Least(Limit - done, Room) : Send(Slice(m))
    BY <1>4 DEF DirectAll
  <2> QED
    BY <2>1, <2>2, <2>3
<1>5. CASE FlushWrite
  <2>1. PICK m \in 1 .. Least(Len(Remaining), Room) : Send(SubSeq(Remaining, 1, m))
    BY <1>5 DEF FlushWrite
  <2>2. Remaining \in Seq(Byte) /\ Len(Remaining) \in Nat
    BY RemainingIsBytes, LenProperties
  <2>3. m \in Nat /\ m <= Len(Remaining)
    BY <2>1, <2>2, RoomIsInt, LeastIsLess
  <2>4. SubSeq(Remaining, 0 + 1, m) \in Seq(Byte)
    BY <2>2, <2>3, Cut
  <2>5. SubSeq(Remaining, 1, m) \in Seq(Byte)
    <3>1. 0 + 1 = 1
      OBVIOUS
    <3> QED
      BY <2>4, <3>1
  <2> QED
    BY <1>1, <1>2, <2>1, <2>5
<1>6. CASE UNCHANGED sink
  BY <1>1, <1>6
<1>7. Direct \/ DirectAll \/ FlushWrite \/ UNCHANGED sink
  BY DEF Next, WriteCalls, Write, WriteAll, Flush, ReadCalls, Read, Consume, ReadUntil, ReadLine, Search, FillBuf,
         CloseCalls, IntoInner, Drop, Call, Run, WriterSteps, CheckRoom, Extend, DirectFails,
         DirectRetry, DirectPanics, FlushSteps, FlushBuf, FlushRetry, FlushFails, FlushPanics,
         FlushInner, ReaderSteps, ChooseRead, ReadDirect, Fill, ReadFails, NotUtf8, Take, Scan, Return,
         Closed, out, vars
<1> QED
  BY <1>1, <1>3, <1>4, <1>5, <1>6, <1>7

LEMMA PeerInit == InteractiveInit => IInvPeer
<1> SUFFICES ASSUME InteractiveInit PROVE IInvPeer
  OBVIOUS
<1>1. Len(sink) = 0 /\ Len(supplied) = 0
  BY EmptySeq DEF InteractiveInit, Init
<1> QED
  BY <1>1, InitInv DEF InteractiveInit, Init, IInvPeer, PeerOK

LEMMA PeerStep == IInvPeer /\ [InteractiveNext]_interactive_vars => IInvPeer'
<1> SUFFICES ASSUME IInvPeer, [InteractiveNext]_interactive_vars PROVE IInvPeer'
  OBVIOUS
<1>1. /\ IInv /\ Len(sink) \in Nat /\ Len(supplied) \in Nat
      /\ arrived \in 0..Len(sink) /\ replied \in 0..arrived
      /\ flushed => arrived = Len(sink)
      /\ Len(supplied) <= replied
  BY LenProperties DEF IInvPeer, PeerOK, IInv, TypeOK, TypeOver
<1>2. CASE Owner(Next)
  <2>1. IInv' /\ Len(sink') \in Nat /\ Len(sink) <= Len(sink')
    BY <1>1, <1>2, StepInv, SinkGrows DEF Owner
  <2>2. /\ Len(supplied') <= replied' /\ replied' = replied
        /\ arrived' = IF flushed' THEN Len(sink') ELSE arrived
    BY <1>2 DEF Owner, NoReplyTooEarly
  <2> QED
    BY <1>1, <2>1, <2>2 DEF IInvPeer, PeerOK
<1>3. CASE UNCHANGED vars
  <2>1. IInv' /\ UNCHANGED <<sink, supplied, flushed>>
    BY <1>1, <1>3, StutterInv DEF vars, out, in
  <2>2. arrived' \in 0..Len(sink) /\ replied' \in 0..arrived' /\ replied' >= replied
        /\ (flushed => arrived' = Len(sink))
    <3>1. CASE Arrives
      BY <1>1, <3>1 DEF Arrives
    <3>2. CASE Replies
      BY <1>1, <3>2 DEF Replies
    <3>3. CASE UNCHANGED <<arrived, replied>>
      BY <1>1, <3>3
    <3>4. CASE Owner(Next)
      BY <1>1, <2>1, <3>4 DEF Owner
    <3> QED
      BY <3>1, <3>2, <3>3, <3>4 DEF InteractiveNext, interactive_vars
  <2> QED
    BY <1>1, <2>1, <2>2 DEF IInvPeer, PeerOK
<1> QED
  BY <1>2, <1>3 DEF InteractiveNext, Arrives, Replies, interactive_vars

LEMMA WaitsForPeer == IInvPeer => NeverBothWait
<1> SUFFICES ASSUME IInvPeer, AsksForReply, op \in ReadOps \/ (writer_buf = <<>> /\ flushed)
             PROVE  arrived = Len(Stream) /\ (Owed => Len(supplied) < arrived)
  BY DEF NeverBothWait
<1>1. IInv /\ (flushed => arrived = Len(sink))
  BY DEF IInvPeer, PeerOK
<1>2. writer_buf = <<>> /\ flushed
  BY <1>1 DEF AsksForReply, At, IInv, FlushedBeforeRead
<1>3. Len(Stream) = Len(sink)
  <2>1. /\ Remaining \in Seq(Byte) /\ Len(Remaining) = Len(writer_buf) - written
        /\ Len(writer_buf) \in Nat /\ written \in 0 .. Len(writer_buf)
    BY <1>1, RemainingIsBytes
  <2>2. Len(Remaining) = 0
    BY <1>2, <2>1, EmptySeq
  <2>3. Remaining = <<>> /\ sink \in Seq(Byte)
    BY <1>1, <2>1, <2>2, EmptySeq DEF IInv, TypeOK, TypeOver
  <2> QED
    BY <2>3, ConcatEmptySeq DEF Stream
<1>4. supplied = taken
  <2>1. pos = Len(reader_buf)
    BY <1>1 DEF AsksForReply, IInv, HeadOK
  <2>2. /\ Unread \in Seq(Byte) /\ Len(Unread) = Len(reader_buf) - pos
        /\ Len(reader_buf) \in Nat /\ taken \in Seq(Byte) /\ supplied = taken \o Unread
    BY <1>1, ReaderTypes
  <2>3. Unread = <<>>
    BY <2>1, <2>2, EmptySeq
  <2> QED
    BY <2>2, <2>3, ConcatEmptySeq
<1> QED
  BY <1>1, <1>2, <1>3, <1>4 DEF Owed

\* While read, read_vectored or read_until waits in the inner reader, every
\* request is at the peer, whatever was written before, in whatever pieces, and
\* however the handle failed between; and when the wrapper is owed a reply, one
\* of them is not answered yet, or its answer is on the way.
THEOREM NobodyWaitsInVain == InteractiveSpec => []NeverBothWait
<1>1. InteractiveSpec => []IInvPeer
  BY PeerInit, PeerStep, PTL DEF InteractiveSpec
<1> QED
  BY <1>1, WaitsForPeer, PTL
================================================================================
