------------------------ MODULE BufReaderWriter_returns ------------------------
(***************************************************************************)
(* What a call of BufReaderWriter reports about the owner's bytes is what  *)
(* happened to them: a second inductive invariant, on top of IInv, relates *)
(* the stream to what it was when the call began.  And a call gets there:  *)
(* each of its steps leaves it less to do.                                 *)
(***************************************************************************)
EXTENDS BufReaderWriter_refinement

Writing == {"write", "write_all"}
LastStep == todo[Len(todo)]

\* The flush of the buffer is behind the call.
Emptied == todo = <<>> \/ Head(todo).step # "flush_buf"

\* Within a call the stream is what it was at its start and the bytes of the
\* slice transferred since; a write ends with the step that places its bytes,
\* and write_all only when all of them are; and a flush has emptied the
\* buffer, and flushed the handle, once the steps that do so are behind it.
HistoryOK ==
    /\ op \in Writing => done <= Len(data) /\ Stream = base \o SubSeq(data, 1, done)
    /\ op \notin Writing \cup {"none"} => Stream = base
    /\ op \in Writing /\ todo # <<>> =>
         /\ LastStep.step \in WriteSteps /\ LastStep.n = Len(data)
         /\ op = "write" => done = 0 /\ LastStep.step \notin {"write_all", "direct_all"}
         /\ op = "write_all" => LastStep.step \notin {"write", "direct"}
    /\ op = "write_all" /\ todo = <<>> => done = Len(data)
    /\ op \in {"flush", "into_inner"} /\ Emptied => writer_buf = <<>>
    /\ op = "flush" /\ todo # <<>> => LastStep.step = "flush_inner"
    /\ op = "flush" /\ todo = <<>> => flushed
    /\ op = "into_inner" /\ todo # <<>> => Len(todo) = 1 /\ Head(todo).step = "flush_buf"

(***************************************************************************)
(* Slices and plans                                                        *)
(***************************************************************************)
\* The bytes transferred so far, and the next m, are the first done + m.
LEMMA NextSlice ==
    ASSUME NEW s \in Seq(Byte), NEW r \in Seq(Byte), NEW n \in Nat, NEW m \in Nat,
           n + m <= Len(s)
    PROVE  (r \o SubSeq(s, 1, n)) \o SubSeq(s, n + 1, n + m) = r \o SubSeq(s, 1, n + m)
<1> DEFINE A == SubSeq(s, 1, n)
           B == SubSeq(s, n + 1, n + m)
<1>1. A \o B = SubSeq(s, 1, n + m)
  <2>1. 1 \in 1 .. Len(s) + 1 /\ n \in (1 - 1) .. Len(s) /\ n + m \in n .. Len(s)
    BY LenProperties
  <2> QED
    BY <2>1, ConcatAdjacentSubSeq
<1>2. A \in Seq(Byte) /\ B \in Seq(Byte)
  <2>1. A \in Seq(Byte)
    BY CutInTwo, LenProperties
  <2>2. n + m \in Nat
    OBVIOUS
  <2> QED
    BY <2>1, <2>2, Cut
<1> HIDE DEF A, B
<1>3. (r \o A) \o B = r \o (A \o B)
  BY <1>2, Assoc
<1> QED
  BY <1>1, <1>3 DEF A, B

LEMMA NoSlice ==
    ASSUME NEW s \in Seq(Byte), NEW r \in Seq(Byte)
    PROVE  r \o SubSeq(s, 1, 0) = r
<1>1. SubSeq(s, 1, 0) = <<>>
  BY EmptySeq
<1> QED
  BY <1>1, ConcatEmptySeq

\* Dropping the head of a plan keeps its last step, unless that was the head.
LEMMA LastOfTail ==
    ASSUME IInv, todo # <<>>, todo' = Tail(todo)
    PROVE  \/ /\ Len(todo) = 1 /\ todo' = <<>> /\ LastStep = Head(todo)
           \/ /\ Len(todo) > 1 /\ todo' # <<>> /\ LastStep' = LastStep
<1>1. todo \in Plans
  BY DEF IInv, TypeOK, TypeOver, Plans
<1>2. /\ Head(todo) = todo[1] /\ Len(todo) \in Nat \ {0}
      /\ todo' \in Plans /\ Len(todo') = Len(todo) - 1
      /\ \A i \in 1 .. Len(todo) - 1 : todo'[i] = todo[i + 1]
  BY <1>1, Head1
<1>3. CASE Len(todo) = 1
  <2>1. todo' = <<>>
    BY SMTT(60), <1>2, <1>3, EmptySeq DEF Plans
  <2> QED
    BY <1>2, <1>3, <2>1 DEF LastStep
<1>4. CASE Len(todo) > 1
  <2>1. todo'[Len(todo')] = todo[Len(todo)]
    BY <1>2, <1>4
  <2>2. todo' # <<>>
    <3>1. Len(todo') > 0 /\ Len(<<>>) = 0
      BY <1>2, <1>4
    <3> QED
      BY <3>1
  <2> QED
    BY <1>4, <2>1, <2>2 DEF LastStep
<1> QED
  BY <1>2, <1>3, <1>4

(***************************************************************************)
(* The history through the steps                                           *)
(***************************************************************************)
\* Between calls there is no history to keep.
LEMMA EndsHistory == op' = "none" => HistoryOK'
BY DEF HistoryOK, Writing

\* A step is done that transfers nothing.
LEMMA StepDone ==
    ASSUME IInv, HistoryOK, todo # <<>>, Head(todo).step \notin WriteSteps,
           Proceed(Tail(todo), done), Stream' = Stream,
           writer_buf' = <<>> \/ (Head(todo).step # "flush_buf" /\ UNCHANGED writer_buf),
           flushed' \/ Head(todo).step # "flush_inner"
    PROVE  HistoryOK'
<1>1. todo' = Tail(todo) /\ UNCHANGED <<op, data, base, done>>
  BY DEF Proceed
<1>2. \/ /\ Len(todo) = 1 /\ todo' = <<>> /\ LastStep = Head(todo)
      \/ /\ Len(todo) > 1 /\ todo' # <<>> /\ LastStep' = LastStep
  BY <1>1, LastOfTail
<1>3. /\ op \in Writing => todo' # <<>> /\ LastStep' = LastStep
      /\ op = "into_inner" => todo' = <<>>
  BY <1>1, <1>2 DEF HistoryOK, Writing
<1>4. op \in {"flush", "into_inner"} => writer_buf' = <<>>
  BY DEF HistoryOK, Emptied
<1>5. op = "flush" => IF todo' = <<>> THEN flushed' ELSE LastStep'.step = "flush_inner"
  BY <1>1, <1>2 DEF HistoryOK
<1> QED
  BY <1>1, <1>3, <1>4, <1>5 DEF HistoryOK, Writing

\* A step of a read: reads write nothing.
LEMMA ReadHistory ==
    ASSUME HistoryOK, op \in ReadOps, UNCHANGED <<op, base, Stream>>
    PROVE  HistoryOK'
BY DEF HistoryOK, ReadOps, Writing

\* A write transfers the next m bytes of its slice, as its last step or as a
\* turn of inner.write_all.
LEMMA WriteHistory ==
    ASSUME IInv, HistoryOK, todo # <<>>, Head(todo).step \in WriteSteps,
           NEW m \in 0 .. (Limit - done), Stream' = Stream \o Slice(m),
           \/ Proceed(Tail(todo), done + m) /\ (op = "write_all" => done + m = Limit)
           \/ Proceed(todo, done + m) /\ At("direct_all")
    PROVE  HistoryOK'
<1>1. /\ Limit \in Nat /\ done \in Nat /\ Limit <= Len(data) /\ data \in Seq(Byte)
      /\ op \in Writing /\ Len(todo) = 1 /\ Head(todo) = todo[1] /\ Tail(todo) = <<>>
  BY AtWriteStep DEF Writing
<1>2. base \in Seq(Byte)
  BY DEF IInv, TypeOK, TypeOver
<1>3. /\ UNCHANGED <<op, data, base>> /\ done' = done + m
      /\ done + m <= Len(data) /\ m \in Nat
  <2>1. UNCHANGED <<op, data, base>> /\ done' = done + m
    BY DEF Proceed
  <2>2. Len(data) \in Nat
    BY <1>1, LenProperties
  <2> QED
    BY <1>1, <2>1, <2>2
<1>4. Stream' = base \o SubSeq(data, 1, done + m)
  <2>1. Stream = base \o SubSeq(data, 1, done)
    BY <1>1 DEF HistoryOK
  <2>2. Stream' = (base \o SubSeq(data, 1, done)) \o SubSeq(data, done + 1, done + m)
    BY <2>1 DEF Slice
  <2> QED
    BY <1>1, <1>2, <1>3, <2>2, NextSlice
<1>5. LastStep = Head(todo) /\ Limit = Len(data)
  <2>1. LastStep = Head(todo)
    BY <1>1 DEF LastStep
  <2> QED
    BY <1>1, <2>1 DEF HistoryOK, Limit
<1>6. CASE todo' = <<>> /\ (op = "write_all" => done + m = Limit)
  BY <1>1, <1>3, <1>4, <1>5, <1>6 DEF HistoryOK, Writing
<1>7. CASE todo' = todo /\ At("direct_all")
  <2>1. op = "write_all" /\ LastStep' = LastStep
    BY <1>1, <1>5, <1>7 DEF HistoryOK, At, Writing, LastStep
  <2> QED
    BY <1>1, <1>3, <1>4, <1>5, <1>7, <2>1 DEF HistoryOK, Writing
<1> QED
  BY <1>1, <1>6, <1>7 DEF Proceed

LEMMA PlacingHistory == IInv /\ HistoryOK /\ (Extend \/ Direct \/ DirectAll) => HistoryOK'
<1> SUFFICES ASSUME IInv, HistoryOK, Extend \/ Direct \/ DirectAll PROVE HistoryOK'
  OBVIOUS
<1>1. /\ todo # <<>> /\ Head(todo).step \in WriteSteps
  BY DEF Extend, Direct, DirectAll, At, WriteSteps, Placing
<1>2. /\ Limit \in Nat /\ done \in Nat /\ done <= Limit /\ op \in Writing
      /\ LastStep = Head(todo)
  BY <1>1, AtWriteStep DEF Writing, LastStep
<1>3. Stream \in Seq(Byte) /\ \A m \in 0 .. Least(Limit - done, Room) : m \in 0 .. (Limit - done)
  BY <1>2, StreamTypes, RoomIsInt, LeastIsLess
<1>4. CASE Extend
  <2>1. Stream' = Stream \o Slice(Limit - done)
    BY <1>4, ExtendGrows
  <2>2. Limit - done \in 0 .. (Limit - done) /\ done + (Limit - done) = Limit
    BY <1>2
  <2>3. Proceed(Tail(todo), done + (Limit - done))
    BY <1>4, <2>2 DEF Extend
  <2> QED
    BY <1>1, <2>1, <2>2, <2>3, WriteHistory
<1>5. CASE Direct
  <2>1. PICK m \in 0 .. Least(Limit - done, Room) :
          sink' = sink \o Slice(m) /\ Proceed(Tail(todo), done + m)
    BY <1>5 DEF Direct, Send
  <2>2. Stream' = Stream \o Slice(m)
    BY <1>5, <2>1, DirectStream DEF Direct
  <2>3. op # "write_all"
    BY <1>1, <1>2, <1>5 DEF Direct, At, HistoryOK
  <2> QED
    BY <1>1, <1>3, <2>1, <2>2, <2>3, WriteHistory
<1>6. CASE DirectAll
  <2>1. At("direct_all") /\ Stream = sink /\ Stream' = sink'
    BY <1>6, DirectStream DEF DirectAll
  <2>2. ASSUME NEW m \in 1 .. Least(Limit - done, Room), Send(Slice(m)), Proceed(todo, done + m)
        PROVE  HistoryOK'
    <3>1. Stream' = Stream \o Slice(m)
      BY <2>1, <2>2 DEF Send
    <3>2. m \in 0 .. (Limit - done)
      BY <1>2, RoomIsInt, LeastIsLess
    <3> QED
      BY <1>1, <2>1, <2>2, <3>1, <3>2, WriteHistory
  <2>3. CASE done = Limit /\ Proceed(Tail(todo), done) /\ UNCHANGED out
    <3>1. Slice(0) = <<>>
      BY <1>2, EmptySeq DEF Slice
    <3>2. Stream' = Stream \o Slice(0)
      BY <1>3, <2>1, <2>3, <3>1, ConcatEmptySeq DEF out
    <3>3. done + 0 = done /\ 0 \in 0 .. (Limit - done)
      BY <1>2
    <3> QED
      BY <1>1, <2>3, <3>2, <3>3, WriteHistory
  <2> QED
    BY <1>6, <2>2, <2>3 DEF DirectAll
<1> QED
  BY <1>4, <1>5, <1>6

\* Where a write puts its bytes.
Place == IF Limit - done < WriterCapacity THEN "extend"
         ELSE IF At("write") THEN "direct" ELSE "direct_all"

\* The tests of the room leave one step in place of the first, behind a flush
\* or not.
LEMMA CheckRoomPlan ==
    ASSUME IInv, CheckRoom
    PROVE  todo' = <<Step(Place, Limit)>> \/ todo' = <<Step("flush_buf", 0), Step(Place, Limit)>>
<1> DEFINE last == Step(Place, Limit)
<1>1. todo # <<>> /\ Head(todo).step \in WriteSteps
  BY DEF CheckRoom, At, WriteSteps
<1>2. Limit \in Nat /\ Tail(todo) = <<>>
  BY <1>1, AtWriteStep
<1>3. last \in [step : Steps, n : Nat] /\ Step("flush_buf", 0) \in [step : Steps, n : Nat]
  BY <1>2 DEF Step, Steps, Place
<1>4. \/ todo' = <<>> \o <<last>> \o <<>>
      \/ todo' = <<Step("flush_buf", 0)>> \o <<last>> \o <<>>
  BY <1>2 DEF CheckRoom, Proceed, Place
<1> HIDE DEF last
<1>5. <<last>> \in Plans /\ <<Step("flush_buf", 0)>> \in Plans
  BY <1>3, Push, EmptySeq DEF Plans
<1>6. <<>> \o <<last>> = <<last>> /\ <<last>> \o <<>> = <<last>>
  BY <1>5, ConcatEmptySeq DEF Plans
<1>7. <<Step("flush_buf", 0)>> \o <<last>> = <<Step("flush_buf", 0), last>>
  BY <1>3, Pair
<1>8. <<Step("flush_buf", 0), last>> \o <<>> = <<Step("flush_buf", 0), last>>
  BY <1>3, Pair, ConcatEmptySeq DEF Plans
<1> QED
  BY <1>4, <1>6, <1>7, <1>8 DEF last

\* The tests of the room leave the last step a step of the same write.
LEMMA CheckRoomHistory == IInv /\ HistoryOK /\ CheckRoom => HistoryOK'
<1> SUFFICES ASSUME IInv, HistoryOK, CheckRoom PROVE HistoryOK'
  OBVIOUS
<1> DEFINE last == Step(Place, Limit)
<1>1. /\ todo # <<>> /\ Head(todo).step \in WriteSteps
      /\ At("write") \/ At("write_all")
  BY DEF CheckRoom, At, WriteSteps
<1>2. op \in Writing /\ LastStep = Head(todo)
  BY <1>1, AtWriteStep DEF Writing, LastStep
<1>3. Stream' = Stream /\ UNCHANGED <<op, data, base, done>>
  BY StreamStays DEF CheckRoom, guts, out, Proceed
<1>4. todo' # <<>> /\ LastStep' = last
  <2>1. todo' = <<last>> \/ todo' = <<Step("flush_buf", 0), last>>
    BY CheckRoomPlan
  <2> HIDE DEF last
  <2>2. CASE todo' = <<last>>
    BY <2>2 DEF LastStep
  <2>3. CASE todo' = <<Step("flush_buf", 0), last>>
    BY <2>3 DEF LastStep
  <2> QED
    BY <2>1, <2>2, <2>3
<1>5. LastStep'.step = Place /\ LastStep'.n = Len(data')
  BY <1>1, <1>2, <1>3, <1>4 DEF HistoryOK, Step, Limit
<1>6. op = "write_all" => Place \notin {"write", "direct"}
  BY <1>1, <1>2 DEF HistoryOK, At, Place
<1>7. op = "write" => done = 0 /\ Place \notin {"write_all", "direct_all"}
  BY <1>1, <1>2 DEF HistoryOK, At, Place
<1>8. Place \in WriteSteps
  BY DEF WriteSteps, Placing, Place
<1> QED
  BY <1>1, <1>2, <1>3, <1>4, <1>5, <1>6, <1>7, <1>8 DEF HistoryOK, Writing

\* Going round a loop that sends bytes of the buffer: the call has not moved.
LEMMA LoopHistory == IInv /\ HistoryOK /\ (FlushWrite \/ FlushRetry \/ DirectRetry) => HistoryOK'
<1> SUFFICES ASSUME IInv, HistoryOK, FlushWrite \/ FlushRetry \/ DirectRetry PROVE HistoryOK'
  OBVIOUS
<1>1. Stream' = Stream
  <2>1. FlushRetry \/ DirectRetry => UNCHANGED <<writer_buf, written, sink>>
    BY DEF FlushRetry, DirectRetry, out
  <2> QED
    BY <2>1, StreamStays, FlushWriteMoves
<1>2. UNCHANGED <<op, data, todo, done, base, writer_buf>> /\ todo # <<>>
  BY DEF FlushWrite, FlushRetry, DirectRetry, frame, At
<1> QED
  BY <1>1, <1>2 DEF HistoryOK, Writing, LastStep, Emptied

LEMMA FlushHistory == IInv /\ HistoryOK /\ (FlushBuf \/ FlushInner) => HistoryOK'
<1> SUFFICES ASSUME IInv, HistoryOK, FlushBuf \/ FlushInner PROVE HistoryOK'
  OBVIOUS
<1>1. /\ todo # <<>> /\ Head(todo).step \notin WriteSteps
      /\ FlushBuf => Head(todo).step = "flush_buf"
      /\ FlushInner => Head(todo).step = "flush_inner"
  BY DEF FlushBuf, FlushInner, At, WriteSteps, Placing
<1>2. Stream' = Stream
  BY QuietStream DEF Quiet
<1>3. CASE FlushBuf
  <2>1. writer_buf' = <<>>
    BY <1>3, RemainingIsBytes, EmptySeq DEF FlushBuf, Drain
  <2> QED
    BY <1>1, <1>2, <1>3, <2>1, StepDone DEF FlushBuf
<1>4. CASE FlushInner
  <2>1. CASE flushed' = TRUE /\ Proceed(Tail(todo), done)
    BY <1>1, <1>2, <1>4, <2>1, StepDone DEF FlushInner, guts
  <2>2. CASE \E k \in Faults : Leave(k)
    BY <2>2, EndsHistory DEF Leave
  <2> QED
    BY <1>4, <2>1, <2>2 DEF FlushInner
<1> QED
  BY <1>3, <1>4

LEMMA ReadsHistory ==
    IInv /\ HistoryOK /\ (ChooseRead \/ ReadDirect \/ Fill \/ Take \/ Scan) => HistoryOK'
<1> SUFFICES ASSUME IInv, HistoryOK, ChooseRead \/ ReadDirect \/ Fill \/ Take \/ Scan
             PROVE  HistoryOK'
  OBVIOUS
<1>1. Stream' = Stream /\ UNCHANGED <<op, base, writer_buf>> /\ todo # <<>>
  BY StreamStays DEF ChooseRead, ReadDirect, Fill, Take, Scan, guts, out, Proceed, At
<1>2. CASE Fill
  BY <1>1, <1>2, StepDone DEF Fill, At, WriteSteps, Placing
<1>3. CASE ~Fill
  <2>1. Head(todo).step \in ReadSteps
    BY <1>3 DEF ChooseRead, ReadDirect, Take, Scan, At, ReadSteps
  <2>2. op \in ReadOps
    BY <1>1, <2>1, PlanHead DEF IInv, PlanOK
  <2> QED
    BY <1>1, <2>2, ReadHistory
<1> QED
  BY <1>2, <1>3

\* A call starts with the stream as it is.
LEMMA CallHistory ==
    ASSUME IInv, NEW o, NEW d \in Seq(Byte), NEW plan, Call(o, d, plan)
    PROVE  /\ op' = o /\ data' = d /\ todo' = plan /\ done' = 0
           /\ Stream' = Stream /\ base' = Stream
           /\ done' <= Len(data') /\ Stream' = base' \o SubSeq(data', 1, done')
<1>1. /\ op' = o /\ data' = d /\ todo' = plan /\ done' = 0
      /\ base' = Stream /\ UNCHANGED <<writer_buf, written, sink>>
  BY DEF Call, guts, out
<1>2. Stream' = Stream /\ Stream \in Seq(Byte)
  BY <1>1, StreamStays, StreamTypes
<1>3. Stream = Stream \o SubSeq(d, 1, 0)
  BY <1>2, NoSlice
<1>4. 0 <= Len(d)
  BY LenProperties
<1> QED
  BY <1>1, <1>2, <1>3, <1>4

LEMMA CallingHistory == IInv /\ HistoryOK /\ Calling => HistoryOK'
<1> SUFFICES ASSUME IInv, HistoryOK, Calling PROVE HistoryOK'
  OBVIOUS
<1>1. ASSUME NEW d \in Strings(MaxLen), Write(d) \/ WriteAll(d) PROVE HistoryOK'
  <2>1. d \in Seq(Byte)
    BY StringsAreSequences, BoundAssumption
  <2>2. CASE Write(d)
    <3>1. Call("write", d, <<Step("write", Len(d))>>)
      BY <2>2 DEF Write
    <3>2. /\ op' = "write" /\ data' = d /\ todo' = <<Step("write", Len(d))>> /\ done' = 0
          /\ done' <= Len(data') /\ Stream' = base' \o SubSeq(data', 1, done')
      BY <2>1, <3>1, CallHistory
    <3>3. LastStep' = Step("write", Len(d)) /\ todo' # <<>>
      BY <3>2 DEF LastStep
    <3> QED
      BY <3>2, <3>3 DEF HistoryOK, Writing, Step, WriteSteps
  <2>3. CASE WriteAll(d)
    <3>1. Call("write_all", d, <<Step("write_all", Len(d))>>)
      BY <2>3 DEF WriteAll
    <3>2. /\ op' = "write_all" /\ data' = d /\ todo' = <<Step("write_all", Len(d))>> /\ done' = 0
          /\ done' <= Len(data') /\ Stream' = base' \o SubSeq(data', 1, done')
      BY <2>1, <3>1, CallHistory
    <3>3. LastStep' = Step("write_all", Len(d)) /\ todo' # <<>>
      BY <3>2 DEF LastStep
    <3> QED
      BY <3>2, <3>3 DEF HistoryOK, Writing, Step, WriteSteps
  <2> QED
    BY <1>1, <2>2, <2>3
<1>2. <<>> \in Seq(Byte)
  BY EmptySeq
<1>3. CASE Flush
  <2>1. Call("flush", <<>>, FlushPlan)
    BY <1>3 DEF Flush
  <2>2. op' = "flush" /\ todo' = FlushPlan /\ Stream' = base'
    BY <1>2, <2>1, CallHistory
  <2>3. LastStep'.step = "flush_inner" /\ todo' # <<>> /\ Head(todo').step = "flush_buf"
    BY <2>2 DEF LastStep, FlushPlan, Step
  <2> QED
    BY <2>2, <2>3 DEF HistoryOK, Writing, Emptied
<1>4. CASE IntoInner
  <2>1. Call("into_inner", <<>>, <<Step("flush_buf", 0)>>)
    BY <1>4 DEF IntoInner
  <2>2. op' = "into_inner" /\ todo' = <<Step("flush_buf", 0)>> /\ Stream' = base'
    BY <1>2, <2>1, CallHistory
  <2>3. Len(todo') = 1 /\ todo' # <<>> /\ Head(todo').step = "flush_buf"
    BY <2>2 DEF Step
  <2> QED
    BY <2>2, <2>3 DEF HistoryOK, Writing, Emptied
<1>5. ASSUME NEW o \in {"read", "read_until", "read_line", "fill_buf", "drop"},
             NEW d \in Seq(Byte), NEW plan, Call(o, d, plan)
      PROVE  HistoryOK'
  <2>1. op' = o /\ Stream' = base'
    BY <1>5, CallHistory
  <2> QED
    BY <2>1 DEF HistoryOK, Writing
<1>6. CASE \E n \in Nat : Read(n)
  BY <1>2, <1>5, <1>6 DEF Read
<1>7. ASSUME NEW b \in Byte, ReadUntil(b) \/ ReadLine(b) PROVE HistoryOK'
  <2>1. <<b>> \in Seq(Byte)
    OBVIOUS
  <2> QED
    BY <1>5, <1>7, <2>1 DEF ReadUntil, ReadLine, Search
<1>8. CASE FillBuf
  BY <1>2, <1>5, <1>8 DEF FillBuf
<1>9. CASE Drop
  <2>1. Call("drop", <<>>, <<Step("flush_buf", 0)>>) \/ op' = "none"
    BY <1>9 DEF Drop
  <2> QED
    BY <1>2, <1>5, <2>1, EndsHistory
<1> QED
  BY <1>1, <1>3, <1>4, <1>6, <1>7, <1>8, <1>9 DEF Calling, WriteCalls, CloseCalls

\* The steps a call ends with: every failure, every panic, and the return.
Ending == DirectFails \/ DirectPanics \/ FlushFails \/ FlushPanics \/ ReadFails \/ Return

LEMMA EndingHistory == Ending => HistoryOK'
<1>1. Ending => op' = "none"
  BY DEF Ending, DirectFails, DirectPanics, FlushFails, FlushPanics, ReadFails, NotUtf8, Return,
         Leave
<1> QED
  BY <1>1, EndsHistory

LEMMA ConsumeHistory == HistoryOK /\ (\E n \in Nat : Consume(n)) => HistoryOK'
<1>1. (\E n \in Nat : Consume(n)) => op' = "none"
  BY DEF Consume, frame
<1> QED
  BY <1>1, EndsHistory

LEMMA StutterHistory == HistoryOK /\ UNCHANGED vars => HistoryOK'
<1> SUFFICES ASSUME HistoryOK, UNCHANGED vars PROVE HistoryOK'
  OBVIOUS
<1>1. /\ UNCHANGED <<op, data, todo, done, base, writer_buf, written, sink, flushed>>
  BY DEF vars, guts, out, frame
<1>2. Stream' = Stream
  BY <1>1, StreamStays
<1> QED
  BY <1>1, <1>2 DEF HistoryOK, Writing, LastStep, Emptied

LEMMA HistoryStep == IInv /\ HistoryOK /\ [Next]_vars => HistoryOK'
BY NextIs, CallingHistory, ConsumeHistory, PlacingHistory, CheckRoomHistory, LoopHistory,
   FlushHistory, ReadsHistory, EndingHistory, StutterHistory DEF Quiet, Ending

LEMMA HistoryHolds == Spec => [](IInv /\ HistoryOK)
<1>1. Init => HistoryOK
  BY DEF Init, HistoryOK, Writing
<1>2. IInv /\ HistoryOK /\ [Next]_vars => HistoryOK'
  BY HistoryStep
<1> QED
  BY <1>1, <1>2, InvariantHolds, PTL DEF Spec

(***************************************************************************)
(* What the owner is told                                                  *)
(***************************************************************************)
\* A call ends by returning, with its plan run, or by failing in a step; what
\* read_line fails for at its end is no business of a write.
LEMMA HowCallsEnd ==
    ASSUME IInv, [Next]_vars, Returns
    PROVE  /\ Stream' = Stream
           /\ \/ Return
              \/ (todo # <<>> \/ op \notin Writing) /\ ret'.kind # "ok"
<1>1. op # "none" /\ op' = "none"
  BY DEF Returns
<1>2. Quiet
  <2>1. ~(Calling \/ (\E n \in Nat : Consume(n)) \/ UNCHANGED vars)
    BY <1>1 DEF Calling, WriteCalls, Write, WriteAll, Flush, FillBuf, CloseCalls, IntoInner,
         Drop, Read, ReadUntil, ReadLine, Search, Call, Consume, vars, frame
  <2>2. ~(Extend \/ Direct \/ DirectAll \/ FlushWrite \/ Fill \/ ReadDirect \/ Take \/ Scan)
    BY <1>1 DEF Extend, Direct, DirectAll, FlushWrite, Fill, ReadDirect, Take, Scan, Proceed, frame
  <2> QED
    BY <2>1, <2>2, NextIs
<1>3. \/ Return
      \/ (todo # <<>> \/ op \notin Writing) /\ \E k \in Results \ {"ok"} : Leave(k)
  <2>1. ~(CheckRoom \/ DirectRetry \/ FlushBuf \/ FlushRetry \/ ChooseRead)
    BY <1>1 DEF CheckRoom, DirectRetry, FlushBuf, FlushRetry, ChooseRead, Proceed, frame
  <2>2. Faults \subseteq Results \ {"ok"} /\ {"zero", "err", "panic", "invalid"} \subseteq Results \ {"ok"}
    BY FaultAssumption DEF Results, FaultKinds
  <2>3. FlushInner => todo # <<>> /\ \E k \in Faults : Leave(k)
    BY <1>1 DEF FlushInner, Proceed, At
  <2> QED
    BY <1>2, <2>1, <2>2, <2>3
       DEF Quiet, DirectFails, DirectPanics, FlushFails, FlushPanics, ReadFails, NotUtf8, At,
           Writing
<1>4. \A k : Leave(k) => ret'.kind = k
  BY DEF Leave
<1> QED
  BY <1>2, <1>3, <1>4, QuietStream

\* What HonestReturns says of a step that ends a call.
Honest ==
    IF ret'.kind = "ok" /\ op \in {"write", "write_all"}
    THEN /\ Stream' = base \o SubSeq(data, 1, ret'.n)
         /\ op = "write_all" => ret'.n = Len(data)
    ELSE IF op = "write_all"
    THEN IsPrefix(base, Stream') /\ IsPrefix(Stream', base \o data)
    ELSE Stream' = base

\* A write that ends leaves in the stream what it transferred of its slice.
LEMMA HonestWrite ==
    ASSUME op \in Writing, base \in Seq(Byte), data \in Seq(Byte), done \in 0 .. Len(data),
           Stream = base \o SubSeq(data, 1, done), Stream' = Stream,
           \/ /\ ret' = [kind |-> "ok", n |-> done]
              /\ op = "write_all" => done = Len(data)
           \/ /\ ret'.kind # "ok"
              /\ op = "write" => done = 0
    PROVE  Honest
<1>1. CASE ret' = [kind |-> "ok", n |-> done] /\ (op = "write_all" => done = Len(data))
  <2>1. ret'.kind = "ok" /\ ret'.n = done
    BY <1>1
  <2> QED
    BY <1>1, <2>1 DEF Writing, Honest
<1>2. CASE op = "write" /\ ret'.kind # "ok" /\ done = 0
  <2>1. Stream = base
    BY <1>2, NoSlice
  <2> QED
    BY <1>2, <2>1 DEF Honest
<1>3. CASE op = "write_all" /\ ret'.kind # "ok"
  <2> DEFINE A == SubSeq(data, 1, done)
             B == SubSeq(data, done + 1, Len(data))
  <2>1. A \in Seq(Byte) /\ B \in Seq(Byte) /\ data = A \o B /\ Stream = base \o A
    BY CutInTwo
  <2> HIDE DEF A, B
  <2>2. base \o data = (base \o A) \o B /\ base \o A \in Seq(Byte)
    BY <2>1, Assoc, ConcatProperties
  <2>3. IsPrefix(base, base \o A) /\ IsPrefix(base \o A, (base \o A) \o B)
    BY <2>1, <2>2, GrowsAtItsEnd
  <2> QED
    BY <1>3, <2>1, <2>2, <2>3 DEF Honest
<1> QED
  BY <1>1, <1>2, <1>3 DEF Writing

LEMMA HonestStep == IInv /\ HistoryOK /\ [Next]_vars => (Returns => Honest)
<1> SUFFICES ASSUME IInv, HistoryOK, [Next]_vars, Returns PROVE Honest
  OBVIOUS
<1>1. /\ Stream' = Stream
      /\ Return \/ ((todo # <<>> \/ op \notin Writing) /\ ret'.kind # "ok")
  BY HowCallsEnd
<1>2. base \in Seq(Byte) /\ data \in Seq(Byte) /\ done \in Nat /\ op # "none"
  BY DEF IInv, TypeOK, TypeOver, Returns
<1>3. CASE op \in Writing
  <2>1. done \in 0 .. Len(data) /\ Stream = base \o SubSeq(data, 1, done)
    BY <1>2, <1>3, LenProperties DEF HistoryOK
  <2>2. Return => /\ ret' = [kind |-> "ok", n |-> done]
                  /\ op = "write_all" => done = Len(data)
    BY DEF Return, Leave, HistoryOK
  <2>3. todo # <<>> => (op = "write" => done = 0)
    BY <1>3 DEF HistoryOK
  <2> QED
    BY <1>1, <1>2, <1>3, <2>1, <2>2, <2>3, HonestWrite
<1>4. CASE op \notin Writing
  BY <1>1, <1>2, <1>4 DEF HistoryOK, Writing, Honest
<1> QED
  BY <1>3, <1>4

\* Ok(n) of a write or a write_all means that the first n bytes of the slice
\* and no others joined the stream; a write_all that fails leaves a prefix of
\* its slice there; and no other call adds, drops or reorders a byte, whatever
\* the inner handle answers and however the call ends.
THEOREM CallsAreHonest == Spec => HonestReturns
<1>1. IInv /\ HistoryOK /\ [Next]_vars => (Returns => Honest)
  BY HonestStep
<1> QED
  BY <1>1, HistoryHolds, PTL DEF Spec, HonestReturns, Honest

\* What FlushDelivers says of a step.
Delivered ==
    Returns /\ ret'.kind = "ok" /\ op \in {"flush", "into_inner"}
        => sink' = base /\ writer_buf' = <<>> /\ (op = "flush" => flushed')

LEMMA DeliveredStep == IInv /\ HistoryOK /\ [Next]_vars => Delivered
<1> SUFFICES ASSUME IInv, HistoryOK, [Next]_vars, Returns, ret'.kind = "ok",
                    op \in {"flush", "into_inner"}
             PROVE  sink' = base /\ writer_buf' = <<>> /\ (op = "flush" => flushed')
  BY DEF Delivered
<1>1. Return
  BY HowCallsEnd
<1>2. /\ todo = <<>> /\ UNCHANGED <<writer_buf, sink, flushed>>
  BY <1>1 DEF Return, guts, out
<1>3. writer_buf = <<>> /\ Stream = base /\ (op = "flush" => flushed)
  BY <1>2 DEF HistoryOK, Emptied, Writing
<1>4. Remaining = <<>>
  <2>1. Len(Remaining) = 0 /\ Remaining \in Seq(Byte)
    BY <1>3, RemainingIsBytes
  <2> QED
    BY <2>1, EmptySeq
<1>5. Stream = sink
  BY <1>4, StreamTypes, ConcatEmptySeq
<1> QED
  BY <1>2, <1>3, <1>5

\* When flush returns Ok, and when into_inner hands the inner handle back,
\* every byte accepted has been acknowledged by the inner writer, in order,
\* and after flush the inner writer has been flushed since.
THEOREM FlushesDeliver == Spec => FlushDelivers
<1>1. IInv /\ HistoryOK /\ [Next]_vars => Delivered
  BY DeliveredStep
<1> QED
  BY <1>1, HistoryHolds, PTL DEF Spec, FlushDelivers, Delivered

(***************************************************************************)
(* How much a call has left to do                                          *)
(***************************************************************************)
\* The source never gives more than it has, and a plan that a read is still to
\* turn into others has nothing behind it.
BoundOK ==
    /\ Len(supplied) <= SourceLength
    /\ \A i \in 1 .. Len(todo) : todo[i].step = "read" => i = Len(todo)

Unfolding == {"write", "write_all", "read"}

LEMMA WorkTypes ==
    ASSUME IInv, HistoryOK, BoundOK
    PROVE  /\ StepsLeft \in Nat /\ BytesLeft \in Nat
           /\ Len(taken) \in Nat /\ Len(taken) <= SourceLength
           /\ Work \in Nat
<1>1. Len(todo) \in Nat /\ done \in Nat /\ Len(data) \in Nat
  BY DEF IInv, TypeOK, TypeOver
<1>2. StepsLeft \in Nat
  BY <1>1 DEF StepsLeft
<1>3. BytesLeft \in Nat
  <2>1. Len(Remaining) \in Nat
    BY RemainingIsBytes
  <2>2. op \in Writing => Len(data) - done \in Nat
    BY <1>1 DEF HistoryOK
  <2> QED
    BY <2>1, <2>2 DEF BytesLeft, Writing
<1>4. Len(taken) \in Nat /\ Len(taken) <= SourceLength
  <2>1. Len(supplied) = Len(taken) + Len(Unread) /\ Len(taken) \in Nat /\ Len(Unread) \in Nat
    BY ReaderTypes, ConcatProperties, LenProperties
  <2> QED
    BY <2>1, BoundAssumption DEF BoundOK
<1> QED
  BY <1>2, <1>3, <1>4, BoundAssumption DEF Work

\* A plan with a step done is shorter, and ends with the step it ended with.
LEMMA StepsGoDown ==
    ASSUME IInv, todo # <<>>, todo' = Tail(todo)
    PROVE  StepsLeft' \in Nat /\ StepsLeft \in Nat /\ StepsLeft' < StepsLeft
<1>1. todo \in Plans
  BY DEF IInv, TypeOK, TypeOver, Plans
<1>2. Len(todo) \in Nat \ {0} /\ Len(todo') = Len(todo) - 1
  BY <1>1, Head1
<1>3. CASE Len(todo) = 1 /\ todo' = <<>>
  BY <1>3 DEF StepsLeft
<1>4. CASE Len(todo) > 1 /\ todo' # <<>> /\ LastStep' = LastStep
  BY <1>2, <1>4 DEF StepsLeft, LastStep
<1> QED
  BY <1>3, <1>4, LastOfTail

\* What is left in the buffer after a step.
LEMMA RemainingThen ==
    ASSUME writer_buf' \in Seq(Byte), written' \in 0 .. Len(writer_buf')
    PROVE  Len(Remaining') = Len(writer_buf') - written'
<1>1. written' \in Nat /\ Len(writer_buf') \in Nat
  BY LenProperties
<1>2. Remaining' = SubSeq(writer_buf', written' + 1, Len(writer_buf'))
  BY DEF Remaining
<1> QED
  BY <1>1, <1>2, Cut

LEMMA BytesStay ==
    ASSUME UNCHANGED <<writer_buf, written, op, data>>, op \notin Writing \/ done' = done
    PROVE  BytesLeft' = BytesLeft
BY DEF BytesLeft, Remaining, Writing

LEMMA CheckRoomWorks == IInv /\ CheckRoom => StepsLeft' < StepsLeft /\ BytesLeft' = BytesLeft
<1> SUFFICES ASSUME IInv, CheckRoom
             PROVE  StepsLeft' < StepsLeft /\ BytesLeft' = BytesLeft
  OBVIOUS
<1>1. /\ todo # <<>> /\ Head(todo).step \in WriteSteps
      /\ Head(todo).step \in Unfolding
  BY DEF CheckRoom, At, WriteSteps, Unfolding
<1>2. Len(todo) = 1 /\ todo[1].step \in Unfolding
  BY <1>1, AtWriteStep
<1>3. StepsLeft = 3
  BY <1>1, <1>2 DEF StepsLeft, Unfolding
<1>4. Place \notin Unfolding
  BY DEF Place, Unfolding
<1>5. BytesLeft' = BytesLeft
  BY BytesStay DEF CheckRoom, Proceed, guts
<1>6. CASE todo' = <<Step(Place, Limit)>>
  BY <1>3, <1>4, <1>6, <1>5 DEF StepsLeft, Unfolding, Step
<1>7. CASE todo' = <<Step("flush_buf", 0), Step(Place, Limit)>>
  BY <1>3, <1>4, <1>7, <1>5 DEF StepsLeft, Unfolding, Step
<1> QED
  BY <1>6, <1>7, CheckRoomPlan

\* The steps that place bytes of a slice: a byte placed is one less to place.
LEMMA PlacingWorks ==
    ASSUME IInv, HistoryOK, Extend \/ Direct \/ DirectAll
    PROVE  \/ StepsLeft' < StepsLeft /\ BytesLeft' <= BytesLeft
           \/ StepsLeft' = StepsLeft /\ BytesLeft' < BytesLeft
<1>1. todo # <<>> /\ Head(todo).step \in WriteSteps /\ ~At("flush_buf")
  BY DEF Extend, Direct, DirectAll, At, WriteSteps, Placing
<1>2. /\ Limit \in Nat /\ done \in Nat /\ done <= Limit /\ op \in Writing
      /\ Limit <= Len(data) /\ Len(data) \in Nat
  BY <1>1, AtWriteStep, LenProperties DEF Writing
<1>3. written = 0 /\ Len(Remaining) = Len(writer_buf) /\ Len(writer_buf) \in Nat
      /\ writer_buf \in Seq(Byte)
  BY <1>1, AllWaits DEF IInv, TypeOK, TypeOver
<1>4. BytesLeft = Len(writer_buf) + (Len(data) - done)
  BY <1>2, <1>3 DEF BytesLeft, Writing
<1>5. ASSUME UNCHANGED <<writer_buf, written, op, data>>
      PROVE  BytesLeft' = Len(writer_buf) + (Len(data) - done')
  BY <1>2, <1>3, <1>5 DEF BytesLeft, Writing, Remaining
<1>6. CASE Extend
  <2>1. Slice(Limit - done) \in Seq(Byte) /\ Len(Slice(Limit - done)) = Limit - done
    BY <1>1, <1>2, SliceIsBytes
  <2>2. /\ writer_buf' \in Seq(Byte) /\ Len(writer_buf') = Len(writer_buf) + (Limit - done)
        /\ written' = 0
    <3> DEFINE piece == Slice(Limit - done)
    <3>1. writer_buf' = writer_buf \o piece /\ written' = written
      BY <1>6 DEF Extend
    <3>2. piece \in Seq(Byte) /\ Len(piece) = Limit - done
      BY <2>1
    <3> HIDE DEF piece
    <3>3. writer_buf \o piece \in Seq(Byte) /\ Len(writer_buf \o piece) = Len(writer_buf) + Len(piece)
      BY <1>3, <3>2, ConcatProperties
    <3> QED
      BY <1>3, <3>1, <3>2, <3>3
  <2>3. Len(Remaining') = Len(writer_buf) + (Limit - done)
    BY <1>2, <1>3, <2>2, RemainingThen
  <2>4. UNCHANGED <<op, data>> /\ done' = Limit /\ todo' = Tail(todo)
    BY <1>6 DEF Extend, Proceed
  <2>5. BytesLeft' = Len(writer_buf) + (Limit - done) + (Len(data) - Limit)
    BY <1>2, <2>3, <2>4 DEF BytesLeft, Writing
  <2> QED
    BY <1>1, <1>2, <1>3, <1>4, <2>4, <2>5, StepsGoDown
<1>7. CASE Direct
  <2>1. PICK m \in 0 .. Least(Limit - done, Room) : Proceed(Tail(todo), done + m)
    BY <1>7 DEF Direct
  <2>2. m \in Nat /\ done' = done + m /\ todo' = Tail(todo) /\ UNCHANGED <<op, data>>
    BY <1>2, <2>1, RoomIsInt, LeastIsLess DEF Proceed
  <2>3. BytesLeft' = Len(writer_buf) + (Len(data) - done')
    BY <1>5, <1>7, <2>2 DEF Direct
  <2> QED
    BY <1>1, <1>2, <1>3, <1>4, <2>2, <2>3, StepsGoDown
<1>8. CASE DirectAll
  <2>1. UNCHANGED <<writer_buf, written>>
    BY <1>8 DEF DirectAll
  <2>2. ASSUME NEW m \in 1 .. Least(Limit - done, Room), Proceed(todo, done + m)
        PROVE  StepsLeft' = StepsLeft /\ BytesLeft' < BytesLeft
    <3>1. m \in Nat \ {0} /\ done' = done + m /\ todo' = todo /\ UNCHANGED <<op, data>>
      BY <1>2, <2>2, RoomIsInt, LeastIsLess DEF Proceed
    <3>2. StepsLeft' = StepsLeft
      BY <3>1 DEF StepsLeft
    <3>3. BytesLeft' = Len(writer_buf) + (Len(data) - done')
      BY <1>5, <2>1, <3>1
    <3> QED
      BY <1>2, <1>3, <1>4, <3>1, <3>2, <3>3
  <2>3. ASSUME Proceed(Tail(todo), done)
        PROVE  StepsLeft' < StepsLeft /\ BytesLeft' = BytesLeft
    <3>1. todo' = Tail(todo) /\ UNCHANGED <<op, data, done>>
      BY <2>3 DEF Proceed
    <3> QED
      BY <1>1, <2>1, <3>1, BytesStay, StepsGoDown
  <2>5. BytesLeft <= BytesLeft
    BY <1>2, <1>3, <1>4
  <2> QED
    BY <1>8, <2>2, <2>3, <2>5 DEF DirectAll
<1> QED
  BY <1>6, <1>7, <1>8

\* The flush: a byte that the handle has taken is one less to write out, and
\* the guard forgets only those.
LEMMA FlushWorks ==
    ASSUME IInv, FlushBuf \/ FlushWrite \/ FlushInner, op' # "none"
    PROVE  \/ StepsLeft' < StepsLeft /\ BytesLeft' = BytesLeft
           \/ StepsLeft' = StepsLeft /\ BytesLeft' < BytesLeft
<1>1. todo # <<>>
  BY DEF FlushBuf, FlushWrite, FlushInner, At
<1>2. /\ writer_buf \in Seq(Byte) /\ Len(writer_buf) \in Nat /\ written \in 0 .. Len(writer_buf)
      /\ Remaining \in Seq(Byte) /\ Len(Remaining) = Len(writer_buf) - written
  BY RemainingIsBytes DEF IInv, TypeOK, TypeOver
<1>3. ASSUME Proceed(Tail(todo), done), Len(Remaining') = Len(Remaining)
      PROVE  StepsLeft' < StepsLeft /\ BytesLeft' = BytesLeft
  <2>1. todo' = Tail(todo) /\ UNCHANGED <<op, data, done>>
    BY <1>3 DEF Proceed
  <2> QED
    BY <1>1, <1>3, <2>1, StepsGoDown DEF BytesLeft
<1>4. CASE FlushBuf
  <2>1. Len(Remaining) = 0 /\ writer_buf' = Remaining /\ written' = 0
    BY <1>2, <1>4 DEF FlushBuf, Drain
  <2>2. Len(Remaining') = 0
    <3>1. writer_buf' \in Seq(Byte) /\ Len(writer_buf') = 0 /\ written' \in 0 .. Len(writer_buf')
      BY <1>2, <2>1
    <3>2. Len(Remaining') = Len(writer_buf') - written'
      BY <3>1, RemainingThen
    <3> QED
      BY <2>1, <3>1, <3>2
  <2> QED
    BY <1>3, <1>4, <2>1, <2>2 DEF FlushBuf
<1>5. CASE FlushWrite
  <2>1. PICK m \in 1 .. Least(Len(Remaining), Room) : written' = written + m
    BY <1>5 DEF FlushWrite
  <2>2. m \in Nat \ {0} /\ m <= Len(Remaining) /\ UNCHANGED <<writer_buf, op, data, done, todo>>
    BY <1>2, <1>5, <2>1, RoomIsInt, LeastIsLess DEF FlushWrite, frame
  <2>3. Len(Remaining') = Len(Remaining) - m
    BY <1>2, <2>1, <2>2, RemainingThen
  <2>4. StepsLeft' = StepsLeft
    BY <2>2 DEF StepsLeft
  <2>5. (Len(data) - done) \in Int
    BY LenProperties DEF IInv, TypeOK, TypeOver
  <2>6. Len(Remaining') < Len(Remaining) /\ Len(Remaining) \in Nat /\ Len(Remaining') \in Nat
    BY <1>2, <2>2, <2>3
  <2> QED
    BY <2>2, <2>4, <2>5, <2>6 DEF BytesLeft
<1>6. CASE FlushInner
  <2>1. Proceed(Tail(todo), done) /\ UNCHANGED <<writer_buf, written>>
    BY <1>6 DEF FlushInner, Leave, guts
  <2>2. Remaining' = Remaining
    BY <2>1 DEF Remaining
  <2> QED
    BY <1>3, <2>1, <2>2
<1> QED
  BY <1>4, <1>5, <1>6

\* Reads move no bytes towards the writer.
LEMMA ReadsKeepBytes ==
    ASSUME IInv, ChooseRead \/ ReadDirect \/ Fill \/ Take \/ Scan
    PROVE  BytesLeft' = BytesLeft /\ todo # <<>>
<1>1. UNCHANGED <<writer_buf, written, op, data>> /\ todo # <<>>
  BY DEF ChooseRead, ReadDirect, Fill, Take, Scan, guts, Proceed, At
<1>2. CASE ChooseRead \/ Fill
  BY <1>1, <1>2, BytesStay DEF ChooseRead, Fill, Proceed
<1>3. CASE ReadDirect \/ Take \/ Scan
  <2>1. Head(todo).step \in ReadSteps
    BY <1>3 DEF ReadDirect, Take, Scan, At, ReadSteps
  <2>2. op \in ReadOps
    BY <1>1, <2>1, PlanHead DEF IInv, PlanOK
  <2> QED
    BY <1>1, <2>2, BytesStay DEF ReadOps, Writing
<1> QED
  BY <1>2, <1>3

\* A read is replaced by one step or by two, with nothing behind them.
LEMMA ChooseReadPlan ==
    ASSUME IInv, BoundOK, ChooseRead
    PROVE  /\ Len(todo) = 1 /\ todo[1].step = "read"
           /\ \/ todo' = <<Step("read_direct", Limit)>>
              \/ todo' = <<Step("fill_buf", 0), Step("take", Limit)>>
<1>1. /\ todo # <<>> /\ todo[1].step = "read" /\ Limit \in Nat /\ Len(todo) \in Nat \ {0}
      /\ todo \in Plans
  BY PlanHead DEF ChooseRead, At, IInv, TypeOK, TypeOver, Plans
<1>2. Len(todo) = 1
  <2>1. 1 \in 1 .. Len(todo)
    BY <1>1
  <2> QED
    BY <1>1, <2>1 DEF BoundOK
<1>3. Tail(todo) = <<>>
  <2>1. Tail(todo) \in Plans /\ Len(Tail(todo)) = 0
    BY <1>1, <1>2, Head1
  <2> QED
    BY <2>1, EmptySeq DEF Plans
<1> DEFINE s == Step("read_direct", Limit)
           f == Step("fill_buf", 0)
           t == Step("take", Limit)
<1>4. {s, f, t} \subseteq [step : Steps, n : Nat]
  BY <1>1 DEF Step, Steps
<1>5. todo' = <<s>> \o <<>> \/ todo' = <<f, t>> \o <<>>
  BY <1>3 DEF ChooseRead, Proceed
<1> HIDE DEF s, f, t
<1>6. <<s>> \in Plans /\ <<f, t>> \in Plans
  BY <1>4 DEF Plans
<1>7. <<s>> \o <<>> = <<s>> /\ <<f, t>> \o <<>> = <<f, t>>
  BY <1>6, ConcatEmptySeq DEF Plans
<1> QED
  BY <1>1, <1>2, <1>5, <1>7 DEF s, f, t

\* A turn of read_until that does not end the loop: a step in front of the plan.
LEMMA RoundPlan ==
    ASSUME IInv, todo # <<>>, todo' = <<Step("fill_buf", 0)>> \o todo
    PROVE  /\ Len(todo) \in Nat \ {0} /\ Len(todo') = Len(todo) + 1 /\ todo' # <<>>
           /\ todo'[1] = Step("fill_buf", 0)
           /\ \A i \in 1 .. Len(todo) : todo'[i + 1] = todo[i]
<1> DEFINE s == Step("fill_buf", 0)
<1>1. todo \in Plans /\ Len(todo) \in Nat \ {0} /\ s \in [step : Steps, n : Nat]
  BY PlanHead DEF IInv, TypeOK, TypeOver, Plans, Step, Steps
<1>2. todo' = <<s>> \o todo
  OBVIOUS
<1> HIDE DEF s
<1>3. /\ Len(todo') = Len(todo) + 1 /\ todo'[1] = s
      /\ \A i \in 1 .. Len(todo) : todo'[i + 1] = todo[i]
  BY <1>1, <1>2, Push
<1>4. todo' # <<>>
  <2>1. Len(todo') > 0 /\ Len(<<>>) = 0
    BY <1>1, <1>3
  <2> QED
    BY <2>1
<1> QED
  BY <1>1, <1>3, <1>4 DEF s

\* Bytes taken.
LEMMA TakenGrows ==
    ASSUME IInv, NEW used \in 0 .. Len(Unread), Consumed(used)
    PROVE  Len(taken') = Len(taken) + used /\ used \in Nat
<1> DEFINE A == SubSeq(reader_buf, pos + 1, pos + used)
<1>1. /\ pos \in Nat /\ used \in Nat /\ pos + used \in Nat /\ pos + used <= Len(reader_buf)
      /\ reader_buf \in Seq(Byte) /\ taken \in Seq(Byte)
  BY ReaderTypes
<1>2. A \in Seq(Byte) /\ Len(A) = used
  BY <1>1, Cut
<1> HIDE DEF A
<1>3. taken' = taken \o A
  BY DEF Consumed, A
<1> QED
  BY <1>1, <1>2, <1>3, ConcatProperties

LEMMA ReadsWork ==
    ASSUME IInv, BoundOK, ChooseRead \/ ReadDirect \/ Fill \/ Take \/ Scan
    PROVE  /\ StepsLeft \in Nat /\ StepsLeft' \in Nat
           /\ Len(taken) \in Nat /\ Len(taken') \in Nat
           /\ \/ StepsLeft' < StepsLeft /\ Len(taken') >= Len(taken)
              \/ StepsLeft' = StepsLeft + 1 /\ Len(taken') > Len(taken)
<1>1. todo # <<>> /\ Limit \in Nat
  BY ReadsKeepBytes, PlanHead
<1>2. taken \in Seq(Byte) /\ Len(taken) \in Nat
  BY ReaderTypes, LenProperties
<1>3. ASSUME todo' = Tail(todo), Len(taken') \in Nat, Len(taken') >= Len(taken)
      PROVE  /\ StepsLeft \in Nat /\ StepsLeft' \in Nat
             /\ Len(taken) \in Nat /\ Len(taken') \in Nat
             /\ StepsLeft' < StepsLeft /\ Len(taken') >= Len(taken)
  BY <1>1, <1>2, <1>3, StepsGoDown
<1>4. CASE ChooseRead
  <2>1. taken' = taken
    BY <1>4 DEF ChooseRead, in
  <2>2. StepsLeft = 3
    <3>1. Len(todo) = 1 /\ todo[1].step = "read"
      BY <1>4, ChooseReadPlan
    <3> QED
      BY <1>1, <3>1 DEF StepsLeft
  <2>3. ASSUME todo' = <<Step("read_direct", Limit)>> PROVE StepsLeft' = 1
    BY <2>3 DEF StepsLeft, Step
  <2>4. ASSUME todo' = <<Step("fill_buf", 0), Step("take", Limit)>> PROVE StepsLeft' = 2
    BY <2>4 DEF StepsLeft, Step
  <2> QED
    BY <1>2, <1>4, <2>1, <2>2, <2>3, <2>4, ChooseReadPlan
<1>5. CASE ReadDirect
  <2>1. PICK s \in Supplies(Limit) : taken' = taken \o s /\ todo' = Tail(todo)
    BY <1>5 DEF ReadDirect, Proceed
  <2>2. s \in Seq(Byte) /\ Len(s) \in Nat
    BY <1>1, SuppliesBytes
  <2>3. Len(taken') = Len(taken) + Len(s)
    BY <1>2, <2>1, <2>2, ConcatProperties
  <2> QED
    BY <1>2, <1>3, <2>1, <2>2, <2>3
<1>6. CASE Fill
  <2>1. taken' = taken /\ todo' = Tail(todo)
    BY <1>6 DEF Fill, Proceed
  <2> QED
    BY <1>2, <1>3, <2>1
<1>7. CASE Take
  <2>1. Least(Limit, Len(Unread)) \in 0 .. Len(Unread)
    BY <1>1, ReaderTypes DEF Least
  <2>2. Consumed(Least(Limit, Len(Unread))) /\ todo' = Tail(todo)
    BY <1>7 DEF Take, Proceed
  <2>3. Len(taken') \in Nat /\ Len(taken') >= Len(taken)
    BY <1>2, <2>1, <2>2, TakenGrows
  <2> QED
    BY <1>3, <2>2, <2>3
<1>8. CASE Scan
  <2>1. PICK used \in 0 .. Len(Unread) :
          /\ Consumed(used)
          /\ \/ todo' = Tail(todo)
             \/ todo' = <<Step("fill_buf", 0)>> \o todo /\ used # 0
    BY <1>8 DEF Scan, Proceed
  <2>2. Len(taken') = Len(taken) + used /\ used \in Nat
    BY <2>1, TakenGrows
  <2>3. CASE todo' = Tail(todo)
    BY <1>2, <1>3, <2>2, <2>3
  <2>4. CASE todo' = <<Step("fill_buf", 0)>> \o todo /\ used # 0
    <3>1. Len(todo) \in Nat \ {0} /\ Len(todo') = Len(todo) + 1 /\ todo' # <<>>
          /\ todo'[Len(todo) + 1] = todo[Len(todo)]
      <4>1. /\ Len(todo) \in Nat \ {0} /\ Len(todo') = Len(todo) + 1 /\ todo' # <<>>
            /\ \A i \in 1 .. Len(todo) : todo'[i + 1] = todo[i]
        BY <1>1, <2>4, RoundPlan
      <4>2. Len(todo) \in 1 .. Len(todo)
        BY <4>1
      <4> QED
        BY <4>1, <4>2
    <3>2. StepsLeft' = StepsLeft + 1 /\ StepsLeft \in Nat
      BY <1>1, <3>1 DEF StepsLeft
    <3> QED
      BY <1>2, <2>2, <2>4, <3>2
  <2> QED
    BY <2>1, <2>3, <2>4
<1> QED
  BY <1>4, <1>5, <1>6, <1>7, <1>8

(***************************************************************************)
(* The bounds through the steps                                            *)
(***************************************************************************)
LEMMA SuppliesWithin ==
    ASSUME IInv, BoundOK, NEW n \in Nat, NEW s \in Supplies(n)
    PROVE  Len(supplied \o s) <= SourceLength
<1> DEFINE k == Least(n, SourceLength - Len(supplied))
<1>1. supplied \in Seq(Byte) /\ Len(supplied) \in Nat /\ SourceLength - Len(supplied) \in Int
  BY ReaderTypes, LenProperties, BoundAssumption
<1>2. k \in Int /\ k <= SourceLength - Len(supplied)
  BY <1>1, LeastIsLess DEF Least
<1>3. s \in Strings(k)
  BY DEF Supplies
<1> HIDE DEF k
<1>4. s \in Seq(Byte) /\ Len(s) <= k /\ Len(s) \in Nat
  BY <1>2, <1>3, StringsAreSequences, LenProperties
<1>5. Len(supplied \o s) = Len(supplied) + Len(s)
  BY <1>1, <1>4, ConcatProperties
<1> QED
  BY <1>1, <1>2, <1>4, <1>5, BoundAssumption

\* A step done, a plan without a read, a plan and a source left as they are, a
\* new plan: what they leave is in bounds.
LEMMA TailBound ==
    ASSUME IInv, BoundOK, todo # <<>>, todo' = Tail(todo), Len(supplied') <= SourceLength
    PROVE  BoundOK'
<1>1. todo \in Plans
  BY DEF IInv, TypeOK, TypeOver, Plans
<1>2. /\ Len(todo) \in Nat \ {0} /\ Len(todo') = Len(todo) - 1
      /\ \A i \in 1 .. Len(todo) - 1 : todo'[i] = todo[i + 1]
  BY <1>1, Head1
<1>3. ASSUME NEW i \in 1 .. Len(todo'), todo'[i].step = "read" PROVE i = Len(todo')
  <2>1. i + 1 \in 1 .. Len(todo) /\ todo[i + 1].step = "read"
    BY <1>2, <1>3
  <2>2. i + 1 = Len(todo)
    BY <2>1 DEF BoundOK
  <2>3. i \in Int /\ Len(todo) \in Int /\ Len(todo') = Len(todo) - 1
    BY <1>2, <1>3
  <2> QED
    BY <2>2, <2>3
<1> QED
  BY <1>3 DEF BoundOK

LEMMA NoReadBound ==
    ASSUME Len(supplied') <= SourceLength,
           \A i \in 1 .. Len(todo') : todo'[i].step # "read"
    PROVE  BoundOK'
BY DEF BoundOK

LEMMA SameBound == BoundOK /\ UNCHANGED <<todo, supplied>> => BoundOK'
BY DEF BoundOK

LEMMA CallBound ==
    ASSUME BoundOK, NEW o, NEW d, NEW plan, Call(o, d, plan),
           \A i \in 1 .. Len(plan) : plan[i].step = "read" => i = Len(plan)
    PROVE  BoundOK'
<1>1. todo' = plan /\ UNCHANGED supplied
  BY DEF Call, in
<1> QED
  BY <1>1 DEF BoundOK

LEMMA CallingBound == IInv /\ BoundOK /\ Calling => BoundOK'
<1> SUFFICES ASSUME IInv, BoundOK, Calling PROVE BoundOK'
  OBVIOUS
<1>1. ASSUME NEW o, NEW d, NEW s, NEW n, Call(o, d, <<Step(s, n)>>) PROVE BoundOK'
  <2>1. \A i \in 1 .. Len(<<Step(s, n)>>) : i = Len(<<Step(s, n)>>)
    OBVIOUS
  <2> QED
    BY <1>1, <2>1, CallBound
<1>2. ASSUME NEW o, NEW d, NEW rest \in Plans, Call(o, d, FlushPlan \o rest),
             \A i \in 1 .. Len(rest) : rest[i].step = "read" => i = Len(rest)
      PROVE  BoundOK'
  <2> DEFINE plan == FlushPlan \o rest
  <2>1. /\ Len(plan) = 2 + Len(rest) /\ Len(rest) \in Nat
        /\ plan[1].step # "read" /\ plan[2].step # "read"
        /\ \A i \in 1 .. 2 + Len(rest) : i > 2 => plan[i] = rest[i - 2]
    BY FlushFirst DEF Step
  <2>2. Call(o, d, plan)
    BY <1>2
  <2> HIDE DEF plan
  <2>3. ASSUME NEW i \in 1 .. Len(plan), plan[i].step = "read" PROVE i = Len(plan)
    <3>1. i > 2 /\ i - 2 \in 1 .. Len(rest) /\ plan[i] = rest[i - 2]
      BY <2>1, <2>3
    <3>2. i - 2 = Len(rest)
      BY <1>2, <2>3, <3>1
    <3> QED
      BY <2>1, <3>1, <3>2
  <2> QED
    BY <2>2, <2>3, CallBound
<1>3. CASE WriteCalls \/ FillBuf \/ IntoInner
  BY <1>1, <1>3 DEF WriteCalls, Write, WriteAll, FillBuf, IntoInner
<1>4. CASE Drop
  <2>1. Call("drop", <<>>, <<Step("flush_buf", 0)>>) \/ UNCHANGED <<todo, supplied>>
    BY <1>4 DEF Drop, in
  <2> QED
    BY <1>1, <2>1, SameBound
<1>5. CASE Flush
  <2>1. todo' = <<Step("flush_buf", 0), Step("flush_inner", 0)>> /\ UNCHANGED supplied
    BY <1>5 DEF Flush, Call, FlushPlan, in
  <2>2. Len(supplied') <= SourceLength
    BY <2>1 DEF BoundOK
  <2>3. \A i \in 1 .. Len(todo') : todo'[i].step # "read"
    BY <2>1 DEF Step
  <2> QED
    BY <2>2, <2>3, NoReadBound
<1>6. ASSUME NEW n \in Nat, Read(n) PROVE BoundOK'
  <2> DEFINE rest == <<Step("read", n)>>
  <2>1. rest \in Plans /\ \A i \in 1 .. Len(rest) : i = Len(rest)
    BY <1>6 DEF Plans, Step, Steps
  <2>2. Call("read", <<>>, FlushPlan \o rest)
    BY <1>6 DEF Read
  <2> HIDE DEF rest
  <2> QED
    BY <1>2, <2>1, <2>2
<1>7. ASSUME NEW b \in Byte, ReadUntil(b) \/ ReadLine(b) PROVE BoundOK'
  <2> DEFINE rest == <<Step("fill_buf", 0), Step("scan", 0)>>
  <2>1. rest \in Plans /\ \A i \in 1 .. Len(rest) : rest[i].step # "read"
    BY DEF Plans, Step, Steps
  <2>2. \E o \in {"read_until", "read_line"} : Call(o, <<b>>, FlushPlan \o rest)
    BY <1>7 DEF ReadUntil, ReadLine, Search
  <2> HIDE DEF rest
  <2> QED
    BY <1>2, <2>1, <2>2
<1> QED
  BY <1>3, <1>4, <1>5, <1>6, <1>7 DEF Calling, CloseCalls

LEMMA ReadsBound ==
    ASSUME IInv, BoundOK, ChooseRead \/ ReadDirect \/ Fill \/ Take \/ Scan
    PROVE  BoundOK'
<1>1. todo # <<>> /\ Limit \in Nat
  BY ReadsKeepBytes, PlanHead
<1>2. CASE ReadDirect
  <2>1. PICK s \in Supplies(Limit) : supplied' = supplied \o s /\ todo' = Tail(todo)
    BY <1>2 DEF ReadDirect, Proceed
  <2>2. Len(supplied') <= SourceLength
    BY <1>1, <2>1, SuppliesWithin
  <2> QED
    BY <1>1, <2>1, <2>2, TailBound
<1>3. CASE Fill
  <2>1. todo' = Tail(todo)
    BY <1>3 DEF Fill, Proceed
  <2>2. ASSUME NEW s \in Supplies(ReaderCapacity), supplied' = supplied \o s
        PROVE  Len(supplied') <= SourceLength
    BY <2>2, CapacityAssumption, SuppliesWithin
  <2>3. UNCHANGED supplied => Len(supplied') <= SourceLength
    BY DEF BoundOK
  <2>4. Len(supplied') <= SourceLength
    BY <1>3, <2>2, <2>3 DEF Fill
  <2> QED
    BY <1>1, <2>1, <2>4, TailBound
<1>4. CASE ChooseRead
  <2>1. Len(supplied') <= SourceLength
    BY <1>4 DEF ChooseRead, in, BoundOK
  <2>2. CASE todo' = <<Step("read_direct", Limit)>>
    BY <2>1, <2>2, NoReadBound DEF Step
  <2>3. CASE todo' = <<Step("fill_buf", 0), Step("take", Limit)>>
    BY <2>1, <2>3, NoReadBound DEF Step
  <2> QED
    BY <1>4, <2>2, <2>3, ChooseReadPlan
<1>5. CASE Take \/ Scan
  <2>1. \/ todo' = Tail(todo)
        \/ todo' = <<Step("fill_buf", 0)>> \o todo
    BY <1>5 DEF Take, Scan, Proceed
  <2>2. Len(supplied') <= SourceLength
    BY <1>5 DEF Take, Scan, BoundOK
  <2>3. CASE todo' = <<Step("fill_buf", 0)>> \o todo
    <3>1. /\ Len(todo) \in Nat \ {0} /\ Len(todo') = Len(todo) + 1
          /\ todo'[1] = Step("fill_buf", 0)
          /\ \A i \in 1 .. Len(todo) : todo'[i + 1] = todo[i]
      BY <1>1, <2>3, RoundPlan
    <3>2. ASSUME NEW i \in 1 .. Len(todo'), todo'[i].step = "read" PROVE i = Len(todo')
      <4>1. i # 1
        BY <3>1, <3>2 DEF Step
      <4>2. i - 1 \in 1 .. Len(todo) /\ (i - 1) + 1 = i
        BY <3>1, <4>1
      <4>3. todo[i - 1].step = "read"
        BY <3>1, <3>2, <4>2
      <4>4. i - 1 = Len(todo)
        BY <4>2, <4>3 DEF BoundOK
      <4> QED
        BY <3>1, <4>4
    <3> QED
      BY <2>2, <3>2 DEF BoundOK
  <2> QED
    BY <1>1, <2>1, <2>2, <2>3, TailBound
<1> QED
  BY <1>2, <1>3, <1>4, <1>5

LEMMA BoundStep == IInv /\ BoundOK /\ [Next]_vars => BoundOK'
<1> SUFFICES ASSUME IInv, BoundOK, [Next]_vars PROVE BoundOK'
  OBVIOUS
<1>1. ASSUME UNCHANGED supplied, todo' = todo \/ todo' = <<>> \/ (todo # <<>> /\ todo' = Tail(todo))
      PROVE  BoundOK'
  <2>1. Len(supplied') <= SourceLength
    BY <1>1 DEF BoundOK
  <2>2. CASE todo' = <<>>
    BY <2>1, <2>2, NoReadBound
  <2> QED
    BY <1>1, <2>1, <2>2, SameBound, TailBound
<1>2. CASE Extend \/ Direct \/ DirectAll \/ FlushWrite \/ UNCHANGED vars
  BY <1>1, <1>2 DEF Extend, Direct, DirectAll, FlushWrite, Proceed, At, in, frame, vars
<1>3. CASE \E n \in Nat : Consume(n)
  BY <1>1, <1>3 DEF Consume, frame
<1>4. CASE CheckRoom
  <2>1. Len(supplied') <= SourceLength
    BY <1>4 DEF CheckRoom, in, BoundOK
  <2>2. Place # "read"
    BY DEF Place
  <2>3. CASE todo' = <<Step(Place, Limit)>>
    BY <2>1, <2>2, <2>3, NoReadBound DEF Step
  <2>4. CASE todo' = <<Step("flush_buf", 0), Step(Place, Limit)>>
    BY <2>1, <2>2, <2>4, NoReadBound DEF Step
  <2> QED
    BY <1>4, <2>3, <2>4, CheckRoomPlan
<1>5. CASE Quiet /\ ~CheckRoom /\ ~ChooseRead
  BY <1>1, <1>5 DEF Quiet, DirectFails, DirectRetry, DirectPanics, FlushBuf, FlushRetry, FlushFails,
     FlushPanics, FlushInner, ReadFails, NotUtf8, Return, Leave, Proceed, At, in, frame
<1> QED
  BY <1>2, <1>3, <1>4, <1>5, NextIs, CallingBound, ReadsBound

\* What NoIdleTurn says of a step.
Advanced == op' = "none" \/ Work' < Work \/ FlushRetry \/ DirectRetry

LEMMA WorkThen ==
    ASSUME IInv'
    PROVE  StepsLeft' \in Nat /\ BytesLeft' \in Int /\ Len(taken') \in Nat
<1>1. /\ Len(todo') \in Nat /\ done' \in Nat /\ Len(data') \in Nat /\ Len(taken') \in Nat
      /\ writer_buf' \in Seq(Byte) /\ written' \in 0 .. Len(writer_buf')
      /\ Len(writer_buf') \in Nat
  BY LenProperties DEF IInv, TypeOK, TypeOver
<1>2. StepsLeft' \in Nat
  BY <1>1 DEF StepsLeft
<1>3. Len(Remaining') \in Nat
  BY <1>1, RemainingThen
<1>4. BytesLeft' \in Int
  BY <1>1, <1>3 DEF BytesLeft
<1> QED
  BY <1>1, <1>2, <1>4

LEMMA AdvancedStep ==
    ASSUME IInv, HistoryOK, BoundOK, [Next]_vars, op # "none"
    PROVE  Advanced \/ UNCHANGED vars
<1>1. /\ StepsLeft \in Nat /\ BytesLeft \in Nat /\ Len(taken) \in Nat
      /\ SourceLength \in Nat
  BY WorkTypes, BoundAssumption
<1>2. StepsLeft' \in Nat /\ BytesLeft' \in Int /\ Len(taken') \in Nat
  BY StepInv, WorkThen
<1>3. ASSUME UNCHANGED taken,
             \/ StepsLeft' < StepsLeft /\ BytesLeft' <= BytesLeft
             \/ StepsLeft' = StepsLeft /\ BytesLeft' < BytesLeft
      PROVE  Work' < Work
  BY <1>1, <1>2, <1>3 DEF Work
<1>4. CASE Extend \/ Direct \/ DirectAll
  <2>1. UNCHANGED taken
    BY <1>4 DEF Extend, Direct, DirectAll, in
  <2> QED
    BY <1>3, <1>4, <2>1, PlacingWorks DEF Advanced
<1>5. CASE FlushBuf \/ FlushWrite \/ FlushInner
  <2>1. CASE op' = "none"
    BY <2>1 DEF Advanced
  <2>2. CASE op' # "none"
    <3>1. UNCHANGED taken
      BY <1>5 DEF FlushBuf, FlushWrite, FlushInner, in
    <3>2. \/ StepsLeft' < StepsLeft /\ BytesLeft' = BytesLeft
          \/ StepsLeft' = StepsLeft /\ BytesLeft' < BytesLeft
      BY <1>5, <2>2, FlushWorks
    <3>3. BytesLeft' = BytesLeft => BytesLeft' <= BytesLeft
      BY <1>1
    <3> QED
      BY <1>3, <3>1, <3>2, <3>3 DEF Advanced
  <2> QED
    BY <2>1, <2>2
<1>6. CASE CheckRoom
  <2>1. UNCHANGED taken
    BY <1>6 DEF CheckRoom, in
  <2>2. StepsLeft' < StepsLeft /\ BytesLeft' <= BytesLeft
    BY <1>1, <1>6, CheckRoomWorks
  <2> QED
    BY <1>3, <2>1, <2>2 DEF Advanced
<1>7. CASE ChooseRead \/ ReadDirect \/ Fill \/ Take \/ Scan
  <2>1. BytesLeft' = BytesLeft
    BY <1>7, ReadsKeepBytes
  <2>2. \/ StepsLeft' < StepsLeft /\ Len(taken') >= Len(taken)
        \/ StepsLeft' = StepsLeft + 1 /\ Len(taken') > Len(taken)
    BY <1>7, ReadsWork
  <2>3. Work' < Work
    BY <1>1, <1>2, <2>1, <2>2 DEF Work
  <2> QED
    BY <2>3 DEF Advanced
<1>8. CASE DirectFails \/ DirectPanics \/ FlushFails \/ FlushPanics \/ ReadFails \/ Return
  BY <1>8 DEF Advanced, DirectFails, DirectPanics, FlushFails, FlushPanics, ReadFails, NotUtf8,
     Return, Leave
<1>9. ~(Calling \/ \E n \in Nat : Consume(n))
  BY DEF Calling, WriteCalls, Write, WriteAll, Flush, FillBuf, CloseCalls, IntoInner,
     Drop, Read, ReadUntil, ReadLine, Search, Call, Consume
<1> QED
  BY <1>4, <1>5, <1>6, <1>7, <1>8, <1>9, NextIs DEF Quiet, Advanced

\* Whatever the inner handle answers, and for every capacity, slice and source,
\* each step of a call ends it or leaves it less to do, but for the repetition
\* of what was interrupted: no loop of a write, a flush or a read turns without
\* using up some of what it is about.
THEOREM NoTurnIsIdle == Spec => NoIdleTurn
<1>1. Init => BoundOK
  <2> SUFFICES ASSUME Init PROVE BoundOK
    OBVIOUS
  <2>1. Len(supplied) = 0 /\ Len(todo) = 0
    BY DEF Init
  <2> QED
    BY <2>1, BoundAssumption DEF BoundOK
<1>2. IInv /\ BoundOK /\ [Next]_vars => BoundOK'
  BY BoundStep
<1>3. IInv /\ HistoryOK /\ BoundOK /\ [Next]_vars =>
        [op # "none" => /\ Work \in Nat
                        /\ op' = "none" \/ Work' < Work \/ FlushRetry \/ DirectRetry]_vars
  BY WorkTypes, AdvancedStep DEF Advanced
<1> QED
  BY <1>1, <1>2, <1>3, HistoryHolds, PTL DEF Spec, NoIdleTurn
================================================================================
