------------------------- MODULE BufReaderWriter_proofs -------------------------
(***************************************************************************)
(* Proofs about BufReaderWriter, for every byte set, every capacity, every *)
(* bound and every set of faults.                                          *)
(***************************************************************************)
EXTENDS BufReaderWriter, SequenceTheorems, TLAPS

(***************************************************************************)
(* The inductive invariant                                                 *)
(***************************************************************************)
Placing == {"extend", "direct", "direct_all"}
WriteSteps == {"write", "write_all"} \cup Placing

ReadSteps == {"read", "read_direct", "take", "scan"}

\* What is left of a plan: a write step comes last and stays within the slice;
\* a placing step past the head waits for the flush in front of it; so does
\* the flush of the inner handle; and a read starts with both flushes.
PlanOK ==
    /\ op = "none" => todo = <<>>
    /\ life # "open" => op = "none"
    /\ \A i \in 1..Len(todo) :
         /\ todo[i].step \in WriteSteps =>
              /\ op \in {"write", "write_all"} /\ i = Len(todo)
              /\ done <= todo[i].n /\ todo[i].n <= Len(data)
         /\ todo[i].step = "extend" => todo[i].n - done < WriterCapacity
         /\ i > 1 /\ todo[i].step \in Placing \cup {"flush_inner"}
              => todo[i - 1].step = "flush_buf"
         /\ todo[i].step = "flush_buf" /\ op \in ReadOps
              => i = 1 /\ Len(todo) > 1 /\ todo[2].step = "flush_inner"
         /\ todo[i].step \in ReadSteps => op \in ReadOps
         /\ todo[i].step = "read_direct" => i = 1

\* What the head of the plan may count on.
HeadOK ==
    /\ At("extend") => Len(writer_buf) + Limit - done <= WriterCapacity
    /\ At("direct") \/ At("direct_all") \/ At("flush_inner") => writer_buf = <<>>
    /\ At("read_direct") => pos = Len(reader_buf)

\* The flag covers every byte in doubt, and a flush in progress has none left.
DoubtOK ==
    /\ doubt > 0 => panicked
    /\ written > 0 => At("flush_buf") /\ doubt = 0
    /\ DropHeedsPanic

IInv == /\ TypeOK /\ PlanOK /\ HeadOK /\ DoubtOK
        /\ NoRealloc /\ FlushedBeforeRead /\ ReadInOrder

\* The part of it that speaks of the writer buffer and what is behind it.
BuffersOK ==
    /\ writer_buf \in Seq(Byte) /\ written \in 0..Len(writer_buf)
    /\ sink \in Seq(Byte) /\ NoRealloc

LEMMA InvBuffers == IInv => BuffersOK
BY DEF IInv, TypeOK, TypeOver, BuffersOK

(***************************************************************************)
(* Sequences                                                               *)
(***************************************************************************)
LEMMA Cut ==
    ASSUME NEW S, NEW s \in Seq(S), NEW m \in Nat, NEW n \in Nat, n <= Len(s)
    PROVE  /\ SubSeq(s, m + 1, n) \in Seq(S)
           /\ Len(SubSeq(s, m + 1, n)) = IF m < n THEN n - m ELSE 0
<1>1. \A i \in (m + 1) .. n : s[i] \in S
  BY ElementOfSeq
<1> QED
  BY <1>1, SubSeqProperties

LEMMA StringsAreSequences ==
    ASSUME NEW n \in Int, NEW s \in Strings(n)
    PROVE  s \in Seq(Byte) /\ Len(s) <= n
<1>1. PICK k \in 0 .. n : s \in [1 .. k -> Byte]
  BY DEF Strings
<1> QED
  BY <1>1

LEMMA LeastIsLess ==
    ASSUME NEW m \in Int, NEW n \in Int
    PROVE  Least(m, n) \in {m, n} /\ Least(m, n) <= m /\ Least(m, n) <= n
BY DEF Least

(***************************************************************************)
(* Plans                                                                   *)
(***************************************************************************)
Plans == Seq([step : Steps, n : Nat])

\* A plan that is not empty: its head is its first step, and the rest of it is
\* a plan.
LEMMA Head1 ==
    ASSUME NEW p \in Plans, p # <<>>
    PROVE  /\ Head(p) = p[1] /\ Len(p) \in Nat \ {0}
           /\ Tail(p) \in Plans /\ Len(Tail(p)) = Len(p) - 1
           /\ \A i \in 1 .. Len(p) - 1 : Tail(p)[i] = p[i + 1]
BY HeadTailProperties, EmptySeq DEF Plans
\* A step put in front of a plan.
LEMMA Push ==
    ASSUME NEW s \in [step : Steps, n : Nat], NEW p \in Plans
    PROVE  /\ <<s>> \o p \in Plans /\ Len(<<s>> \o p) = Len(p) + 1
           /\ (<<s>> \o p)[1] = s
           /\ \A i \in 1 .. Len(p) : (<<s>> \o p)[i + 1] = p[i]
           /\ <<s>> \in Plans
<1>1. <<s>> \in Plans /\ Len(<<s>>) = 1 /\ <<s>>[1] = s
  BY DEF Plans
<1> QED
  BY <1>1, ConcatProperties, LenProperties DEF Plans

LEMMA Pair ==
    ASSUME NEW s \in [step : Steps, n : Nat], NEW t \in [step : Steps, n : Nat]
    PROVE  <<s, t>> \in Plans /\ <<s, t>> = <<s>> \o <<t>>
<1>1. <<t>> \in Plans /\ <<s, t>> \in Plans
  BY DEF Plans
<1>2. Len(<<t>>) = 1 /\ <<t>>[1] = t
  OBVIOUS
<1>3. /\ <<s>> \o <<t>> \in Plans /\ Len(<<s>> \o <<t>>) = 2
      /\ (<<s>> \o <<t>>)[1] = s /\ (<<s>> \o <<t>>)[2] = t
  BY <1>1, <1>2, Push
<1>4. /\ Len(<<s, t>>) = 2
      /\ \A i \in 1 .. 2 : <<s, t>>[i] = (<<s>> \o <<t>>)[i]
  BY <1>3
<1> QED
  BY <1>1, <1>3, <1>4, SeqEqual DEF Plans

(***************************************************************************)
(* Moves of the frame that every action shares                             *)
(***************************************************************************)
\* A call that ends leaves no plan, so all that is left to show of the state
\* is that the buffers and flags make sense between calls.
LEMMA EndsInv ==
    ASSUME NEW steps, TypeOver(steps), ReadInOrder, NEW kind \in Results, Leave(kind),
           UNCHANGED <<reader, sink, in>>,
           writer_buf' \in Seq(Byte), Len(writer_buf') <= WriterCapacity,
           written' = 0, doubt' \in 0 .. Len(writer_buf'),
           panicked' \in BOOLEAN, doubt' > 0 => panicked', flushed' \in BOOLEAN
    PROVE  IInv'
<1> USE CapacityAssumption DEF TypeOver, Leave
<1>1. TypeOK'
  <2>1. todo' = <<>> /\ todo' \in Seq([step : Steps, n : Nat])
    OBVIOUS
  <2>2. life' \in {"open", "unwrapped", "dropped"} /\ op' = "none"
    OBVIOUS
  <2>3. ret' \in [kind : Results, n : Nat]
    OBVIOUS
  <2> QED
    BY <2>1, <2>2, <2>3 DEF TypeOK, reader, in
<1>2. PlanOK'
  BY DEF PlanOK
<1>3. HeadOK' /\ DoubtOK'
  BY DEF HeadOK, DoubtOK, At, DropHeedsPanic
<1>4. NoRealloc' /\ FlushedBeforeRead'
  BY DEF NoRealloc, FlushedBeforeRead, ReadOps
<1>5. ReadInOrder'
  BY DEF ReadInOrder, Unread, reader, in
<1> QED
  BY <1>1, <1>2, <1>3, <1>4, <1>5 DEF IInv

LEMMA LeaveInv ==
    ASSUME IInv, NEW kind \in Results, Leave(kind),
           UNCHANGED <<reader, sink, in>>,
           writer_buf' \in Seq(Byte), Len(writer_buf') <= WriterCapacity,
           written' = 0, doubt' \in 0 .. Len(writer_buf'),
           panicked' \in BOOLEAN, doubt' > 0 => panicked', flushed' \in BOOLEAN
    PROVE  IInv'
<1>1. TypeOver(Steps) /\ ReadInOrder
  BY DEF IInv, TypeOK
<1> QED
  BY <1>1, EndsInv

\* Dropping the head of a plan keeps the plan in order.
LEMMA AdvancePlan ==
    ASSUME IInv, op # "none", todo # <<>>, NEW d \in Nat, Proceed(Tail(todo), d),
           d = done \/ Len(todo) = 1 \/ op \in ReadOps
    PROVE  /\ PlanOK'
           /\ todo' \in Seq([step : Steps, n : Nat]) /\ Len(todo') = Len(todo) - 1
           /\ todo' # <<>> => Head(todo') = todo[2] /\ Len(todo) > 1
<1>1. todo \in Plans /\ todo' = Tail(todo)
  BY DEF IInv, TypeOK, TypeOver, Plans, Proceed
<1>2. /\ todo' \in Plans /\ Len(todo) \in Nat \ {0} /\ Len(todo') = Len(todo) - 1
      /\ \A i \in 1 .. Len(todo) - 1 : todo'[i] = todo[i + 1]
  BY <1>1, Head1
<1>3. todo' # <<>> => Head(todo') = todo[2] /\ Len(todo) > 1
  BY <1>2, Head1
<1>4. PlanOK'
  <2>1. UNCHANGED <<life, op, data>> /\ done' = d
    BY DEF Proceed
  <2>2. ASSUME NEW i \in 1 .. Len(todo')
        PROVE  /\ i + 1 \in 1 .. Len(todo) /\ todo'[i] = todo[i + 1]
               /\ i > 1 => todo'[i - 1] = todo[i]
    BY SMTT(60), <1>2
  <2>3. ASSUME NEW i \in 1 .. Len(todo'), todo'[i].step \in WriteSteps
        PROVE  /\ op' \in {"write", "write_all"} /\ i = Len(todo')
               /\ done' <= todo'[i].n /\ todo'[i].n <= Len(data')
    BY <1>2, <2>1, <2>2, <2>3 DEF IInv, PlanOK, ReadOps
  <2>4. ASSUME NEW i \in 1 .. Len(todo'), todo'[i].step = "extend"
        PROVE  todo'[i].n - done' < WriterCapacity
    <3>1. i + 1 > 1 /\ Len(todo) > 1 /\ op \in {"write", "write_all"}
      BY <1>2, <2>2, <2>4 DEF IInv, PlanOK, WriteSteps, Placing
    <3> QED
      BY SMTT(60), <3>1, <1>2, <2>1, <2>2, <2>4 DEF IInv, PlanOK, ReadOps
  <2>5. ASSUME NEW i \in 1 .. Len(todo'), i > 1,
               todo'[i].step \in Placing \cup {"flush_inner"}
        PROVE  todo'[i - 1].step = "flush_buf"
    BY <1>2, <2>1, <2>2, <2>5 DEF IInv, PlanOK
  <2>6. ASSUME NEW i \in 1 .. Len(todo'), todo'[i].step = "flush_buf"
        PROVE  op' \notin ReadOps
    BY <1>2, <2>1, <2>2, <2>6 DEF IInv, PlanOK
  <2>7. ASSUME NEW i \in 1 .. Len(todo')
        PROVE  /\ todo'[i].step \in ReadSteps => op' \in ReadOps
               /\ todo'[i].step # "read_direct"
    BY <1>2, <2>1, <2>2 DEF IInv, PlanOK
  <2>8. op' # "none" /\ life' = "open"
    BY <2>1 DEF IInv, PlanOK, TypeOK, TypeOver
  <2> QED
    BY <2>3, <2>4, <2>5, <2>6, <2>7, <2>8 DEF PlanOK
<1> QED
  BY <1>2, <1>3, <1>4 DEF Plans
(***************************************************************************)
(* The steps of the writes                                                 *)
(***************************************************************************)
\* At a write step, the rest of the plan is empty and the slice is in bounds.
LEMMA AtWriteStep ==
    ASSUME IInv, todo # <<>>, Head(todo).step \in WriteSteps
    PROVE  /\ Head(todo) = todo[1] /\ Len(todo) = 1 /\ Tail(todo) = <<>>
           /\ Limit \in Nat /\ done \in Nat /\ done <= Limit /\ Limit <= Len(data)
           /\ op \in {"write", "write_all"} /\ data \in Seq(Byte)
           /\ writer_buf \in Seq(Byte) /\ life = "open" /\ Head(todo).step \in Steps
<1>1. todo \in Plans
  BY DEF IInv, TypeOK, TypeOver, Plans
<1>2. Head(todo) = todo[1] /\ Len(todo) \in Nat \ {0} /\ Len(Tail(todo)) = Len(todo) - 1
      /\ Tail(todo) \in Plans /\ todo[1] \in [step : Steps, n : Nat]
  BY <1>1, Head1, HeadTailProperties DEF Plans
<1>3. Len(todo) = 1
  <2>1. \A i \in 1 .. Len(todo) : todo[i].step \in WriteSteps => i = Len(todo)
    BY DEF IInv, PlanOK
  <2>2. 1 \in 1 .. Len(todo) /\ todo[1].step \in WriteSteps
    BY <1>2
  <2> QED
    BY <2>1, <2>2
<1>4. Tail(todo) = <<>>
  BY SMTT(60), <1>2, <1>3, EmptySeq DEF Plans
<1>5. Limit = todo[1].n /\ todo[1].n \in Nat /\ todo[1].step \in WriteSteps
  BY <1>2 DEF Limit
<1>6. done <= todo[1].n /\ todo[1].n <= Len(data) /\ op \in {"write", "write_all"}
  <2>1. 1 \in 1 .. Len(todo) /\ done \in Nat /\ Len(data) \in Nat
    BY SMTT(60), <1>2 DEF IInv, TypeOK, TypeOver
  <2> QED
    BY <2>1, <1>5 DEF IInv, PlanOK
<1> QED
  BY <1>6, <1>2, <1>3, <1>4, <1>5 DEF IInv, PlanOK, TypeOK, TypeOver

\* A write step that is done with its bytes leaves the call to return.
LEMMA PlacedInv ==
    ASSUME IInv, todo # <<>>, Head(todo).step \in WriteSteps,
           NEW d \in Nat, Proceed(Tail(todo), d),
           UNCHANGED <<written, doubt, reader, in>>,
           writer_buf' \in Seq(Byte), Len(writer_buf') >= Len(writer_buf),
           Len(writer_buf') <= WriterCapacity,
           panicked' \in BOOLEAN, doubt = 0 \/ panicked' = panicked,
           sink' \in Seq(Byte), flushed' \in BOOLEAN
    PROVE  IInv'
<1>1. /\ Len(todo) = 1 /\ op \in {"write", "write_all"} /\ Tail(todo) = <<>>
      /\ ~At("flush_buf")
  BY AtWriteStep DEF At, WriteSteps, Placing
<1>2. todo' = <<>> /\ PlanOK' /\ todo' \in Seq([step : Steps, n : Nat])
  BY <1>1, AdvancePlan DEF Proceed
<1>3. TypeOK'
  <2>1. Len(writer_buf) \in Nat /\ Len(writer_buf') \in Nat
    BY SMTT(60) DEF IInv, TypeOK, TypeOver
  <2>2. written' \in 0 .. Len(writer_buf') /\ doubt' \in 0 .. Len(writer_buf')
    BY SMTT(60), <2>1 DEF IInv, TypeOK, TypeOver
  <2> QED
    BY <1>2, <2>2 DEF IInv, TypeOK, TypeOver, Proceed, in, reader
<1>4. HeadOK' /\ NoRealloc'
  BY <1>2 DEF HeadOK, At, NoRealloc
<1>5. DoubtOK'
  BY <1>1 DEF DoubtOK, DropHeedsPanic, Proceed, IInv, TypeOK, TypeOver
<1>6. FlushedBeforeRead' /\ ReadInOrder'
  BY <1>1 DEF FlushedBeforeRead, ReadOps, Proceed, ReadInOrder, Unread, IInv, in, reader
<1> QED
  BY <1>2, <1>3, <1>4, <1>5, <1>6 DEF IInv

LEMMA SliceIsBytes ==
    ASSUME IInv, todo # <<>>, Head(todo).step \in WriteSteps,
           NEW m \in 0 .. (Limit - done)
    PROVE  Slice(m) \in Seq(Byte) /\ Len(Slice(m)) = m
<1>1. /\ done \in Nat /\ Limit \in Nat /\ done <= Limit /\ Limit <= Len(data)
      /\ data \in Seq(Byte)
  BY AtWriteStep
<1> QED
  BY <1>1, Cut DEF Slice

LEMMA ExtendInv == IInv /\ Extend => IInv'
<1> SUFFICES ASSUME IInv, Extend PROVE IInv'
  OBVIOUS
<1>1. todo # <<>> /\ Head(todo).step \in WriteSteps
  BY DEF Extend, At, WriteSteps, Placing
<1>2. Limit \in Nat /\ done \in Nat /\ done <= Limit /\ writer_buf \in Seq(Byte)
  BY <1>1, AtWriteStep
<1>3. Slice(Limit - done) \in Seq(Byte) /\ Len(Slice(Limit - done)) = Limit - done
  BY <1>1, <1>2, SliceIsBytes
<1>4. writer_buf' \in Seq(Byte) /\ Len(writer_buf') = Len(writer_buf) + Limit - done
  BY <1>2, <1>3, ConcatProperties DEF Extend
<1>5. Len(writer_buf') <= WriterCapacity
  BY <1>4 DEF IInv, HeadOK, Extend
<1>6. Len(writer_buf') >= Len(writer_buf)
  BY <1>2, <1>4
<1> QED
  BY <1>1, <1>2, <1>4, <1>5, <1>6, PlacedInv
     DEF Extend, IInv, TypeOK, TypeOver, DoubtOK, out
\* The bytes of a direct write overtake nothing: the buffer is empty.
LEMMA AtDirect ==
    ASSUME IInv, At("direct") \/ At("direct_all")
    PROVE  /\ todo # <<>> /\ Head(todo).step \in WriteSteps /\ ~At("flush_buf")
           /\ writer_buf = <<>> /\ doubt = 0 /\ written = 0
           /\ writer_buf \in Seq(Byte) /\ Len(writer_buf) = 0
<1>1. writer_buf = <<>>
  BY DEF IInv, HeadOK
<1>2. Len(writer_buf) = 0 /\ writer_buf \in Seq(Byte)
  BY <1>1
<1>3. doubt = 0 /\ written = 0
  BY <1>2 DEF IInv, TypeOK, TypeOver
<1> QED
  BY <1>1, <1>2, <1>3 DEF At, WriteSteps, Placing

LEMMA BuffersRoom == BuffersOK => Room \in Int
BY BoundAssumption DEF Room, BuffersOK

LEMMA RoomIsInt == IInv => Room \in Int
BY InvBuffers, BuffersRoom

LEMMA DirectInv == IInv /\ Direct => IInv'
<1> SUFFICES ASSUME IInv, Direct PROVE IInv'
  OBVIOUS
<1>1. todo # <<>> /\ Head(todo).step \in WriteSteps /\ doubt = 0 /\ Len(writer_buf) = 0
  BY AtDirect DEF Direct
<1>2. Limit \in Nat /\ done \in Nat /\ done <= Limit
  BY <1>1, AtWriteStep
<1>3. PICK m \in 0 .. Least(Limit - done, Room) :
        Send(Slice(m)) /\ Proceed(Tail(todo), done + m)
  BY DEF Direct
<1>4. m \in 0 .. (Limit - done)
  BY <1>2, LeastIsLess, RoomIsInt
<1>5. sink' \in Seq(Byte) /\ flushed' \in BOOLEAN
  BY <1>1, <1>3, <1>4, SliceIsBytes, ConcatProperties DEF Send, IInv, TypeOK, TypeOver
<1>6. /\ UNCHANGED <<writer_buf, written, doubt, reader, in>>
      /\ writer_buf' \in Seq(Byte) /\ Len(writer_buf') = 0
      /\ panicked' \in BOOLEAN /\ WriterCapacity \in Nat
  BY <1>1, CapacityAssumption DEF Direct, IInv, TypeOK, TypeOver
<1>7. done + m \in Nat /\ Len(writer_buf') <= WriterCapacity /\ Len(writer_buf') >= Len(writer_buf)
  BY <1>1, <1>2, <1>4, <1>6
<1> QED
  BY <1>1, <1>3, <1>5, <1>6, <1>7, PlacedInv

\* Going round the loop of inner.write_all: only the count has moved.
LEMMA RoundInv ==
    ASSUME IInv, At("direct_all"), NEW d \in done .. Limit,
           UNCHANGED <<life, op, data, todo, ret, base,
                       writer_buf, written, doubt, reader, in>>,
           done' = d, panicked' \in BOOLEAN,
           sink' \in Seq(Byte), flushed' \in BOOLEAN
    PROVE  IInv'
<1>1. /\ todo # <<>> /\ Head(todo).step \in WriteSteps
      /\ writer_buf = <<>> /\ doubt = 0 /\ ~At("flush_buf")
  BY AtDirect
<1>2. /\ Limit \in Nat /\ done \in Nat /\ op \in {"write", "write_all"}
      /\ Len(todo) = 1 /\ todo[1] = Head(todo) /\ Limit <= Len(data)
      /\ data \in Seq(Byte)
  BY <1>1, AtWriteStep
<1>3. TypeOK'
  BY <1>2 DEF IInv, TypeOK, TypeOver, reader, in
<1>4. PlanOK'
  <2>1. todo[1].n = Limit /\ todo[1].step = "direct_all" /\ Len(data) \in Nat
    BY <1>2 DEF Limit, At
  <2>2. \A i \in 1 .. Len(todo') : i = 1 /\ todo'[i] = todo[1]
    BY <1>2
  <2>3. done' <= todo[1].n /\ todo[1].n <= Len(data)
    BY <1>2, <2>1
  <2>4. op' \in {"write", "write_all"} /\ life' = "open" /\ Len(todo') = 1
    BY <1>2 DEF IInv, PlanOK
  <2> QED
    BY <2>1, <2>2, <2>3, <2>4 DEF PlanOK, ReadSteps, ReadOps, Placing
<1>5. HeadOK' /\ DoubtOK' /\ NoRealloc'
  BY <1>1, <1>2 DEF HeadOK, DoubtOK, DropHeedsPanic, NoRealloc, At, IInv
<1>6. FlushedBeforeRead' /\ ReadInOrder'
  BY <1>2 DEF FlushedBeforeRead, ReadOps, ReadInOrder, Unread, IInv, in, reader
<1> QED
  BY <1>3, <1>4, <1>5, <1>6 DEF IInv

LEMMA DirectAllInv == IInv /\ DirectAll => IInv'
<1> SUFFICES ASSUME IInv, DirectAll PROVE IInv'
  OBVIOUS
<1>1. /\ todo # <<>> /\ Head(todo).step \in WriteSteps /\ At("direct_all")
      /\ doubt = 0 /\ Len(writer_buf) = 0
  BY AtDirect DEF DirectAll
<1>2. Limit \in Nat /\ done \in Nat /\ done <= Limit
  BY <1>1, AtWriteStep
<1>3. CASE \E m \in 1 .. Least(Limit - done, Room) :
             Send(Slice(m)) /\ panicked' = TRUE /\ Proceed(todo, done + m)
  <2>1. PICK m \in 1 .. Least(Limit - done, Room) :
          Send(Slice(m)) /\ panicked' = TRUE /\ Proceed(todo, done + m)
    BY <1>3
  <2>3. m \in 0 .. (Limit - done)
    BY <1>2, LeastIsLess, RoomIsInt
  <2>4. sink' \in Seq(Byte) /\ flushed' \in BOOLEAN
    BY <1>1, <2>1, <2>3, SliceIsBytes, ConcatProperties DEF Send, IInv, TypeOK, TypeOver
  <2>5. done + m \in done .. Limit
    BY <2>3, <1>2
  <2> QED
    BY <1>1, <2>1, <2>4, <2>5, RoundInv DEF Proceed, DirectAll
<1>4. CASE done = Limit /\ panicked' = FALSE /\ Proceed(Tail(todo), done) /\ UNCHANGED out
  <2>1. /\ UNCHANGED <<writer_buf, written, doubt, reader, in>>
        /\ writer_buf' \in Seq(Byte) /\ Len(writer_buf') >= Len(writer_buf)
        /\ Len(writer_buf') <= WriterCapacity /\ panicked' \in BOOLEAN
        /\ sink' \in Seq(Byte) /\ flushed' \in BOOLEAN
    <3>1. UNCHANGED <<writer_buf, written, doubt, reader, in>>
      BY DEF DirectAll
    <3>2. writer_buf' \in Seq(Byte) /\ Len(writer_buf') = 0
      BY <1>1, <3>1 DEF IInv, TypeOK, TypeOver
    <3>3. sink' \in Seq(Byte) /\ flushed' \in BOOLEAN
      BY <1>4 DEF IInv, TypeOK, TypeOver, out
    <3>4. panicked' \in BOOLEAN
      BY <1>4
    <3> QED
      BY <1>1, <3>1, <3>2, <3>3, <3>4, CapacityAssumption
  <2> QED
    BY <1>1, <1>2, <1>4, <2>1, PlacedInv
<1> QED
  BY <1>3, <1>4 DEF DirectAll

LEMMA DirectRetryInv == IInv /\ DirectRetry => IInv'
<1> SUFFICES ASSUME IInv, DirectRetry PROVE IInv'
  OBVIOUS
<1>1. done \in done .. Limit
  BY AtWriteStep DEF DirectRetry, At, WriteSteps, Placing
<1> QED
  BY <1>1, RoundInv DEF DirectRetry, frame, out, IInv, TypeOK, TypeOver

LEMMA DirectEndsInv == IInv /\ (DirectFails \/ DirectPanics) => IInv'
<1> SUFFICES ASSUME IInv, DirectFails \/ DirectPanics PROVE IInv'
  OBVIOUS
<1>1. /\ At("direct") \/ At("direct_all")
      /\ \E kind \in Results : Leave(kind)
      /\ panicked' \in BOOLEAN
      /\ UNCHANGED <<writer_buf, written, doubt, reader, out, in>>
  BY FaultAssumption DEF DirectFails, DirectPanics, Results, FaultKinds
<1>2. doubt = 0 /\ written = 0 /\ Len(writer_buf) = 0
  BY <1>1, AtDirect
<1>3. /\ writer_buf' \in Seq(Byte) /\ Len(writer_buf') <= WriterCapacity
      /\ written' = 0 /\ doubt' \in 0 .. Len(writer_buf') /\ ~(doubt' > 0)
      /\ flushed' \in BOOLEAN /\ UNCHANGED <<reader, sink, in>>
  BY <1>1, <1>2, CapacityAssumption DEF IInv, TypeOK, TypeOver, out
<1> QED
  BY <1>1, <1>3, LeaveInv

LEMMA CheckRoomInv == IInv /\ CheckRoom => IInv'
<1> SUFFICES ASSUME IInv, CheckRoom PROVE IInv'
  OBVIOUS
<1> DEFINE n     == Limit - done
           place == IF n < WriterCapacity THEN "extend"
                    ELSE IF At("write") THEN "direct" ELSE "direct_all"
           flush == IF NeedsFlush(n) THEN <<Step("flush_buf", 0)>> ELSE <<>>
<1>1. /\ todo # <<>> /\ Head(todo).step \in WriteSteps /\ ~At("flush_buf")
      /\ Proceed(flush \o <<Step(place, Limit)>> \o Tail(todo), done)
  BY DEF CheckRoom, At, WriteSteps
<1>2. /\ Limit \in Nat /\ done \in Nat /\ done <= Limit /\ Tail(todo) = <<>>
      /\ op \in {"write", "write_all"} /\ Limit <= Len(data) /\ Len(data) \in Nat
      /\ life = "open"
  BY <1>1, AtWriteStep
<1>3. place \in Placing /\ (place = "extend" => n < WriterCapacity)
      /\ (place # "extend" => n >= WriterCapacity) /\ n \in Nat
  BY <1>2, CapacityAssumption DEF Placing
<1>4. /\ Step(place, Limit) \in [step : Steps, n : Nat]
      /\ Step("flush_buf", 0) \in [step : Steps, n : Nat]
      /\ <<>> \in Plans
  BY <1>2, <1>3 DEF Step, Steps, Placing, Plans
<1>5. \A s, t \in [step : Steps, n : Nat] :
        <<s>> \in Seq([step : Steps, n : Nat]) /\ <<s, t>> \in Seq([step : Steps, n : Nat])
  OBVIOUS
<1>6. /\ UNCHANGED <<life, op, data, ret, base, done>>
      /\ UNCHANGED <<writer_buf, panicked, written, doubt, reader_buf, pos>>
      /\ UNCHANGED <<sink, flushed, supplied, taken>>
      /\ life = "open" /\ op # "none"
  BY <1>1, <1>2 DEF CheckRoom, Proceed, guts, reader, out, in
<1>7. DoubtOK' /\ NoRealloc' /\ ReadInOrder'
  BY <1>1, <1>6 DEF IInv, DoubtOK, DropHeedsPanic, NoRealloc, ReadInOrder, Unread,
                    TypeOK, TypeOver
<1>8. CASE NeedsFlush(n)
  <2>1. todo' = <<Step("flush_buf", 0), Step(place, Limit)>>
    <3>1. todo' = <<Step("flush_buf", 0)>> \o <<Step(place, Limit)>> \o <<>>
      BY <1>1, <1>2, <1>8 DEF Proceed
    <3> QED
      BY ZenonT(60), <3>1, <1>4, Pair, ConcatEmptySeq DEF Plans
  <2>2. /\ Len(todo') = 2 /\ todo'[1] = Step("flush_buf", 0) /\ todo'[2] = Step(place, Limit)
        /\ todo' # <<>> /\ Head(todo') = Step("flush_buf", 0)
    BY <2>1
  <2>3. PlanOK'
    BY <1>2, <1>3, <1>6, <2>2 DEF PlanOK, Step, Placing, WriteSteps, ReadOps, ReadSteps
  <2>4. HeadOK' /\ FlushedBeforeRead'
    BY <1>2, <1>6, <2>2 DEF HeadOK, At, FlushedBeforeRead, ReadOps, Step
  <2>5. TypeOK'
    <3>1. todo' \in Seq([step : Steps, n : Nat])
      BY <1>4, <1>5, <2>1
    <3> QED
      BY <1>6, <3>1 DEF IInv, TypeOK, TypeOver
  <2> QED
    BY <1>7, <2>3, <2>4, <2>5 DEF IInv
<1>9. CASE ~NeedsFlush(n)
  <2>1. todo' = <<Step(place, Limit)>>
    <3>1. todo' = <<>> \o <<Step(place, Limit)>> \o <<>>
      BY <1>1, <1>2, <1>9 DEF Proceed
    <3> QED
      BY <3>1, <1>4, Push, ConcatEmptySeq DEF Plans
  <2>2. /\ Len(todo') = 1 /\ todo'[1] = Step(place, Limit)
        /\ todo' # <<>> /\ Head(todo') = Step(place, Limit)
    BY <2>1
  <2>3. PlanOK'
    BY <1>2, <1>3, <1>6, <2>2 DEF PlanOK, Step, Placing, WriteSteps, ReadOps, ReadSteps
  <2>4. HeadOK' /\ FlushedBeforeRead'
    <3>1. Len(writer_buf) + n <= WriterCapacity /\ Len(writer_buf) \in Nat
          /\ writer_buf \in Seq(Byte)
      BY SMTT(60), <1>9, <1>2, CapacityAssumption DEF NeedsFlush, IInv, TypeOK, TypeOver
    <3>2. place # "extend" => writer_buf = <<>>
      BY <3>1, <1>2, <1>3, CapacityAssumption, EmptySeq
    <3>3. Limit' = Limit /\ Head(todo').step = place /\ writer_buf' = writer_buf
      BY <1>6, <2>2 DEF Limit, Step
    <3> QED
      BY <1>2, <1>3, <1>6, <3>1, <3>2, <3>3
         DEF HeadOK, At, FlushedBeforeRead, ReadOps, Placing
  <2>5. TypeOK'
    <3>1. todo' \in Seq([step : Steps, n : Nat])
      BY <1>4, <1>5, <2>1
    <3> QED
      BY <1>6, <3>1 DEF IInv, TypeOK, TypeOver
  <2> QED
    BY <1>7, <2>3, <2>4, <2>5 DEF IInv
<1> QED
  BY <1>8, <1>9
(***************************************************************************)
(* The steps of the flushes                                                *)
(***************************************************************************)
LEMMA BuffersRemaining ==
    ASSUME BuffersOK
    PROVE  /\ Remaining \in Seq(Byte) /\ Len(Remaining) = Len(writer_buf) - written
           /\ Len(writer_buf) \in Nat /\ written \in 0 .. Len(writer_buf)
           /\ Len(writer_buf) <= WriterCapacity
<1>1. /\ writer_buf \in Seq(Byte) /\ Len(writer_buf) \in Nat
      /\ written \in 0 .. Len(writer_buf)
  BY LenProperties DEF BuffersOK
<1>2. Remaining \in Seq(Byte) /\ Len(Remaining) = Len(writer_buf) - written
  BY <1>1, Cut DEF Remaining
<1> QED
  BY <1>1, <1>2 DEF BuffersOK, NoRealloc

LEMMA RemainingIsBytes ==
    ASSUME IInv
    PROVE  /\ Remaining \in Seq(Byte) /\ Len(Remaining) = Len(writer_buf) - written
           /\ Len(writer_buf) \in Nat /\ written \in 0 .. Len(writer_buf)
           /\ Len(writer_buf) <= WriterCapacity
BY InvBuffers, BuffersRemaining

\* Whatever ends flush_buf with a failure, the bytes not yet written stay.
LEMMA FlushEndsInv == IInv /\ (FlushFails \/ FlushPanics) => IInv'
<1> SUFFICES ASSUME IInv, FlushFails \/ FlushPanics PROVE IInv'
  OBVIOUS
<1>1. /\ \E kind \in Results : Leave(kind)
      /\ writer_buf' = Remaining /\ written' = 0 /\ panicked' \in BOOLEAN
      /\ UNCHANGED <<reader, out, in>>
  BY DEF FlushFails, FlushPanics, Drain, Results, FaultKinds
<1>2. \/ doubt' = 0
      \/ doubt' = Len(Remaining) /\ panicked' = TRUE
  BY DEF FlushFails, FlushPanics
<1>3. /\ writer_buf' \in Seq(Byte) /\ Len(writer_buf') <= WriterCapacity
      /\ doubt' \in 0 .. Len(writer_buf') /\ (doubt' > 0 => panicked')
      /\ flushed' \in BOOLEAN /\ UNCHANGED <<reader, sink, in>>
  <2>1. writer_buf' \in Seq(Byte) /\ Len(writer_buf') <= WriterCapacity
    BY <1>1, RemainingIsBytes, CapacityAssumption
  <2>2. doubt' \in 0 .. Len(writer_buf') /\ (doubt' > 0 => panicked')
    BY <1>1, <1>2, RemainingIsBytes
  <2> QED
    BY <1>1, <2>1, <2>2 DEF out, IInv, TypeOK, TypeOver
<1> QED
  BY <1>1, <1>3, LeaveInv

\* Going round the loop of flush_buf: more of the buffer may be out.
LEMMA FlushLoopInv == IInv /\ (FlushWrite \/ FlushRetry) => IInv'
<1> SUFFICES ASSUME IInv, FlushWrite \/ FlushRetry PROVE IInv'
  OBVIOUS
<1>1. /\ At("flush_buf") /\ panicked' = FALSE /\ doubt' = 0
      /\ UNCHANGED <<writer_buf, reader, in, frame>>
  BY DEF FlushWrite, FlushRetry
<1>2. /\ written' \in 0 .. Len(writer_buf) /\ sink' \in Seq(Byte) /\ flushed' \in BOOLEAN
  <2>1. CASE FlushRetry
    BY <2>1 DEF FlushRetry, IInv, TypeOK, TypeOver, out
  <2>2. CASE FlushWrite
    <3>1. PICK m \in 1 .. Least(Len(Remaining), Room) :
            Send(SubSeq(Remaining, 1, m)) /\ written' = written + m
      BY <2>2 DEF FlushWrite
    <3>2. m \in 1 .. Len(Remaining)
      BY RoomIsInt, RemainingIsBytes, LeastIsLess
    <3>3. written' \in 0 .. Len(writer_buf)
      BY <3>1, <3>2, RemainingIsBytes
    <3>4. SubSeq(Remaining, 1, m) \in Seq(Byte)
      BY <3>2, RemainingIsBytes, Cut, ElementOfSeq, SubSeqProperties
    <3>5. sink' = sink \o SubSeq(Remaining, 1, m) /\ sink \in Seq(Byte)
      BY <3>1 DEF Send, IInv, TypeOK, TypeOver
    <3>6. flushed' \in BOOLEAN
      BY <3>1 DEF Send
    <3> QED
      BY <3>3, <3>4, <3>5, <3>6, ConcatProperties
  <2> QED
    BY <2>1, <2>2
<1>3. TypeOK'
  <2>1. doubt' \in 0 .. Len(writer_buf') /\ written' \in 0 .. Len(writer_buf')
    BY <1>1, <1>2, RemainingIsBytes
  <2> QED
    BY <1>1, <1>2, <2>1 DEF IInv, TypeOK, TypeOver, frame, reader, in
<1>4. PlanOK' /\ HeadOK' /\ NoRealloc'
  BY <1>1 DEF IInv, PlanOK, HeadOK, NoRealloc, At, Limit, frame, reader
<1>5. DoubtOK'
  BY <1>1 DEF DoubtOK, DropHeedsPanic, At, frame
<1>6. ReadInOrder'
  BY <1>1 DEF IInv, ReadInOrder, Unread, reader, in
<1>7. FlushedBeforeRead'
  BY <1>1 DEF FlushedBeforeRead, At, frame
<1> QED
  BY <1>3, <1>4, <1>5, <1>6, <1>7 DEF IInv

\* A plan in progress: its head is its first step.
LEMMA PlanHead ==
    ASSUME IInv, todo # <<>>
    PROVE  /\ Head(todo) = todo[1] /\ Len(todo) \in Nat \ {0} /\ op # "none"
           /\ todo[1] \in [step : Steps, n : Nat] /\ Limit = todo[1].n
           /\ Limit \in Nat /\ done \in Nat /\ life = "open"
<1>1. todo \in Plans /\ done \in Nat
  BY DEF IInv, TypeOK, TypeOver, Plans
<1>2. Head(todo) = todo[1] /\ Len(todo) \in Nat \ {0}
  BY <1>1, Head1
<1>3. todo[1] \in [step : Steps, n : Nat]
  BY <1>1, <1>2, HeadTailProperties DEF Plans
<1>4. op # "none" /\ life = "open"
  BY DEF IInv, PlanOK, TypeOK, TypeOver
<1> QED
  BY <1>1, <1>2, <1>3, <1>4 DEF Limit

LEMMA FlushBufInv == IInv /\ FlushBuf => IInv'
<1> SUFFICES ASSUME IInv, FlushBuf PROVE IInv'
  OBVIOUS
<1>1. /\ todo # <<>> /\ todo[1].step = "flush_buf" /\ written >= Len(writer_buf)
      /\ writer_buf' = Remaining /\ written' = 0 /\ Proceed(Tail(todo), done)
      /\ UNCHANGED <<panicked, doubt, reader, out, in>>
  BY PlanHead DEF FlushBuf, At, Drain
<1>2. writer_buf' = <<>> /\ writer_buf' \in Seq(Byte) /\ Len(writer_buf') = 0
  BY <1>1, RemainingIsBytes, EmptySeq
<1>3. doubt = 0
  BY <1>1, RemainingIsBytes DEF IInv, DoubtOK, TypeOK, TypeOver
<1>4. /\ PlanOK' /\ todo' \in Seq([step : Steps, n : Nat])
      /\ todo' # <<>> => Head(todo') = todo[2] /\ Len(todo) > 1
      /\ Len(todo') = Len(todo) - 1 /\ Len(todo) \in Nat
  BY <1>1, PlanHead, AdvancePlan
<1>5. TypeOK'
  <2>1. doubt' \in 0 .. Len(writer_buf') /\ written' \in 0 .. Len(writer_buf')
    BY <1>1, <1>2, <1>3
  <2> QED
    BY <1>1, <1>2, <1>4, <2>1 DEF IInv, TypeOK, TypeOver, Proceed, reader, out, in
<1>6. HeadOK' /\ NoRealloc'
  <2>1. ASSUME todo' # <<>>
        PROVE  /\ Head(todo').step # "read_direct"
               /\ Head(todo').step = "extend" => Head(todo').n - done < WriterCapacity
    BY <1>4, <2>1 DEF IInv, PlanOK
  <2>2. done' = done /\ done \in Nat
    BY <1>1 DEF Proceed, IInv, TypeOK, TypeOver
  <2>3. ASSUME todo' # <<>> PROVE Head(todo').n \in Nat
    <3>1. Head(todo') \in [step : Steps, n : Nat]
      BY <1>4, <2>3, HeadTailProperties
    <3> QED
      BY <3>1
  <2> QED
    BY <1>2, <2>1, <2>2, <2>3, CapacityAssumption DEF HeadOK, At, NoRealloc, Limit
<1>7. DoubtOK'
  BY <1>1, <1>3 DEF DoubtOK, DropHeedsPanic
<1>8. FlushedBeforeRead'
  <2>1. ASSUME op \in ReadOps
        PROVE  todo' # <<>> /\ Head(todo').step = "flush_inner"
    <3>1. Len(todo) > 1 /\ todo[2].step = "flush_inner"
      BY <1>1, <2>1, PlanHead DEF IInv, PlanOK
    <3> QED
      BY <1>4, <3>1
  <2> QED
    BY <1>1, <2>1 DEF FlushedBeforeRead, Proceed
<1>9. ReadInOrder'
  BY <1>1 DEF IInv, ReadInOrder, Unread, reader, in
<1> QED
  BY <1>4, <1>5, <1>6, <1>7, <1>8, <1>9 DEF IInv

LEMMA FlushInnerInv == IInv /\ FlushInner => IInv'
<1> SUFFICES ASSUME IInv, FlushInner PROVE IInv'
  OBVIOUS
<1>1. /\ todo # <<>> /\ todo[1].step = "flush_inner" /\ ~At("flush_buf")
      /\ writer_buf = <<>> /\ UNCHANGED <<guts, reader, sink, in>>
  BY PlanHead DEF FlushInner, At, IInv, HeadOK
<1>2. /\ writer_buf' \in Seq(Byte) /\ Len(writer_buf') = 0 /\ written' = 0
      /\ doubt' = 0 /\ panicked' \in BOOLEAN
  BY <1>1 DEF guts, IInv, TypeOK, TypeOver
<1>3. CASE flushed' = flushed /\ \E k \in Faults : Leave(k)
  <2>1. \E k \in Results : Leave(k)
    BY <1>3, FaultAssumption DEF Results, FaultKinds
  <2>2. flushed' \in BOOLEAN /\ Len(writer_buf') <= WriterCapacity
        /\ doubt' \in 0 .. Len(writer_buf') /\ ~(doubt' > 0)
    BY <1>2, <1>3, CapacityAssumption DEF IInv, TypeOK, TypeOver
  <2> QED
    BY <1>1, <1>2, <2>1, <2>2, LeaveInv
<1>4. CASE flushed' = TRUE /\ Proceed(Tail(todo), done)
  <2>1. /\ PlanOK' /\ todo' \in Seq([step : Steps, n : Nat])
        /\ todo' # <<>> => Head(todo') = todo[2] /\ Len(todo) > 1
    BY <1>1, <1>4, PlanHead, AdvancePlan
  <2>2. TypeOK'
    <3>1. doubt' \in 0 .. Len(writer_buf') /\ written' \in 0 .. Len(writer_buf')
      BY <1>2
    <3> QED
      BY <1>1, <1>2, <1>4, <2>1, <3>1 DEF IInv, TypeOK, TypeOver, Proceed, reader, in
  <2>3. HeadOK' /\ NoRealloc'
    <3>1. ASSUME todo' # <<>>
          PROVE  Head(todo').step \notin Placing \cup {"flush_inner", "read_direct"}
      BY SMTT(60), <1>1, <2>1, <3>1, PlanHead DEF IInv, PlanOK
    <3> QED
      BY <1>2, <3>1, CapacityAssumption DEF HeadOK, NoRealloc, At, Placing
  <2>4. DoubtOK' /\ FlushedBeforeRead' /\ ReadInOrder'
    BY <1>1, <1>2, <1>4 DEF DoubtOK, DropHeedsPanic, FlushedBeforeRead, IInv,
                            ReadInOrder, Unread, guts, reader, in
  <2> QED
    BY <2>1, <2>2, <2>3, <2>4 DEF IInv
<1> QED
  BY <1>3, <1>4 DEF FlushInner
(***************************************************************************)
(* The steps of the reads                                                  *)
(***************************************************************************)
LEMMA ReaderTypes ==
    ASSUME IInv
    PROVE  /\ reader_buf \in Seq(Byte) /\ Len(reader_buf) \in Nat
           /\ pos \in 0 .. Len(reader_buf) /\ pos \in Nat
           /\ supplied \in Seq(Byte) /\ taken \in Seq(Byte)
           /\ Unread \in Seq(Byte) /\ Len(Unread) = Len(reader_buf) - pos
           /\ supplied = taken \o Unread
<1>1. /\ reader_buf \in Seq(Byte) /\ Len(reader_buf) \in Nat
      /\ pos \in 0 .. Len(reader_buf) /\ pos \in Nat
      /\ supplied \in Seq(Byte) /\ taken \in Seq(Byte)
  BY DEF IInv, TypeOK, TypeOver
<1>2. Unread \in Seq(Byte) /\ Len(Unread) = Len(reader_buf) - pos
  BY <1>1, Cut DEF Unread
<1> QED
  BY <1>1, <1>2 DEF IInv, ReadInOrder

\* What is consumed moves from the unread bytes to the bytes taken.
LEMMA ConsumedInOrder ==
    ASSUME IInv, NEW used \in 0 .. Len(Unread), Consumed(used),
           UNCHANGED <<reader_buf, supplied>>
    PROVE  /\ pos' \in 0 .. Len(reader_buf') /\ reader_buf' \in Seq(Byte)
           /\ taken' \in Seq(Byte) /\ supplied' \in Seq(Byte) /\ ReadInOrder'
<1> DEFINE A == SubSeq(reader_buf, pos + 1, pos + used)
           B == SubSeq(reader_buf, pos + used + 1, Len(reader_buf))
<1>1. /\ pos + used \in 0 .. Len(reader_buf) /\ used \in Nat
      /\ pos' = pos + used /\ taken' = taken \o A
  BY SMTT(60), ReaderTypes DEF Consumed
<1>2. A \in Seq(Byte) /\ B \in Seq(Byte)
  <2>1. /\ reader_buf \in Seq(Byte) /\ pos \in Nat /\ pos + used \in Nat
        /\ pos + used <= Len(reader_buf) /\ Len(reader_buf) \in Nat
    BY <1>1, ReaderTypes
  <2>2. A \in Seq(Byte)
    BY <2>1, Cut
  <2>3. B \in Seq(Byte)
    BY <2>1, Cut
  <2> QED
    BY <2>2, <2>3
<1>3. A \o B = Unread
  <2>1. /\ pos + 1 \in 1 .. Len(reader_buf) + 1
        /\ pos + used \in (pos + 1) - 1 .. Len(reader_buf)
        /\ Len(reader_buf) \in pos + used .. Len(reader_buf)
    BY SMTT(60), <1>1, ReaderTypes
  <2> QED
    BY <2>1, ReaderTypes, ConcatAdjacentSubSeq DEF Unread
<1>4. supplied = (taken \o A) \o B
  <2>1. taken \in Seq(Byte) /\ supplied = taken \o (A \o B)
    BY <1>3, ReaderTypes
  <2> HIDE DEF A, B
  <2> QED
    BY SMTT(60), <1>2, <2>1, ConcatAssociative
<1>5. taken' \in Seq(Byte)
  BY <1>1, <1>2, ReaderTypes, ConcatProperties
<1> QED
  BY <1>1, <1>4, <1>5, ReaderTypes DEF ReadInOrder, Unread

\* A step of a read that is done leaves the rest of the plan to run.
LEMMA ReadMoveInv ==
    ASSUME IInv, todo # <<>>, todo[1].step \in {"read_direct", "fill_buf", "take", "scan"},
           NEW d \in Nat, d = done \/ op \in ReadOps, Proceed(Tail(todo), d),
           UNCHANGED <<guts, out>>,
           reader_buf' \in Seq(Byte), pos' \in 0 .. Len(reader_buf'),
           supplied' \in Seq(Byte), taken' \in Seq(Byte), ReadInOrder'
    PROVE  IInv'
<1>1. /\ PlanOK' /\ todo' \in Seq([step : Steps, n : Nat])
      /\ todo' # <<>> => Head(todo') = todo[2] /\ Len(todo) > 1
      /\ op' = op /\ ~At("flush_buf")
  BY PlanHead, AdvancePlan DEF Proceed, At
<1>2. TypeOK'
  BY <1>1 DEF IInv, TypeOK, TypeOver, Proceed, guts, out
<1>3. HeadOK'
  <2>1. ASSUME todo' # <<>>
        PROVE  Head(todo').step \notin Placing \cup {"flush_inner", "read_direct"}
    <3>1. 2 \in 1 .. Len(todo) /\ Head(todo') = todo[2] /\ todo[2 - 1] = todo[1]
      BY <1>1, <2>1, PlanHead
    <3> QED
      BY SMTT(60), <3>1 DEF IInv, PlanOK
  <2> QED
    BY <2>1 DEF HeadOK, At, Placing
<1>4. DoubtOK' /\ NoRealloc'
  BY <1>1 DEF DoubtOK, DropHeedsPanic, NoRealloc, IInv, guts
<1>5. FlushedBeforeRead'
  BY <1>1, PlanHead DEF IInv, FlushedBeforeRead, guts, out
<1> QED
  BY <1>1, <1>2, <1>3, <1>4, <1>5 DEF IInv

LEMMA SuppliesBytes ==
    ASSUME IInv, NEW n \in Nat, NEW s \in Supplies(n)
    PROVE  s \in Seq(Byte) /\ Len(s) \in Nat
<1> DEFINE k == Least(n, SourceLength - Len(supplied))
<1>1. k \in Int
  <2>1. SourceLength - Len(supplied) \in Int
    BY ReaderTypes, BoundAssumption, LenProperties
  <2> QED
    BY <2>1 DEF Least
<1>2. s \in Strings(k)
  BY DEF Supplies
<1> HIDE DEF k
<1>3. s \in Seq(Byte)
  BY <1>1, <1>2, StringsAreSequences
<1> QED
  BY <1>3

LEMMA ReadDirectInv == IInv /\ ReadDirect => IInv'
<1> SUFFICES ASSUME IInv, ReadDirect PROVE IInv'
  OBVIOUS
<1>1. /\ todo # <<>> /\ todo[1].step = "read_direct" /\ Limit \in Nat
      /\ pos = Len(reader_buf) /\ UNCHANGED <<guts, reader, out>>
  BY PlanHead DEF ReadDirect, At, IInv, HeadOK
<1>2. op \in ReadOps
  BY <1>1, PlanHead DEF IInv, PlanOK, ReadSteps
<1>3. PICK s \in Supplies(Limit) :
        supplied' = supplied \o s /\ taken' = taken \o s /\ Proceed(Tail(todo), Len(s))
  BY DEF ReadDirect
<1>4. s \in Seq(Byte) /\ Len(s) \in Nat
  BY <1>1, SuppliesBytes
<1>5. Unread = <<>>
  BY <1>1, ReaderTypes, EmptySeq
<1>6. supplied = taken
  BY <1>5, ReaderTypes, ConcatEmptySeq
<1>7. supplied' \in Seq(Byte) /\ taken' \in Seq(Byte) /\ supplied' = taken'
  BY <1>3, <1>4, <1>6, ReaderTypes, ConcatProperties
<1>8. ReadInOrder'
  <2>1. Unread' = <<>>
    BY <1>1, <1>5 DEF Unread, reader
  <2> QED
    BY <1>7, <2>1, ConcatEmptySeq DEF ReadInOrder
<1> QED
  BY <1>1, <1>2, <1>3, <1>4, <1>7, <1>8, ReaderTypes, ReadMoveInv DEF reader

LEMMA FillInv == IInv /\ Fill => IInv'
<1> SUFFICES ASSUME IInv, Fill PROVE IInv'
  OBVIOUS
<1>1. /\ todo # <<>> /\ todo[1].step = "fill_buf" /\ done \in Nat
      /\ Proceed(Tail(todo), done) /\ UNCHANGED <<guts, out, taken>>
  BY PlanHead DEF Fill, At
<1>2. CASE UNCHANGED <<reader, supplied>>
  <2>1. ReadInOrder'
    BY <1>1, <1>2 DEF IInv, ReadInOrder, Unread, reader
  <2> QED
    BY <1>1, <1>2, <2>1, ReaderTypes, ReadMoveInv DEF reader
<1>3. ASSUME pos >= Len(reader_buf), pos' = 0, NEW s \in Supplies(ReaderCapacity),
             supplied' = supplied \o s, reader_buf' = s
      PROVE  IInv'
  <2>1. s \in Seq(Byte)
    BY CapacityAssumption, SuppliesBytes
  <2>2. Unread = <<>>
    BY <1>3, ReaderTypes, EmptySeq
  <2>3. supplied = taken /\ supplied' \in Seq(Byte)
    BY <1>3, <2>1, <2>2, ReaderTypes, ConcatEmptySeq, ConcatProperties
  <2>4. Unread' = s
    BY <1>3, <2>1, SubSeqFull DEF Unread
  <2>5. ReadInOrder'
    BY <1>1, <1>3, <2>3, <2>4 DEF ReadInOrder
  <2>6. reader_buf' \in Seq(Byte) /\ pos' \in 0 .. Len(reader_buf') /\ taken' \in Seq(Byte)
    BY <1>1, <1>3, <2>1, ReaderTypes, LenProperties
  <2> QED
    BY <1>1, <2>3, <2>5, <2>6, ReadMoveInv
<1> QED
  BY <1>2, <1>3 DEF Fill

LEMMA ReadFailsInv == IInv /\ ReadFails => IInv'
<1> SUFFICES ASSUME IInv, ReadFails PROVE IInv'
  OBVIOUS
<1>1. PICK kind \in Results : Leave(kind)
  BY FaultAssumption DEF ReadFails, NotUtf8, Results, FaultKinds
<1>2. UNCHANGED <<guts, reader, out, in>>
  BY DEF ReadFails
<1>3. written = 0
  BY SMTT(60) DEF ReadFails, NotUtf8, At, IInv, DoubtOK, TypeOK, TypeOver
<1>4. UNCHANGED <<writer_buf, panicked, written, doubt, sink, flushed>>
  BY <1>2 DEF guts, out
<1>5. /\ writer_buf' \in Seq(Byte) /\ Len(writer_buf') <= WriterCapacity
      /\ doubt' \in 0 .. Len(writer_buf') /\ (doubt' > 0 => panicked')
      /\ panicked' \in BOOLEAN /\ flushed' \in BOOLEAN
  BY <1>4 DEF IInv, TypeOK, TypeOver, NoRealloc, DoubtOK
<1> QED
  BY <1>1, <1>2, <1>3, <1>4, <1>5, LeaveInv

LEMMA TakeInv == IInv /\ Take => IInv'
<1> SUFFICES ASSUME IInv, Take PROVE IInv'
  OBVIOUS
<1> DEFINE size == Least(Limit, Len(Unread))
<1>1. /\ todo # <<>> /\ todo[1].step = "take" /\ Limit \in Nat
      /\ Consumed(size) /\ Proceed(Tail(todo), size)
      /\ UNCHANGED <<guts, reader_buf, out, supplied>>
  BY PlanHead DEF Take, At
<1>2. size \in 0 .. Len(Unread) /\ size \in Nat
  BY <1>1, ReaderTypes DEF Least
<1>3. op \in ReadOps
  BY <1>1, PlanHead DEF IInv, PlanOK, ReadSteps
<1> HIDE DEF size
<1> QED
  BY <1>1, <1>2, <1>3, ConsumedInOrder, ReadMoveInv
Moving == {"read", "fill_buf", "take", "scan"}

\* Behind the head of a read there is nothing but reading left to do.
LEMMA ReadingOnly ==
    ASSUME IInv, todo # <<>>, todo[1].step \in ReadSteps
    PROVE  op \in ReadOps /\ \A i \in 2 .. Len(todo) : todo[i].step \in Moving
<1>1. 1 \in 1 .. Len(todo) /\ Len(todo) \in Nat /\ todo \in Seq([step : Steps, n : Nat])
  BY PlanHead DEF IInv, TypeOK, TypeOver
<1>2. op \in ReadOps
  BY <1>1 DEF IInv, PlanOK
<1>3. ASSUME NEW i \in 2 .. Len(todo)
      PROVE  todo[i].step \in Moving
  <2>1. i \in 1 .. Len(todo) /\ i - 1 \in 1 .. Len(todo) /\ i > 1 /\ i # 1
    BY <1>1
  <2>2. todo[i] \in [step : Steps, n : Nat]
    BY <1>1, <2>1, ElementOfSeq
  <2>3. todo[i].step \in Steps
    BY <2>2
  <2>4. todo[i].step \notin WriteSteps /\ todo[i].step \notin {"flush_buf", "read_direct"}
    BY <1>2, <2>1 DEF IInv, PlanOK, ReadOps
  <2>5. todo[i].step # "flush_inner"
    <3>1. CASE i = 2
      BY <2>1, <3>1 DEF IInv, PlanOK, ReadSteps
    <3>2. CASE i > 2
      <4>1. todo[i - 1].step # "flush_buf"
        BY <1>2, <2>1, <3>2 DEF IInv, PlanOK
      <4> QED
        BY <2>1, <4>1 DEF IInv, PlanOK
    <3> QED
      BY <3>1, <3>2, <2>1
  <2> QED
    BY <2>3, <2>4, <2>5 DEF Steps, WriteSteps, Placing, Moving
<1> QED
  BY <1>2, <1>3

\* A plan of reading steps only, wherever the call got it from.
LEMMA ReadPlanInv ==
    ASSUME IInv, op \in ReadOps, todo # <<>>, todo[1].step \in ReadSteps,
           NEW plan \in Plans, plan # <<>>, NEW d \in Nat, Proceed(plan, d),
           \A i \in 1 .. Len(plan) :
              \/ plan[i].step \in Moving
              \/ i = 1 /\ plan[i].step = "read_direct" /\ pos' = Len(reader_buf'),
           UNCHANGED <<guts, out>>,
           reader_buf' \in Seq(Byte), pos' \in 0 .. Len(reader_buf'),
           supplied' \in Seq(Byte), taken' \in Seq(Byte), ReadInOrder'
    PROVE  IInv'
<1>1. /\ Len(plan) \in Nat \ {0} /\ 1 \in 1 .. Len(plan) /\ Head(plan) = plan[1]
      /\ todo' = plan /\ op' = op /\ life' = "open" /\ op # "none"
  BY Head1, PlanHead DEF Proceed
<1>2. TypeOK'
  <2>1. todo' \in Seq([step : Steps, n : Nat])
    BY <1>1 DEF Plans
  <2> QED
    BY <2>1 DEF IInv, TypeOK, TypeOver, Proceed, guts, out
<1>3. PlanOK'
  BY <1>1 DEF PlanOK, Moving, WriteSteps, Placing, ReadSteps, ReadOps
<1>4. HeadOK'
  BY <1>1 DEF HeadOK, At, Moving
<1>5. DoubtOK' /\ NoRealloc'
  <2>1. written = 0
    <3>1. ~At("flush_buf")
      BY PlanHead DEF At, ReadSteps
    <3> QED
      BY <3>1 DEF IInv, DoubtOK, TypeOK, TypeOver
  <2> QED
    BY <1>1, <2>1 DEF DoubtOK, DropHeedsPanic, NoRealloc, IInv, guts
<1>6. FlushedBeforeRead'
  BY <1>1, PlanHead DEF IInv, FlushedBeforeRead, guts, out, ReadSteps
<1> QED
  BY <1>2, <1>3, <1>4, <1>5, <1>6 DEF IInv

LEMMA ChooseReadInv == IInv /\ ChooseRead => IInv'
<1> SUFFICES ASSUME IInv, ChooseRead PROVE IInv'
  OBVIOUS
<1> DEFINE p == Tail(todo)
<1>1. /\ todo # <<>> /\ todo[1].step = "read" /\ todo[1].step \in ReadSteps
      /\ Limit \in Nat /\ done \in Nat /\ UNCHANGED <<guts, out, in>>
  BY PlanHead DEF ChooseRead, At, ReadSteps
<1>2. op \in ReadOps /\ \A i \in 2 .. Len(todo) : todo[i].step \in Moving
  BY <1>1, ReadingOnly
<1>3. /\ p \in Plans /\ Len(p) = Len(todo) - 1 /\ Len(todo) \in Nat
      /\ \A i \in 1 .. Len(p) : p[i] = todo[i + 1]
  BY <1>1, Head1 DEF IInv, TypeOK, TypeOver, Plans
<1>4. \A i \in 1 .. Len(p) : p[i].step \in Moving
  BY <1>2, <1>3
<1> HIDE DEF p
<1>5. CASE /\ BypassesBuffer(Limit) /\ reader_buf' = <<>> /\ pos' = 0
           /\ Proceed(<<Step("read_direct", Limit)>> \o p, done)
  <2> DEFINE s == Step("read_direct", Limit)
             q == <<s>> \o p
  <2>1. s \in [step : Steps, n : Nat] /\ s.step = "read_direct"
    BY <1>1 DEF Step, Steps
  <2> HIDE DEF s
  <2>2. /\ q \in Plans /\ Len(q) = Len(p) + 1 /\ q[1] = s
        /\ \A i \in 1 .. Len(p) : q[i + 1] = p[i]
    BY <1>3, <2>1, Push
  <2>3. Proceed(q, done)
    BY <1>5 DEF s
  <2> HIDE DEF q
  <2>4. reader_buf' \in Seq(Byte) /\ Len(reader_buf') = 0
    BY <1>5
  <2>5. ReadInOrder'
    <3>1. Unread = <<>> /\ Unread' = <<>>
      BY <1>5, <2>4, ReaderTypes, EmptySeq, SubSeqEmpty DEF BypassesBuffer, Unread
    <3> QED
      BY <1>1, <3>1, ReaderTypes DEF ReadInOrder, in
  <2>6. ASSUME NEW i \in 1 .. Len(q), i # 1
        PROVE  q[i].step \in Moving
    <3>1. i - 1 \in 1 .. Len(p) /\ (i - 1) + 1 = i
      BY <1>3, <2>2, <2>6
    <3> QED
      BY <1>4, <2>2, <3>1
  <2>7. \A i \in 1 .. Len(q) :
           \/ q[i].step \in Moving
           \/ i = 1 /\ q[i].step = "read_direct" /\ pos' = Len(reader_buf')
    BY <1>5, <2>1, <2>2, <2>4, <2>6
  <2>8. q # <<>> /\ pos' \in 0 .. Len(reader_buf')
        /\ supplied' \in Seq(Byte) /\ taken' \in Seq(Byte)
    BY <1>1, <1>3, <1>5, <2>2, <2>4, ReaderTypes, EmptySeq DEF in
  <2> QED
    BY <1>1, <1>2, <2>2, <2>3, <2>4, <2>5, <2>7, <2>8, ReadPlanInv
<1>6. CASE /\ UNCHANGED reader
           /\ Proceed(<<Step("fill_buf", 0), Step("take", Limit)>> \o p, done)
  <2> DEFINE s == Step("fill_buf", 0)
             t == Step("take", Limit)
             q == <<s, t>> \o p
  <2>1. /\ s \in [step : Steps, n : Nat] /\ s.step = "fill_buf"
        /\ t \in [step : Steps, n : Nat] /\ t.step = "take"
    BY <1>1 DEF Step, Steps
  <2>2. <<s, t>> \in Plans /\ Len(<<s, t>>) = 2 /\ <<s, t>>[1] = s /\ <<s, t>>[2] = t
    BY <2>1 DEF Plans
  <2> HIDE DEF s, t
  <2>3. /\ q \in Plans /\ Len(q) = Len(p) + 2
        /\ \A i \in 1 .. Len(q) : q[i] = IF i <= 2 THEN <<s, t>>[i] ELSE p[i - 2]
    BY SMTT(60), <1>3, <2>2, ConcatProperties DEF Plans
  <2> HIDE DEF q
  <2>4. \A i \in 1 .. Len(q) : q[i].step \in Moving
    <3>1. ASSUME NEW i \in 1 .. Len(q), i > 2 PROVE q[i].step \in Moving
      BY <1>3, <1>4, <2>3, <3>1
    <3>2. q[1].step \in Moving /\ q[2].step \in Moving
      BY <1>3, <2>1, <2>2, <2>3 DEF Moving
    <3> QED
      BY <1>3, <2>3, <3>1, <3>2
  <2>5. ReadInOrder'
    BY <1>1, <1>6 DEF IInv, ReadInOrder, Unread, reader, in
  <2>6. Proceed(q, done) /\ q # <<>>
    BY <1>3, <1>6, <2>3, EmptySeq DEF q, s, t
  <2> QED
    BY <1>1, <1>2, <1>6, <2>3, <2>4, <2>5, <2>6, ReaderTypes, ReadPlanInv DEF in, reader
<1> QED
  BY <1>5, <1>6 DEF ChooseRead, p
LEMMA ScanInv == IInv /\ Scan => IInv'
<1> SUFFICES ASSUME IInv, Scan PROVE IInv'
  OBVIOUS
<1>1. /\ todo # <<>> /\ todo[1].step = "scan" /\ todo[1].step \in ReadSteps
      /\ done \in Nat /\ UNCHANGED <<guts, reader_buf, out, supplied>>
  BY PlanHead DEF Scan, At, ReadSteps
<1>2. op \in ReadOps /\ \A i \in 2 .. Len(todo) : todo[i].step \in Moving
  BY <1>1, ReadingOnly
<1>3. PICK used \in 0 .. Len(Unread) :
        /\ Consumed(used)
        /\ \/ Proceed(Tail(todo), done + used)
           \/ Proceed(<<Step("fill_buf", 0)>> \o todo, done + used)
  BY DEF Scan
<1>4. /\ pos' \in 0 .. Len(reader_buf') /\ reader_buf' \in Seq(Byte)
      /\ taken' \in Seq(Byte) /\ supplied' \in Seq(Byte) /\ ReadInOrder'
  BY <1>1, <1>3, ConsumedInOrder
<1>5. done + used \in Nat
  BY <1>1, <1>3, ReaderTypes
<1>6. CASE Proceed(Tail(todo), done + used)
  BY <1>1, <1>2, <1>4, <1>5, <1>6, ReadMoveInv
<1>7. CASE Proceed(<<Step("fill_buf", 0)>> \o todo, done + used)
  <2> DEFINE s == Step("fill_buf", 0)
             q == <<s>> \o todo
  <2>1. s \in [step : Steps, n : Nat] /\ s.step = "fill_buf"
    BY DEF Step, Steps
  <2>2. todo \in Plans /\ Len(todo) \in Nat
    BY PlanHead, <1>1 DEF IInv, TypeOK, TypeOver, Plans
  <2> HIDE DEF s
  <2>3. /\ q \in Plans /\ Len(q) = Len(todo) + 1 /\ q[1] = s
        /\ \A i \in 1 .. Len(todo) : q[i + 1] = todo[i]
    BY <2>1, <2>2, Push
  <2>4. Proceed(q, done + used)
    BY <1>7 DEF s
  <2> HIDE DEF q
  <2>5. \A i \in 1 .. Len(todo) : todo[i].step \in Moving
    <3>1. ASSUME NEW i \in 1 .. Len(todo), i # 1 PROVE todo[i].step \in Moving
      BY <1>2, <2>2, <3>1
    <3>2. todo[1].step \in Moving
      BY <1>1 DEF Moving
    <3> QED
      BY <3>1, <3>2
  <2>6. \A i \in 1 .. Len(q) : q[i].step \in Moving
    <3>1. ASSUME NEW i \in 1 .. Len(q), i # 1 PROVE q[i].step \in Moving
      <4>1. i - 1 \in 1 .. Len(todo) /\ (i - 1) + 1 = i
        BY <2>2, <2>3, <3>1
      <4> QED
        BY <2>3, <2>5, <4>1
    <3>2. q[1].step \in Moving
      BY <2>1, <2>3 DEF Moving
    <3> QED
      BY <3>1, <3>2
  <2>7. q # <<>>
    BY <2>2, <2>3, EmptySeq
  <2> QED
    BY <1>1, <1>2, <1>4, <1>5, <2>3, <2>4, <2>6, <2>7, ReadPlanInv
<1> QED
  BY <1>3, <1>6, <1>7

(***************************************************************************)
(* The owner's calls                                                       *)
(***************************************************************************)
\* Between calls nothing is in progress: no plan, no flush half done.
LEMMA Idle ==
    ASSUME IInv, op = "none"
    PROVE  /\ todo = <<>> /\ written = 0
           /\ Stream \in Seq(Byte)
<1>1. todo = <<>>
  BY DEF IInv, PlanOK
<1>2. written = 0
  BY <1>1 DEF IInv, DoubtOK, At, TypeOK, TypeOver
<1>3. Stream \in Seq(Byte)
  BY RemainingIsBytes, ConcatProperties DEF Stream, IInv, TypeOK, TypeOver
<1> QED
  BY <1>1, <1>2, <1>3

LEMMA ConsumeInv == ASSUME NEW n \in Nat PROVE IInv /\ Consume(n) => IInv'
<1> SUFFICES ASSUME IInv, Consume(n) PROVE IInv'
  OBVIOUS
<1> DEFINE used == Least(n, Len(reader_buf) - pos)
<1>1. used \in 0 .. Len(Unread) /\ Consumed(used)
  BY ReaderTypes DEF Consume, Consumed, Least
<1>2. UNCHANGED <<guts, reader_buf, out, supplied, frame>>
  BY DEF Consume
<1> HIDE DEF used
<1>3. /\ pos' \in 0 .. Len(reader_buf') /\ reader_buf' \in Seq(Byte)
      /\ taken' \in Seq(Byte) /\ supplied' \in Seq(Byte) /\ ReadInOrder'
  BY <1>1, <1>2, ConsumedInOrder
<1>4. /\ UNCHANGED <<life, op, data, todo, done, ret, base>>
      /\ UNCHANGED <<writer_buf, panicked, written, doubt, sink, flushed>>
      /\ todo = <<>>
  BY <1>2, Idle DEF frame, guts, out, Consume
<1>5. TypeOK'
  BY <1>3, <1>4 DEF IInv, TypeOK, TypeOver
<1>6. PlanOK' /\ HeadOK' /\ DoubtOK'
  BY <1>4 DEF IInv, PlanOK, HeadOK, DoubtOK, DropHeedsPanic, At
<1>7. NoRealloc' /\ FlushedBeforeRead'
  BY <1>4 DEF IInv, NoRealloc, FlushedBeforeRead
<1> QED
  BY <1>3, <1>5, <1>6, <1>7 DEF IInv

\* A call starts from an idle wrapper with a plan the invariant allows.
LEMMA CallInv ==
    ASSUME IInv, NEW o \in Ops, NEW d \in Seq(Byte), NEW plan \in Plans, Call(o, d, plan),
           PlanOK', HeadOK', o = "drop" => doubt = 0,
           o \in ReadOps => plan # <<>> /\ Head(plan).step = "flush_buf"
    PROVE  IInv'
<1>1. /\ op = "none" /\ op' = o /\ data' = d /\ todo' = plan /\ base' = Stream
      /\ done' = 0 /\ ret' = [kind |-> "none", n |-> 0] /\ life' = life
      /\ UNCHANGED <<writer_buf, panicked, written, doubt, reader_buf, pos>>
      /\ UNCHANGED <<sink, flushed, supplied, taken>>
  BY DEF Call, guts, reader, out, in
<1>2. todo = <<>> /\ written = 0 /\ Stream \in Seq(Byte)
  BY <1>1, Idle
<1>3. TypeOK'
  <2>1. ret' \in [kind : Results, n : Nat]
    BY <1>1 DEF Results
  <2>2. todo' \in Seq([step : Steps, n : Nat])
    BY <1>1 DEF Plans
  <2> QED
    BY <1>1, <1>2, <2>1, <2>2 DEF IInv, TypeOK, TypeOver
<1>4. DoubtOK'
  BY <1>1, <1>2 DEF IInv, DoubtOK, DropHeedsPanic
<1>5. NoRealloc' /\ ReadInOrder'
  BY <1>1 DEF IInv, NoRealloc, ReadInOrder, Unread
<1>6. FlushedBeforeRead'
  BY <1>1 DEF FlushedBeforeRead
<1> QED
  BY <1>3, <1>4, <1>5, <1>6 DEF IInv
LEMMA OneStepCallInv ==
    ASSUME IInv, NEW o \in Ops \ ReadOps, NEW d \in Seq(Byte),
           NEW s \in {"write", "write_all", "fill_buf", "flush_buf"}, NEW n \in Nat,
           Call(o, d, <<Step(s, n)>>),
           s \in {"write", "write_all"} => o \in {"write", "write_all"} /\ n = Len(d),
           o = "drop" => doubt = 0
    PROVE  IInv'
<1> DEFINE plan == <<Step(s, n)>>
<1>1. plan \in Plans /\ Len(plan) = 1 /\ plan[1] = Step(s, n) /\ plan # <<>>
  BY DEF Plans, Step, Steps
<1>2. /\ todo' = plan /\ op' = o /\ data' = d /\ done' = 0 /\ life' = "open"
      /\ o # "none" /\ Len(d) \in Nat
  BY DEF Call, Ops, ReadOps
<1>3. PlanOK'
  <2>1. \A i \in 1 .. Len(todo') : i = 1 /\ todo'[i].step = s /\ todo'[i].n = n
    BY <1>1, <1>2 DEF Step
  <2> QED
    BY <1>1, <1>2, <2>1 DEF PlanOK, WriteSteps, Placing, ReadSteps
<1>4. HeadOK'
  BY <1>1, <1>2 DEF HeadOK, At, Step
<1> QED
  BY <1>1, <1>3, <1>4, CallInv

\* The plans that start with both flushes.
LEMMA FlushFirst ==
    ASSUME NEW rest \in Plans
    PROVE  /\ FlushPlan \o rest \in Plans /\ Len(rest) \in Nat
           /\ Len(FlushPlan \o rest) = 2 + Len(rest)
           /\ (FlushPlan \o rest)[1] = Step("flush_buf", 0)
           /\ (FlushPlan \o rest)[2] = Step("flush_inner", 0)
           /\ \A i \in 1 .. 2 + Len(rest) : i > 2 => (FlushPlan \o rest)[i] = rest[i - 2]
<1> DEFINE S == [step : Steps, n : Nat]
           head == FlushPlan
<1>1. head \in Seq(S) /\ rest \in Seq(S)
  BY DEF FlushPlan, Plans, Step, Steps
<1>2. Len(head) = 2 /\ head[1] = Step("flush_buf", 0) /\ head[2] = Step("flush_inner", 0)
  BY DEF FlushPlan, Step
<1> HIDE DEF S, head
<1>3. /\ head \o rest \in Seq(S) /\ Len(head \o rest) = Len(head) + Len(rest)
      /\ \A i \in 1 .. Len(head) + Len(rest) :
            (head \o rest)[i] = IF i <= Len(head) THEN head[i] ELSE rest[i - Len(head)]
  BY <1>1, ConcatProperties, SMTT(60)
<1>4. Len(rest) \in Nat
  BY <1>1, LenProperties
<1>5. /\ \A i \in 1 .. 2 + Len(rest) : i > 2 => (head \o rest)[i] = rest[i - 2]
      /\ (head \o rest)[1] = head[1] /\ (head \o rest)[2] = head[2]
  BY <1>2, <1>3, <1>4
<1> QED
  BY <1>2, <1>3, <1>4, <1>5 DEF S, head, Plans

LEMMA FlushCallInv ==
    ASSUME IInv, NEW o \in {"flush", "read", "read_until", "read_line"}, NEW d \in Seq(Byte),
           NEW rest \in Plans, Call(o, d, FlushPlan \o rest),
           \A i \in 1 .. Len(rest) : rest[i].step \in Moving /\ o \in ReadOps
    PROVE  IInv'
<1> DEFINE plan == FlushPlan \o rest
<1>1. /\ plan \in Plans /\ Len(plan) = 2 + Len(rest) /\ Len(rest) \in Nat
      /\ plan[1] = Step("flush_buf", 0) /\ plan[2] = Step("flush_inner", 0)
  BY FlushFirst
<1>2. \A i \in 1 .. Len(plan) : i > 2 => i - 2 \in 1 .. Len(rest) /\ plan[i] = rest[i - 2]
  BY <1>1, FlushFirst
<1>3. /\ todo' = plan /\ op' = o /\ data' = d /\ done' = 0 /\ life' = "open" /\ o # "none"
  BY DEF Call
<1> HIDE DEF plan
<1>4. /\ plan[1].step = "flush_buf" /\ plan[2].step = "flush_inner" /\ plan # <<>>
      /\ Head(plan) = plan[1]
      /\ \A i \in 1 .. Len(plan) : i > 2 => plan[i].step \in Moving /\ o \in ReadOps
  <2>1. plan # <<>>
    BY <1>1, EmptySeq
  <2>2. Head(plan) = plan[1]
    BY <1>1, <2>1, Head1
  <2> QED
    BY <1>1, <1>2, <2>1, <2>2 DEF Step
<1>5. PlanOK'
  <2>1. ASSUME NEW i \in 1 .. Len(plan)
        PROVE  \/ i = 1 /\ plan[i].step = "flush_buf"
               \/ i = 2 /\ plan[i].step = "flush_inner" /\ plan[i - 1].step = "flush_buf"
               \/ i > 2 /\ plan[i].step \in Moving /\ o \in ReadOps
    BY <1>1, <1>4
  <2> QED
    BY <1>1, <1>3, <1>4, <2>1 DEF PlanOK, Moving, WriteSteps, Placing, ReadSteps
<1>6. HeadOK'
  BY <1>3, <1>4 DEF HeadOK, At
<1>7. Call(o, d, plan) /\ o \in Ops /\ o # "drop"
  BY DEF Ops, plan
<1> QED
  BY <1>1, <1>4, <1>5, <1>6, <1>7, CallInv

LEMMA WriteCallsInv == IInv /\ WriteCalls => IInv'
<1> SUFFICES ASSUME IInv, NEW d \in Strings(MaxLen), Write(d) \/ WriteAll(d) PROVE IInv'
  BY DEF WriteCalls
<1>1. d \in Seq(Byte) /\ Len(d) \in Nat
  BY BoundAssumption, StringsAreSequences, LenProperties
<1>2. {"write", "write_all"} \subseteq Ops \ ReadOps
  BY DEF Ops, ReadOps
<1>3. CASE Write(d)
  BY <1>1, <1>2, <1>3, OneStepCallInv DEF Write
<1>4. CASE WriteAll(d)
  BY <1>1, <1>2, <1>4, OneStepCallInv DEF WriteAll
<1> QED
  BY <1>3, <1>4

LEMMA FlushCall == IInv /\ Flush => IInv'
<1> SUFFICES ASSUME IInv, Flush PROVE IInv'
  OBVIOUS
<1> DEFINE rest == <<>>
<1>1. FlushPlan \in Plans /\ rest \in Plans /\ Len(rest) = 0 /\ rest \in Seq(Byte)
  BY EmptySeq DEF FlushPlan, Plans, Step, Steps
<1>2. FlushPlan = FlushPlan \o rest
  BY <1>1, ConcatEmptySeq DEF Plans
<1>3. Call("flush", rest, FlushPlan \o rest)
  BY <1>2 DEF Flush
<1>4. \A i \in 1 .. Len(rest) : rest[i].step \in Moving /\ "flush" \in ReadOps
  BY <1>1
<1> HIDE DEF rest
<1> QED
  BY <1>1, <1>3, <1>4, FlushCallInv

LEMMA ReadCallsInv == IInv /\ ReadCalls => IInv'
<1> SUFFICES ASSUME IInv, ReadCalls PROVE IInv'
  OBVIOUS
<1>1. ASSUME NEW n \in 0 .. MaxLen, Read(n) PROVE IInv'
  <2> DEFINE rest == <<Step("read", n)>>
  <2>1. /\ rest \in Plans /\ <<>> \in Seq(Byte) /\ "read" \in ReadOps
        /\ \A i \in 1 .. Len(rest) : rest[i].step \in Moving
    BY <1>1, BoundAssumption DEF Plans, Step, Steps, Moving, ReadOps
  <2>2. Call("read", <<>>, FlushPlan \o rest)
    BY <1>1 DEF Read
  <2> HIDE DEF rest
  <2> QED
    BY <2>1, <2>2, FlushCallInv
<1>2. ASSUME NEW b \in Byte, NEW o \in {"read_until", "read_line"}, Search(o, b) PROVE IInv'
  <2> DEFINE rest == <<Step("fill_buf", 0), Step("scan", 0)>>
  <2>1. /\ rest \in Plans /\ <<b>> \in Seq(Byte) /\ o \in ReadOps
        /\ \A i \in 1 .. Len(rest) : rest[i].step \in Moving
    BY DEF Plans, Step, Steps, Moving, ReadOps
  <2>2. Call(o, <<b>>, FlushPlan \o rest)
    BY <1>2 DEF Search
  <2> HIDE DEF rest
  <2> QED
    BY <2>1, <2>2, FlushCallInv
<1>3. CASE FillBuf
  <2>1. /\ Call("fill_buf", <<>>, <<Step("fill_buf", 0)>>) /\ <<>> \in Seq(Byte)
        /\ "fill_buf" \in Ops \ ReadOps /\ 0 \in Nat /\ "fill_buf" \notin {"write", "write_all"}
        /\ "fill_buf" \in {"write", "write_all", "fill_buf", "flush_buf"} /\ "fill_buf" # "drop"
    BY <1>3, EmptySeq DEF FillBuf, Ops, ReadOps
  <2> QED
    BY <2>1, OneStepCallInv
<1>4. ASSUME NEW n \in 0 .. MaxLen, Consume(n) PROVE IInv'
  BY <1>4, BoundAssumption, ConsumeInv
<1> QED
  BY <1>1, <1>2, <1>3, <1>4 DEF ReadCalls, ReadUntil, ReadLine

LEMMA CloseCallsInv == IInv /\ CloseCalls => IInv'
<1> SUFFICES ASSUME IInv, CloseCalls PROVE IInv'
  OBVIOUS
<1>0. /\ <<>> \in Seq(Byte) /\ 0 \in Nat /\ "flush_buf" \notin {"write", "write_all"}
      /\ "flush_buf" \in {"write", "write_all", "fill_buf", "flush_buf"}
  BY EmptySeq
<1>1. CASE IntoInner
  <2>1. /\ Call("into_inner", <<>>, <<Step("flush_buf", 0)>>)
        /\ "into_inner" \in Ops \ ReadOps /\ "into_inner" # "drop"
    BY <1>1 DEF IntoInner, Ops, ReadOps
  <2> QED
    BY <1>0, <2>1, OneStepCallInv
<1>2. CASE ~panicked /\ Call("drop", <<>>, <<Step("flush_buf", 0)>>)
  <2>1. doubt = 0
    BY <1>2 DEF IInv, DoubtOK, TypeOK, TypeOver
  <2>2. "drop" \in Ops \ ReadOps
    BY DEF Ops, ReadOps
  <2> QED
    BY <1>0, <1>2, <2>1, <2>2, OneStepCallInv
<1>3. CASE /\ life = "open" /\ op = "none" /\ panicked /\ life' = "dropped"
           /\ UNCHANGED <<guts, reader, out, in, op, data, todo, done, ret, base>>
  <2>1. /\ UNCHANGED <<writer_buf, panicked, written, doubt, reader_buf, pos>>
        /\ UNCHANGED <<sink, flushed, supplied, taken>>
        /\ UNCHANGED <<op, data, todo, done, ret, base>> /\ todo = <<>>
    BY <1>3, Idle DEF guts, reader, out, in
  <2>2. TypeOK'
    BY <1>3, <2>1 DEF IInv, TypeOK, TypeOver
  <2>3. PlanOK' /\ HeadOK' /\ DoubtOK'
    BY <1>3, <2>1 DEF IInv, PlanOK, HeadOK, DoubtOK, DropHeedsPanic, At
  <2>4. NoRealloc' /\ FlushedBeforeRead' /\ ReadInOrder'
    BY <2>1 DEF IInv, NoRealloc, FlushedBeforeRead, ReadInOrder, Unread
  <2> QED
    BY <2>2, <2>3, <2>4 DEF IInv
<1> QED
  BY <1>1, <1>2, <1>3 DEF CloseCalls, Drop

LEMMA ReturnInv == IInv /\ Return => IInv'
<1> SUFFICES ASSUME IInv, Return PROVE IInv'
  OBVIOUS
<1>1. Leave("ok") /\ "ok" \in Results /\ UNCHANGED <<guts, reader, out, in>> /\ todo = <<>>
  BY DEF Return, Results
<1>2. written = 0 /\ UNCHANGED <<writer_buf, panicked, written, doubt, sink, flushed>>
  BY <1>1 DEF IInv, DoubtOK, At, TypeOK, TypeOver, guts, out
<1>3. /\ writer_buf' \in Seq(Byte) /\ Len(writer_buf') <= WriterCapacity
      /\ doubt' \in 0 .. Len(writer_buf') /\ (doubt' > 0 => panicked')
      /\ panicked' \in BOOLEAN /\ flushed' \in BOOLEAN
  BY <1>2 DEF IInv, TypeOK, TypeOver, NoRealloc, DoubtOK
<1> QED
  BY <1>1, <1>2, <1>3, LeaveInv

(***************************************************************************)
(* The invariant holds of the specification                                *)
(***************************************************************************)
LEMMA InitInv == Init => IInv
<1> SUFFICES ASSUME Init PROVE IInv
  OBVIOUS
<1>1. TypeOK
  <2>1. todo \in Seq([step : Steps, n : Nat]) /\ ret \in [kind : Results, n : Nat]
    BY DEF Init, Results
  <2> QED
    <3>1. \A S : <<>> \in Seq(S) /\ Len(<<>>) = 0
      BY EmptySeq
    <3>2. /\ writer_buf \in Seq(Byte) /\ reader_buf \in Seq(Byte) /\ data \in Seq(Byte)
          /\ sink \in Seq(Byte) /\ supplied \in Seq(Byte) /\ taken \in Seq(Byte)
          /\ base \in Seq(Byte) /\ Len(writer_buf) = 0 /\ Len(reader_buf) = 0
      BY <3>1 DEF Init
    <3>3. pos \in 0 .. 0 /\ written \in 0 .. 0 /\ doubt \in 0 .. 0 /\ done \in Nat
      BY DEF Init
    <3>4. /\ life \in {"open", "unwrapped", "dropped"} /\ op \in Ops \cup {"none"}
          /\ panicked \in BOOLEAN /\ flushed \in BOOLEAN
      BY DEF Init
    <3> QED
      BY <2>1, <3>2, <3>3, <3>4 DEF TypeOK, TypeOver
<1>2. PlanOK /\ HeadOK /\ DoubtOK
  BY DEF Init, PlanOK, HeadOK, DoubtOK, DropHeedsPanic, At
<1>3. NoRealloc /\ FlushedBeforeRead
  BY CapacityAssumption DEF Init, NoRealloc, FlushedBeforeRead, ReadOps
<1>4. ReadInOrder
  <2>1. Unread = <<>> /\ <<>> \in Seq(Byte)
    BY SubSeqEmpty DEF Init, Unread
  <2> QED
    BY <2>1, ConcatEmptySeq DEF Init, ReadInOrder
<1> QED
  BY <1>1, <1>2, <1>3, <1>4 DEF IInv

LEMMA StutterInv == IInv /\ UNCHANGED vars => IInv'
<1> SUFFICES ASSUME IInv, UNCHANGED vars PROVE IInv'
  OBVIOUS
<1>1. /\ UNCHANGED <<writer_buf, panicked, written, doubt, reader_buf, pos>>
      /\ UNCHANGED <<sink, flushed, supplied, taken>>
      /\ UNCHANGED <<life, op, data, todo, done, ret, base>>
  BY DEF vars, guts, reader, out, in, frame
<1>2. TypeOK' /\ PlanOK'
  BY <1>1 DEF IInv, TypeOK, TypeOver, PlanOK
<1>3. HeadOK' /\ DoubtOK'
  BY <1>1 DEF IInv, HeadOK, DoubtOK, DropHeedsPanic, At, Limit
<1>4. NoRealloc' /\ FlushedBeforeRead' /\ ReadInOrder'
  BY <1>1 DEF IInv, NoRealloc, FlushedBeforeRead, ReadInOrder, Unread
<1> QED
  BY <1>2, <1>3, <1>4 DEF IInv

LEMMA StepInv == IInv /\ [Next]_vars => IInv'
<1> SUFFICES ASSUME IInv, [Next]_vars PROVE IInv'
  OBVIOUS
<1>1. CASE WriteCalls
  BY <1>1, WriteCallsInv
<1>2. CASE Flush
  BY <1>2, FlushCall
<1>3. CASE ReadCalls
  BY <1>3, ReadCallsInv
<1>4. CASE CloseCalls
  BY <1>4, CloseCallsInv
<1>5. CASE WriterSteps
  BY <1>5, CheckRoomInv, ExtendInv, DirectInv, DirectAllInv, DirectRetryInv, DirectEndsInv
     DEF WriterSteps
<1>6. CASE FlushSteps
  BY <1>6, FlushBufInv, FlushLoopInv, FlushEndsInv, FlushInnerInv DEF FlushSteps
<1>7. CASE ReaderSteps
  BY <1>7, ChooseReadInv, ReadDirectInv, FillInv, ReadFailsInv, TakeInv, ScanInv
     DEF ReaderSteps
<1>8. CASE Return
  BY <1>8, ReturnInv
<1>9. CASE Closed \/ UNCHANGED vars
  BY <1>9, StutterInv DEF Closed
<1> QED
  BY <1>1, <1>2, <1>3, <1>4, <1>5, <1>6, <1>7, <1>8, <1>9 DEF Next, Run

LEMMA InvariantHolds == Spec => []IInv
<1>1. Init => IInv
  BY InitInv
<1>2. IInv /\ [Next]_vars => IInv'
  BY StepInv
<1> QED
  BY <1>1, <1>2, PTL DEF Spec

(***************************************************************************)
(* Theorems                                                                *)
(***************************************************************************)
\* Every buffer, index and count stays of its type and within its bounds, for
\* every capacity, zero included, and every mixture of faults.
THEOREM TypeCorrect == Spec => []TypeOK
<1>1. IInv => TypeOK
  BY DEF IInv
<1> QED
  BY <1>1, InvariantHolds, PTL

\* writer_buf never outgrows the capacity it was allocated with.
THEOREM NeverReallocates == Spec => []NoRealloc
<1>1. IInv => NoRealloc
  BY DEF IInv
<1> QED
  BY <1>1, InvariantHolds, PTL

\* The destructor never offers bytes that the last write they were offered to
\* panicked over.  (The code forgets a panic as soon as a later write of the
\* same bytes is answered, and offers them again; so does `doubt'.)
THEOREM DropHeedsPanics == Spec => []DropHeedsPanic
<1>1. IInv => DropHeedsPanic
  BY DEF IInv, DoubtOK
<1> QED
  BY <1>1, InvariantHolds, PTL

\* No read reaches the inner reader before all that was written is out.
THEOREM ReadsFollowFlush == Spec => []FlushedBeforeRead
<1>1. IInv => FlushedBeforeRead
  BY DEF IInv
<1> QED
  BY <1>1, InvariantHolds, PTL

\* The owner gets the inner reader's bytes, all of them, once and in order.
THEOREM ReadsInOrder == Spec => []ReadInOrder
<1>1. IInv => ReadInOrder
  BY DEF IInv
<1> QED
  BY <1>1, InvariantHolds, PTL
================================================================================
