----------------------- MODULE BufReaderLineWriter_proofs -----------------------
(***************************************************************************)
(* Proofs about BufReaderLineWriter, for every byte set and newline, every *)
(* capacity, every bound and every set of faults.                          *)
(***************************************************************************)
EXTENDS BufReaderLineWriter, BufReaderWriter_returns, FiniteSetTheorems

(***************************************************************************)
(* Newlines                                                                *)
(***************************************************************************)
\* A set of naturals with a bound has a greatest element: of the intervals
\* from a member to the bound, take one that strictly contains no other.
LEMMA Greatest ==
    ASSUME NEW N \in Nat, NEW A \in SUBSET (0 .. N), A # {}
    PROVE  \E x \in A : \A y \in A : x >= y
<1> DEFINE U == 0 .. N
           T == {i .. N : i \in A}
<1>1. IsFiniteSet(U)
  BY FS_Interval
<1>2. IsWellFoundedOn(StrictSubsetOrdering(U), SUBSET U)
  BY <1>1, FS_StrictSubsetOrderingWellFounded, FS_FiniteSubsetsOfFinite
<1>3. T \subseteq SUBSET U /\ T # {}
  <2>1. \A i \in A : i .. N \subseteq U
    OBVIOUS
  <2>2. PICK x \in A : TRUE
    OBVIOUS
  <2>3. x .. N \in T
    BY <2>2
  <2> HIDE DEF U
  <2> QED
    BY <2>1, <2>3
<1>4. PICK t \in T : \A u \in T : <<u, t>> \notin StrictSubsetOrdering(U)
  <2> HIDE DEF T, U
  <2> QED
    BY <1>2, <1>3, WFMin
<1>5. PICK x \in A : t = x .. N
  BY <1>4
<1>6. ASSUME NEW y \in A, y > x PROVE FALSE
  <2> DEFINE u == y .. N
  <2>1. x \in 0 .. N /\ y \in 0 .. N
    OBVIOUS
  <2>2. u \subseteq t /\ u # t
    <3>1. x \in t /\ x \notin u
      BY <1>5, <1>6, <2>1
    <3>2. u \subseteq t
      BY <1>5, <1>6, <2>1
    <3> QED
      BY <3>1, <3>2
  <2>3. u \in T /\ u \in SUBSET U /\ t \in SUBSET U
    BY <1>3, <1>4
  <2> HIDE DEF u, T
  <2>4. <<u, t>> \in StrictSubsetOrdering(U)
    BY <2>2, <2>3 DEF StrictSubsetOrdering
  <2> QED
    BY <1>4, <2>3, <2>4
<1>7. \A y \in A : x >= y
  <2> TAKE y \in A
  <2>1. x \in Int /\ y \in Int /\ ~(y > x)
    BY <1>6
  <2> QED
    BY <2>1
<1> QED
  BY <1>7

\* What memrchr finds: a newline with none after it.
LEMMA LastNewlineIs ==
    ASSUME NEW s \in Seq(Byte)
    PROVE  /\ LastNewline(s) \in 0 .. Len(s)
           /\ HasNewline(s) => LastNewline(s) \in 1 .. Len(s) /\ s[LastNewline(s)] = Newline
           /\ \A i \in 1 .. Len(s) : s[i] = Newline => i <= LastNewline(s)
<1> DEFINE A == {0} \cup {i \in 1 .. Len(s) : s[i] = Newline}
           n == LastNewline(s)
<1>1. Len(s) \in Nat /\ A \subseteq 0 .. Len(s) /\ A # {}
  BY LenProperties
<1>2. n \in A /\ \A y \in A : n >= y
  <2>1. n = CHOOSE x \in A : \A y \in A : x >= y
    BY DEF LastNewline, Max
  <2>2. \E x \in A : \A y \in A : x >= y
    <3> HIDE DEF A
    <3> QED
      BY <1>1, Greatest
  <2> HIDE DEF A, n
  <2> QED
    BY <2>1, <2>2
<1>3. \A i \in 1 .. Len(s) : s[i] = Newline => i <= n
  <2> SUFFICES ASSUME NEW i \in 1 .. Len(s), s[i] = Newline PROVE i <= n
    OBVIOUS
  <2>1. i \in A /\ n \in Int
    BY <1>1, <1>2
  <2> QED
    BY <1>2, <2>1
<1>4. HasNewline(s) <=> n # 0
  BY DEF HasNewline
<1> HIDE DEF n
<1>5. n \in 0 .. Len(s) /\ (n # 0 => s[n] = Newline)
  BY <1>1, <1>2
<1> QED
  BY <1>1, <1>3, <1>4, <1>5 DEF n

LEMMA HasNewlineIs ==
    ASSUME NEW s \in Seq(Byte)
    PROVE  HasNewline(s) <=> \E i \in 1 .. Len(s) : s[i] = Newline
<1>1. Len(s) \in Nat /\ LastNewline(s) \in 0 .. Len(s)
  BY LastNewlineIs, LenProperties
<1>2. ASSUME NEW i \in 1 .. Len(s), s[i] = Newline PROVE HasNewline(s)
  BY <1>1, <1>2, LastNewlineIs DEF HasNewline
<1> QED
  BY <1>2, LastNewlineIs

LEMMA EmptyHasNone == ~HasNewline(<<>>)
<1>1. <<>> \in Seq(Byte) /\ Len(<<>>) = 0
  BY EmptySeq
<1>2. HasNewline(<<>>) => \E i \in 1 .. Len(<<>>) : <<>>[i] = Newline
  BY <1>1, HasNewlineIs
<1> QED
  BY <1>1, <1>2

\* No newline but perhaps the last byte is followed by nothing.
EndsLine(s) == HasNewline(s) => Last(s) = Newline

\* The end of a buffer that ends a line, or holds none, does so too.
LEMMA CutEndsLine ==
    ASSUME NEW s \in Seq(Byte), EndsLine(s), NEW n \in 0 .. Len(s)
    PROVE  EndsLine(SubSeq(s, n + 1, Len(s)))
<1> DEFINE t == SubSeq(s, n + 1, Len(s))
<1>1. Len(s) \in Nat /\ n \in Nat
  BY LenProperties
<1>2. /\ t \in Seq(Byte) /\ Len(t) = Len(s) - n
      /\ \A i \in 1 .. Len(s) - n : t[i] = s[n + i]
  <2>1. \A i \in n + 1 .. Len(s) : s[i] \in Byte
    BY <1>1, ElementOfSeq
  <2>2. /\ t \in Seq(Byte)
        /\ Len(t) = IF n + 1 <= Len(s) THEN Len(s) - (n + 1) + 1 ELSE 0
        /\ \A i \in 1 .. Len(s) - (n + 1) + 1 : t[i] = s[n + 1 + i - 1]
    BY <1>1, <2>1, SubSeqProperties
  <2> QED
    BY <1>1, <2>2
<1> HIDE DEF t
<1>3. ASSUME HasNewline(t) PROVE t[Len(t)] = Newline
  <2>1. PICK i \in 1 .. Len(t) : t[i] = Newline
    BY <1>2, <1>3, HasNewlineIs
  <2>2. n + i \in 1 .. Len(s) /\ s[n + i] = Newline
    BY <1>1, <1>2, <2>1
  <2>3. s[Len(s)] = Newline
    BY <2>2, HasNewlineIs DEF EndsLine, Last
  <2>4. Len(t) \in 1 .. Len(s) - n /\ n + Len(t) = Len(s)
    BY ONLY <1>1, <1>2, <2>1
  <2>5. t[Len(t)] = s[n + Len(t)]
    BY ONLY <1>2, <2>4
  <2> QED
    BY ONLY <2>3, <2>4, <2>5
<1>4. EndsLine(t)
  BY <1>3 DEF EndsLine, Last
<1> QED
  BY <1>4 DEF t

\* What is put behind a buffer without line ends has none, or ends a line.
LEMMA JoinNoLine ==
    ASSUME NEW s \in Seq(Byte), NEW t \in Seq(Byte), ~HasNewline(s), ~HasNewline(t)
    PROVE  ~HasNewline(s \o t)
<1>1. /\ s \o t \in Seq(Byte) /\ Len(s \o t) = Len(s) + Len(t)
      /\ \A i \in 1 .. Len(s) + Len(t) :
            (s \o t)[i] = IF i <= Len(s) THEN s[i] ELSE t[i - Len(s)]
      /\ Len(s) \in Nat /\ Len(t) \in Nat
  BY ConcatProperties, LenProperties
<1>2. ASSUME NEW i \in 1 .. Len(s \o t), (s \o t)[i] = Newline PROVE FALSE
  <2>1. CASE i <= Len(s)
    BY <1>1, <1>2, <2>1, HasNewlineIs
  <2>2. CASE i > Len(s)
    <3>1. i - Len(s) \in 1 .. Len(t) /\ t[i - Len(s)] = Newline
      BY <1>1, <1>2, <2>2
    <3> QED
      BY <3>1, HasNewlineIs
  <2> QED
    BY <1>1, <2>1, <2>2
<1> QED
  BY <1>1, <1>2, HasNewlineIs

LEMMA JoinEndsLine ==
    ASSUME NEW s \in Seq(Byte), NEW t \in Seq(Byte), t # <<>>, t[Len(t)] = Newline
    PROVE  EndsLine(s \o t)
<1>1. Len(t) \in Nat \ {0} /\ Len(s) \in Nat
  BY EmptySeq, LenProperties
<1>2. /\ Len(s \o t) = Len(s) + Len(t)
      /\ (s \o t)[Len(s) + Len(t)] = t[Len(t)]
  BY <1>1, ConcatProperties
<1> QED
  BY <1>2 DEF EndsLine, Last

(***************************************************************************)
(* The inductive invariant                                                 *)
(***************************************************************************)
FirstFlush == Step("flush_buf", 0)
FinalWrite == Step("write_all", Len(data))

\* What a plan can have behind the step that places bytes: nothing, or, when
\* write_all sends the lines first, the write of what follows them.
Rests == {<<>>, <<FirstFlush, FinalWrite>>, <<FinalWrite>>}

\* The last piece of a slice: all of it when no line ends in it, and what
\* follows its last line end in a write_all.
LastPiece(s, n) ==
    /\ n = Len(data)
    /\ \/ /\ op = "write" /\ s \in {"write", "extend", "direct"}
          /\ done = 0 /\ ~HasNewline(data)
       \/ /\ op = "write_all" /\ s \in {"write_all", "extend", "direct_all"}
          /\ done >= LastNewline(data)

\* The tail that is buffered holds no newline, or fits and ends with one.
TailFits(n) ==
    \/ \A i \in (done + 1)..n : data[i] # Newline
    \/ done < n /\ n - done <= WriterCapacity /\ data[n] = Newline

\* The one attempt of write to send its lines, and the tail it buffers.
LinesAttempt(s, n) ==
    /\ op = "write" /\ HasNewline(data)
    /\ \/ s = "write_lines" /\ done = 0 /\ n = LastNewline(data)
       \/ s = "write_bufs" /\ done = 0 /\ n >= LastNewline(data)
       \/ s = "buffer_tail" /\ done <= n /\ TailFits(n)

\* The lines of a write_all, up to the last line end.
LinesPiece(n) ==
    /\ op = "write_all" /\ HasNewline(data)
    /\ n = LastNewline(data) /\ done <= n

Piece(s, n, rest) ==
    \/ rest = <<>> /\ (LastPiece(s, n) \/ LinesAttempt(s, n))
    \/ /\ LinesPiece(n)
       /\ \/ rest = <<FirstFlush, FinalWrite>> /\ s \in {"write_all", "extend", "direct_all"}
          \/ rest = <<FinalWrite>> /\ s = "lines_all"

\* What the step may count on when no flush is in front of it: there is room,
\* or nothing is buffered, and a last piece finds no line end in the buffer.
Ready(s, n, rest) ==
    /\ s = "extend" => Len(writer_buf) + n - done <= WriterCapacity
    /\ s \notin {"write", "write_all", "extend"} => writer_buf = <<>>
    /\ rest = <<>> /\ s \in WriteSteps => ~HasNewline(writer_buf)

\* A plan places one piece, with or without a flush in front of it.  Once it is
\* run, write_all has transferred its slice, and the buffer holds no line end
\* unless a write was of one.
LinePlanOK ==
    \/ /\ todo = <<>> /\ written = 0
       /\ op = "write_all" => done = Len(data)
       /\ op = "write_all" \/ ~HasNewline(data) => ~HasNewline(writer_buf)
    \/ \E s \in Steps \cup LineSteps, n \in 0..Len(data), rest \in Rests :
         /\ Piece(s, n, rest)
         /\ s = "extend" => n - done < WriterCapacity
         /\ \/ todo = <<Step(s, n)>> \o rest /\ Ready(s, n, rest) /\ written = 0
            \/ todo = <<FirstFlush>> \o (<<Step(s, n)>> \o rest) /\ s # "buffer_tail"

\* Within a write the stream is what it was at its start and the bytes of the
\* slice transferred since.
WritingOK ==
    /\ life = "open" /\ LineTypeOK
    /\ DoubtOK /\ NoRealloc /\ ReadInOrder
    /\ done <= Len(data) /\ Stream = base \o SubSeq(data, 1, done)
    /\ LinePlanOK

\* Outside the writes the line writer is the block writer.
LInv ==
    /\ NewlineLast
    /\ op \notin Writing => IInv /\ HistoryOK
    /\ op \in Writing => WritingOK

(***************************************************************************)
(* Plans of a line writer                                                  *)
(***************************************************************************)
LineStep  == [step : Steps \cup LineSteps, n : Nat]
LinePlans == Seq(LineStep)

LEMMA StepIsStep ==
    ASSUME NEW s \in Steps \cup LineSteps, NEW n \in Nat
    PROVE  Step(s, n) \in LineStep /\ Step(s, n).step = s /\ Step(s, n).n = n
BY DEF Step, LineStep

\* A step put in front of a plan is its head, and the plan its tail.
LEMMA Joined ==
    ASSUME NEW s \in LineStep, NEW r \in LinePlans
    PROVE  /\ <<s>> \o r \in LinePlans /\ <<s>> \o r # <<>>
           /\ Head(<<s>> \o r) = s /\ Tail(<<s>> \o r) = r
<1> DEFINE q == <<s>> \o r
<1>1. <<s>> \in Seq(LineStep) /\ Len(<<s>>) = 1 /\ <<s>>[1] = s
  OBVIOUS
<1>2. /\ q \in Seq(LineStep) /\ Len(q) = 1 + Len(r) /\ Len(r) \in Nat
      /\ q[1] = s /\ \A i \in 1 .. Len(r) : q[i + 1] = r[i]
  <2>1. r \in Seq(LineStep)
    BY DEF LinePlans
  <2> HIDE DEF LineStep
  <2>2. /\ q \in Seq(LineStep) /\ Len(q) = 1 + Len(r) /\ Len(r) \in Nat
        /\ \A i \in 1 .. 1 + Len(r) : q[i] = IF i <= 1 THEN <<s>>[i] ELSE r[i - 1]
    BY <1>1, <2>1, ConcatProperties, LenProperties
  <2> QED
    BY <1>1, <2>2
<1> HIDE DEF q
<1>3. q # <<>>
  BY <1>2, EmptySeq
<1>4. /\ Tail(q) \in Seq(LineStep) /\ Len(Tail(q)) = Len(r)
      /\ \A i \in 1 .. Len(r) : Tail(q)[i] = r[i]
  BY <1>2, <1>3, HeadTailProperties
<1>5. Tail(q) = r
  BY <1>4, SeqEqual DEF LinePlans
<1>6. Head(q) = s
  BY <1>2, <1>3, HeadTailProperties
<1> QED
  BY <1>2, <1>3, <1>5, <1>6 DEF q, LinePlans

LEMMA Tuples ==
    ASSUME NEW a \in LineStep, NEW b \in LineStep, NEW c \in LineStep
    PROVE  /\ <<a>> \in LinePlans /\ <<a, b>> \in LinePlans /\ <<>> \in LinePlans
           /\ <<a>> \o <<>> = <<a>> /\ <<>> \o <<a>> = <<a>>
           /\ <<a, b>> = <<a>> \o <<b>> /\ <<a, b, c>> = <<a>> \o <<b, c>>
<1>1. /\ <<a>> \in LinePlans /\ <<b>> \in LinePlans /\ <<a, b>> \in LinePlans
      /\ <<b, c>> \in LinePlans /\ <<a, b, c>> \in LinePlans /\ <<>> \in LinePlans
  BY DEF LinePlans
<1>2. <<a>> \o <<>> = <<a>> /\ <<>> \o <<a>> = <<a>>
  BY <1>1, ConcatEmptySeq DEF LinePlans
<1>3. \A x, y \in LinePlans : x # <<>> /\ y # <<>> /\ Head(x) = Head(y) /\ Tail(x) = Tail(y) => x = y
  <2> SUFFICES ASSUME NEW x \in LinePlans, NEW y \in LinePlans, x # <<>>, y # <<>>,
                      Head(x) = Head(y), Tail(x) = Tail(y)
               PROVE  x = y
    OBVIOUS
  <2> HIDE DEF LineStep
  <2> DEFINE t == Tail(x)
             u == Tail(y)
  <2>1. /\ Len(x) \in Nat \ {0} /\ x[1] = Head(x) /\ Len(t) = Len(x) - 1
        /\ \A i \in 1 .. Len(t) : t[i] = x[i + 1]
    BY EmptySeq, HeadTailProperties DEF LinePlans
  <2>2. /\ Len(y) \in Nat \ {0} /\ y[1] = Head(y) /\ Len(u) = Len(y) - 1
        /\ \A i \in 1 .. Len(u) : u[i] = y[i + 1]
    BY EmptySeq, HeadTailProperties DEF LinePlans
  <2>3. x[1] = y[1] /\ t = u
    BY <2>1, <2>2
  <2> HIDE DEF t, u
  <2>4. Len(x) = Len(y) /\ Len(t) = Len(x) - 1
    BY <2>1, <2>2, <2>3
  <2>5. ASSUME NEW i \in 1 .. Len(x), i # 1 PROVE x[i] = y[i]
    <3>1. i - 1 \in 1 .. Len(t) /\ (i - 1) + 1 = i
      BY <2>1, <2>5
    <3> QED
      BY <2>1, <2>2, <2>3, <3>1
  <2>6. \A i \in 1 .. Len(x) : x[i] = y[i]
    BY <2>3, <2>5
  <2> QED
    BY <2>4, <2>6, SeqEqual DEF LinePlans
<1>4. <<a, b>> = <<a>> \o <<b>>
  <2>1. <<a, b>> # <<>> /\ Head(<<a, b>>) = a /\ Tail(<<a, b>>) = <<b>>
    OBVIOUS
  <2> DEFINE p == <<a, b>>
             q == <<a>> \o <<b>>
  <2>2. /\ p \in LinePlans /\ p # <<>> /\ q \in LinePlans /\ q # <<>>
        /\ Head(p) = Head(q) /\ Tail(p) = Tail(q)
    BY <1>1, <2>1, Joined
  <2> HIDE DEF p, q
  <2>3. p = q
    BY <1>3, <2>2
  <2> QED
    BY <2>3 DEF p, q
<1>5. <<a, b, c>> = <<a>> \o <<b, c>>
  <2>1. <<a, b, c>> # <<>> /\ Head(<<a, b, c>>) = a /\ Tail(<<a, b, c>>) = <<b, c>>
    OBVIOUS
  <2> DEFINE p == <<a, b, c>>
             q == <<a>> \o <<b, c>>
  <2>2. /\ p \in LinePlans /\ p # <<>> /\ q \in LinePlans /\ q # <<>>
        /\ Head(p) = Head(q) /\ Tail(p) = Tail(q)
    BY <1>1, <2>1, Joined
  <2> HIDE DEF p, q
  <2>3. p = q
    BY <1>3, <2>2
  <2> QED
    BY <2>3 DEF p, q
<1> QED
  BY <1>1, <1>2, <1>4, <1>5

LEMMA RestsArePlans ==
    ASSUME data \in Seq(Byte)
    PROVE  /\ FirstFlush \in LineStep /\ FinalWrite \in LineStep /\ Rests \subseteq LinePlans
           /\ FirstFlush.step = "flush_buf" /\ FinalWrite.step = "write_all"
<1>1. Len(data) \in Nat
  BY LenProperties
<1>2. /\ FirstFlush \in LineStep /\ FirstFlush.step = "flush_buf"
      /\ FinalWrite \in LineStep /\ FinalWrite.step = "write_all"
  BY <1>1, StepIsStep DEF FirstFlush, FinalWrite, Steps
<1> QED
  BY <1>2, Tuples DEF Rests

LEMMA PlanTyped ==
    ASSUME LinePlanOK', data' \in Seq(Byte)
    PROVE  todo' \in LinePlans
<1>1. PICK N \in Nat : N = Len(data')
  BY LenProperties
<1>2. PICK a \in LineStep, b \in LineStep : a = Step("flush_buf", 0) /\ b = Step("write_all", N)
  <2>1. Step("flush_buf", 0) \in LineStep /\ Step("write_all", N) \in LineStep
    BY StepIsStep DEF Steps
  <2> QED
    BY <2>1
<1>3. Rests' = {<<>>, <<a, b>>, <<b>>} /\ FirstFlush' = a
  BY <1>1, <1>2 DEF Rests, FinalWrite, FirstFlush, Step
<1>4. ASSUME NEW s \in Steps \cup LineSteps, NEW n \in 0..N,
             NEW rest \in {<<>>, <<a, b>>, <<b>>},
             \/ todo' = <<Step(s, n)>> \o rest
             \/ todo' = <<a>> \o (<<Step(s, n)>> \o rest)
      PROVE  todo' \in LinePlans
  <2>1. Step(s, n) \in LineStep /\ rest \in LinePlans
    <3>1. n \in Nat
      BY <1>1
    <3>2. <<a, b>> \in LinePlans /\ <<b>> \in LinePlans /\ <<>> \in LinePlans
      BY Tuples
    <3> QED
      BY <3>1, <3>2, StepIsStep
  <2>2. <<Step(s, n)>> \o rest \in LinePlans
    BY <2>1, Joined
  <2> QED
    BY <1>4, <2>1, <2>2, Joined
<1>5. CASE todo' = <<>>
  BY <1>5, Tuples, <1>2
<1> QED
  BY <1>1, <1>3, <1>4, <1>5 DEF LinePlanOK, Step

\* The types a write in progress can count on.
LEMMA WritingTypes ==
    ASSUME WritingOK
    PROVE  /\ data \in Seq(Byte) /\ base \in Seq(Byte) /\ Len(data) \in Nat
           /\ done \in 0 .. Len(data) /\ LastNewline(data) \in 0 .. Len(data)
           /\ BuffersOK /\ Stream \in Seq(Byte) /\ Open
           /\ writer_buf \in Seq(Byte) /\ Len(writer_buf) \in Nat
           /\ todo \in LinePlans /\ panicked \in BOOLEAN /\ flushed \in BOOLEAN
           /\ doubt \in 0 .. Len(writer_buf) /\ Room \in Int
<1>1. /\ data \in Seq(Byte) /\ base \in Seq(Byte) /\ done \in Nat /\ BuffersOK /\ Open
      /\ writer_buf \in Seq(Byte) /\ panicked \in BOOLEAN /\ flushed \in BOOLEAN
      /\ doubt \in 0 .. Len(writer_buf) /\ done <= Len(data)
  BY DEF WritingOK, LineTypeOK, TypeOver, BuffersOK, Open
<1>2. todo \in LinePlans
  BY DEF WritingOK, LineTypeOK, TypeOver, LinePlans, LineStep
<1>3. Len(data) \in Nat /\ Len(writer_buf) \in Nat
  BY <1>1, LenProperties
<1> QED
  BY <1>1, <1>2, <1>3, LastNewlineIs, BuffersStream, BuffersRoom

\* At any step but a flush, the plan is a piece that is ready and its rest.
LEMMA AtPiece ==
    ASSUME WritingOK, todo # <<>>, ~At("flush_buf")
    PROVE  /\ Piece(Head(todo).step, Limit, Tail(todo))
           /\ Ready(Head(todo).step, Limit, Tail(todo))
           /\ Head(todo).step = "extend" => Limit - done < WriterCapacity
           /\ Limit \in 0 .. Len(data) /\ Tail(todo) \in Rests /\ written = 0
           /\ todo = <<Step(Head(todo).step, Limit)>> \o Tail(todo)
<1>1. data \in Seq(Byte) /\ Len(data) \in Nat
  BY WritingTypes
<1>2. ASSUME NEW s \in Steps \cup LineSteps, NEW n \in 0..Len(data), NEW rest \in Rests
      PROVE  /\ todo = <<Step(s, n)>> \o rest
                  => Head(todo).step = s /\ Limit = n /\ Tail(todo) = rest
             /\ todo # <<FirstFlush>> \o (<<Step(s, n)>> \o rest)
  <2>1. /\ Step(s, n) \in LineStep /\ Step(s, n).step = s /\ Step(s, n).n = n
        /\ rest \in LinePlans /\ FirstFlush \in LineStep /\ FirstFlush.step = "flush_buf"
    BY <1>1, StepIsStep, RestsArePlans
  <2> DEFINE p == <<Step(s, n)>> \o rest
             q == <<FirstFlush>> \o p
  <2>2. p \in LinePlans /\ Head(p) = Step(s, n) /\ Tail(p) = rest
    BY <2>1, Joined
  <2>3. Head(q) = FirstFlush
    BY <2>1, <2>2, Joined
  <2> HIDE DEF p, q
  <2>4. todo # q
    BY <2>1, <2>3 DEF At
  <2> QED
    BY <2>1, <2>2, <2>4 DEF Limit, p, q
<1>3. PICK s \in Steps \cup LineSteps, n \in 0..Len(data), rest \in Rests :
        /\ Piece(s, n, rest)
        /\ s = "extend" => n - done < WriterCapacity
        /\ \/ todo = <<Step(s, n)>> \o rest /\ Ready(s, n, rest) /\ written = 0
           \/ todo = <<FirstFlush>> \o (<<Step(s, n)>> \o rest)
  BY DEF WritingOK, LinePlanOK
<1>4. todo = <<Step(s, n)>> \o rest /\ Ready(s, n, rest) /\ written = 0
  BY <1>2, <1>3
<1>5. Head(todo).step = s /\ Limit = n /\ Tail(todo) = rest
  BY <1>2, <1>4
<1> QED
  BY <1>3, <1>4, <1>5

\* Behind a flush there is a piece, not yet begun if a failure is to leave the
\* slice of a write untouched.
LEMMA AtFlush ==
    ASSUME WritingOK, At("flush_buf")
    PROVE  \E s \in Steps \cup LineSteps, n \in 0..Len(data), rest \in Rests :
             /\ Tail(todo) = <<Step(s, n)>> \o rest /\ Piece(s, n, rest)
             /\ todo = <<FirstFlush>> \o (<<Step(s, n)>> \o rest)
             /\ s = "extend" => n - done < WriterCapacity
             /\ s # "buffer_tail"
<1>1. data \in Seq(Byte) /\ Len(data) \in Nat
  BY WritingTypes
<1>2. PICK s \in Steps \cup LineSteps, n \in 0..Len(data), rest \in Rests :
        /\ Piece(s, n, rest)
        /\ s = "extend" => n - done < WriterCapacity
        /\ \/ todo = <<Step(s, n)>> \o rest
           \/ todo = <<FirstFlush>> \o (<<Step(s, n)>> \o rest) /\ s # "buffer_tail"
  BY DEF WritingOK, LinePlanOK, At
<1>3. /\ Step(s, n) \in LineStep /\ Step(s, n).step = s
      /\ rest \in LinePlans /\ FirstFlush \in LineStep
  BY <1>1, StepIsStep, RestsArePlans
<1> DEFINE p == <<Step(s, n)>> \o rest
<1>4. p \in LinePlans /\ Head(p) = Step(s, n)
  BY <1>3, Joined
<1>5. Tail(<<FirstFlush>> \o p) = p
  BY <1>3, <1>4, Joined
<1>6. s # "flush_buf"
  BY <1>2 DEF Piece, LastPiece, LinesAttempt
<1> HIDE DEF p
<1>7. todo # p
  BY <1>3, <1>4, <1>6 DEF At
<1>8. todo = <<FirstFlush>> \o p /\ s # "buffer_tail"
  BY <1>2, <1>7 DEF p
<1> QED
  BY <1>2, <1>5, <1>8 DEF p

(***************************************************************************)
(* Moves that the steps of a write share                                   *)
(***************************************************************************)
LEMMA NextOfSlice ==
    ASSUME WritingOK, NEW m \in 0 .. (Len(data) - done)
    PROVE  (base \o SubSeq(data, 1, done)) \o Slice(m) = base \o SubSeq(data, 1, done + m)
<1> DEFINE n == done
<1>1. /\ data \in Seq(Byte) /\ base \in Seq(Byte)
      /\ n \in Nat /\ m \in Nat /\ n + m <= Len(data)
  BY WritingTypes
<1>2. Slice(m) = SubSeq(data, n + 1, n + m)
  BY DEF Slice
<1> HIDE DEF n
<1>3. (base \o SubSeq(data, 1, n)) \o SubSeq(data, n + 1, n + m) = base \o SubSeq(data, 1, n + m)
  BY <1>1, NextSlice
<1> QED
  BY <1>2, <1>3 DEF n

\* A step that transfers the next m bytes of the slice, perhaps none.
LEMMA WriteMoves ==
    ASSUME WritingOK, op \in Writing, UNCHANGED <<life, op, data, ret, base, reader, in>>,
           NEW m \in 0 .. (Len(data) - done), done' = done + m, Stream' = Stream \o Slice(m),
           writer_buf' \in Seq(Byte), Len(writer_buf') <= WriterCapacity,
           written' \in 0 .. Len(writer_buf'), doubt' \in 0 .. Len(writer_buf'),
           panicked' \in BOOLEAN, DoubtOK', sink' \in Seq(Byte), flushed' \in BOOLEAN,
           LinePlanOK'
    PROVE  WritingOK'
<1>1. /\ data \in Seq(Byte) /\ base \in Seq(Byte) /\ Len(data) \in Nat
      /\ done \in 0 .. Len(data)
  BY WritingTypes
<1>2. LineTypeOK'
  <2>1. todo' \in Seq([step : Steps \cup LineSteps, n : Nat])
    BY <1>1, PlanTyped DEF LinePlans, LineStep
  <2>2. done' \in Nat
    BY <1>1
  <2> QED
    BY <2>1, <2>2 DEF WritingOK, LineTypeOK, TypeOver, reader, in
<1>3. NoRealloc' /\ ReadInOrder' /\ life' = "open"
  BY DEF WritingOK, NoRealloc, ReadInOrder, Unread, reader, in
<1>4. done' <= Len(data') /\ Stream' = base' \o SubSeq(data', 1, done')
  <2>1. (base \o SubSeq(data, 1, done)) \o Slice(m) = base \o SubSeq(data, 1, done + m)
    BY NextOfSlice
  <2>2. Stream = base \o SubSeq(data, 1, done)
    BY DEF WritingOK
  <2>3. done' <= Len(data')
    BY <1>1
  <2> QED
    BY <2>1, <2>2, <2>3
<1> QED
  BY <1>2, <1>3, <1>4 DEF WritingOK

LEMMA NoBytes ==
    ASSUME WritingOK
    PROVE  Slice(0) = <<>> /\ Stream \o Slice(0) = Stream /\ done + 0 = done
           /\ 0 \in 0 .. (Len(data) - done)
<1>1. data \in Seq(Byte) /\ done \in 0 .. Len(data) /\ Len(data) \in Nat /\ Stream \in Seq(Byte)
  BY WritingTypes
<1>2. Slice(0) = <<>>
  BY <1>1, SubSeqEmpty DEF Slice
<1> QED
  BY <1>1, <1>2, ConcatEmptySeq

\* The next m bytes of the slice.
LEMMA SliceTypes ==
    ASSUME WritingOK, NEW m \in 0 .. (Len(data) - done)
    PROVE  /\ Slice(m) \in Seq(Byte) /\ Len(Slice(m)) = m
           /\ \A i \in 1 .. m : Slice(m)[i] = data[done + i]
<1>1. data \in Seq(Byte) /\ done \in 0 .. Len(data) /\ Len(data) \in Nat
  BY WritingTypes
<1>2. \A i \in done + 1 .. done + m : data[i] \in Byte
  BY <1>1, ElementOfSeq
<1>3. /\ Slice(m) \in Seq(Byte)
      /\ Len(Slice(m)) = IF done + 1 <= done + m THEN done + m - (done + 1) + 1 ELSE 0
      /\ \A i \in 1 .. done + m - (done + 1) + 1 : Slice(m)[i] = data[done + 1 + i - 1]
  BY <1>1, <1>2, SubSeqProperties DEF Slice
<1> QED
  BY <1>1, <1>3

\* A write past the empty buffer joins the stream as it reaches the sink.
LEMMA WriteThroughs ==
    ASSUME WritingOK, writer_buf = <<>>, written = 0, NEW m \in 0 .. (Len(data) - done),
           Send(Slice(m)), UNCHANGED <<writer_buf, written, life, in>>
    PROVE  /\ Stream' = Stream \o Slice(m) /\ sink' \in Seq(Byte) /\ flushed' \in BOOLEAN
           /\ Abstract
<1>1. Slice(m) \in Seq(Byte) /\ Stream \in Seq(Byte) /\ BuffersOK /\ Open /\ flushed \in BOOLEAN
  BY SliceTypes, WritingTypes
<1>2. Stream = sink /\ Stream' = sink' /\ sink' = sink \o Slice(m)
  BY <1>1, NothingWaits DEF Send
<1>3. sink' \in Seq(Byte) /\ flushed' \in BOOLEAN
  BY <1>1, <1>2, ConcatProperties DEF Send
<1>4. Open' /\ UNCHANGED <<supplied, taken>>
  BY <1>1 DEF Open, in
<1> QED
  BY <1>1, <1>2, <1>3, <1>4, WritesThrough

\* What is put behind the buffer joins the stream.
LEMMA WriteAppends ==
    ASSUME WritingOK, written = 0, NEW m \in 0 .. (Len(data) - done),
           writer_buf' = writer_buf \o Slice(m), UNCHANGED <<written, life, out, in>>
    PROVE  /\ Stream' = Stream \o Slice(m) /\ Abstract
           /\ writer_buf' \in Seq(Byte) /\ Len(writer_buf') = Len(writer_buf) + m
<1>1. Slice(m) \in Seq(Byte) /\ Len(Slice(m)) = m /\ BuffersOK /\ Open /\ Stream \in Seq(Byte)
      /\ writer_buf \in Seq(Byte)
  BY SliceTypes, WritingTypes
<1>2. Stream' = Stream \o Slice(m)
  BY <1>1, BuffersAppend DEF out
<1>3. Open' /\ UNCHANGED <<sink, supplied, taken>>
  BY <1>1 DEF Open, in, out
<1>4. Abstract
  BY <1>1, <1>2, <1>3, Accepts
<1> QED
  BY <1>1, <1>2, <1>4, ConcatProperties

\* A step that moves nothing, or only cuts what has been written from the
\* buffer, whether the call goes on or ends.
LEMMA WriteStays ==
    ASSUME WritingOK, UNCHANGED <<sink, in>>, UNCHANGED <<writer_buf, written>> \/ Drain
    PROVE  Stream' = Stream /\ Abstract
<1>1. BuffersOK /\ Open
  BY WritingTypes
<1>2. Stream' = Stream
  BY <1>1, StreamStays, BuffersDrain
<1>3. Open' \in BOOLEAN
  BY DEF Open
<1> QED
  BY <1>1, <1>2, <1>3, Stays DEF in

\* A buffer keeps ending a line when nothing but what was written is cut.
LEMMA CutKeepsLast ==
    ASSUME WritingOK \/ IInv, NewlineLast, UNCHANGED writer_buf \/ writer_buf' = Remaining
    PROVE  NewlineLast'
<1>1. BuffersOK
  BY WritingTypes, InvBuffers
<1>2. writer_buf \in Seq(Byte) /\ written \in 0 .. Len(writer_buf)
  BY <1>1 DEF BuffersOK
<1>3. EndsLine(writer_buf)
  BY DEF NewlineLast, EndsLine
<1>4. EndsLine(Remaining)
  BY <1>2, <1>3, CutEndsLine DEF Remaining
<1>5. EndsLine(writer_buf')
  BY <1>3, <1>4
<1> QED
  BY <1>5 DEF NewlineLast, EndsLine

LEMMA EmptyKeepsLast == writer_buf' = <<>> => NewlineLast'
BY EmptyHasNone DEF NewlineLast

\* A write that ends leaves the backend as the invariant of its calls wants it.
LEMMA WriteEnds ==
    ASSUME WritingOK, NewlineLast, NEW kind \in Results, Leave(kind),
           UNCHANGED <<reader, out, in>>,
           (UNCHANGED writer_buf /\ written' = 0) \/ Drain,
           doubt' \in 0 .. Len(writer_buf'), panicked' \in BOOLEAN, doubt' > 0 => panicked'
    PROVE  LInv' /\ op' \notin Writing
<1>1. BuffersOK /\ flushed \in BOOLEAN
  BY WritingTypes
<1>2. Len(writer_buf') <= WriterCapacity /\ writer_buf' \in Seq(Byte) /\ written' = 0
  BY <1>1, BuffersRemaining, CapacityAssumption DEF BuffersOK, NoRealloc, Drain
<1>3. TypeOver(Steps \cup LineSteps) /\ ReadInOrder
  BY DEF WritingOK, LineTypeOK
<1>4. flushed' \in BOOLEAN /\ UNCHANGED sink
  BY <1>1 DEF out
<1> DEFINE S == Steps \cup LineSteps
<1>5. IInv'
  <2> HIDE DEF S
  <2> QED
    BY <1>2, <1>3, <1>4, EndsInv DEF S
<1>6. op' = "none" /\ HistoryOK' /\ op' \notin Writing
  <2>1. op' = "none"
    BY DEF Leave
  <2> QED
    BY <2>1, EndsHistory DEF Writing
<1>7. NewlineLast'
  BY CutKeepsLast DEF Drain
<1> QED
  BY <1>5, <1>6, <1>7 DEF LInv

(***************************************************************************)
(* The steps of a write: the backend's                                     *)
(***************************************************************************)
LEMMA SamePiece ==
    ASSUME UNCHANGED <<op, data>>
    PROVE  /\ Rests' = Rests /\ FirstFlush' = FirstFlush /\ FinalWrite' = FinalWrite
           /\ UNCHANGED done => \A s, n, rest : Piece(s, n, rest) => Piece(s, n, rest)'
BY DEF Piece, LastPiece, LinesAttempt, LinesPiece, TailFits, Rests, FinalWrite, FirstFlush, Step

LEMMA PlanIs ==
    ASSUME UNCHANGED <<op, data>>, NEW s \in Steps \cup LineSteps, NEW n \in 0 .. Len(data),
           NEW rest \in Rests, Piece(s, n, rest)', s = "extend" => n - done' < WriterCapacity,
           \/ todo' = <<Step(s, n)>> \o rest /\ Ready(s, n, rest)' /\ written' = 0
           \/ todo' = <<FirstFlush>> \o (<<Step(s, n)>> \o rest) /\ s # "buffer_tail"
    PROVE  LinePlanOK'
<1>1. Rests' = Rests /\ FirstFlush' = FirstFlush
  BY SamePiece
<1> HIDE DEF Rests, FirstFlush
<1>2. \/ todo' = <<Step(s, n)>> \o rest /\ Ready(s, n, rest)' /\ written' = 0
      \/ todo' = <<FirstFlush'>> \o (<<Step(s, n)>> \o rest) /\ s # "buffer_tail"
  BY <1>1
<1>3. rest \in Rests' /\ n \in 0 .. Len(data')
  BY <1>1
<1> QED
  BY <1>2, <1>3 DEF LinePlanOK, Step

\* Going on with a write.
Goes == LInv' /\ Abstract

LEMMA GoesOn == WritingOK' /\ NewlineLast' /\ op' \in Writing /\ Abstract => Goes
BY DEF Goes, LInv

LEMMA CheckRoomGoes == WritingOK /\ NewlineLast /\ op \in Writing /\ CheckRoom => Goes
<1> SUFFICES ASSUME WritingOK, NewlineLast, op \in Writing, CheckRoom PROVE Goes
  OBVIOUS
<1>1. /\ todo # <<>> /\ ~At("flush_buf")
      /\ Head(todo).step \in {"write", "write_all"}
      /\ UNCHANGED <<life, op, data, ret, base, done, reader, in>>
      /\ UNCHANGED <<writer_buf, panicked, written, doubt, out>>
  BY DEF CheckRoom, At, Proceed, guts
<1>2. /\ Piece(Head(todo).step, Limit, Tail(todo)) /\ Ready(Head(todo).step, Limit, Tail(todo))
      /\ Limit \in 0 .. Len(data) /\ Tail(todo) \in Rests /\ written = 0
  BY <1>1, AtPiece
<1>3. PICK p \in {"extend", "direct", "direct_all"} :
        p = IF Limit - done < WriterCapacity THEN "extend"
            ELSE IF At("write") THEN "direct" ELSE "direct_all"
  OBVIOUS
<1>4. PICK n \in 0 .. Len(data), r \in Rests : n = Limit /\ r = Tail(todo)
  BY <1>2
<1>5. /\ Piece(p, n, r)
      /\ p = "extend" => n - done < WriterCapacity
      /\ p # "extend" => n - done >= WriterCapacity
      /\ r = <<>> => ~HasNewline(writer_buf)
  <2>1. Piece(p, n, r)
    BY <1>1, <1>2, <1>3, <1>4 DEF Piece, LastPiece, LinesAttempt, At
  <2>2. r = <<>> => ~HasNewline(writer_buf)
    BY <1>1, <1>2, <1>4 DEF Ready, WriteSteps
  <2>3. n - done \in Int
    BY <1>4, WritingTypes
  <2> QED
    BY <1>3, <1>4, <2>1, <2>2, <2>3, CapacityAssumption
<1>6. /\ Step(p, n) \in LineStep /\ r \in LinePlans /\ FirstFlush \in LineStep
      /\ p \in Steps \cup LineSteps
  <2>1. n \in Nat /\ p \in Steps \cup LineSteps
    BY WritingTypes DEF Steps
  <2> QED
    BY <2>1, WritingTypes, RestsArePlans, StepIsStep
<1>7. todo' = IF NeedsFlush(n - done) THEN <<FirstFlush>> \o (<<Step(p, n)>> \o r)
              ELSE <<Step(p, n)>> \o r
  <2> DEFINE a == Step(p, n)
  <2>1. a \in LineStep /\ <<a>> \in LinePlans /\ <<FirstFlush>> \in LinePlans
        /\ <<>> \o <<a>> = <<a>>
    BY <1>6, Tuples
  <2>2. todo' = (IF NeedsFlush(n - done) THEN <<FirstFlush>> ELSE <<>>) \o <<a>> \o r
    BY <1>3, <1>4 DEF CheckRoom, Proceed, FirstFlush
  <2> HIDE DEF a, LineStep, FirstFlush
  <2>3. (<<FirstFlush>> \o <<a>>) \o r = <<FirstFlush>> \o (<<a>> \o r)
    BY <2>1, <1>6, ConcatAssociative DEF LinePlans
  <2>4. CASE NeedsFlush(n - done)
    BY <2>2, <2>3, <2>4 DEF a
  <2>5. CASE ~NeedsFlush(n - done)
    BY <2>1, <2>2, <2>5 DEF a
  <2> QED
    BY <2>4, <2>5
<1>8. Piece(p, n, r)'
  BY <1>1, <1>5, SamePiece
<1>9. LinePlanOK'
  <2>1. p = "extend" => n - done' < WriterCapacity
    BY <1>1, <1>5
  <2>2. CASE NeedsFlush(n - done)
    BY <1>1, <1>6, <1>7, <1>8, <2>1, <2>2, PlanIs
  <2>3. CASE ~NeedsFlush(n - done)
    <3>1. Len(writer_buf) + (n - done) <= WriterCapacity
          /\ Len(writer_buf) \in Nat /\ n - done \in Int
      BY <2>3, <1>4, WritingTypes, CapacityAssumption DEF NeedsFlush
    <3>2. p # "extend" => Len(writer_buf) = 0
      BY <3>1, <1>5, CapacityAssumption
    <3>3. p # "extend" => writer_buf = <<>>
      BY <3>2, WritingTypes, EmptySeq
    <3>4. Len(writer_buf) + n - done <= WriterCapacity
      BY <3>1, WritingTypes
    <3>5. Ready(p, n, r)'
      BY <1>1, <1>5, <3>3, <3>4 DEF Ready
    <3>6. todo' = <<Step(p, n)>> \o r /\ written' = 0
      BY <1>1, <1>2, <1>7, <2>3
    <3> QED
      BY <1>1, <1>6, <1>8, <2>1, <3>5, <3>6, PlanIs
  <2> QED
    BY <2>2, <2>3
<1>10. Stream' = Stream /\ Abstract
  BY <1>1, WriteStays DEF out
<1>11. WritingOK'
  <2>1. DoubtOK'
    BY <1>1, <1>2 DEF WritingOK, DoubtOK, DropHeedsPanic
  <2>2. /\ writer_buf' \in Seq(Byte) /\ Len(writer_buf') <= WriterCapacity
        /\ written' \in 0 .. Len(writer_buf') /\ doubt' \in 0 .. Len(writer_buf')
        /\ panicked' \in BOOLEAN /\ sink' \in Seq(Byte) /\ flushed' \in BOOLEAN
    BY <1>1, WritingTypes DEF BuffersOK, NoRealloc, out
  <2>3. 0 \in 0 .. (Len(data) - done) /\ done' = done + 0 /\ Stream' = Stream \o Slice(0)
    BY <1>1, <1>10, NoBytes
  <2> QED
    BY <1>1, <1>9, <2>1, <2>2, <2>3, WriteMoves
<1>12. NewlineLast' /\ op' \in Writing
  BY <1>1, CutKeepsLast
<1> QED
  BY <1>10, <1>11, <1>12, GoesOn

\* Going on, with no flush in progress, by a step that transfers m bytes.
LEMMA StepGoes ==
    ASSUME WritingOK, op \in Writing, UNCHANGED <<life, op, data, ret, base, reader, in>>,
           NEW m \in 0 .. (Len(data) - done), done' = done + m, Stream' = Stream \o Slice(m),
           writer_buf' \in Seq(Byte), Len(writer_buf') <= WriterCapacity, written' = 0,
           doubt' \in 0 .. Len(writer_buf'), panicked' \in BOOLEAN, doubt' > 0 => panicked',
           sink' \in Seq(Byte), flushed' \in BOOLEAN,
           LinePlanOK', NewlineLast', Abstract
    PROVE  Goes
<1>1. written' \in 0 .. Len(writer_buf')
  BY LenProperties
<1>2. DoubtOK'
  BY DEF DoubtOK, DropHeedsPanic, Writing
<1>3. WritingOK'
  BY <1>1, <1>2, WriteMoves
<1> QED
  BY <1>3, GoesOn

\* A plan with steps in it is not the empty plan.
LEMMA NotEmpty == \A a, b : <<a>> # <<>> /\ <<a, b>> # <<>>
OBVIOUS

\* The plan that is left when a piece has been placed.
LEMMA PiecePlaced ==
    ASSUME UNCHANGED <<op, data>>, NEW r \in Rests, todo' = r, written' = 0,
           data \in Seq(Byte), done' \in 0 .. Len(data),
           r = <<>> =>
              /\ op = "write_all" => done' = Len(data)
              /\ op = "write_all" \/ ~HasNewline(data) => ~HasNewline(writer_buf'),
           r # <<>> => op = "write_all" /\ done' >= LastNewline(data),
           r = <<FinalWrite>> => writer_buf' = <<>>
    PROVE  LinePlanOK'
<1>1. CASE r = <<>>
  BY <1>1 DEF LinePlanOK
<1>2. CASE r = <<FirstFlush, FinalWrite>> \/ r = <<FinalWrite>>
  <2> DEFINE w == Step("write_all", Len(data))
  <2>1. /\ FirstFlush \in LineStep /\ FinalWrite \in LineStep /\ w = FinalWrite
        /\ Len(data) \in Nat
    BY RestsArePlans, LenProperties DEF FinalWrite
  <2>2. <<w>> \o <<>> = <<FinalWrite>>
        /\ <<FirstFlush, FinalWrite>> = <<FirstFlush>> \o <<FinalWrite>>
    BY <2>1, Tuples
  <2>3. <<>> \in Rests /\ "write_all" \in Steps \cup LineSteps /\ Len(data) \in 0 .. Len(data)
    BY <2>1 DEF Rests, Steps
  <2>4. r # <<>>
    BY ONLY <1>2, NotEmpty
  <2>5. Piece("write_all", Len(data), <<>>)'
    BY <2>4 DEF Piece, LastPiece
  <2>6. CASE r = <<FirstFlush, FinalWrite>>
    <3>1. todo' = <<FirstFlush>> \o (<<w>> \o <<>>)
      BY <2>2, <2>6
    <3> QED
      BY <2>3, <2>5, <3>1, PlanIs
  <2>7. CASE r = <<FinalWrite>>
    <3>1. todo' = <<w>> \o <<>>
      BY <2>2, <2>7
    <3>2. Ready("write_all", Len(data), <<>>)'
      BY <2>7, EmptyHasNone DEF Ready
    <3> QED
      BY <2>3, <2>5, <3>1, <3>2, PlanIs
  <2> QED
    BY <1>2, <2>6, <2>7
<1> QED
  BY <1>1, <1>2 DEF Rests

\* The last piece of a slice has no line end in it.
LEMMA LastPieceHasNone ==
    ASSUME WritingOK, NEW s, NEW n, LastPiece(s, n), NEW m \in 0 .. (Len(data) - done)
    PROVE  ~HasNewline(Slice(m))
<1>1. /\ data \in Seq(Byte) /\ Len(data) \in Nat /\ done \in 0 .. Len(data)
      /\ LastNewline(data) \in 0 .. Len(data)
  BY WritingTypes
<1>2. ASSUME NEW i \in 1 .. Len(data) - done, data[done + i] = Newline PROVE FALSE
  <2>1. done + i \in 1 .. Len(data)
    BY <1>1
  <2>2. CASE done = 0 /\ ~HasNewline(data)
    BY <1>1, <1>2, <2>1, <2>2, HasNewlineIs
  <2>3. CASE done >= LastNewline(data)
    <3>1. done + i <= LastNewline(data)
      BY <1>1, <1>2, <2>1, LastNewlineIs
    <3> QED
      BY <1>1, <2>3, <3>1
  <2> QED
    BY <2>2, <2>3 DEF LastPiece
<1>3. Slice(m) \in Seq(Byte) /\ Len(Slice(m)) = m /\ \A i \in 1 .. m : Slice(m)[i] = data[done + i]
  BY SliceTypes
<1>4. ASSUME NEW i \in 1 .. Len(Slice(m)), Slice(m)[i] = Newline PROVE FALSE
  <2>1. i \in 1 .. m /\ i \in 1 .. Len(data) - done
    BY <1>1, <1>3
  <2> QED
    BY <1>2, <1>3, <1>4, <2>1
<1> QED
  BY <1>3, <1>4, HasNewlineIs

LEMMA ExtendGoes == WritingOK /\ NewlineLast /\ op \in Writing /\ Extend => Goes
<1> SUFFICES ASSUME WritingOK, NewlineLast, op \in Writing, Extend PROVE Goes
  OBVIOUS
<1>1. /\ todo # <<>> /\ ~At("flush_buf") /\ Head(todo).step = "extend"
      /\ UNCHANGED <<life, op, data, ret, base, reader, in, out>>
      /\ UNCHANGED <<panicked, written, doubt>>
      /\ writer_buf' = writer_buf \o Slice(Limit - done)
      /\ todo' = Tail(todo) /\ done' = Limit
  BY DEF Extend, At, Proceed
<1>2. /\ Piece("extend", Limit, Tail(todo)) /\ Ready("extend", Limit, Tail(todo))
      /\ Limit \in 0 .. Len(data) /\ Tail(todo) \in Rests /\ written = 0
  BY <1>1, AtPiece
<1>3. PICK n \in 0 .. Len(data), r \in Rests : n = Limit /\ r = Tail(todo)
  BY <1>2
<1>4. /\ data \in Seq(Byte) /\ Len(data) \in Nat /\ done \in 0 .. Len(data)
      /\ LastNewline(data) \in 0 .. Len(data) /\ writer_buf \in Seq(Byte)
      /\ Len(writer_buf) \in Nat /\ doubt \in 0 .. Len(writer_buf) /\ panicked \in BOOLEAN
  BY WritingTypes
<1>5. /\ Piece("extend", n, r)
      /\ Len(writer_buf) + n - done <= WriterCapacity
      /\ r = <<>> => ~HasNewline(writer_buf)
      /\ done <= n
  <2>1. Piece("extend", n, r) /\ Ready("extend", n, r)
    BY <1>2, <1>3
  <2>2. done <= n
    BY <1>4, <2>1 DEF Piece, LastPiece, LinesAttempt, LinesPiece
  <2> QED
    BY <2>1, <2>2 DEF Ready, WriteSteps, Placing
<1>6. PICK m \in 0 .. (Len(data) - done) : m = n - done
  BY <1>4, <1>5
<1>7. writer_buf' = writer_buf \o Slice(m) /\ done' = done + m /\ done' = n /\ m \in Nat
  BY <1>1, <1>3, <1>4, <1>6
<1>8. /\ Stream' = Stream \o Slice(m) /\ Abstract
      /\ writer_buf' \in Seq(Byte) /\ Len(writer_buf') = Len(writer_buf) + m
  BY <1>1, <1>2, <1>7, WriteAppends
<1>9. /\ Slice(m) \in Seq(Byte) /\ Len(Slice(m)) = m
      /\ \A i \in 1 .. m : Slice(m)[i] = data[done + i]
  BY SliceTypes
<1>10. ASSUME LastPiece("extend", n), r = <<>> PROVE LinePlanOK' /\ NewlineLast'
  <2>1. ~HasNewline(Slice(m))
    BY <1>10, LastPieceHasNone
  <2>2. ~HasNewline(writer_buf')
    BY <1>4, <1>5, <1>7, <1>9, <1>10, <2>1, JoinNoLine
  <2>3. n = Len(data)
    BY <1>10 DEF LastPiece
  <2>4. todo' = r /\ written' = 0 /\ done' \in 0 .. Len(data) /\ done' = Len(data)
    BY <1>1, <1>2, <1>3, <1>7, <2>3
  <2>5. LinePlanOK'
    BY <1>1, <1>4, <1>10, <2>2, <2>4, PiecePlaced
  <2> QED
    BY <2>2, <2>5 DEF NewlineLast
<1>11. ASSUME LinesPiece(n), r = <<FirstFlush, FinalWrite>> PROVE LinePlanOK' /\ NewlineLast'
  <2>1. ASSUME m = 0 PROVE NewlineLast'
    <3>1. Slice(m) = <<>>
      BY <1>9, <2>1, EmptySeq
    <3>2. writer_buf' = writer_buf
      BY <1>4, <1>7, <3>1, ConcatEmptySeq
    <3> QED
      BY <3>2, CutKeepsLast
  <2>2. ASSUME m # 0 PROVE NewlineLast'
    <3>1. Slice(m) # <<>> /\ Slice(m)[m] = data[n]
      BY <1>4, <1>6, <1>7, <1>9, <2>2, EmptySeq
    <3>2. data[n] = Newline
      BY <1>4, <1>11, LastNewlineIs DEF LinesPiece
    <3>3. EndsLine(writer_buf')
      BY <1>4, <1>7, <1>9, <3>1, <3>2, JoinEndsLine
    <3> QED
      BY <3>3 DEF EndsLine, NewlineLast
  <2>3. op = "write_all" /\ done' >= LastNewline(data)
    BY <1>4, <1>7, <1>11 DEF LinesPiece
  <2>4. r # <<>> /\ r # <<FinalWrite>>
    BY <1>11
  <2>5. LinePlanOK'
    BY <1>1, <1>2, <1>3, <1>4, <1>7, <2>3, <2>4, PiecePlaced
  <2> QED
    BY <2>1, <2>2, <2>5
<1>12. LinePlanOK' /\ NewlineLast'
  <2>1. ~LinesAttempt("extend", n)
    BY DEF LinesAttempt
  <2> QED
    BY <1>5, <1>10, <1>11, <2>1 DEF Piece
<1>13. /\ Len(writer_buf') <= WriterCapacity /\ doubt' \in 0 .. Len(writer_buf')
       /\ panicked' \in BOOLEAN /\ written' = 0
  BY <1>1, <1>2, <1>4, <1>5, <1>6, <1>8, CapacityAssumption
<1>14. sink' \in Seq(Byte) /\ flushed' \in BOOLEAN /\ (doubt' > 0 => panicked')
  BY <1>1, WritingTypes DEF BuffersOK, out, WritingOK, DoubtOK
<1> QED
  BY <1>1, <1>7, <1>8, <1>12, <1>13, <1>14, StepGoes

\* A step that hands the next m bytes to the inner writer past the empty buffer.
LEMMA ThroughGoes ==
    ASSUME WritingOK, op \in Writing, writer_buf = <<>>, written = 0,
           NEW m \in 0 .. (Len(data) - done), Send(Slice(m)), done' = done + m,
           UNCHANGED <<life, op, data, ret, base, reader, in, writer_buf, written, doubt>>,
           panicked' \in BOOLEAN, LinePlanOK'
    PROVE  Goes
<1>1. /\ Stream' = Stream \o Slice(m) /\ sink' \in Seq(Byte) /\ flushed' \in BOOLEAN
      /\ Abstract
  BY WriteThroughs
<1>2. /\ writer_buf' = <<>> /\ Len(writer_buf') = 0 /\ writer_buf' \in Seq(Byte)
      /\ written' = 0 /\ doubt' = 0
  BY WritingTypes, EmptySeq
<1>3. NewlineLast'
  BY <1>2, EmptyKeepsLast
<1>4. /\ Len(writer_buf') <= WriterCapacity /\ doubt' \in 0 .. Len(writer_buf')
      /\ doubt' > 0 => panicked'
  BY <1>2, CapacityAssumption
<1> QED
  BY <1>1, <1>2, <1>3, <1>4, StepGoes

\* A step that hands over nothing hands over the empty slice.
LEMMA SendsNothing ==
    ASSUME WritingOK, UNCHANGED out
    PROVE  Send(Slice(0))
<1>1. Slice(0) = <<>> /\ sink \in Seq(Byte) /\ flushed \in BOOLEAN
  BY NoBytes, WritingTypes DEF BuffersOK
<1>2. sink \o <<>> = sink
  BY <1>1, ConcatEmptySeq
<1> QED
  BY <1>1, <1>2 DEF Send, out

\* At a step that goes past the buffer.
LEMMA AtThrough ==
    ASSUME WritingOK, NEW s \in {"direct", "direct_all", "lines_all"}, At(s)
    PROVE  \E n \in 0 .. Len(data), r \in Rests :
             /\ n = Limit /\ r = Tail(todo) /\ todo = <<Step(s, n)>> \o r
             /\ s \in Steps \cup LineSteps /\ s # "buffer_tail" /\ s # "extend"
             /\ done <= n /\ written = 0 /\ writer_buf = <<>>
             /\ \/ LastPiece(s, n) /\ r = <<>>
                \/ /\ LinesPiece(n)
                   /\ \/ r = <<FirstFlush, FinalWrite>> /\ s = "direct_all"
                      \/ r = <<FinalWrite>> /\ s = "lines_all"
<1>1. todo # <<>> /\ ~At("flush_buf") /\ Head(todo).step = s
  BY DEF At
<1>2. /\ Piece(s, Limit, Tail(todo)) /\ Ready(s, Limit, Tail(todo))
      /\ Limit \in 0 .. Len(data) /\ Tail(todo) \in Rests /\ written = 0
      /\ todo = <<Step(s, Limit)>> \o Tail(todo)
  BY <1>1, AtPiece
<1>3. writer_buf = <<>>
  BY <1>2 DEF Ready
<1>4. done \in 0 .. Len(data) /\ Len(data) \in Nat
  BY WritingTypes
<1>5. \/ LastPiece(s, Limit) /\ Tail(todo) = <<>>
      \/ /\ LinesPiece(Limit)
         /\ \/ Tail(todo) = <<FirstFlush, FinalWrite>> /\ s = "direct_all"
            \/ Tail(todo) = <<FinalWrite>> /\ s = "lines_all"
  BY <1>2 DEF Piece, LinesAttempt
<1>6. done <= Limit
  BY <1>4, <1>5 DEF LastPiece, LinesPiece
<1>7. s \in Steps \cup LineSteps /\ s # "buffer_tail" /\ s # "extend"
  BY DEF Steps, LineSteps
<1> QED
  BY <1>2, <1>3, <1>5, <1>6, <1>7

\* The loop of a write_all goes round, having written m bytes.
LEMMA RoundGoes ==
    ASSUME WritingOK, op \in Writing, NEW s \in {"direct_all", "lines_all"}, At(s),
           NEW m \in 0 .. (Limit - done), Send(Slice(m)), done' = done + m,
           UNCHANGED <<life, op, data, todo, ret, base, reader, in, writer_buf, written, doubt>>,
           panicked' \in BOOLEAN
    PROVE  Goes
<1>1. PICK n \in 0 .. Len(data), r \in Rests :
        /\ n = Limit /\ r = Tail(todo) /\ todo = <<Step(s, n)>> \o r
        /\ s \in Steps \cup LineSteps /\ s # "buffer_tail" /\ s # "extend"
        /\ done <= n /\ written = 0 /\ writer_buf = <<>>
        /\ \/ LastPiece(s, n) /\ r = <<>>
           \/ /\ LinesPiece(n)
              /\ \/ r = <<FirstFlush, FinalWrite>> /\ s = "direct_all"
                 \/ r = <<FinalWrite>> /\ s = "lines_all"
  BY AtThrough
<1>2. Len(data) \in Nat /\ done \in 0 .. Len(data) /\ LastNewline(data) \in 0 .. Len(data)
  BY WritingTypes
<1>3. m \in 0 .. (Len(data) - done) /\ done' <= n /\ done' >= done
  BY <1>1, <1>2
<1>4. Piece(s, n, r)'
  <2>1. CASE LastPiece(s, n) /\ r = <<>>
    <3>1. LastPiece(s, n)'
      BY <1>2, <1>3, <2>1 DEF LastPiece
    <3> QED
      BY <2>1, <3>1 DEF Piece
  <2>2. CASE LinesPiece(n) /\ r = <<FirstFlush, FinalWrite>> /\ s = "direct_all"
    <3>1. LinesPiece(n)' /\ r = <<FirstFlush', FinalWrite'>>
      BY <1>3, <2>2 DEF LinesPiece, FirstFlush, FinalWrite, Step
    <3> QED
      BY <2>2, <3>1 DEF Piece
  <2>3. CASE LinesPiece(n) /\ r = <<FinalWrite>> /\ s = "lines_all"
    <3>1. LinesPiece(n)' /\ r = <<FinalWrite'>>
      BY <1>3, <2>3 DEF LinesPiece, FinalWrite, Step
    <3> QED
      BY <2>3, <3>1 DEF Piece
  <2> QED
    BY <1>1, <2>1, <2>2, <2>3
<1>5. Ready(s, n, r)'
  BY <1>1, EmptyHasNone DEF Ready
<1>6. todo' = <<Step(s, n)>> \o r /\ written' = 0
  BY <1>1
<1>7. LinePlanOK'
  BY <1>1, <1>4, <1>5, <1>6, PlanIs
<1> QED
  BY <1>1, <1>3, <1>7, ThroughGoes

\* The loop of a write_all is done, or write has made its one attempt.
LEMMA ThroughEnds ==
    ASSUME WritingOK, op \in Writing, NEW s \in {"direct", "direct_all", "lines_all"}, At(s),
           NEW m \in 0 .. (Limit - done), Send(Slice(m)), Proceed(Tail(todo), done + m),
           s # "direct" => done + m = Limit,
           UNCHANGED <<reader, in, writer_buf, written, doubt>>, panicked' \in BOOLEAN
    PROVE  Goes
<1>1. PICK n \in 0 .. Len(data), r \in Rests :
        /\ n = Limit /\ r = Tail(todo) /\ todo = <<Step(s, n)>> \o r
        /\ s \in Steps \cup LineSteps /\ s # "buffer_tail" /\ s # "extend"
        /\ done <= n /\ written = 0 /\ writer_buf = <<>>
        /\ \/ LastPiece(s, n) /\ r = <<>>
           \/ /\ LinesPiece(n)
              /\ \/ r = <<FirstFlush, FinalWrite>> /\ s = "direct_all"
                 \/ r = <<FinalWrite>> /\ s = "lines_all"
  BY AtThrough
<1>2. /\ Len(data) \in Nat /\ done \in 0 .. Len(data) /\ LastNewline(data) \in 0 .. Len(data)
      /\ data \in Seq(Byte)
  BY WritingTypes
<1>3. m \in 0 .. (Len(data) - done) /\ done' \in 0 .. Len(data) /\ done' = done + m
  BY <1>1, <1>2 DEF Proceed
<1>4. UNCHANGED <<life, op, data, ret, base>> /\ todo' = r /\ written' = 0 /\ writer_buf' = <<>>
  BY <1>1 DEF Proceed
<1>5. r = <<>> => (op = "write_all" => done' = Len(data)) /\ ~HasNewline(writer_buf')
  <2>1. r = <<>> /\ op = "write_all" => done' = Len(data)
    BY <1>1, <1>3 DEF LastPiece
  <2>2. ~HasNewline(writer_buf')
    BY <1>4, EmptyHasNone
  <2> QED
    BY <2>1, <2>2
<1>6. r # <<>> => op = "write_all" /\ done' >= LastNewline(data)
  BY <1>1, <1>2, <1>3 DEF LinesPiece
<1>7. LinePlanOK'
  BY <1>2, <1>3, <1>4, <1>5, <1>6, PiecePlaced
<1> QED
  BY <1>1, <1>3, <1>4, <1>7, ThroughGoes

LEMMA DirectGoes ==
    WritingOK /\ op \in Writing /\ (Direct \/ DirectAll \/ DirectRetry \/ LinesAll) => Goes
<1> SUFFICES ASSUME WritingOK, op \in Writing,
                    Direct \/ DirectAll \/ DirectRetry \/ LinesAll
             PROVE  Goes
  OBVIOUS
<1>1. /\ Len(data) \in Nat /\ done \in Nat /\ panicked \in BOOLEAN /\ Room \in Int
  BY WritingTypes
<1>2. ASSUME NEW s \in {"direct", "direct_all", "lines_all"}, At(s)
      PROVE  Limit \in Nat /\ done <= Limit
  <2>1. \E n \in 0 .. Len(data) : n = Limit /\ done <= n
    BY <1>2, AtThrough
  <2> QED
    BY <1>1, <2>1
<1>3. CASE Direct
  <2>1. PICK m \in 0 .. Least(Limit - done, Room) :
          Send(Slice(m)) /\ Proceed(Tail(todo), done + m)
    BY <1>3 DEF Direct
  <2>2. At("direct") /\ m \in 0 .. (Limit - done)
    BY <1>1, <1>2, <1>3, <2>1, LeastIsLess DEF Direct
  <2> QED
    BY <1>3, <2>1, <2>2, ThroughEnds DEF Direct
<1>4. ASSUME NEW s \in {"direct_all", "lines_all"}, At(s), UNCHANGED <<reader, in>>,
             panicked' \in BOOLEAN, UNCHANGED <<writer_buf, written, doubt>>,
             NEW m \in 1 .. Least(Limit - done, Room), Send(Slice(m)), Proceed(todo, done + m)
      PROVE  Goes
  <2>1. m \in 0 .. (Limit - done)
    BY <1>1, <1>2, <1>4, LeastIsLess
  <2> QED
    BY <1>4, <2>1, RoundGoes DEF Proceed
<1>5. ASSUME NEW s \in {"direct_all", "lines_all"}, At(s), UNCHANGED <<reader, in, out>>,
             panicked' \in BOOLEAN, UNCHANGED <<writer_buf, written, doubt>>,
             done = Limit, Proceed(Tail(todo), done)
      PROVE  Goes
  <2>1. Send(Slice(0)) /\ 0 \in 0 .. (Limit - done) /\ done + 0 = done
    BY <1>1, <1>5, SendsNothing
  <2> QED
    BY <1>5, <2>1, ThroughEnds
<1>6. CASE DirectAll
  BY <1>4, <1>5, <1>6 DEF DirectAll
<1>7. CASE LinesAll
  BY <1>1, <1>4, <1>5, <1>7 DEF LinesAll, guts
<1>8. CASE DirectRetry
  <2>1. At("direct_all") /\ Send(Slice(0)) /\ 0 \in 0 .. (Limit - done) /\ done' = done + 0
        /\ UNCHANGED <<life, op, data, todo, ret, base>> /\ panicked' \in BOOLEAN
    BY <1>1, <1>2, <1>8, SendsNothing DEF DirectRetry, frame
  <2> QED
    BY <1>8, <2>1, RoundGoes DEF DirectRetry
<1> QED
  BY <1>3, <1>6, <1>7, <1>8

(***************************************************************************)
(* The flush in front of a piece                                           *)
(***************************************************************************)
\* A failure before the end of a flush leaves the slice of a write untouched.
LEMMA FlushGoes == WritingOK /\ NewlineLast /\ op \in Writing /\ FlushBuf => Goes
<1> SUFFICES ASSUME WritingOK, NewlineLast, op \in Writing, FlushBuf PROVE Goes
  OBVIOUS
<1>1. PICK s \in Steps \cup LineSteps, n \in 0..Len(data), r \in Rests :
        /\ Tail(todo) = <<Step(s, n)>> \o r /\ Piece(s, n, r)
        /\ s = "extend" => n - done < WriterCapacity
        /\ s # "buffer_tail"
  BY AtFlush DEF FlushBuf
<1>2. /\ writer_buf \in Seq(Byte) /\ written \in 0 .. Len(writer_buf)
      /\ doubt \in 0 .. Len(writer_buf) /\ panicked \in BOOLEAN /\ BuffersOK
      /\ Len(data) \in Nat /\ done \in 0 .. Len(data) /\ Len(writer_buf) \in Nat
  BY WritingTypes DEF BuffersOK
<1>3. Drain /\ written >= Len(writer_buf) /\ UNCHANGED <<panicked, doubt, reader, out, in>>
      /\ todo' = Tail(todo) /\ done' = done /\ UNCHANGED <<life, op, data, ret, base>>
  BY DEF FlushBuf, Proceed
<1>4. writer_buf' = <<>> /\ writer_buf' \in Seq(Byte) /\ Len(writer_buf') = 0 /\ written' = 0
  <2>1. Remaining \in Seq(Byte) /\ Len(Remaining) = 0
    BY <1>2, <1>3, BuffersRemaining
  <2> QED
    BY <1>3, <2>1, EmptySeq DEF Drain
<1>5. doubt' = 0
  BY <1>2, <1>3 DEF WritingOK, DoubtOK
<1>6. Stream' = Stream /\ Abstract
  BY <1>3, WriteStays DEF out
<1>7. Ready(s, n, r)'
  <2>1. s = "extend" => Len(writer_buf') + n - done' <= WriterCapacity
    BY <1>1, <1>2, <1>3, <1>4, CapacityAssumption
  <2>2. ~HasNewline(writer_buf')
    BY <1>4, EmptyHasNone
  <2> QED
    BY <1>4, <2>1, <2>2 DEF Ready
<1>8. Piece(s, n, r)' /\ todo' = <<Step(s, n)>> \o r /\ (s = "extend" => n - done' < WriterCapacity)
  BY <1>1, <1>3, SamePiece
<1>9. LinePlanOK'
  BY <1>3, <1>4, <1>7, <1>8, PlanIs
<1>10. Stream' = Stream \o Slice(0) /\ done' = done + 0 /\ 0 \in 0 .. (Len(data) - done)
  BY <1>3, <1>6, NoBytes
<1>11. Len(writer_buf') <= WriterCapacity /\ doubt' \in 0 .. Len(writer_buf')
       /\ panicked' \in BOOLEAN /\ (doubt' > 0 => panicked')
       /\ sink' \in Seq(Byte) /\ flushed' \in BOOLEAN
  BY <1>2, <1>3, <1>4, <1>5, WritingTypes, CapacityAssumption DEF BuffersOK, out
<1>12. NewlineLast'
  BY <1>4, EmptyKeepsLast
<1> QED
  BY <1>3, <1>4, <1>6, <1>9, <1>10, <1>11, <1>12, StepGoes

LEMMA FlushLoopGoes ==
    WritingOK /\ NewlineLast /\ op \in Writing /\ (FlushWrite \/ FlushRetry) => Goes
<1> SUFFICES ASSUME WritingOK, NewlineLast, op \in Writing, FlushWrite \/ FlushRetry PROVE Goes
  OBVIOUS
<1>1. /\ At("flush_buf") /\ UNCHANGED frame /\ UNCHANGED <<writer_buf, reader, in>>
      /\ panicked' = FALSE /\ doubt' = 0
  BY DEF FlushWrite, FlushRetry
<1>2. PICK s \in Steps \cup LineSteps, n \in 0..Len(data), r \in Rests :
        /\ todo = <<FirstFlush>> \o (<<Step(s, n)>> \o r) /\ Piece(s, n, r)
        /\ s = "extend" => n - done < WriterCapacity
        /\ s # "buffer_tail"
  BY <1>1, AtFlush
<1>3. /\ writer_buf \in Seq(Byte) /\ written \in 0 .. Len(writer_buf) /\ BuffersOK
      /\ Len(writer_buf) \in Nat /\ Len(writer_buf) <= WriterCapacity
      /\ sink \in Seq(Byte) /\ flushed \in BOOLEAN /\ Open
  BY WritingTypes DEF BuffersOK, NoRealloc
<1>4. UNCHANGED <<life, op, data, ret, base, done, todo>> /\ Open'
  BY <1>1, <1>3 DEF frame, Open
<1>5. LinePlanOK'
  <2>1. Piece(s, n, r)' /\ (s = "extend" => n - done' < WriterCapacity)
        /\ todo' = <<FirstFlush>> \o (<<Step(s, n)>> \o r)
    BY <1>2, <1>4, SamePiece
  <2> QED
    BY <1>2, <1>4, <2>1, PlanIs
<1>6. /\ Stream' = Stream /\ Abstract /\ written' \in 0 .. Len(writer_buf)
      /\ sink' \in Seq(Byte) /\ flushed' \in BOOLEAN
  <2>1. CASE FlushWrite
    <3>1. /\ Stream' = Stream /\ Duplex!IsPrefix(sink', Stream)
          /\ \E t \in Seq(Byte) : sink' = sink \o t
      BY <1>3, <2>1, BuffersFlushWrite
    <3>2. PICK t \in Seq(Byte) : sink' = sink \o t
      BY <3>1
    <3>3. UNCHANGED <<supplied, taken>>
      BY <1>1 DEF in
    <3>4. Abstract
      BY <1>3, <1>4, <3>1, <3>2, <3>3, Delivers
    <3>5. written' \in 0 .. Len(writer_buf) /\ flushed' \in BOOLEAN
      <4>1. PICK m \in 1 .. Least(Len(Remaining), Room) :
              Send(SubSeq(Remaining, 1, m)) /\ written' = written + m
        BY <2>1 DEF FlushWrite
      <4>2. Len(Remaining) = Len(writer_buf) - written /\ Room \in Int
        BY <1>3, BuffersRemaining, WritingTypes
      <4>3. Len(Remaining) \in Int
        BY <1>3, <4>2
      <4>4. m \in Nat /\ m <= Len(Remaining)
        BY <4>1, <4>2, <4>3, LeastIsLess
      <4> QED
        BY <1>3, <4>1, <4>2, <4>4 DEF Send
    <3> QED
      BY <1>3, <3>1, <3>2, <3>4, <3>5, ConcatProperties
  <2>2. CASE FlushRetry
    <3>1. UNCHANGED <<writer_buf, written, out>>
      BY <2>2 DEF FlushRetry
    <3> QED
      BY <1>1, <1>3, <3>1, WriteStays DEF out
  <2> QED
    BY <2>1, <2>2
<1>7. Stream' = Stream \o Slice(0) /\ done' = done + 0 /\ 0 \in 0 .. (Len(data) - done)
  BY <1>4, <1>6, NoBytes
<1>8. DoubtOK'
  BY <1>1, <1>4 DEF DoubtOK, DropHeedsPanic, Writing, At
<1>9. /\ writer_buf' \in Seq(Byte) /\ Len(writer_buf') <= WriterCapacity
      /\ written' \in 0 .. Len(writer_buf') /\ doubt' \in 0 .. Len(writer_buf')
      /\ panicked' \in BOOLEAN
  <2>1. UNCHANGED writer_buf /\ panicked' \in BOOLEAN
    BY <1>1
  <2> QED
    BY <1>1, <1>3, <1>6, <2>1
<1>10. WritingOK'
  BY <1>1, <1>4, <1>5, <1>6, <1>7, <1>8, <1>9, WriteMoves
<1>11. NewlineLast' /\ op' \in Writing
  BY <1>1, <1>4, CutKeepsLast
<1> QED
  BY <1>6, <1>10, <1>11, GoesOn

(***************************************************************************)
(* The shim's steps                                                        *)
(***************************************************************************)
\* Nothing that follows the last newline is a newline.
LEMMA AfterLastNewline ==
    ASSUME data \in Seq(Byte), NEW m \in Nat, m >= LastNewline(data), NEW e \in 0 .. Len(data)
    PROVE  \A i \in (m + 1) .. e : data[i] # Newline
<1>1. /\ Len(data) \in Nat /\ LastNewline(data) \in Nat
      /\ \A i \in 1 .. Len(data) : data[i] = Newline => i <= LastNewline(data)
  BY LastNewlineIs, LenProperties
<1> QED
  BY <1>1

\* The tail that a partial write of the lines leaves: what is buffered of it
\* holds no line end, or fits and ends with one.
LEMMA TailEndFits ==
    ASSUME data \in Seq(Byte), NEW k \in 1 .. Len(data), k = LastNewline(data),
           data[k] = Newline, NEW m \in 1 .. k
    PROVE  /\ TailEnd(m, k) \in m .. Len(data)
           /\ \/ \A i \in (m + 1) .. TailEnd(m, k) : data[i] # Newline
              \/ /\ m < TailEnd(m, k) /\ TailEnd(m, k) - m <= WriterCapacity
                 /\ data[TailEnd(m, k)] = Newline
<1> DEFINE w == SubSeq(data, m + 1, m + WriterCapacity)
           nl == LastNewline(w)
           e == TailEnd(m, k)
<1>1. Len(data) \in Nat /\ WriterCapacity \in Nat /\ k \in Nat /\ m \in Nat /\ m <= k /\ k <= Len(data)
  BY LenProperties, CapacityAssumption
<1>2. e = IF m >= k THEN Len(data)
          ELSE IF k - m <= WriterCapacity THEN k
          ELSE m + (IF nl # 0 THEN nl ELSE WriterCapacity)
  BY DEF TailEnd
<1>3. ASSUME m < k, k - m > WriterCapacity
      PROVE  /\ w \in Seq(Byte) /\ Len(w) = WriterCapacity
             /\ \A i \in 1 .. WriterCapacity : w[i] = data[m + i]
  <2>1. m + WriterCapacity < k
    BY <1>1, <1>3
  <2>2. \A i \in m + 1 .. m + WriterCapacity : data[i] \in Byte
    BY <1>1, <2>1, ElementOfSeq
  <2>3. /\ w \in Seq(Byte)
        /\ Len(w) = IF m + 1 <= m + WriterCapacity
                    THEN m + WriterCapacity - (m + 1) + 1 ELSE 0
        /\ \A i \in 1 .. m + WriterCapacity - (m + 1) + 1 : w[i] = data[m + 1 + i - 1]
    BY <1>1, <2>2, SubSeqProperties
  <2> HIDE DEF w
  <2>4. /\ m + WriterCapacity - (m + 1) + 1 = WriterCapacity
        /\ WriterCapacity = 0 => ~(m + 1 <= m + WriterCapacity)
        /\ WriterCapacity # 0 => m + 1 <= m + WriterCapacity
        /\ \A i \in 1 .. WriterCapacity : m + 1 + i - 1 = m + i
    BY <1>1
  <2>5. Len(w) = WriterCapacity
    BY <2>3, <2>4
  <2>6. \A i \in 1 .. WriterCapacity : w[i] = data[m + i]
    BY <2>3, <2>4
  <2> QED
    BY <2>3, <2>5, <2>6
<1>4. CASE m >= k
  BY <1>1, <1>2, <1>4, AfterLastNewline
<1>5. CASE m < k /\ k - m <= WriterCapacity
  BY <1>1, <1>2, <1>5
<1>6. CASE m < k /\ k - m > WriterCapacity
  <2>1. /\ w \in Seq(Byte) /\ Len(w) = WriterCapacity /\ nl \in 0 .. WriterCapacity
        /\ \A i \in 1 .. WriterCapacity : w[i] = data[m + i]
        /\ nl # 0 => w[nl] = Newline
        /\ \A i \in 1 .. WriterCapacity : w[i] = Newline => i <= nl
    BY <1>3, <1>6, LastNewlineIs DEF HasNewline
  <2> HIDE DEF w, nl, e
  <2>2. CASE nl # 0
    <3>1. e = m + nl /\ nl \in 1 .. WriterCapacity
      BY <1>1, <1>2, <1>6, <2>1, <2>2
    <3>2. data[e] = Newline
      BY <2>1, <2>2, <3>1
    <3>3. e \in m .. Len(data) /\ m < e /\ e - m <= WriterCapacity
      BY <1>1, <1>6, <3>1
    <3> QED
      BY <3>2, <3>3 DEF e
  <2>3. CASE nl = 0
    <3>1. e = m + WriterCapacity
      BY <1>1, <1>2, <1>6, <2>3
    <3>2. e \in m .. Len(data)
      BY <1>1, <1>6, <3>1
    <3>3. ASSUME NEW i \in (m + 1) .. e PROVE data[i] # Newline
      <4>1. i - m \in 1 .. WriterCapacity /\ m + (i - m) = i
        BY <1>1, <3>1, <3>3
      <4>2. w[i - m] # Newline
        BY <2>1, <2>3, <4>1
      <4> QED
        BY <2>1, <4>1, <4>2
    <3> QED
      BY <3>2, <3>3 DEF e
  <2> QED
    BY <2>2, <2>3
<1> QED
  BY <1>1, <1>4, <1>5, <1>6

\* At the attempt of write to send the lines, and at the tail it buffers.
LEMMA AtAttempt ==
    ASSUME WritingOK, NEW s \in {"write_lines", "write_bufs", "buffer_tail"}, At(s)
    PROVE  /\ LinesAttempt(s, Limit) /\ Tail(todo) = <<>> /\ writer_buf = <<>> /\ written = 0
           /\ Limit \in 0 .. Len(data) /\ done <= Limit
           /\ doubt = 0
<1>1. todo # <<>> /\ ~At("flush_buf") /\ Head(todo).step = s
  BY DEF At
<1>2. /\ Piece(s, Limit, Tail(todo)) /\ Ready(s, Limit, Tail(todo))
      /\ Limit \in 0 .. Len(data) /\ written = 0
  BY <1>1, AtPiece
<1>3. LinesAttempt(s, Limit) /\ Tail(todo) = <<>> /\ writer_buf = <<>>
  BY <1>2 DEF Piece, LastPiece, Ready
<1>4. done <= Limit /\ doubt = 0
  <2>1. Len(data) \in Nat /\ done \in 0 .. Len(data) /\ doubt \in 0 .. Len(writer_buf)
    BY WritingTypes
  <2>2. Len(writer_buf) = 0
    BY <1>3, EmptySeq
  <2> QED
    BY <1>2, <1>3, <2>1, <2>2 DEF LinesAttempt
<1> QED
  BY <1>2, <1>3, <1>4

\* The attempt is over: nothing is left to do, or the tail is to be buffered.
LEMMA AttemptGoes ==
    ASSUME WritingOK, op \in Writing, NEW s \in {"write_lines", "write_bufs"}, At(s),
           NEW m \in 0 .. Limit, Send(Slice(m)), NEW plan, Proceed(plan, m),
           UNCHANGED <<guts, reader, in>>, NEW e \in m .. Len(data),
           \/ plan = Tail(todo)
           \/ /\ plan = <<Step("buffer_tail", e)>> \o Tail(todo)
              /\ \/ \A i \in (m + 1) .. e : data[i] # Newline
                 \/ m < e /\ e - m <= WriterCapacity /\ data[e] = Newline
    PROVE  Goes
<1>1. /\ LinesAttempt(s, Limit) /\ Tail(todo) = <<>> /\ writer_buf = <<>> /\ written = 0
      /\ Limit \in 0 .. Len(data)
  BY AtAttempt
<1>2. Len(data) \in Nat /\ panicked \in BOOLEAN
  BY WritingTypes
<1>3. UNCHANGED <<life, op, data, ret, base>> /\ todo' = plan /\ done' = m
      /\ UNCHANGED <<writer_buf, written, doubt, panicked>>
  BY DEF Proceed, guts
<1>4. op = "write" /\ HasNewline(data) /\ done = 0
  BY <1>1 DEF LinesAttempt
<1>5. LinePlanOK'
  <2>1. CASE plan = Tail(todo)
    BY <1>1, <1>3, <1>4, <2>1 DEF LinePlanOK
  <2>2. ASSUME plan = <<Step("buffer_tail", e)>> \o Tail(todo),
               \/ \A i \in (m + 1) .. e : data[i] # Newline
               \/ m < e /\ e - m <= WriterCapacity /\ data[e] = Newline
        PROVE  LinePlanOK'
    <3>1. m <= e /\ e \in 0 .. Len(data)
      BY <1>1, <1>2
    <3>2. TailFits(e)'
      BY <1>3, <2>2 DEF TailFits
    <3>3. Piece("buffer_tail", e, <<>>)'
      BY <1>3, <1>4, <3>1, <3>2 DEF Piece, LinesAttempt
    <3>4. Ready("buffer_tail", e, <<>>)'
      BY <1>1, <1>3 DEF Ready, WriteSteps, Placing
    <3>5. <<>> \in Rests /\ "buffer_tail" \in Steps \cup LineSteps
          /\ todo' = <<Step("buffer_tail", e)>> \o <<>> /\ written' = 0
      BY <1>1, <1>3, <2>2 DEF Rests, LineSteps
    <3> QED
      BY <1>3, <3>1, <3>3, <3>4, <3>5, PlanIs
  <2> QED
    BY <2>1, <2>2
<1>6. m \in 0 .. (Len(data) - done) /\ done' = done + m
  BY <1>1, <1>2, <1>3, <1>4
<1> QED
  BY <1>1, <1>2, <1>3, <1>5, <1>6, ThroughGoes

LEMMA WriteLinesGoes == WritingOK /\ op \in Writing /\ WriteLines => Goes
<1> SUFFICES ASSUME WritingOK, op \in Writing, WriteLines PROVE Goes
  OBVIOUS
<1>1. PICK m \in 0 .. Least(Limit, Room) :
        /\ Send(Slice(m))
        /\ Proceed(IF m = 0 THEN Tail(todo)
                   ELSE <<Step("buffer_tail", TailEnd(m, Limit))>> \o Tail(todo), m)
  BY DEF WriteLines
<1>2. At("write_lines") /\ UNCHANGED <<guts, reader, in>>
  BY DEF WriteLines
<1>3. LinesAttempt("write_lines", Limit) /\ Limit \in 0 .. Len(data)
  BY <1>2, AtAttempt
<1>4. data \in Seq(Byte) /\ Len(data) \in Nat /\ Room \in Int
  BY WritingTypes
<1>5. m \in 0 .. Limit
  <2>1. Limit \in Int
    BY <1>3
  <2> QED
    BY <1>1, <1>4, <2>1, LeastIsLess
<1>6. CASE m = 0
  <2>1. Proceed(Tail(todo), m) /\ 0 \in m .. Len(data)
    BY <1>1, <1>4, <1>6
  <2> QED
    BY <1>1, <1>2, <1>5, <2>1, AttemptGoes
<1>7. CASE m # 0
  <2>1. Limit = LastNewline(data) /\ HasNewline(data)
    BY <1>3 DEF LinesAttempt
  <2>2. Limit \in 1 .. Len(data) /\ data[Limit] = Newline /\ m \in 1 .. Limit
    BY <1>4, <1>5, <1>7, <2>1, LastNewlineIs
  <2>3. PICK e \in m .. Len(data) :
          /\ e = TailEnd(m, Limit)
          /\ \/ \A i \in (m + 1) .. e : data[i] # Newline
             \/ m < e /\ e - m <= WriterCapacity /\ data[e] = Newline
    BY <1>4, <2>1, <2>2, TailEndFits
  <2>4. Proceed(<<Step("buffer_tail", e)>> \o Tail(todo), m)
    BY <1>1, <1>7, <2>3
  <2> QED
    BY <1>1, <1>2, <1>5, <2>3, <2>4, AttemptGoes
<1> QED
  BY <1>6, <1>7

LEMMA WriteBufsGoes == WritingOK /\ op \in Writing /\ WriteBufs => Goes
<1> SUFFICES ASSUME WritingOK, op \in Writing, WriteBufs PROVE Goes
  OBVIOUS
<1>1. PICK m \in 0 .. Least(Limit, Room) :
        /\ Send(Slice(m))
        /\ Proceed(IF m < Limit THEN Tail(todo)
                   ELSE <<Step("buffer_tail", Len(data))>> \o Tail(todo), m)
  BY DEF WriteBufs
<1>2. At("write_bufs") /\ UNCHANGED <<guts, reader, in>>
  BY DEF WriteBufs
<1>3. LinesAttempt("write_bufs", Limit) /\ Limit \in 0 .. Len(data)
  BY <1>2, AtAttempt
<1>4. data \in Seq(Byte) /\ Len(data) \in Nat /\ Room \in Int
  BY WritingTypes
<1>5. m \in 0 .. Limit /\ Len(data) \in m .. Len(data)
  <2>1. Limit \in Int
    BY <1>3
  <2>2. m \in 0 .. Limit
    BY <1>1, <1>4, <2>1, LeastIsLess
  <2> QED
    BY <1>3, <1>4, <2>2
<1>6. CASE m < Limit
  BY <1>1, <1>2, <1>5, <1>6, AttemptGoes
<1>7. CASE m >= Limit
  <2>1. m \in Nat /\ m >= LastNewline(data) /\ Len(data) \in 0 .. Len(data)
    <3>1. Limit >= LastNewline(data) /\ LastNewline(data) \in Nat
      BY <1>3, <1>4, LastNewlineIs DEF LinesAttempt
    <3> QED
      BY <1>3, <1>4, <1>5, <1>7, <3>1
  <2>2. \A i \in (m + 1) .. Len(data) : data[i] # Newline
    BY <1>4, <2>1, AfterLastNewline
  <2>3. Proceed(<<Step("buffer_tail", Len(data))>> \o Tail(todo), m)
    BY <1>1, <1>3, <1>5, <1>7
  <2> QED
    BY <1>1, <1>2, <1>5, <2>2, <2>3, AttemptGoes
<1> QED
  BY <1>3, <1>5, <1>6, <1>7

LEMMA BufferTailGoes == WritingOK /\ op \in Writing /\ BufferTail => Goes
<1> SUFFICES ASSUME WritingOK, op \in Writing, BufferTail PROVE Goes
  OBVIOUS
<1>1. /\ At("buffer_tail") /\ UNCHANGED <<panicked, written, doubt, reader, out, in>>
      /\ UNCHANGED <<life, op, data, ret, base>> /\ todo' = Tail(todo)
  BY DEF BufferTail, Proceed
<1>2. /\ LinesAttempt("buffer_tail", Limit) /\ Tail(todo) = <<>> /\ writer_buf = <<>>
      /\ written = 0 /\ Limit \in 0 .. Len(data) /\ done <= Limit /\ doubt = 0
  BY <1>1, AtAttempt
<1>3. /\ data \in Seq(Byte) /\ Len(data) \in Nat /\ done \in 0 .. Len(data)
      /\ writer_buf \in Seq(Byte) /\ Len(writer_buf) = 0 /\ panicked \in BOOLEAN
      /\ sink \in Seq(Byte) /\ flushed \in BOOLEAN
  BY <1>2, WritingTypes, EmptySeq DEF BuffersOK
<1>4. PICK m \in 0 .. (Len(data) - done) :
        /\ m = Least(WriterCapacity - Len(writer_buf), Limit - done)
        /\ m <= WriterCapacity /\ m <= Limit - done
        /\ Limit - done <= WriterCapacity => m = Limit - done
  <2> DEFINE m == Least(WriterCapacity - Len(writer_buf), Limit - done)
  <2>1. m \in 0 .. (Len(data) - done) /\ m <= WriterCapacity /\ m <= Limit - done
    BY <1>2, <1>3, CapacityAssumption, LeastIsLess
  <2>2. Limit - done <= WriterCapacity => m = Limit - done
    BY <1>2, <1>3, CapacityAssumption DEF Least
  <2> QED
    BY <2>1, <2>2
<1>5. writer_buf' = writer_buf \o Slice(m) /\ done' = done + m
  BY <1>1, <1>4 DEF BufferTail, Proceed
<1>6. /\ Stream' = Stream \o Slice(m) /\ Abstract
      /\ writer_buf' \in Seq(Byte) /\ Len(writer_buf') = Len(writer_buf) + m
  BY <1>1, <1>2, <1>5, WriteAppends
<1>7. /\ Slice(m) \in Seq(Byte) /\ Len(Slice(m)) = m
      /\ \A i \in 1 .. m : Slice(m)[i] = data[done + i]
  BY SliceTypes
<1>8. EndsLine(writer_buf')
  <2>1. CASE \A i \in (done + 1) .. Limit : data[i] # Newline
    <3>1. ASSUME NEW i \in 1 .. Len(Slice(m)) PROVE Slice(m)[i] # Newline
      <4>1. done + i \in (done + 1) .. Limit /\ i \in 1 .. m
        BY <1>2, <1>3, <1>4, <1>7
      <4> QED
        BY <1>7, <2>1, <4>1
    <3>2. ~HasNewline(Slice(m))
      BY <1>7, <3>1, HasNewlineIs
    <3> QED
      BY <1>2, <1>3, <1>5, <1>7, <3>2, EmptyHasNone, JoinNoLine DEF EndsLine
  <2>2. CASE done < Limit /\ Limit - done <= WriterCapacity /\ data[Limit] = Newline
    <3>1. m = Limit - done /\ m \in 1 .. m /\ done + m = Limit
      BY <1>2, <1>3, <1>4, <2>2
    <3>2. Slice(m)[Len(Slice(m))] = Newline
      BY <1>7, <2>2, <3>1
    <3>3. Slice(m) # <<>>
      BY <1>7, <3>1, EmptySeq
    <3> QED
      BY <1>3, <1>5, <1>7, <3>2, <3>3, JoinEndsLine
  <2> QED
    BY <1>2, <2>1, <2>2 DEF LinesAttempt, TailFits
<1>9. NewlineLast'
  BY <1>8 DEF NewlineLast, EndsLine
<1>10. LinePlanOK'
  BY <1>1, <1>2 DEF LinesAttempt, LinePlanOK
<1>11. Len(writer_buf') <= WriterCapacity /\ written' = 0 /\ doubt' = 0
       /\ doubt' \in 0 .. Len(writer_buf')
  BY <1>1, <1>2, <1>3, <1>4, <1>6
<1>12. panicked' \in BOOLEAN /\ sink' \in Seq(Byte) /\ flushed' \in BOOLEAN
  BY <1>1, <1>3 DEF out
<1>13. doubt' > 0 => panicked'
  BY <1>11
<1> QED
  BY <1>1, <1>5, <1>6, <1>9, <1>10, <1>11, <1>12, <1>13, StepGoes

(***************************************************************************)
(* The ends of a write                                                     *)
(***************************************************************************)
\* A write ends with all it could do done, and no more than what was written
\* gone from the buffer; a write that fails has transferred nothing, but for a
\* write_all.
WriteEnding ==
    /\ LInv' /\ Abstract /\ op' = "none" /\ Stream' = Stream
    /\ \/ /\ todo = <<>> /\ ret' = [kind |-> "ok", n |-> done] /\ UNCHANGED writer_buf
       \/ ret'.kind # "ok" /\ (op = "write" => done = 0)

LEMMA EndsWrite ==
    ASSUME WritingOK, NewlineLast, NEW kind \in Results, Leave(kind),
           UNCHANGED <<reader, out, in>>,
           (UNCHANGED <<writer_buf, written>> /\ written = 0) \/ Drain,
           doubt' \in 0 .. Len(writer_buf'), panicked' \in BOOLEAN, doubt' > 0 => panicked',
           \/ kind = "ok" /\ todo = <<>> /\ UNCHANGED writer_buf
           \/ kind # "ok" /\ (op = "write" => done = 0)
    PROVE  WriteEnding
<1>1. LInv'
  BY WriteEnds
<1>2. Stream' = Stream /\ Abstract
  BY WriteStays DEF out
<1>3. op' = "none" /\ ret' = [kind |-> kind, n |-> IF kind = "ok" THEN done ELSE 0]
  BY DEF Leave
<1> QED
  BY <1>1, <1>2, <1>3 DEF WriteEnding

LEMMA ReturnEnds == WritingOK /\ NewlineLast /\ Return => WriteEnding
<1> SUFFICES ASSUME WritingOK, NewlineLast, Return PROVE WriteEnding
  OBVIOUS
<1>1. todo = <<>> /\ Leave("ok") /\ UNCHANGED <<guts, reader, out, in>>
  BY DEF Return
<1>2. written = 0
  BY <1>1 DEF WritingOK, DoubtOK, At, BuffersOK, LineTypeOK, TypeOver
<1>3. doubt' \in 0 .. Len(writer_buf') /\ panicked' \in BOOLEAN /\ (doubt' > 0 => panicked')
  BY <1>1, WritingTypes DEF WritingOK, DoubtOK, guts
<1>4. UNCHANGED writer_buf /\ written' = 0 /\ "ok" \in Results
  BY <1>1, <1>2 DEF guts, Results
<1> QED
  BY <1>1, <1>2, <1>3, <1>4, EndsWrite

LEMMA FlushEnds == WritingOK /\ NewlineLast /\ (FlushFails \/ FlushPanics) => WriteEnding
<1> SUFFICES ASSUME WritingOK, NewlineLast, FlushFails \/ FlushPanics PROVE WriteEnding
  OBVIOUS
<1>1. At("flush_buf") /\ Drain /\ UNCHANGED <<reader, out, in>>
  BY DEF FlushFails, FlushPanics
<1>2. op = "write" => done = 0
  <2>1. PICK s \in Steps \cup LineSteps, n \in 0..Len(data), r \in Rests :
          Piece(s, n, r) /\ s # "buffer_tail"
    BY <1>1, AtFlush
  <2> QED
    BY <2>1 DEF Piece, LastPiece, LinesAttempt, LinesPiece
<1>3. Len(Remaining) \in Nat /\ writer_buf' = Remaining
  BY <1>1, WritingTypes, BuffersRemaining, LenProperties DEF Drain
<1>4. doubt' \in 0 .. Len(writer_buf') /\ panicked' \in BOOLEAN /\ (doubt' > 0 => panicked')
  <2>1. \/ panicked' = FALSE /\ doubt' = 0
        \/ panicked' = TRUE /\ doubt' = Len(Remaining)
    BY DEF FlushFails, FlushPanics
  <2>2. doubt' \in 0 .. Len(writer_buf') /\ (doubt' > 0 => panicked')
    BY <1>3, <2>1
  <2>3. panicked' \in BOOLEAN
    BY <2>1
  <2> QED
    BY <2>2, <2>3
<1>5. PICK kind \in Results : kind # "ok" /\ Leave(kind)
  BY DEF FlushFails, FlushPanics, Results, FaultKinds
<1> QED
  BY <1>1, <1>2, <1>4, <1>5, EndsWrite

LEMMA StepEnds ==
    WritingOK /\ NewlineLast /\ (DirectFails \/ DirectPanics \/ LinesFail) => WriteEnding
<1> SUFFICES ASSUME WritingOK, NewlineLast, DirectFails \/ DirectPanics \/ LinesFail
             PROVE  WriteEnding
  OBVIOUS
<1>1. PICK s \in {"direct", "direct_all", "lines_all", "write_lines", "write_bufs"} : At(s)
  BY DEF DirectFails, DirectPanics, LinesFail
<1>2. todo # <<>> /\ ~At("flush_buf") /\ Head(todo).step = s
  BY <1>1 DEF At
<1>3. Piece(s, Limit, Tail(todo)) /\ Ready(s, Limit, Tail(todo)) /\ written = 0
  BY <1>2, AtPiece
<1>4. op = "write" => done = 0
  BY <1>3 DEF Piece, LastPiece, LinesAttempt, LinesPiece
<1>5. /\ UNCHANGED <<writer_buf, written, doubt, reader, out, in>>
      /\ panicked' \in BOOLEAN
  BY WritingTypes DEF DirectFails, DirectPanics, LinesFail, guts
<1>6. doubt' = 0 /\ doubt' \in 0 .. Len(writer_buf')
  <2>1. writer_buf = <<>>
    BY <1>3 DEF Ready
  <2>2. Len(writer_buf) = 0 /\ doubt \in 0 .. Len(writer_buf)
    BY <2>1, WritingTypes, EmptySeq
  <2> QED
    BY <1>5, <2>2
<1>7. PICK kind \in Results : kind # "ok" /\ Leave(kind)
  BY FaultAssumption DEF DirectFails, DirectPanics, LinesFail, Results, FaultKinds
<1>8. doubt' > 0 => panicked'
  BY <1>6
<1> QED
  BY <1>3, <1>4, <1>5, <1>6, <1>7, <1>8, EndsWrite

(***************************************************************************)
(* The beginning of a write                                                *)
(***************************************************************************)
\* The plan of a call of its own, as one piece, with or without a flush.
LEMMA CallGoes ==
    ASSUME IInv, NewlineLast, NEW o \in Writing, NEW d \in Seq(Byte), NEW plan, Call(o, d, plan),
           LinePlanOK'
    PROVE  Goes /\ op' = o /\ UNCHANGED writer_buf
<1>1. /\ op' = o /\ data' = d /\ todo' = plan /\ done' = 0
      /\ done' <= Len(data') /\ Stream' = base' \o SubSeq(data', 1, done')
      /\ Stream' = Stream /\ base' = Stream
  BY CallHistory
<1>2. /\ UNCHANGED <<life, guts, reader, out, in>> /\ life = "open" /\ op = "none"
      /\ ret' = [kind |-> "none", n |-> 0]
  BY DEF Call
<1>3. written = 0 /\ Stream \in Seq(Byte)
  BY <1>2, Idle
<1>4. TypeOK /\ NoRealloc /\ ReadInOrder /\ DoubtOK
  BY DEF IInv
<1>5. LineTypeOK'
  <2>1. todo' \in Seq([step : Steps \cup LineSteps, n : Nat])
    <3>1. data' \in Seq(Byte)
      BY <1>1
    <3> QED
      BY <3>1, PlanTyped DEF LinePlans, LineStep
  <2>2. ret' \in [kind : Results, n : Nat] /\ op' \in Ops \cup {"none"} /\ done' \in Nat
    BY <1>1, <1>2 DEF Results, Writing, Ops
  <2> QED
    BY <1>1, <1>2, <1>3, <1>4, <2>1, <2>2
       DEF LineTypeOK, TypeOK, TypeOver, guts, reader, out, in
<1>6. DoubtOK'
  BY <1>1, <1>2, <1>3, <1>4 DEF DoubtOK, DropHeedsPanic, Writing, guts
<1>7. NoRealloc' /\ ReadInOrder' /\ life' = "open"
  BY <1>2, <1>4 DEF NoRealloc, ReadInOrder, Unread, guts, reader, in
<1>8. WritingOK'
  BY <1>1, <1>5, <1>6, <1>7 DEF WritingOK
<1>9. UNCHANGED writer_buf
  BY <1>2 DEF guts
<1>10. NewlineLast'
  BY <1>9, CutKeepsLast
<1>11. Abstract
  <2>1. UNCHANGED <<Stream, sink, supplied, taken>> /\ Open' = Open
    BY <1>1, <1>2 DEF out, in, Open
  <2> QED
    BY <2>1, Stays
<1> QED
  BY <1>1, <1>8, <1>9, <1>10, <1>11, GoesOn

LEMMA StringsBytes ==
    ASSUME NEW d \in Strings(MaxLen)
    PROVE  d \in Seq(Byte) /\ Len(d) \in Nat /\ LastNewline(d) \in 0 .. Len(d)
<1>1. d \in Seq(Byte)
  BY StringsAreSequences, BoundAssumption
<1> QED
  BY <1>1, LastNewlineIs, LenProperties

\* A call whose plan is one piece behind a flush.
LEMMA FlushThenPiece ==
    ASSUME NEW o \in Writing, NEW d \in Seq(Byte), op' = o, data' = d, done' = 0,
           NEW s \in Steps \cup LineSteps, NEW n \in 0 .. Len(d),
           s # "buffer_tail", s # "extend", Piece(s, n, <<>>)',
           todo' = <<Step("flush_buf", 0), Step(s, n)>>
    PROVE  LinePlanOK'
<1>1. Len(d) \in Nat
  BY LenProperties
<1>2. PICK a \in LineStep, b \in LineStep : a = Step("flush_buf", 0) /\ b = Step(s, n)
  BY <1>1, StepIsStep DEF Steps
<1>3. <<a, b>> = <<a>> \o (<<b>> \o <<>>)
  BY Tuples
<1>4. todo' = <<FirstFlush'>> \o (<<Step(s, n)>> \o <<>>) /\ <<>> \in Rests'
  BY <1>2, <1>3 DEF FirstFlush, Step, Rests
<1> QED
  BY <1>4 DEF LinePlanOK, Step

\* A call whose plan is one piece, which finds nothing to flush in its way.
LEMMA PieceAlone ==
    ASSUME NEW o \in Writing, NEW d \in Seq(Byte), op' = o, data' = d, done' = 0,
           NEW s \in Steps \cup LineSteps, NEW n \in 0 .. Len(d), NEW r \in Rests',
           s # "extend", Piece(s, n, r)', Ready(s, n, r)', written' = 0,
           todo' = <<Step(s, n)>> \o r
    PROVE  LinePlanOK'
BY DEF LinePlanOK, Step

\* What is left of the buffer's lines when no line is to be written: a last
\* byte that is no newline means no newline at all.
LEMMA NoCompletedLine ==
    ASSUME NewlineLast, FlushIfCompletedLine = <<>> \/ writer_buf = <<>>
    PROVE  ~HasNewline(writer_buf)
<1>1. CASE writer_buf = <<>>
  BY <1>1, EmptyHasNone
<1>2. CASE writer_buf # <<>> /\ FlushIfCompletedLine = <<>>
  BY <1>2 DEF FlushIfCompletedLine, NewlineLast
<1> QED
  BY <1>1, <1>2

\* A write of less than a line.
LEMMA PlainCall ==
    ASSUME IInv, NewlineLast, NEW o \in Writing, NEW d \in Seq(Byte), ~HasNewline(d),
           Call(o, d, FlushIfCompletedLine \o <<Step(o, Len(d))>>)
    PROVE  Goes /\ op' = o /\ UNCHANGED writer_buf
<1>1. /\ op' = o /\ data' = d /\ todo' = FlushIfCompletedLine \o <<Step(o, Len(d))>> /\ done' = 0
  BY CallHistory
<1>2. Len(d) \in Nat /\ o \in Steps \cup LineSteps /\ o # "extend" /\ o # "buffer_tail"
      /\ LastNewline(d) = 0 /\ Len(d) \in 0 .. Len(d)
  BY LenProperties DEF Writing, Steps, HasNewline
<1>3. PICK a \in LineStep, b \in LineStep : a = Step("flush_buf", 0) /\ b = Step(o, Len(d))
  BY <1>2, StepIsStep DEF Steps
<1>4. <<a, b>> = <<a>> \o <<b>> /\ <<b>> \o <<>> = <<b>> /\ <<>> \o <<b>> = <<b>>
  BY Tuples
<1>5. Piece(o, Len(d), <<>>)'
  BY <1>1, <1>2 DEF Piece, LastPiece, Writing
<1>6. /\ UNCHANGED <<writer_buf, written>> /\ written = 0
  BY Idle DEF Call, guts
<1>7. LinePlanOK'
  <2>1. CASE FlushIfCompletedLine = <<>>
    <3>1. todo' = <<b>>
      BY <1>1, <1>3, <1>4, <2>1
    <3>2. Ready(o, Len(d), <<>>)' /\ <<>> \in Rests'
      BY <1>6, <2>1, NoCompletedLine DEF Ready, Writing, Rests
    <3> QED
      BY <1>1, <1>2, <1>3, <1>4, <1>5, <1>6, <3>1, <3>2, PieceAlone
  <2>2. CASE FlushIfCompletedLine = <<a>>
    <3>1. todo' = <<a, b>>
      BY <1>1, <1>3, <1>4, <2>2
    <3> QED
      BY <1>1, <1>2, <1>3, <1>5, <3>1, FlushThenPiece
  <2> QED
    BY <1>3, <2>1, <2>2 DEF FlushIfCompletedLine
<1> QED
  BY <1>7, CallGoes

LEMMA LineWriteGoes ==
    ASSUME IInv, NewlineLast, NEW d \in Seq(Byte),
           LineWrite(d) \/ \E k \in LastNewline(d) .. Len(d) : LineWriteVectored(d, k)
    PROVE  Goes /\ op' = "write" /\ UNCHANGED writer_buf
<1>1. CASE ~HasNewline(d)
  BY <1>1, PlainCall DEF LineWrite, LineWriteVectored, Writing
<1>2. ASSUME HasNewline(d), NEW s \in {"write_lines", "write_bufs"}, NEW n \in 0 .. Len(d),
             s = "write_lines" => n = LastNewline(d), n >= LastNewline(d),
             Call("write", d, <<Step("flush_buf", 0), Step(s, n)>>)
      PROVE  Goes /\ op' = "write" /\ UNCHANGED writer_buf
  <2>1. /\ op' = "write" /\ data' = d /\ todo' = <<Step("flush_buf", 0), Step(s, n)>>
        /\ done' = 0
    BY <1>2, CallHistory
  <2>2. Piece(s, n, <<>>)'
    BY <1>2, <2>1 DEF Piece, LinesAttempt
  <2>3. "write" \in Writing /\ s \in Steps \cup LineSteps /\ s # "buffer_tail" /\ s # "extend"
    BY DEF Writing, LineSteps
  <2>4. LinePlanOK'
    BY <2>1, <2>2, <2>3, FlushThenPiece
  <2> QED
    BY <1>2, <2>3, <2>4, CallGoes
<1>3. LastNewline(d) \in 0 .. Len(d) /\ Len(d) \in Nat
  BY LastNewlineIs, LenProperties
<1>4. CASE HasNewline(d) /\ LineWrite(d)
  <2>1. LastNewline(d) >= LastNewline(d)
    BY <1>3
  <2> QED
    BY <1>2, <1>3, <1>4, <2>1 DEF LineWrite
<1>5. ASSUME HasNewline(d), NEW k \in LastNewline(d) .. Len(d), LineWriteVectored(d, k)
      PROVE  Goes /\ op' = "write" /\ UNCHANGED writer_buf
  <2>1. k \in 0 .. Len(d) /\ k >= LastNewline(d)
    BY <1>3
  <2> QED
    BY <1>2, <1>5, <2>1 DEF LineWriteVectored
<1> QED
  BY <1>1, <1>4, <1>5

LEMMA LineWriteAllGoes ==
    ASSUME IInv, NewlineLast, NEW d \in Seq(Byte), LineWriteAll(d)
    PROVE  Goes /\ op' = "write_all" /\ UNCHANGED writer_buf
<1>1. CASE ~HasNewline(d)
  BY <1>1, PlainCall DEF LineWriteAll, Writing
<1>2. ASSUME HasNewline(d) PROVE Goes /\ op' = "write_all" /\ UNCHANGED writer_buf
  <2>1. /\ LastNewline(d) \in 0 .. Len(d) /\ Len(d) \in Nat /\ "write_all" \in Writing
    BY LastNewlineIs, LenProperties DEF Writing
  <2>2. PICK a \in LineStep, b \in LineStep : a = Step("flush_buf", 0) /\ b = Step("write_all", Len(d))
    BY <2>1, StepIsStep DEF Steps
  <2>3. PICK n \in 0 .. Len(d) : n = LastNewline(d)
    BY <2>1
  <2>4. PICK c \in LineStep, e \in LineStep : c = Step("write_all", n) /\ e = Step("lines_all", n)
    <3>1. n \in Nat
      BY <2>1
    <3> QED
      BY <3>1, StepIsStep DEF Steps, LineSteps
  <2>5. <<e, b>> = <<e>> \o <<b>> /\ <<c, a, b>> = <<c>> \o <<a, b>>
    BY Tuples
  <2>6. PICK plan : Call("write_all", d, plan) /\
          plan = IF writer_buf = <<>> THEN <<e>> \o <<b>> ELSE <<c>> \o <<a, b>>
    BY <1>2, <2>2, <2>3, <2>4, <2>5 DEF LineWriteAll
  <2>7. /\ op' = "write_all" /\ data' = d /\ todo' = plan /\ done' = 0
    BY <2>6, CallHistory
  <2>8. UNCHANGED <<writer_buf, written>> /\ written = 0
    BY <2>6, Idle DEF Call, guts
  <2>9. /\ FirstFlush' = a /\ FinalWrite' = b
        /\ <<a, b>> \in Rests' /\ <<b>> \in Rests'
    BY <2>2, <2>7 DEF FirstFlush, FinalWrite, Rests, Step
  <2>10. LinesPiece(n)'
    BY <1>2, <2>1, <2>3, <2>7 DEF LinesPiece
  <2>11. CASE writer_buf = <<>>
    <3>1. Piece("lines_all", n, <<b>>)'
      BY <2>9, <2>10 DEF Piece
    <3>2. Ready("lines_all", n, <<b>>)'
      BY <2>8, <2>11 DEF Ready
    <3>3. todo' = <<Step("lines_all", n)>> \o <<b>> /\ "lines_all" \in Steps \cup LineSteps
      BY <2>4, <2>6, <2>7, <2>11 DEF LineSteps
    <3>4. LinePlanOK'
      BY <2>1, <2>7, <2>8, <2>9, <3>1, <3>2, <3>3, PieceAlone
    <3> QED
      BY <2>1, <2>6, <3>4, CallGoes
  <2>12. CASE writer_buf # <<>>
    <3>1. Piece("write_all", n, <<a, b>>)'
      BY <2>9, <2>10 DEF Piece
    <3>2. Ready("write_all", n, <<a, b>>)'
      BY DEF Ready
    <3>3. todo' = <<Step("write_all", n)>> \o <<a, b>> /\ "write_all" \in Steps \cup LineSteps
      BY <2>4, <2>6, <2>7, <2>12 DEF Steps
    <3>4. LinePlanOK'
      BY <2>1, <2>7, <2>8, <2>9, <3>1, <3>2, <3>3, PieceAlone
    <3> QED
      BY <2>1, <2>6, <3>4, CallGoes
  <2> QED
    BY <2>11, <2>12
<1> QED
  BY <1>1, <1>2

LEMMA LineCallsGo ==
    IInv /\ NewlineLast /\ LineWriteCalls => Goes /\ op' \in Writing /\ UNCHANGED writer_buf
<1> SUFFICES ASSUME IInv, NewlineLast, LineWriteCalls
             PROVE  Goes /\ op' \in Writing /\ UNCHANGED writer_buf
  OBVIOUS
<1>1. PICK d \in Strings(MaxLen) :
        \/ LineWrite(d)
        \/ LineWriteAll(d)
        \/ \E k \in LastNewline(d)..Len(d) : LineWriteVectored(d, k)
  BY DEF LineWriteCalls
<1>2. d \in Seq(Byte)
  BY StringsBytes
<1> QED
  BY <1>1, <1>2, LineWriteGoes, LineWriteAllGoes DEF Writing

(***************************************************************************)
(* Every step                                                              *)
(***************************************************************************)
Going == CheckRoom \/ Extend \/ Direct \/ DirectAll \/ DirectRetry
         \/ FlushBuf \/ FlushWrite \/ FlushRetry
         \/ WriteLines \/ WriteBufs \/ BufferTail \/ LinesAll

Failing == DirectFails \/ DirectPanics \/ FlushFails \/ FlushPanics \/ LinesFail

LEMMA WritingHead ==
    ASSUME WritingOK, todo # <<>>
    PROVE  Head(todo).step \in {"flush_buf"} \cup WriteSteps \cup LineSteps
<1>1. CASE At("flush_buf")
  BY <1>1 DEF At
<1>2. CASE ~At("flush_buf")
  <2>1. Piece(Head(todo).step, Limit, Tail(todo))
    BY <1>2, AtPiece
  <2> QED
    BY <2>1 DEF Piece, LastPiece, LinesAttempt, LinesPiece, WriteSteps, Placing, LineSteps
<1> QED
  BY <1>1, <1>2

\* In a write nothing runs but the write.
LEMMA WritingNext ==
    ASSUME WritingOK, op \in Writing, LineNext
    PROVE  Going \/ Failing \/ Return
<1>1. op # "none" /\ life = "open"
  BY DEF Writing, WritingOK
<1>2. ASSUME NEW s \in {"flush_inner", "read", "read_direct", "fill_buf", "take", "scan"}
      PROVE  ~At(s)
  BY WritingHead DEF At, WriteSteps, Placing, LineSteps
<1>3. ~LineWriteCalls /\ ~Flush /\ ~ReadCalls /\ ~CloseCalls
  <2>1. ~LineWriteCalls
    BY <1>1 DEF LineWriteCalls, LineWrite, LineWriteAll, LineWriteVectored, Call
  <2>2. ~Flush /\ ~CloseCalls
    BY <1>1 DEF Flush, CloseCalls, IntoInner, Drop, Call
  <2>3. ~ReadCalls
    BY <1>1 DEF ReadCalls, Read, Consume, ReadUntil, ReadLine, Search, FillBuf, Call
  <2> QED
    BY <2>1, <2>2, <2>3
<1>4. ~FlushInner /\ ~ReaderSteps
  BY <1>2 DEF FlushInner, ReaderSteps, ChooseRead, ReadDirect, Fill, ReadFails, NotUtf8, Take,
              Scan, Writing
<1>5. ~Closed
  BY <1>1 DEF Closed
<1> QED
  BY <1>3, <1>4, <1>5
     DEF LineNext, LineRun, Run, WriterSteps, FlushSteps, ShimSteps, Going, Failing

LEMMA GoingGoes ==
    ASSUME WritingOK, NewlineLast, op \in Writing, Going
    PROVE  Goes /\ op' = op
<1>1. Goes
  BY CheckRoomGoes, ExtendGoes, DirectGoes, FlushGoes, FlushLoopGoes,
     WriteLinesGoes, WriteBufsGoes, BufferTailGoes DEF Going
<1>2. op' = op
  BY DEF Going, CheckRoom, Extend, Direct, DirectAll, DirectRetry, FlushBuf, FlushWrite,
         FlushRetry, WriteLines, WriteBufs, BufferTail, LinesAll, Proceed, frame
<1> QED
  BY <1>1, <1>2

\* A write that goes on stays a write; one that does not ends as it should.
LEMMA WritingStep ==
    ASSUME WritingOK, NewlineLast, op \in Writing, LineNext
    PROVE  (Goes /\ op' = op) \/ WriteEnding
<1>1. Going \/ Failing \/ Return
  BY WritingNext
<1> QED
  BY <1>1, GoingGoes, ReturnEnds, FlushEnds, StepEnds DEF Failing

\* The steps the shim adds belong to its writes.
LEMMA NoShimStep ==
    ASSUME IInv, op \notin Writing
    PROVE  ~ShimSteps /\ ~WriterSteps
<1>1. ASSUME NEW s \in LineSteps PROVE ~At(s)
  <2>1. todo # <<>> => Head(todo).step \in Steps
    BY PlanHead
  <2> QED
    BY <2>1 DEF At, Steps, LineSteps
<1>2. ASSUME NEW s \in WriteSteps PROVE ~At(s)
  BY <1>2, AtWriteStep DEF At, Writing
<1>3. ~ShimSteps
  BY <1>1 DEF ShimSteps, WriteLines, WriteBufs, BufferTail, LinesAll, LinesFail, LineSteps
<1>4. ~WriterSteps
  BY <1>2 DEF WriterSteps, CheckRoom, Extend, Direct, DirectAll, DirectFails, DirectRetry,
              DirectPanics, WriteSteps, Placing
<1> QED
  BY <1>3, <1>4

\* Outside a write a line writer makes a write call or does what a block writer
\* does, which puts nothing into the buffer.
LEMMA OtherNext ==
    ASSUME IInv, op \notin Writing, LineNext
    PROVE  \/ LineWriteCalls
           \/ /\ Next /\ op' \notin Writing
              /\ UNCHANGED writer_buf \/ writer_buf' = Remaining
<1>1. ~ShimSteps /\ ~WriterSteps
  BY NoShimStep
<1>2. CASE Flush \/ ReadCalls \/ CloseCalls
  <2>1. Next
    BY <1>2 DEF Next
  <2>2. UNCHANGED writer_buf
    BY <1>2 DEF Flush, ReadCalls, CloseCalls, Read, Consume, ReadUntil, ReadLine, Search, FillBuf, IntoInner,
                Drop, Call, guts
  <2>3. op' \notin Writing
    BY <1>2 DEF Flush, ReadCalls, CloseCalls, Read, Consume, ReadUntil, ReadLine, Search, FillBuf, IntoInner,
                Drop, Call, frame, Writing
  <2> QED
    BY <2>1, <2>2, <2>3
<1>3. CASE FlushSteps
  <2>1. UNCHANGED writer_buf \/ writer_buf' = Remaining
    BY <1>3 DEF FlushSteps, FlushBuf, FlushWrite, FlushRetry, FlushFails, FlushPanics,
                FlushInner, Drain, guts
  <2>2. op' \in {op, "none"}
    BY <1>3 DEF FlushSteps, FlushBuf, FlushWrite, FlushRetry, FlushFails, FlushPanics,
                FlushInner, Proceed, Leave, frame
  <2> QED
    BY <1>3, <2>1, <2>2 DEF Next, Run, Writing
<1>4. CASE ReaderSteps \/ Return
  <2>1. UNCHANGED writer_buf
    BY <1>4 DEF ReaderSteps, Return, ChooseRead, ReadDirect, Fill, ReadFails, NotUtf8, Take, Scan,
                guts
  <2>2. op' \in {op, "none"}
    BY <1>4 DEF ReaderSteps, Return, ChooseRead, ReadDirect, Fill, ReadFails, NotUtf8, Take, Scan,
                Proceed, Leave
  <2> QED
    BY <1>4, <2>1, <2>2 DEF Next, Run, Writing
<1>5. CASE Closed
  BY <1>5 DEF Next, Closed, vars, guts, frame
<1> QED
  BY <1>1, <1>2, <1>3, <1>4, <1>5 DEF LineNext, LineRun, Run

LEMMA OtherStep ==
    ASSUME LInv, op \notin Writing, LineNext
    PROVE  /\ LInv' /\ Abstract
           /\ \/ LineWriteCalls /\ op' \in Writing
              \/ Next /\ op' \notin Writing
<1>1. IInv /\ HistoryOK /\ NewlineLast
  BY DEF LInv
<1>2. CASE LineWriteCalls
  BY <1>1, <1>2, LineCallsGo DEF Goes
<1>3. CASE Next /\ op' \notin Writing /\ (UNCHANGED writer_buf \/ writer_buf' = Remaining)
  <2>1. IInv' /\ HistoryOK' /\ Abstract
    BY <1>1, <1>3, StepInv, HistoryStep, StepRefines
  <2>2. NewlineLast'
    BY <1>1, <1>3, CutKeepsLast
  <2> QED
    BY <1>3, <2>1, <2>2 DEF LInv
<1> QED
  BY <1>1, <1>2, <1>3, OtherNext

LEMMA StutterLInv == LInv /\ UNCHANGED vars => LInv'
<1> SUFFICES ASSUME LInv, UNCHANGED vars PROVE LInv'
  OBVIOUS
<1>1. UNCHANGED <<life, writer_buf, panicked, reader_buf, pos, op, data, todo, done, written,
                  ret, sink, flushed, supplied, taken, base, doubt>>
  BY DEF vars, guts, reader, out, in, frame
<1>2. NewlineLast'
  BY <1>1, CutKeepsLast DEF LInv, NewlineLast
<1>3. CASE op \notin Writing
  BY <1>1, <1>2, <1>3, StutterInv, StutterHistory DEF LInv
<1>4. CASE op \in Writing
  <2>1. WritingOK
    BY <1>4 DEF LInv
  <2>2. LinePlanOK'
    <3>1. ASSUME NEW s \in Steps \cup LineSteps, NEW n \in 0..Len(data), NEW rest \in Rests,
                 Piece(s, n, rest), s = "extend" => n - done < WriterCapacity,
                 \/ todo = <<Step(s, n)>> \o rest /\ Ready(s, n, rest) /\ written = 0
                 \/ todo = <<FirstFlush>> \o (<<Step(s, n)>> \o rest) /\ s # "buffer_tail"
          PROVE  LinePlanOK'
      <4>1. Piece(s, n, rest)' /\ (s = "extend" => n - done' < WriterCapacity)
        BY <1>1, <3>1, SamePiece
      <4>2. Ready(s, n, rest) => Ready(s, n, rest)'
        BY <1>1 DEF Ready
      <4> QED
        BY <1>1, <3>1, <4>1, <4>2, PlanIs
    <3>2. CASE todo = <<>> /\ written = 0 /\ (op = "write_all" => done = Len(data))
               /\ (op = "write_all" \/ ~HasNewline(data) => ~HasNewline(writer_buf))
      BY <1>1, <3>2 DEF LinePlanOK
    <3>3. LinePlanOK
      BY <2>1 DEF WritingOK
    <3> QED
      BY <3>1, <3>2, <3>3 DEF LinePlanOK
  <2>3. DoubtOK'
    BY <1>1, <2>1 DEF WritingOK, DoubtOK, DropHeedsPanic, At
  <2>4. LineTypeOK' /\ NoRealloc' /\ ReadInOrder'
    BY <1>1, <2>1 DEF WritingOK, LineTypeOK, TypeOver, NoRealloc, ReadInOrder, Unread
  <2>5. Stream' = base' \o SubSeq(data', 1, done') /\ done' <= Len(data') /\ life' = "open"
    BY <1>1, <2>1, StreamStays DEF WritingOK
  <2>6. WritingOK'
    BY <2>2, <2>3, <2>4, <2>5 DEF WritingOK
  <2> QED
    BY <1>1, <1>2, <1>4, <2>6 DEF LInv
<1> QED
  BY <1>3, <1>4

LEMMA LineStepInv == LInv /\ [LineNext]_vars => LInv' /\ Abstract
<1> SUFFICES ASSUME LInv, [LineNext]_vars PROVE LInv' /\ Abstract
  OBVIOUS
<1>1. CASE LineNext /\ op \notin Writing
  BY <1>1, OtherStep
<1>2. CASE LineNext /\ op \in Writing
  BY <1>2, WritingStep DEF LInv, Goes, WriteEnding
<1>3. CASE UNCHANGED vars
  BY <1>3, StutterLInv, StutterRefines
<1> QED
  BY <1>1, <1>2, <1>3

LEMMA LineInit == Init => LInv
<1> SUFFICES ASSUME Init PROVE LInv
  OBVIOUS
<1>1. IInv
  BY InitInv
<1>2. HistoryOK
  BY DEF Init, HistoryOK, Writing
<1>3. NewlineLast
  BY EmptyHasNone DEF Init, NewlineLast
<1> QED
  BY <1>1, <1>2, <1>3 DEF Init, LInv, Writing

LEMMA LineInvariantHolds == LineSpec => []LInv
<1>1. LInv /\ [LineNext]_vars => LInv'
  BY LineStepInv
<1> QED
  BY LineInit, <1>1, PTL DEF LineSpec

(***************************************************************************)
(* The theorems                                                            *)
(***************************************************************************)
\* Everything a block writer's plan may hold a line writer's may.
LEMMA MoreSteps ==
    ASSUME TypeOK
    PROVE  LineTypeOK
<1> DEFINE A == [step : Steps, n : Nat]
           B == [step : Steps \cup LineSteps, n : Nat]
<1>1. A \subseteq B
  OBVIOUS
<1>2. Seq(A) \subseteq Seq(B)
  <2> HIDE DEF A, B
  <2> QED
    BY <1>1, SeqMonotonic
<1>3. todo \in Seq(B)
  BY <1>2 DEF TypeOK, TypeOver
<1> QED
  BY <1>3 DEF TypeOK, LineTypeOK, TypeOver

LEMMA LInvParts ==
    LInv => /\ LineTypeOK /\ NewlineLast /\ NoRealloc
            /\ DropHeedsPanic /\ FlushedBeforeRead
<1> SUFFICES ASSUME LInv
             PROVE  /\ LineTypeOK /\ NewlineLast /\ NoRealloc
                    /\ DropHeedsPanic /\ FlushedBeforeRead
  OBVIOUS
<1>1. CASE op \in Writing
  BY <1>1 DEF LInv, WritingOK, DoubtOK, FlushedBeforeRead, ReadOps, Writing
<1>2. CASE op \notin Writing
  BY <1>2, MoreSteps DEF LInv, IInv, DoubtOK
<1> QED
  BY <1>1, <1>2

\* Types and indices of a line writer (LineTypeOK): pos, written and the
\* doubtful bytes stay within their buffers, with the shim's steps among the
\* plans' and its direct writes beside the backend's.
THEOREM LineTypeCorrect == LineSpec => []LineTypeOK
BY LineInvariantHolds, LInvParts, PTL

\* flush_if_completed_line, which looks at the last byte of the buffer, misses
\* no completed line: a buffer that holds newlines, one or several, ends with
\* one, whatever partial writes, errors and panics came before.
THEOREM NewlinesAreLast == LineSpec => []NewlineLast
BY LineInvariantHolds, LInvParts, PTL

\* The shim buffers tails on its own (write_to_buf) and never puts more than
\* the capacity into writer_buf.
THEOREM LineNeverReallocates == LineSpec => []NoRealloc
BY LineInvariantHolds, LInvParts, PTL

\* The destructor of a line writer offers no bytes that the last write they
\* were offered to panicked over, though the shim's direct writes leave
\* `panicked' alone: they run on an empty buffer.
THEOREM LineDropHeedsPanics == LineSpec => []DropHeedsPanic
BY LineInvariantHolds, LInvParts, PTL

\* A read of a line writer that may block has the unfinished line flushed
\* through the inner writer first.
THEOREM LineReadsFollowFlush == LineSpec => []FlushedBeforeRead
BY LineInvariantHolds, LInvParts, PTL

\* What a write has done when its plan has run.
LEMMA PlanRun ==
    ASSUME WritingOK, todo = <<>>
    PROVE  /\ op = "write_all" => done = Len(data)
           /\ op = "write_all" \/ ~HasNewline(data) => ~HasNewline(writer_buf)
<1>1. data \in Seq(Byte) /\ Len(data) \in Nat
  BY WritingTypes
<1>2. ASSUME NEW s \in Steps \cup LineSteps, NEW n \in 0..Len(data), NEW rest \in Rests
      PROVE  /\ <<Step(s, n)>> \o rest # <<>>
             /\ <<FirstFlush>> \o (<<Step(s, n)>> \o rest) # <<>>
  <2>1. n \in Nat /\ rest \in LinePlans /\ FirstFlush \in LineStep
    BY <1>1, RestsArePlans
  <2>2. Step(s, n) \in LineStep
    BY <2>1, StepIsStep
  <2> QED
    BY <2>1, <2>2, Joined
<1> QED
  BY <1>2 DEF WritingOK, LinePlanOK

\* The step that ends a call of a line writer reports what happened.
LEMMA LineHonestStep == LInv /\ [LineNext]_vars => (Returns => Honest)
<1> SUFFICES ASSUME LInv, [LineNext]_vars, Returns PROVE Honest
  OBVIOUS
<1>1. LineNext /\ op # "none" /\ op' = "none"
  BY DEF Returns, vars, frame
<1>2. CASE op \in Writing
  <2>1. WritingOK /\ NewlineLast
    BY <1>2 DEF LInv
  <2>2. WriteEnding
    BY <1>1, <1>2, <2>1, WritingStep
  <2>3. base \in Seq(Byte) /\ data \in Seq(Byte) /\ done \in 0 .. Len(data)
    BY <2>1, WritingTypes
  <2>4. todo = <<>> /\ op = "write_all" => done = Len(data)
    BY <2>1, PlanRun
  <2> QED
    BY <1>2, <2>1, <2>2, <2>3, <2>4, HonestWrite DEF WriteEnding, WritingOK
<1>3. CASE op \notin Writing
  <2>1. Next
    BY <1>1, <1>3, OtherStep DEF Writing
  <2> QED
    BY <1>3, <2>1, HonestStep DEF LInv
<1> QED
  BY <1>2, <1>3

\* Ok(n) of a line writer means the first n bytes of the slice joined the
\* stream, whether they went out as lines, by one vectored write or as a tail;
\* a failed write took none of them, a failed write_all some prefix.
THEOREM LineCallsAreHonest == LineSpec => HonestReturns
<1>1. LInv /\ [LineNext]_vars => [Returns => Honest]_vars
  BY LineHonestStep
<1> QED
  BY LineInvariantHolds, <1>1, PTL DEF LineSpec, HonestReturns, Honest

\* The step that ends a write leaves no line end behind.
LEMMA LinesGoStep ==
    LInv /\ [LineNext]_vars =>
        (Returns /\ ret'.kind = "ok"
           /\ (op = "write_all" \/ (op = "write" /\ ~HasNewline(data)))
         => ~HasNewline(writer_buf'))
<1> SUFFICES ASSUME LInv, [LineNext]_vars, Returns, ret'.kind = "ok",
                    op = "write_all" \/ (op = "write" /\ ~HasNewline(data))
             PROVE  ~HasNewline(writer_buf')
  OBVIOUS
<1>1. LineNext /\ op \in Writing /\ op' = "none" /\ op # "none"
  BY DEF Returns, vars, frame, Writing
<1>2. WritingOK /\ NewlineLast
  BY <1>1 DEF LInv
<1>3. WriteEnding
  BY <1>1, <1>2, WritingStep
<1>4. todo = <<>> /\ UNCHANGED writer_buf
  BY <1>3 DEF WriteEnding
<1>5. ~HasNewline(writer_buf)
  BY <1>2, <1>4, PlanRun
<1> QED
  BY <1>4, <1>5

\* Completed lines go out: a write of less than a line, or any write_all, that
\* returns Ok leaves no line end in the buffer, so that none waits for the next
\* newline, however many partial writes and errors came before.
THEOREM CompletedLinesGoOut == LineSpec => LinesGoOut
<1>1. LInv /\ [LineNext]_vars =>
        [Returns /\ ret'.kind = "ok"
           /\ (op = "write_all" \/ (op = "write" /\ ~HasNewline(data)))
         => ~HasNewline(writer_buf')]_vars
  BY LinesGoStep
<1> QED
  BY LineInvariantHolds, <1>1, PTL DEF LineSpec, LinesGoOut

\* flush and into_inner of a line writer deliver the unfinished line too: when
\* they return Ok, every accepted byte has been acknowledged.
THEOREM LineFlushesDeliver == LineSpec => FlushDelivers
<1>1. LInv /\ [LineNext]_vars => [Delivered]_vars
  <2> SUFFICES ASSUME LInv, LineNext PROVE Delivered
    BY DEF vars, guts, out, frame
  <2>1. CASE op \in Writing
    BY <2>1 DEF Delivered, Writing
  <2>2. CASE op \notin Writing
    <3>1. CASE Next
      BY <2>2, <3>1, DeliveredStep DEF LInv
    <3>2. CASE op' \in Writing
      BY <3>2 DEF Delivered, Returns, Writing
    <3> QED
      BY <2>2, <3>1, <3>2, OtherStep
  <2> QED
    BY <2>1, <2>2
<1> QED
  BY LineInvariantHolds, <1>1, PTL DEF LineSpec, FlushDelivers, Delivered

\* A line writer is the pair of byte streams a block writer is: the lines that
\* overtake the buffer's code path never overtake its bytes.
THEOREM LineIsADuplexStream == LineSpec => LineImplementsDuplexStream
<1>1. LInv /\ [LineNext]_vars => Abstract
  BY LineStepInv
<1>2. Init => Duplex!Init
  BY InitRefines
<1> QED
  BY LineInvariantHolds, <1>1, <1>2, PTL
     DEF LineSpec, LineImplementsDuplexStream, Duplex!Spec, Abstract, Open
================================================================================
