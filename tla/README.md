# Formal models of io-handles

io-handles gives programs unbuffered, unlocked handles over files, sockets,
pipes, children and the standard streams, and two buffered wrappers for
interactive streams. This directory models the parts of it that keep state,
checks them with TLC and proves properties of the core with TLAPS.

Paths below are relative to the crate (`src/buffered/mod.rs` and so on).

## The system

| Component | Code | State | Operations | What is hard | What makes it correct |
|---|---|---|---|---|---|
| Buffered duplex stream, `BufReaderWriter` | `src/buffered/buf_reader_writer.rs` | `writer_buf`, `panicked`, `reader_buf[..cap]`, `pos`, the inner handle | write, write_all, write_vectored, flush, read, read_vectored, read_until, read_line, fill_buf, consume, into_inner, drop | inner calls that are short, fail, interrupt, answer 0 or panic, at any of the calls a single operation makes; a request that must be out before its reply is waited for | bytes leave and arrive once and in order, results tell the truth, the buffer keeps to its capacity, drop heeds a panicked write |
| Line-buffered duplex stream, `BufReaderLineWriter` and its shim | `src/buffered/buf_reader_line_writer.rs`, `..._shim.rs` | that of the backend it wraps | its own write, write_vectored, write_all; the rest is the backend's | partial writes in the middle of lines, lines that do not fit | completed lines go out, a completed line is never hidden by unfinished text behind it |
| `IntoInnerError` | `src/buffered/mod.rs` | the wrapper and the error | into_inner, error | recovery after a failure | nothing is lost by recovering |
| Lockers | `src/lockers.rs`; the stdin and stdout constructors of `src/posish.rs` | two claim flags; per locker a thread, std's lock, an unpark token | new, drop | a thread that has not run yet, a thread that cannot be spawned, two resources claimed one after the other | one locker per stream, the lock held until the drop, no claim leaked, calls return |
| Piped threads | `src/posish.rs:234-248, 357-381, 596-616, 789-816`, same in `src/winx.rs` | a pipe, a copying thread, the boxed reader or writer | construct, write, flush, read, map_err, drop | the thread runs behind; flush ends it and starts another; errors surface later, on another call | order across flushes, flush synchronises, errors reported once, no panic while nothing failed |
| Handles (posix-ish, Windows) | `src/posish.rs`, `src/winx.rs`, `src/descriptor.rs` | a raw descriptor and the resource that keeps it open | one constructor per resource, read, write, drop | a descriptor that outlives its resource; two descriptors that must not be exchanged | a live handle's descriptors are open and are its own |
| `ReadWrite` and raw descriptor traits | `src/read_write.rs` | none | none | | |
| Crate root, build script, examples | `src/lib.rs`, `build.rs`, `examples/` | none | none | | |

How they interact: an owner calls a wrapper; the wrapper calls the `Read` and
`Write` of an inner handle; a handle calls the operating system through its
descriptor, and holds a resource: a file, a locker (whose thread shares std's
lock with the rest of the application) or a piped thread (which shares a pipe
with the handle). Nothing is persisted, so there is no recovery after a crash;
what takes its place is a panic that unwinds through a wrapper and is caught.

The hazards that follow from this, each at its line, are in `PROJECT.json`.

## The modules

**`BufReaderWriter`** is the core: `BufReaderWriterBackend` with the public
wrapper around it. Its variables are the fields of the struct (`writer_buf`,
`panicked`, `reader_buf` for `reader_buf[..cap]`, `pos`, and `written` of
`BufGuard`), the call in progress (`op`, `data`, `todo`, `done`, `base`, `ret`)
and the inner handle as the wrapper sees it (`sink`, `flushed`, `supplied`),
with what has been taken for the owner (`taken`). A call sets `todo`, the plan of
backend steps it runs: a public read, for instance, is `flush_buf`,
`flush_inner`, `read`. One step makes at most one call of the inner handle, so
what the handle answers is a choice between any two steps: any short count, 0,
an error, `Interrupted`, a panic. A step that fails abandons the rest of the
plan, which is what `?` and unwinding do; `Drain` is the drop of `BufGuard`,
on every way out of `flush_buf`.

| Code | Definitions |
|---|---|
| `write`, `write_vectored`, `write_all` | `Write`, `WriteAll`, `CheckRoom` (the two capacity tests), `Extend`, `Direct`, `DirectAll`, `DirectFails`, `DirectRetry`, `DirectPanics` |
| `flush_buf`, `flush` | `Flush`, `FlushBuf`, `FlushWrite`, `FlushRetry`, `FlushFails`, `FlushPanics`, `FlushInner` |
| `read`, `read_vectored` | `Read`, `ChooseRead`, `ReadDirect`, `Take`, `ReadFails` |
| `fill_buf`, `consume` | `FillBuf`, `Fill`, `Consume` |
| `read_until`, `read_line` | `ReadUntil`, `ReadLine`, `Search`, `Scan`, and `NotUtf8`: the bytes of a line are consumed before std's `read_line` finds that they are no UTF-8, and the owner gets none of them |
| `into_inner`, `IntoInnerError`, `drop` | `IntoInner`, `Drop`, `Leave` |

The loops of std that the crate relies on (`Write::write_all` of the inner
handle, `BufRead::read_until` and `read_line`, `memrchr`) are modelled from how the crate uses
them and marked external. A vectored call is its slices put together: the
backend looks at nothing but their total length.

`doubt` is a history variable: how many leading bytes of `writer_buf` were offered
to a write that panicked and to none since, which is what the flag `panicked`
stands for in the code. The code lowers the flag, and the model the count, when a
later write of the same bytes is answered, if only by an error.

**`DuplexStream`** is the abstract specification: two first-in first-out byte
streams, each of which may be written through only when nothing waits in it.
`ImplementsDuplexStream` is the refinement, with the accepted bytes mapped to
those already sent followed by those still in `writer_buf`.

**`BufReaderLineWriter`** extends the core with the shim: three new calls, whose
plans mix the backend's steps with four of the shim's (`WriteLines`,
`WriteBufs`, `BufferTail`, `LinesAll`), and `TailEnd`, the choice of what to
buffer after a partial write. All else is the core's.

**`Lockers`** models the lockers: `Construct`, `Claim` (the compare_and_swap),
`Spawn`, `SpawnFails`, `GiveUp` (`?`, which drops what a constructor already
has), `DropHandle`, `Unpark`, `Join`, `Store`, and the lock thread's `Acquire`
and `Release`. `LockStd` and `UnlockStd` are the application's own use of std's
locks. A handle may be dropped by another thread than the one that built it.

**`Interactive`** puts a `BufReaderWriter` next to the peer at the other end of
the stream. Every step of the wrapper is the core's (`Owner(Next)`); added are
how many requests have `arrived` and how many the peer has `replied` to. A flush
of the inner writer gets everything to the peer, what was written may also
arrive by itself (`Arrives`), and the inner reader blocks until a reply is there
(`NoReplyTooEarly`), where the core's came to an end.

**`PipedThread`** models the handles over a boxed reader or writer: the owner's
calls, the copying thread and the pipe between them. `held` is
`Option::Some` of `(pipe, join handle)`, `thread` what the thread does or has
returned, `carry` the bytes that `io::copy` has read and not yet written. A call
that fails, a flush and a drop are each two steps, because other steps come
between them: closing our end of the pipe (`Join`, `LetGo`), and the join itself,
which waits for the thread.

| Code | Definitions |
|---|---|
| `ReadHandle::piped_thread`, `bytes`, `str`; `WriteHandle::piped_thread` | `PipedReader`, `Bytes`, `PipedWriter`, `BuildFails` |
| `read`, `read_exact`, `read_to_end`, `read_to_string` | `ReadCall`, `ReadSome`, `ReadEnd`, `ReadFails`; `Gather` for `read_to_string`, whose bytes wait in the call (`todo`) until its end, where they are handed over (`ReadEnd`) or, if they are no UTF-8, thrown away (`ReadFails`) |
| `write`, `write_all`, `write_fmt` | `WriteCall`, `WriteSome`, `WriteFails` |
| `map_err` | `MapErr` (`take().unwrap()`, the close), `MapErrJoin` (`join().unwrap().unwrap_err()`) |
| `WriteHandle::flush` | `Flush`, `FlushJoin` (the second also builds the new pipe and thread) |
| `Drop for ReadResources`, `WriteResources` | `Drop`, `DropJoin`, and `Gone`, where a panic during another one aborts |
| the closures given to `thread::Builder::spawn` | `CopyFromPipe`, `CopyToBoxed`, `CopyEnds`, `FlushBoxed`; `CopyFromBoxed`, `CopyToPipe`, `CopyBroken`; `BoxedFails` |

A reader and a writer are the same module, chosen by the constructor; so is a
handle of `bytes`, whose small string is in the pipe before anybody reads, with
no thread at all. It implements `DuplexStream` too: the pipe and the thread are
what is hidden between the two ends of each stream.

**`Handles`** models which descriptors a handle names and who closes them. The
constructors are functions from their names to what each makes
(`PosishReadHandle`, `WinxReadWriteHandle` and so on): the descriptors, the
resources kept, what its thread is given. `Build` runs any of them, against a
table of numbers that are used again after a close; `Flush` and `LoseThread` are
the two ways in which a piped handle changes its descriptors' resources; `Drop`
closes what the resources own, and nothing through the `ManuallyDrop`. The rest
of the application opens and closes files at any time. On Windows a descriptor
is a handle or a socket, and `Reach` says what a call on it reaches.

**`MC*`** modules give the constants values for TLC. Operators called a mutant
in their comment are the definition that follows them with a plausible bug; they
are part of no specification, and each serves to show that a property fails when
the code is wrong.

## The runs

| Run | Question | Bounds | Result |
|---|---|---|---|
| `writer` | Do written bytes survive every mixture of faults, and does every turn of a loop move some? | two bytes, capacity 2, slices up to 3, a sink of 4 | holds |
| `reader` | Are reads flushed first, are the bytes read in order, is no turn of a loop idle, and does every call return? | two bytes, both capacities 2, slices and reads up to 2, a sink of 2, a source of 2, all faults | holds |
| `interactive` | Is a request always answered, through two buffers? | capacities 2, slices and reads up to 3, four requests and four replies, all faults | holds |
| `drop` | Does drop attempt to flush, as the documentation says? | capacity 2, slices up to 2, a sink of 2, panics only | violated, see Findings |
| `lines` | Do lines go out, over the same faults? | capacity 2, slices up to 4, a sink of 4 | holds |
| `lockers` | Is a stream claimed once and released, and does every call return? | two threads, two streams, three lockers | holds |
| `lockers_race` | Does a live handle have the std lock? | the same | violated |
| `lockers_spawn` | Is a constructor refused only when the stream is owned? | the same | violated |
| `piped` | Are the bytes of a piped handle delivered, and every loss told, whatever fails, and does every call return? | two bytes, a pipe of 2, `bytes` without a thread up to 1, four bytes in all, slices up to 3, all five faults | holds |
| `piped_eof` | Does `map_err` always find the error it unwraps? | the same with two bytes in all and no fault | violated |
| `handles` | Are a live handle's descriptors open and its own, and is each closed once? | both platforms, every constructor, two handles, four numbers | holds |
| `handles_dangling` | Does no handle ever reach what another has opened? | posish, the same | violated |

Why these bounds are enough for the interesting cases. The tests of the code
compare a length with a capacity, or with what is left of it; a capacity of 2
and slices of 0 to 3 (4 for lines) put every length below, at and above each of
them, with the buffer empty, half full and full. A sink of 4 lets a full buffer
be flushed, refilled and flushed again, in partial writes and with faults
between, and then be refused. In `reader`, which also checks liveness and so has
no symmetry, slices of one byte wait in the writer buffer of 2, every read finds
it empty, half full or full, and the loop of `flush_buf` runs with all its answers,
0 included; reads of 1 and 2 are below and at the capacity of the reader buffer, and
a source of 2 fills it, or half fills it, empties and refills it, or goes past it
and then into it (a longer read could not get more). Two byte values make reordering
visible. For a piped handle, a pipe of 2 and a stream of 4 fill the pipe twice,
a string longer than `PIPE_BUF` needs the thread, and up to four flushes come
one after the other. Two handles of two ends each, and the application, compete
for four numbers: enough to reuse a number in every role, the smallest number at
which a handle with a piped thread and a file of the application exist beside
another handle. A request and a reply are a byte each, so that a buffer of 2
holds requests back. The bound on `sink` also ends the run: an inner writer that accepts
nothing more is one the code must cope with anyway. Symmetry is used only in
runs without liveness, for bytes no action names, for numbers and for slots. Among the lockers, at most
one per stream is alive, and the third shows that this is a result of the code
and not of the pool.

Deadlock is checked everywhere but in two places where the system may really
stop. In `Lockers`, a thread that has locked std's stdin and drops a handle whose
lock thread still waits for that lock joins it for ever. In `Interactive`, an
owner that reads what it has not asked for waits for ever.

### Fairness

`BufReaderWriter` assumes weak fairness of `Run`, the steps of a call: the
thread runs on, and the inner handle answers. An answer of `Interrupted` alone
leaves the state as it was, so weak fairness also says that a handle does not
interrupt for ever; and the bounds say that a source does not supply bytes
without the delimiter for ever. The code promises no more: its loops are
`while` loops around the inner call. Nothing is assumed of the owner.

`Lockers` assumes that a thread in a call runs on, that a lock thread runs on,
that the application unlocks what it has locked (weak), and that a lock thread
gets a lock that keeps being released (strong, for std's mutex promises no order
but is obtained in the end). `CallsReturn` states its condition as part of the
property: no thread of the application is in a constructor or destructor while
it has locked a stream itself.

`Interactive` assumes that the steps of a call go on, those other than a failing
read (which would end a wait that nothing else ends), and that the peer answers
what has arrived. It assumes no early arrival: what the wrapper has not flushed
may stay on the way for ever. `FillAnsweredIfFlushed` states as its condition the
flush that `fill_buf`, alone among the reading calls, leaves to the owner;
without it the property is false, for the owner then waits for the reply to a
request that is still in the writer buffer.

`PipedThread` assumes that a call runs on, and that the copying thread does: the
boxed object answers in the end, and it is `io::copy`'s own loop that calls it.
Nothing is assumed of the owner, so a pipe may stay full or empty for ever as
long as no call waits. `Handles` has no liveness: its operations wait for nothing.

### Findings

- `drop`: `panicked` is also raised around a direct write, when the buffer is
  empty. If that write panics and the panic is caught, a later small write is
  buffered and answered `Ok`, and drop then skips the flush although no
  panicking write was ever offered those bytes.
- `lockers_race`: a constructor returns when its lock thread has been spawned,
  not when that thread has the std lock; until then the application can still
  lock the std stream of a live handle.
- `lockers_spawn`: when the lock thread cannot be spawned, the claim flag stays
  set, and every later constructor is refused as a dual owner.
- `piped_eof`: `map_err` takes every error of the descriptor for one of the
  thread. `read_exact` at the end of a healthy boxed reader makes an
  `UnexpectedEof` of its own; the thread has returned `Ok`, `unwrap_err` panics,
  and the handle, now without its thread, panics again in its drop.
- `handles_dangling`: `read_from_command`, `write_to_command` and
  `interact_with_command` take the pipe out of the `Child`, keep its raw number
  and let the pipe itself close at the end of the constructor. The handle then
  transfers through whatever has been given that number since.

One more is in what `DropHeedsPanic` does not say. The comment on `panicked` gives
as its purpose that drop should not write a second time what a panicked write was
given (`src/buffered/buf_reader_writer.rs:109-110`). But `flush_buf` lowers the flag
after every answer (line 388): a flush panics and is caught, a second flush fails
with an error, and drop then offers the same bytes again. The property, like the
flag, is therefore about the last write of the bytes only.

Two more deviations show in the exceptions of `DescriptorsLive` (`Sound`). On
Windows `child_stdout_stdin` makes both descriptors from the child's stdout
(`src/winx.rs:382`), so that a write goes to the reading end of a pipe. And a piped handle
that has lost its thread after an error still has its descriptor, which is closed
by then; every later transfer through it may reach somebody else's.

## The proofs

Eight modules of proofs, for every value of the constants that the assumptions
of the modules they are about allow: capacities and bounds are naturals,
faults are among those named, the bytes are any set and the newline one of them;
the threads, lockers and
`NoOne` are different things; the numbers of the standard streams are none of
those the process gives out, and `Nothing` is no entry of the table and no handle.

| Module | Theorem | Property |
|---|---|---|
| `BufReaderWriter_proofs` | `TypeCorrect` | `TypeOK`: types, and indices within their buffers |
| | `NeverReallocates` | `NoRealloc`: the writer buffer stays within its capacity |
| | `DropHeedsPanics` | `DropHeedsPanic`: the destructor never offers bytes whose last write panicked |
| | `ReadsFollowFlush` | `FlushedBeforeRead`: a read that may block comes after the flush |
| | `ReadsInOrder` | `ReadInOrder`: supplied bytes are those taken and then those unread |
| `BufReaderWriter_refinement` | `IsADuplexStream` | `ImplementsDuplexStream`: the refinement of `DuplexStream` |
| `BufReaderWriter_returns` | `CallsAreHonest` | `HonestReturns`: an answer says which bytes joined the stream |
| | `FlushesDeliver` | `FlushDelivers`: an Ok of flush means everything is with the inner writer, flushed |
| | `NoTurnIsIdle` | `NoIdleTurn`: every step of a call leaves it less to do, except a repetition after Interrupted |
| `BufReaderLineWriter_proofs` | `LineTypeCorrect` | `LineTypeOK`: the types of a line writer, its longer plans included |
| | `NewlinesAreLast` | `NewlineLast`: a buffer that holds newlines ends with one, so its last byte tells whether it holds a completed line |
| | `CompletedLinesGoOut` | `LinesGoOut`: an Ok leaves no completed line behind |
| | `LineCallsAreHonest` | `HonestReturns` of a line writer |
| | `LineFlushesDeliver` | `FlushDelivers` of a line writer |
| | `LineNeverReallocates` | `NoRealloc` of a line writer |
| | `LineDropHeedsPanics` | `DropHeedsPanic` of a line writer |
| | `LineReadsFollowFlush` | `FlushedBeforeRead` of a line writer |
| | `LineIsADuplexStream` | `LineImplementsDuplexStream`: the refinement of `DuplexStream` |
| `Interactive_proofs` | `NobodyWaitsInVain` | `NeverBothWait`: while a wrapper waits for a reply all its requests are at the peer |
| `PipedThread_proofs` | `TypeCorrect` | `TypeOK`: the pipe within its capacity, joins only with our end closed, no thread left by a drop |
| | `NeverAborts` | `WriterNeverAborts`: no second panic in the drop of a writer |
| | `FlushSynchronises` | `FlushReachesBoxed`: an Ok of flush means everything is in the boxed writer, flushed |
| | `EndIsEnd` | `EofIsEnd`: the end of the stream is told only when the owner has all of it |
| | `LossIsTold` | `NoSilentLoss`: without an error nothing is lost |
| | `IsADuplexStream` | `ImplementsDuplexStream`: the refinement of `DuplexStream` |
| `Lockers_proofs` | `TypeCorrect` | `TypeOK`: what a call has at each of its places |
| | `OnlyOneLocker` | `OneLocker`: never two lockers of a stream |
| | `KeepsTheLock` | `HeldUntilDropped`: the lock is kept until the drop |
| | `RefusalsHaveReason` | `RefusedOnlyIfOwnedOrLost`: nobody is refused an unowned stream |
| `Handles_proofs` | `TypeCorrect` | `TypeOK`: the table well formed, the standard streams open |
| | `DescriptorsStayLive` | `DescriptorsLive`: a handle's descriptors are open and its own |
| | `EveryNumberHasOneOwner` | `OneOwner`: nothing leaks, nothing is closed twice |
| | `OthersStayUntouched` | `OthersUntouched`: a handle's steps close nothing of anybody else |

### `BufReaderWriter_proofs`

None of the properties is inductive by itself; `IInv` is their conjunction with
three more parts, which say what a call in progress may count on:

- `PlanOK`, the shape of plans: a write step is the last of its plan and about
  bytes within the slice; the steps that place bytes directly, and the inner
  flush, come after `flush_buf` unless they are the head; in a reading call
  `flush_buf` comes first, before the inner flush.
- `HeadOK`, what the head of the plan relies on: `extend` has room, the direct
  writes and the inner flush find the buffer empty, the direct read finds the
  reader buffer exhausted. This is what the tests in `write` and `read`
  established one or more steps earlier, across an inner call that may have
  failed in every way; without it neither `NoRealloc` nor `FlushedBeforeRead`
  is preserved.
- `DoubtOK`: the bytes whose last write panicked are covered by `panicked`,
  and a flush in progress has none; without it `DropHeedsPanic` is not
  preserved by `drop`.

The argument has one lemma per action (`CheckRoomInv`, `FlushLoopInv`,
`ScanInv`, ...), each with a step per conjunct that the action can disturb.
`Cut`, `Push`, `Pair`, `PlanHead` and `ConsumedInOrder` state once what the
sequence operators do. `StepInv` puts the actions together, and the theorems
follow by temporal logic.

### `BufReaderWriter_refinement` and `BufReaderWriter_returns`

`IsADuplexStream` needs nothing beyond `IInv`: each step is shown to be one of
the actions of `DuplexStream`, or a stutter, by what it does to the four
sequences. A direct write or read is a `WriteThrough` or `ReadThrough`, which asks
that nothing waits in the stream: that is `HeadOK`.

What a call answers is about its whole past, which `IInv` does not remember.
`HistoryOK` adds it: what the stream is now, compared with `base`, the stream
when the call began (all of `base`, or `base` and the first `done` bytes of
`data`, according to the call), that a write's plan ends in the step that places its
bytes, and that the buffer is empty, and the inner writer flushed, once the steps
of a flush that do so are behind it. `HistoryHolds`
shows it inductive relative to `IInv`; both theorems read the answer off it.

`NoTurnIsIdle` is the variant behind `CallReturns`. `Work` counts the steps left of
the plan, the bytes on their way to the inner writer, and twice the bytes the
owner may still take (a turn of `read_until` puts a `fill_buf` in front of its
`scan`, and pays for it with a byte taken). `PlacingWorks`, `FlushWorks` and
`ReadsWork` say for each action which of the three goes down. `BoundOK` adds to
the two invariants that the source gives no more than `SourceLength` bytes, the
bound that makes a search for a delimiter end, and that nothing comes after the
`read` in a plan. What the proof leaves to TLC is the fairness: that the next step
is taken at all, and that Interrupted is not the answer for ever. A turn that
changes nothing whatever is a stutter, which no property of steps can see;
`CallReturns` is about those.

### `BufReaderLineWriter_proofs`

Outside its writes a line writer is a block writer, and `LInv` says there what
`IInv` and `HistoryOK` say. Inside them `IInv` is false: a plan may hold the
shim's steps, a `write_all` of lines goes on after the step that places bytes,
and a vectored write has a `flush_buf` in front of an attempt that is not the
backend's. `WritingOK` takes their place. Its main part, `LinePlanOK`, says that
a write in progress is about one piece of its slice, with a flush in front of it
or ready to go (`Ready`):

- the last piece (`LastPiece`): all of a slice without a line end, or what
  follows the last line end in a `write_all`. It finds no line end in the buffer
  (that is `NewlineLast` and `flush_if_completed_line`) and adds none;
- the lines of a `write_all` (`LinesPiece`), which end with a newline and are
  followed by the last piece, through the buffer or past it;
- the one attempt of a `write` (`LinesAttempt`), and the tail that is buffered
  after it, which has no line end or fits and ends with one (`TailFits`). That
  `TailEnd` chooses such a tail is `TailEndFits`: for all four ways in which the
  shim cuts it.

`NewlineLast` is preserved because what is put behind a buffer without line ends
has none (`JoinNoLine`) or ends a line (`JoinEndsLine`), and because flushing cuts
the buffer from the front (`CutEndsLine`). What `memrchr` returns is
`LastNewlineIs`: `LastNewline` is a newline with none after it. Every step of a
write goes on with `LInv` and is a step of the two streams (`Goes`), or ends as
`WriteEnding` says; every other step is one of the core, and its proof is the core's.

### `Interactive_proofs`

The peer changes nothing of the wrapper, so `IInv` holds beside it. `PeerOK` adds
that what is flushed has arrived, and that the wrapper has been given no more
replies than there are. A read that waits has flushed (`FlushedBeforeRead`), so
all of the stream has arrived, and has nothing unread (`HeadOK`), so a reply that
is owed is one the wrapper has not been given: its request is at the peer. This
is the safety half of `RequestAnswered`; the other half is the fairness of the peer.

### `PipedThread_proofs`

The properties look at one step: the answer of a flush, of a read, of a drop.
What makes them true was settled many steps of another thread before, so `IInv`
says where the bytes are at any time:

- `WriterOK`: until the thread fails, what a writer has taken is what is
  delivered, what the thread carries and what is in the pipe, in this order; a
  thread that has come to its end has left nothing behind.
- `ReaderOK`: as long as the handle has its pipe, what was supplied is what is
  taken, what a `read_to_string` holds, what is in the pipe, and what is carried
  (`Got` is the first two). Only a `bytes` handle outlives a failed
  `read_to_string`: then everything left was thrown away and told (`Thrown`).
- `EndOK`: a reader that has told the end stays at it.
- `CallOK`, `ThreadOK`, `PanicOK`: which calls belong to which handle, when there
  is a thread, and that a panic leaves a handle without one; a writer without its
  thread has told so, which is what `NoSilentLoss` and `WriterNeverAborts` need.
- `NewOK`: before its construction a handle has nothing.

Each step of the thread has a lemma that says where its bytes went, on top of
`ThreadInv`; each step of a call one on top of `LeaveInv` (the call ends),
`GoesInv` (it goes on or comes to its join) or `GoneInv` (the handle ends).
`Split`, `Shift`, `Assoc` and `Joined` are what is needed of sequences.
`IsADuplexStream` maps every step to one of `Accept`, `Deliver`, `Supply`, `Take`,
`Close`, or a stutter; that what is delivered is a prefix of what was accepted is
`WriterOK` after the step.

### `Lockers_proofs`

`OneLocker` is not inductive: `Store` clears a claim, and does no harm only
because the claim is that of its own locker, which no other call and no handle
has. So `IInv` has `OnePlace`, that each locker in use is in exactly one handle
or in the hands of exactly one call, once; `OneClaim`, that a claim has exactly
one reason, a locker or a constructor that is about to make it, and is without
one only after a failure; `TokenOK`, that only a destructor unparks and that it
stores after the thread has ended; and `HolderOK`, that a parked thread has the
lock. The last two give `HeldUntilDropped`, `OneClaim` read backwards gives
`RefusedOnlyIfOwnedOrLost`. `Constructs` and `LocksInv` say once what the steps
that make no locker, and those of std's lock, leave alone.

### `Handles_proofs`

`DescriptorsLive` and `OneOwner` speak of the handles alone and are not inductive:
whether a drop closes the right numbers depends on how the handle was built. The
invariant has three parts for every slot: `BuiltOK`, that the handle is what one
of the constructors makes; `WiredOK`, that a descriptor over something the handle
keeps names a number that is open as that very thing, and owned by the handle or
by nobody; and `OwnOK`, that what it and its thread own is exactly what the
constructor keeps and lends. `MadeWell` checks the tables of the constructors
once: what each keeps and lends is disjoint, and those that are not among the
exceptions keep what their descriptors are over, the right way round.

A construction and a flush are the same step, `Install`, after `Closing`; a drop and
the loss of a thread are `Closing` alone. For both it is shown what becomes of the
slot itself (`InstalledSlot`, `Emptied`), and that no number of anybody else
changes hands (`Touches`, `Gives`), which by `OthersStay` preserves every other
slot. `OthersStayUntouched` is that second half, read as a property of steps.

### Checked by TLC only

On the bounded instances:

- the liveness properties `CallReturns`, `CallsReturn`, `RequestAnswered` and
  `FillAnsweredIfFlushed` (temporal reasoning under fairness is out of the
  provers' reach here). The safety half of two of them is proved: `NoTurnIsIdle`
  for `CallReturns` of the buffer, `NobodyWaitsInVain` for `RequestAnswered`.

Every safety property of a passing run is proved. The properties of the
violation runs are false, and TLC's counterexamples are what they show.

## Not modelled, and why

- `get_mut` and `get_ref` of the wrappers: through them the owner can do
  anything to the inner handle; the documentation warns of it.
- `usize` overflow of `pos + amt` in `consume` and of total lengths in
  `write_vectored`: lengths are naturals, and no slice of the address space
  makes them overflow except an absurd argument of `consume`.
- `Debug` output, `is_write_vectored`, the `as_raw` accessors and the other
  queries: no state.
- `write_fmt` and `write_all_vectored` of the wrappers: std's loops over
  `write_all` and `write_vectored`.
- The processes at the other end: a `Child` is waited for by nobody in this code,
  and what it does with its pipes is its own.
- `BufReaderLineWriter` beside a peer: its reads are the backend's, behind the
  flush that `Interactive` checks, and what it buffers is part of a line.
- `ReadWrite`, the descriptor traits, the crate root, the build script and the
  examples: declarations and straight-line code, without a state.

## Plan

1. Done: `BufReaderWriter`, `DuplexStream`, their proofs and the refinement;
   `Lockers`, `PipedThread` and `Handles` with their proofs;
   `BufReaderLineWriter` with its proofs; `Interactive` with its proof.
2. Next: the variant of `NoTurnIsIdle` for the longer plans of a line writer and for
   the calls of `PipedThread`, as the safety halves of their returning.

Runs are kept to one per question, so a module brings one passing run
and a violation only where the code contradicts what the repository says of it.
