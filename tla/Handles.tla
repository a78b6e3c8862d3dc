-------------------------------- MODULE Handles --------------------------------
(***************************************************************************)
(* ReadHandle, WriteHandle and ReadWriteHandle over the descriptors of the *)
(* process: the constructors, the transfers and the drop of src/posish.rs, *)
(* and of src/winx.rs with src/descriptor.rs.                              *)
(*                                                                         *)
(* A handle is one or two raw descriptors in a ManuallyDrop, which closes  *)
(* nothing, beside the resources that own them, which do.  The numbers of  *)
(* descriptors that have been closed are used again, by other handles and  *)
(* by the rest of the application.                                         *)
(*                                                                         *)
(* The claims of stdin and stdout are taken here as they should be; how    *)
(* they are made is in Lockers, and what a piped thread does in            *)
(* PipedThread.                                                            *)
(***************************************************************************)
EXTENDS Integers, SequencesExt

CONSTANTS
    Platforms,   \* Which of "posish" and "winx" the program is built for.
    Fd,          \* The numbers the process gives to what it opens.
    StdIn,       \* The number of standard input,
    StdOut,      \* and that of standard output.
    Slot,        \* Bound: how many handles are alive at a time.
    Nothing      \* No descriptor, no handle, no transfer.

ASSUME NumbersAssumption == StdIn # StdOut /\ {StdIn, StdOut} \cap Fd = {}
ASSUME PlatformAssumption == Platforms \subseteq {"posish", "winx"}

VARIABLES
    platform,   \* the platform the program is built for
    table,      \* per number, what is open there and who is to close it
    handles,    \* per slot, the handle in it
    io          \* what the last transfer of a handle reached

vars == <<platform, table, handles, io>>

Number == Fd \cup {StdIn, StdOut}

Entry(kind, owner) == [kind |-> kind, owner |-> owner]
Holds(s) == <<"handle", s>>   \* the resources of the handle in s
Lends(s) == <<"thread", s>>   \* the thread of its piped_thread
App      == <<"app">>         \* the rest of the application
Std      == <<"std">>         \* nobody: std never closes its streams

Free == {n \in Fd : table[n] = Nothing}

(***************************************************************************)
(* What each constructor does: where it takes its descriptors from, what   *)
(* it keeps in `resources', and what its thread gets.                      *)
(***************************************************************************)
Made(read, write, kept, thread) ==
    [read |-> read, write |-> write, kept |-> kept, thread |-> thread]

None == "none"
Keeps(read, write)   == Made(read, write, {read, write} \ {None}, {})
Forgets(read, write) == Made(read, write, {}, {})

\* The Child is kept, but not the ChildStdout taken out of it.
PosishReadHandle ==
    [by \in {"stdin", "file", "tcp_stream", "unix_stream", "pipe_reader", "child_stdout",
             "child_stderr", "read_from_command", "piped_thread", "bytes"} |->
        CASE by = "read_from_command" -> Forgets("child_stdout", None)
          [] by = "piped_thread" -> Made("pipe_reader", None, {"pipe_reader"}, {"pipe_writer"})
          [] by = "bytes" -> Keeps("pipe_reader", None)
          [] OTHER -> Keeps(by, None)]

PosishWriteHandle ==
    [by \in {"stdout", "file", "tcp_stream", "unix_stream", "pipe_writer", "child_stdin",
             "write_to_command", "piped_thread", "null"} |->
        CASE by = "write_to_command" -> Forgets(None, "child_stdin")
          [] by = "piped_thread" -> Made(None, "pipe_writer", {"pipe_writer"}, {"pipe_reader"})
          [] by = "null" -> Keeps(None, "file")
          [] OTHER -> Keeps(None, by)]

PosishReadWriteHandle ==
    [by \in {"char_device", "tcp_stream", "unix_stream", "stdin_stdout",
             "interact_with_command", "child_stdout_stdin", "pipe_reader_writer"} |->
        CASE by = "stdin_stdout" -> Keeps("stdin", "stdout")
          [] by = "interact_with_command" -> Forgets("child_stdout", "child_stdin")
          [] by = "child_stdout_stdin" -> Keeps("child_stdout", "child_stdin")
          [] by = "pipe_reader_writer" -> Keeps("pipe_reader", "pipe_writer")
          [] OTHER -> Keeps(by, by)]

\* bytes always starts a thread.
WinxReadHandle ==
    [by \in {"stdin", "file", "tcp_stream", "pipe_reader", "child_stdout", "child_stderr",
             "read_from_command", "piped_thread", "bytes"} |->
        CASE by = "read_from_command" -> Forgets("child_stdout", None)
          [] by \in {"piped_thread", "bytes"} ->
                 Made("pipe_reader", None, {"pipe_reader"}, {"pipe_writer"})
          [] OTHER -> Keeps(by, None)]

WinxWriteHandle ==
    [by \in {"stdout", "file", "tcp_stream", "pipe_writer", "child_stdin",
             "write_to_command", "piped_thread", "null"} |->
        CASE by = "write_to_command" -> Forgets(None, "child_stdin")
          [] by = "piped_thread" -> Made(None, "pipe_writer", {"pipe_writer"}, {"pipe_reader"})
          [] by = "null" -> Keeps(None, "file")
          [] OTHER -> Keeps(None, by)]

\* Both descriptors of child_stdout_stdin are the ChildStdout's.
WinxReadWriteHandle ==
    [by \in {"char_device", "tcp_stream", "stdin_stdout", "interact_with_command",
             "child_stdout_stdin", "pipe_reader_writer"} |->
        CASE by = "stdin_stdout" -> Keeps("stdin", "stdout")
          [] by = "interact_with_command" -> Forgets("child_stdout", "child_stdin")
          [] by = "child_stdout_stdin" ->
                 Made("child_stdout", "child_stdout", {"child_stdout", "child_stdin"}, {})
          [] by = "pipe_reader_writer" -> Keeps("pipe_reader", "pipe_writer")
          [] OTHER -> Keeps(by, by)]

Constructors ==
    IF platform = "posish"
    THEN {PosishReadHandle, PosishWriteHandle, PosishReadWriteHandle}
    ELSE {WinxReadHandle, WinxWriteHandle, WinxReadWriteHandle}

Readable == {"stdin", "file", "tcp_stream", "unix_stream", "pipe_reader",
             "child_stdout", "child_stderr", "char_device"}
Writable == {"stdout", "file", "tcp_stream", "unix_stream", "pipe_writer",
             "child_stdin", "char_device"}

(***************************************************************************)
(* Descriptors                                                             *)
(***************************************************************************)
Socket == {"tcp_stream"}

\* Mutant: a socket is wrapped as a handle.
AlwaysHandle(kind) == "File"

\* Descriptor::raw_socket or Descriptor::raw_handle; a File on posish.
Variant(kind) == IF platform = "winx" /\ kind \in Socket THEN "Socket" ELSE "File"

\* The number of what a constructor opens or is given: the standard streams
\* have theirs.
NumberOf(kind, at) ==
    IF kind = "stdin" THEN StdIn ELSE IF kind = "stdout" THEN StdOut ELSE at[kind]

Descriptor(kind, at) ==
    IF kind = None THEN Nothing ELSE [as |-> Variant(kind), number |-> NumberOf(kind, at)]

\* The Read and Write of Descriptor: a call on a number that is not open, or
\* is not of the kind the variant is for, is an error.
Reach(d) ==
    LET e == table[d.number] IN
    IF e # Nothing /\ (platform = "winx" => (d.as = "Socket" <=> e.kind \in Socket))
    THEN e ELSE Nothing

(***************************************************************************)
(* Construction                                                            *)
(***************************************************************************)
Opened(m) == ({m.read, m.write} \cup m.kept \cup m.thread) \ {None, "stdin", "stdout"}

\* Numbers, among the free ones, for what m opens or is given open.
Placements(m, free) == Injection(Opened(m), free)

\* What is open when a constructor of s returns: its local variables are gone.
Placed(t, s, m, at) ==
    [n \in Number |->
       IF \E k \in DOMAIN at : at[k] = n
       THEN LET k == CHOOSE k \in DOMAIN at : at[k] = n IN
            IF k \in m.kept THEN Entry(k, Holds(s))
            ELSE IF k \in m.thread THEN Entry(k, Lends(s)) ELSE Nothing
       ELSE t[n]]

Claimed(k) == \E s \in Slot : handles[s] # Nothing /\ k \in handles[s].made.kept

Handle(m, by, at) ==
    [by |-> by, made |-> m, held |-> TRUE,
     read |-> Descriptor(m.read, at),
     write |-> Descriptor(m.write, at)]

Build(s) ==
    /\ handles[s] = Nothing
    /\ \E f \in Constructors : \E by \in DOMAIN f : \E at \in Placements(f[by], Free) :
         /\ \A k \in {"stdin", "stdout"} \cap f[by].kept : ~Claimed(k)
         /\ handles' = [handles EXCEPT ![s] = Handle(f[by], by, at)]
         /\ table' = Placed(table, s, f[by], at)
    /\ io' = Nothing
    /\ UNCHANGED platform

(***************************************************************************)
(* Use                                                                     *)
(***************************************************************************)
Live(s) == handles[s] # Nothing

\* A transfer: io is what it reached; an Err leaves the handle as it was,
\* unless it has a piped thread (LoseThread).
Transfer(s, d) ==
    /\ Live(s) /\ handles[s][d] # Nothing
    /\ io' = [slot |-> s, by |-> d, reached |-> Reach(handles[s][d])]
    /\ UNCHANGED <<platform, table, handles>>

\* What is open once the resources of s, and its thread, are gone.
Closing(s) ==
    [n \in Number |-> IF table[n] # Nothing /\ table[n].owner \in {Holds(s), Lends(s)}
                      THEN Nothing ELSE table[n]]

HasThread(s) == Live(s) /\ handles[s].made.thread # {} /\ handles[s].held

\* Mutant: our end of the pipe stays open.
LoseThreadOnly(s) ==
    /\ HasThread(s)
    /\ table' = [n \in Number |-> IF table[n] # Nothing /\ table[n].owner = Lends(s)
                                  THEN Nothing ELSE table[n]]
    /\ handles' = [handles EXCEPT ![s].held = FALSE]
    /\ io' = Nothing
    /\ UNCHANGED platform

\* map_err, or a flush that fails on the way: the pipe and the thread are
\* gone, the handle and its descriptor are still there.
LoseThread(s) ==
    /\ HasThread(s)
    /\ table' = Closing(s)
    /\ handles' = [handles EXCEPT ![s].held = FALSE]
    /\ io' = Nothing
    /\ UNCHANGED platform

\* Mutant: flush replaces the resources and not the descriptor.
FlushKeepingDescriptor(s) ==
    /\ HasThread(s) /\ handles[s].write # Nothing
    /\ LET m    == handles[s].made
           free == {n \in Fd : Closing(s)[n] = Nothing}
       IN \E at \in Placements(m, free) :
            /\ table' = Placed(Closing(s), s, m, at)
            /\ UNCHANGED handles
    /\ io' = Nothing
    /\ UNCHANGED platform

\* *self = piped_thread(boxed_write): a new pipe, after the old one is closed.
Flush(s) ==
    /\ HasThread(s) /\ handles[s].write # Nothing
    /\ LET m    == handles[s].made
           free == {n \in Fd : Closing(s)[n] = Nothing}
       IN \E at \in Placements(m, free) :
            /\ table' = Placed(Closing(s), s, m, at)
            /\ handles' = [handles EXCEPT ![s] = Handle(m, handles[s].by, at)]
    /\ io' = Nothing
    /\ UNCHANGED platform

\* Mutant: no ManuallyDrop, the descriptors close their numbers too.
DropClosingDescriptors(s) ==
    /\ Live(s)
    /\ table' = [n \in Number |->
         IF \E d \in {handles[s].read, handles[s].write} \ {Nothing} : d.number = n
         THEN Nothing ELSE Closing(s)[n]]
    /\ handles' = [handles EXCEPT ![s] = Nothing]
    /\ io' = Nothing
    /\ UNCHANGED platform

Drop(s) ==
    /\ Live(s)
    /\ table' = Closing(s)
    /\ handles' = [handles EXCEPT ![s] = Nothing]
    /\ io' = Nothing
    /\ UNCHANGED platform

\* The rest of the application opens and closes files of its own.
AppOpens ==
    /\ \E n \in Free : table' = [table EXCEPT ![n] = Entry("file", App)]
    /\ io' = Nothing
    /\ UNCHANGED <<platform, handles>>

AppCloses ==
    /\ \E n \in Fd : /\ table[n] = Entry("file", App)
                     /\ table' = [table EXCEPT ![n] = Nothing]
    /\ io' = Nothing
    /\ UNCHANGED <<platform, handles>>

(***************************************************************************)
(* The specification                                                       *)
(***************************************************************************)
Init ==
    /\ platform \in Platforms
    /\ table = [n \in Number |-> IF n = StdIn THEN Entry("stdin", Std)
                                 ELSE IF n = StdOut THEN Entry("stdout", Std)
                                 ELSE Nothing]
    /\ handles = [s \in Slot |-> Nothing]
    /\ io = Nothing

Uses(s) == Flush(s) \/ LoseThread(s) \/ Drop(s) \/ \E d \in {"read", "write"} : Transfer(s, d)

Next == (\E s \in Slot : Build(s) \/ Uses(s)) \/ AppOpens \/ AppCloses

Spec == Init /\ [][Next]_vars

(***************************************************************************)
(* Properties                                                              *)
(***************************************************************************)
Kinds == Readable \cup Writable

Entries == [kind : Kinds,
            owner : {App, Std} \cup {Holds(s) : s \in Slot} \cup {Lends(s) : s \in Slot}]

Descriptors == {Nothing} \cup [as : {"File", "Socket"}, number : Number]

AllMade == [read : Kinds \cup {None}, write : Kinds \cup {None},
            kept : SUBSET Kinds, thread : SUBSET Kinds]

Names == UNION {DOMAIN f : f \in {PosishReadHandle, PosishWriteHandle, PosishReadWriteHandle,
                                  WinxReadHandle, WinxWriteHandle, WinxReadWriteHandle}}

AllHandles == [by : Names, made : AllMade, held : BOOLEAN,
               read : Descriptors, write : Descriptors]

\* Nothing is no entry of the table and no handle.
ASSUME NothingAssumption == Nothing \notin Entries \cup AllHandles

\* Types, and the std streams always open: no handle over them closes them.
TypeOK ==
    /\ platform \in Platforms
    /\ table \in [Number -> Entries \cup {Nothing}]
    /\ table[StdIn] = Entry("stdin", Std) /\ table[StdOut] = Entry("stdout", Std)
    /\ handles \in [Slot -> AllHandles \cup {Nothing}]

\* What the transfers of s in direction d should reach.
Wants(d) == IF d = "read" THEN Readable ELSE Writable

IsOwn(e, s, d) == e # Nothing /\ e.kind \in Wants(d) /\ e.owner \in {Holds(s), Std}

Commands == {"read_from_command", "write_to_command", "interact_with_command"}

\* The handles whose code keeps to the rule; for the others see NoForeignIO.
Sound(s) ==
    /\ handles[s].held
    /\ handles[s].by \notin Commands
    /\ ~(platform = "winx" /\ handles[s].by = "child_stdout_stdin")

\* A handle "contains any resources needed to safely hold the file descriptor
\* live": through every construction, flush, error and drop, and whatever
\* numbers are used again, the descriptors of a live handle are open, belong to
\* its own resources, go in the right direction, and on Windows are accessed as
\* what they are.  The handles made from a Command, the Windows pair of a
\* child's pipes, and a piped handle after an error, are left out.
DescriptorsLive ==
    \A s \in Slot : Live(s) /\ Sound(s) =>
        \A d \in {"read", "write"} : handles[s][d] # Nothing => IsOwn(Reach(handles[s][d]), s, d)

\* Nothing leaks and nothing is closed twice: what a live handle and its
\* thread have open is exactly what its constructor said, each once, and what
\* a dropped handle had open is closed, also after an error or a flush.
OneOwner ==
    \A s \in Slot :
        LET owned(o) == {n \in Fd : table[n] # Nothing /\ table[n].owner = o}
            kinds(o) == {table[n].kind : n \in owned(o)}
            exactly(o, ks) == kinds(o) = ks /\ \A n, k \in owned(o) :
                                  table[n].kind = table[k].kind => n = k
        IN IF Live(s) /\ (handles[s].made.thread # {} => handles[s].held)
           THEN /\ exactly(Holds(s), handles[s].made.kept \ {"stdin", "stdout"})
                /\ exactly(Lends(s), handles[s].made.thread)
           ELSE owned(Holds(s)) = {} /\ owned(Lends(s)) = {}

\* A step of a handle leaves alone every number that was open for somebody
\* else: its drop, for one, closes no file of the application and no std
\* stream.
OthersUntouched ==
    [][\A s \in Slot : handles'[s] # handles[s] =>
         \A n \in Number :
            table[n] # Nothing /\ table[n].owner \notin {Holds(s), Lends(s)}
                => table'[n] = table[n]]_vars

\* A handle "contains any resources needed to safely hold the file descriptor
\* live", so a transfer never reads or writes what somebody else has open.
NoForeignIO ==
    io # Nothing /\ io.reached # Nothing => io.reached.owner \in {Holds(io.slot), Std}
================================================================================
