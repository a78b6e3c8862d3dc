---------------------------- MODULE Handles_proofs ----------------------------
(***************************************************************************)
(* Proofs about Handles, for every set of numbers, however small, every    *)
(* number of handles and both platforms.                                   *)
(***************************************************************************)
EXTENDS Handles, TLAPS

(***************************************************************************)
(* The inductive invariant, slot by slot                                   *)
(***************************************************************************)
StdKinds == {"stdin", "stdout"}

\* The handle came out of a constructor; one without a thread never fails.
BuiltOK(s) ==
    Live(s) => /\ \E f \in Constructors : /\ handles[s].by \in DOMAIN f
                                          /\ handles[s].made = f[handles[s].by]
               /\ handles[s].made.thread = {} => handles[s].held

\* A descriptor d over what was made as k: when k is kept, the number is open,
\* as k, and is the handle's or nobody's.
WiresTo(s, k, d) ==
    /\ k = None => d = Nothing
    /\ k \in handles[s].made.kept =>
         /\ d.as = Variant(k) /\ d.number \in Number
         /\ table[d.number] \in {Entry(k, Holds(s)), Entry(k, Std)}

WiredOK(s) ==
    Live(s) /\ handles[s].held =>
        /\ WiresTo(s, handles[s].made.read, handles[s].read)
        /\ WiresTo(s, handles[s].made.write, handles[s].write)

OwnedBy(n, o) == table[n] # Nothing /\ table[n].owner = o

\* What o has open is the kinds ks, each once.
HasOpen(o, ks) ==
    /\ \A n \in Fd : OwnedBy(n, o) => table[n].kind \in ks
    /\ \A k \in ks : \E n \in Fd : OwnedBy(n, o) /\ table[n].kind = k
    /\ \A n, l \in Fd : OwnedBy(n, o) /\ OwnedBy(l, o) /\ table[n].kind = table[l].kind => n = l

OwnOK(s) ==
    IF Live(s) /\ (handles[s].made.thread # {} => handles[s].held)
    THEN /\ HasOpen(Holds(s), handles[s].made.kept \ StdKinds)
         /\ HasOpen(Lends(s), handles[s].made.thread)
    ELSE HasOpen(Holds(s), {}) /\ HasOpen(Lends(s), {})

SlotOK(s) == BuiltOK(s) /\ WiredOK(s) /\ OwnOK(s)

IInv == TypeOK /\ \A s \in Slot : SlotOK(s)

(***************************************************************************)
(* What the constructors make                                              *)
(***************************************************************************)
MadeOK(m) ==
    /\ m \in AllMade
    /\ m.kept \cap m.thread = {} /\ m.thread \cap StdKinds = {}

\* A handle that keeps what its descriptors are over, and the right way round.
FitsWell(m) ==
    /\ m.read \in (m.kept \cap Readable) \cup {None}
    /\ m.write \in (m.kept \cap Writable) \cup {None}

LEMMA Keeping ==
    ASSUME NEW r \in Readable \cup {None}, NEW w \in Writable \cup {None}
    PROVE  MadeOK(Keeps(r, w)) /\ FitsWell(Keeps(r, w))
<1>1. None \notin Kinds /\ Readable \subseteq Kinds /\ Writable \subseteq Kinds
  BY DEF None, Kinds, Readable, Writable
<1>2. Keeps(r, w) \in AllMade
  BY <1>1 DEF Keeps, Made, AllMade
<1> QED
  BY <1>2 DEF Keeps, Made, MadeOK, FitsWell

LEMMA Forgetting ==
    ASSUME NEW r \in Readable \cup {None}, NEW w \in Writable \cup {None}
    PROVE  MadeOK(Forgets(r, w))
<1>1. Readable \subseteq Kinds /\ Writable \subseteq Kinds
  BY DEF Kinds
<1> QED
  BY <1>1 DEF Forgets, Made, AllMade, MadeOK

LEMMA Piping ==
    /\ MadeOK(Made("pipe_reader", None, {"pipe_reader"}, {"pipe_writer"}))
    /\ FitsWell(Made("pipe_reader", None, {"pipe_reader"}, {"pipe_writer"}))
    /\ MadeOK(Made(None, "pipe_writer", {"pipe_writer"}, {"pipe_reader"}))
    /\ FitsWell(Made(None, "pipe_writer", {"pipe_writer"}, {"pipe_reader"}))
<1>1. {"pipe_reader", "pipe_writer"} \subseteq Kinds
  BY DEF Kinds, Readable, Writable
<1>2. /\ Made("pipe_reader", None, {"pipe_reader"}, {"pipe_writer"}) \in AllMade
      /\ Made(None, "pipe_writer", {"pipe_writer"}, {"pipe_reader"}) \in AllMade
  BY <1>1 DEF Made, AllMade
<1> QED
  BY <1>2 DEF Made, MadeOK, FitsWell, StdKinds, Readable, Writable

\* Every constructor but the three over a Command, and the Windows pair of a
\* child's pipes, keeps what its descriptors are over.
Keeper(by) == by \notin Commands /\ ~(platform = "winx" /\ by = "child_stdout_stdin")

LEMMA ReadersMadeWell ==
    ASSUME NEW f \in {PosishReadHandle, WinxReadHandle}, NEW by \in DOMAIN f
    PROVE  MadeOK(f[by]) /\ (by \notin Commands => FitsWell(f[by]))
<1>1. \/ by = "read_from_command" /\ f[by] = Forgets("child_stdout", None)
      \/ /\ by \notin Commands
         /\ \/ f[by] = Made("pipe_reader", None, {"pipe_reader"}, {"pipe_writer"})
            \/ \E r \in Readable : f[by] = Keeps(r, None)
  BY DEF PosishReadHandle, WinxReadHandle, Readable, Commands
<1>2. "child_stdout" \in Readable
  BY DEF Readable
<1> QED
  BY <1>1, <1>2, Keeping, Forgetting, Piping DEF Commands

LEMMA WritersMadeWell ==
    ASSUME NEW f \in {PosishWriteHandle, WinxWriteHandle}, NEW by \in DOMAIN f
    PROVE  MadeOK(f[by]) /\ (by \notin Commands => FitsWell(f[by]))
<1>1. \/ by = "write_to_command" /\ f[by] = Forgets(None, "child_stdin")
      \/ /\ by \notin Commands
         /\ \/ f[by] = Made(None, "pipe_writer", {"pipe_writer"}, {"pipe_reader"})
            \/ \E w \in Writable : f[by] = Keeps(None, w)
  BY DEF PosishWriteHandle, WinxWriteHandle, Writable, Commands
<1>2. "child_stdin" \in Writable
  BY DEF Writable
<1> QED
  BY <1>1, <1>2, Keeping, Forgetting, Piping DEF Commands

LEMMA PairsMadeWell ==
    ASSUME NEW f \in {PosishReadWriteHandle, WinxReadWriteHandle}, NEW by \in DOMAIN f
    PROVE  /\ MadeOK(f[by])
           /\ by \notin Commands /\ (f = PosishReadWriteHandle \/ by # "child_stdout_stdin")
                => FitsWell(f[by])
<1>1. \/ by = "interact_with_command" /\ f[by] = Forgets("child_stdout", "child_stdin")
      \/ /\ by = "child_stdout_stdin" /\ f = WinxReadWriteHandle
         /\ f[by] = Made("child_stdout", "child_stdout", {"child_stdout", "child_stdin"}, {})
      \/ \E r \in Readable, w \in Writable : f[by] = Keeps(r, w)
  BY DEF PosishReadWriteHandle, WinxReadWriteHandle, Readable, Writable
<1>2. "child_stdin" \in Writable /\ "child_stdout" \in Readable
  BY DEF Writable, Readable
<1>3. MadeOK(Made("child_stdout", "child_stdout", {"child_stdout", "child_stdin"}, {}))
  <2>1. {"child_stdout", "child_stdin"} \subseteq Kinds
    BY DEF Kinds, Readable, Writable
  <2> QED
    BY <2>1 DEF MadeOK, Made, AllMade
<1>4. CASE f = WinxReadWriteHandle /\ by = "child_stdout_stdin"
  <2>1. f[by] = Made("child_stdout", "child_stdout", {"child_stdout", "child_stdin"}, {})
    BY <1>4 DEF WinxReadWriteHandle
  <2>2. f # PosishReadWriteHandle
    <3>1. "unix_stream" \in DOMAIN PosishReadWriteHandle
      BY DEF PosishReadWriteHandle
    <3>2. "unix_stream" \notin DOMAIN WinxReadWriteHandle
      BY DEF WinxReadWriteHandle
    <3> QED
      BY <1>4, <3>1, <3>2
  <2> QED
    BY <1>3, <1>4, <2>1, <2>2
<1>5. CASE ~(f = WinxReadWriteHandle /\ by = "child_stdout_stdin")
  BY <1>1, <1>2, <1>5, Keeping, Forgetting DEF Commands
<1> QED
  BY <1>4, <1>5

LEMMA MadeWell ==
    ASSUME platform \in Platforms, NEW f \in Constructors, NEW by \in DOMAIN f
    PROVE  MadeOK(f[by]) /\ (Keeper(by) => FitsWell(f[by]))
<1>1. CASE platform = "posish"
  BY <1>1, ReadersMadeWell, WritersMadeWell, PairsMadeWell DEF Constructors, Keeper
<1>2. CASE platform = "winx"
  BY <1>2, ReadersMadeWell, WritersMadeWell, PairsMadeWell DEF Constructors, Keeper
<1> QED
  BY <1>1, <1>2, PlatformAssumption

(***************************************************************************)
(* The table                                                               *)
(***************************************************************************)
Owners == {App, Std} \cup {Holds(s) : s \in Slot} \cup {Lends(s) : s \in Slot}

LEMMA OwnersDiffer ==
    /\ \A s, t : Holds(s) # Lends(t) /\ (Holds(s) = Holds(t) => s = t) /\ (Lends(s) = Lends(t) => s = t)
    /\ \A s : App # Holds(s) /\ App # Lends(s) /\ Std # Holds(s) /\ Std # Lends(s)
    /\ App # Std
BY DEF Holds, Lends, App, Std

LEMMA EntryIs ==
    ASSUME NEW k \in Kinds, NEW o \in Owners
    PROVE  /\ Entry(k, o) \in Entries /\ Entry(k, o) # Nothing
           /\ Entry(k, o).kind = k /\ Entry(k, o).owner = o
<1>1. Entry(k, o) \in Entries
  BY DEF Entry, Entries, Owners
<1> QED
  BY <1>1, NothingAssumption DEF Entry

LEMMA ClosingIs ==
    ASSUME TypeOK, NEW s \in Slot
    PROVE  /\ Closing(s) \in [Number -> Entries \cup {Nothing}]
           /\ \A n \in Number :
                IF OwnedBy(n, Holds(s)) \/ OwnedBy(n, Lends(s))
                THEN Closing(s)[n] = Nothing ELSE Closing(s)[n] = table[n]
           /\ Closing(s)[StdIn] = table[StdIn] /\ Closing(s)[StdOut] = table[StdOut]
<1>1. /\ Closing(s) \in [Number -> Entries \cup {Nothing}]
      /\ \A n \in Number :
           IF OwnedBy(n, Holds(s)) \/ OwnedBy(n, Lends(s))
           THEN Closing(s)[n] = Nothing ELSE Closing(s)[n] = table[n]
  BY DEF Closing, TypeOK, OwnedBy
<1>2. /\ StdIn \in Number /\ StdOut \in Number
      /\ table[StdIn].owner = Std /\ table[StdOut].owner = Std
  BY DEF TypeOK, Entry, Number
<1> QED
  BY <1>1, <1>2, OwnersDiffer DEF OwnedBy

LEMMA PlacementsAre ==
    ASSUME NEW m, NEW free \in SUBSET Fd, NEW at \in Placements(m, free)
    PROVE  /\ at \in [Opened(m) -> free]
           /\ \A k, l \in Opened(m) : at[k] = at[l] => k = l
           /\ \A k \in Opened(m) : at[k] \in free /\ at[k] \in Fd
BY DEF Placements, Injection, IsInjective

\* The kinds a constructor opens: all it keeps and lends but the std streams.
LEMMA OpenedIs ==
    ASSUME NEW m, MadeOK(m)
    PROVE  /\ m.kept \ StdKinds \subseteq Opened(m) /\ m.thread \subseteq Opened(m)
           /\ Opened(m) \subseteq Kinds /\ Opened(m) \cap StdKinds = {}
           /\ m.kept \subseteq Kinds /\ m.thread \subseteq Kinds /\ None \notin Kinds
           /\ m.kept \cap m.thread = {}
<1>1. None \notin Kinds
  BY DEF None, Kinds, Readable, Writable
<1> QED
  BY <1>1 DEF MadeOK, AllMade, Opened, StdKinds

(***************************************************************************)
(* What a step does to a slot                                              *)
(***************************************************************************)
LEMMA StdOpen ==
    ASSUME TypeOK
    PROVE  /\ StdIn \in Number /\ StdOut \in Number /\ Fd \subseteq Number
           /\ StdIn \notin Fd /\ StdOut \notin Fd
           /\ table[StdIn] = Entry("stdin", Std) /\ table[StdOut] = Entry("stdout", Std)
           /\ table[StdIn] # Nothing /\ table[StdOut] # Nothing
<1>1. Std \in Owners /\ "stdin" \in Kinds /\ "stdout" \in Kinds
  BY DEF Owners, Kinds, Readable, Writable
<1> QED
  BY <1>1, EntryIs, NumbersAssumption DEF TypeOK, Number

\* Nothing of the handle in s moves: not the handle, not what it has open.
LEMMA Elsewhere ==
    ASSUME IInv, NEW s \in Slot, UNCHANGED platform, handles'[s] = handles[s],
           \A n \in Number : OwnedBy(n, Holds(s)) \/ OwnedBy(n, Lends(s)) \/ OwnedBy(n, Std)
                                => table'[n] = table[n],
           \A n \in Number : OwnedBy(n, Holds(s))' \/ OwnedBy(n, Lends(s))'
                                => table'[n] = table[n]
    PROVE  SlotOK(s)'
<1>1. \A n \in Fd : n \in Number
  BY DEF Number
<1>2. \A n \in Fd, o \in {Holds(s), Lends(s)} :
        /\ OwnedBy(n, o)' <=> OwnedBy(n, o)
        /\ OwnedBy(n, o) => table'[n] = table[n]
  BY <1>1 DEF OwnedBy
<1>3. ASSUME NEW o \in {Holds(s), Lends(s)}, NEW ks, HasOpen(o, ks)
      PROVE  HasOpen(o, ks)'
  <2>1. \A n \in Fd : (OwnedBy(n, o)' <=> OwnedBy(n, o)) /\ (OwnedBy(n, o) => table'[n] = table[n])
    BY <1>2
  <2> QED
    BY <1>3, <2>1 DEF HasOpen
<1>4. SlotOK(s)
  BY DEF IInv
<1>5. OwnOK(s)'
  <2>1. OwnOK(s) /\ (Live(s)' <=> Live(s))
    BY <1>4 DEF SlotOK, Live
  <2> QED
    BY <1>3, <2>1 DEF OwnOK
<1>6. BuiltOK(s)'
  BY <1>4 DEF SlotOK, BuiltOK, Live, Constructors
<1>7. WiredOK(s)'
  <2>1. ASSUME Live(s), handles[s].held,
               NEW k \in {handles[s].made.read, handles[s].made.write},
               NEW d, WiresTo(s, k, d)
        PROVE  WiresTo(s, k, d)'
    <3>1. ASSUME k \in handles[s].made.kept
          PROVE  table'[d.number] = table[d.number]
      <4>1. k \in Kinds
        <5>1. handles[s].made.kept \subseteq Kinds
          BY <2>1 DEF IInv, TypeOK, Live, AllHandles, AllMade
        <5> QED
          BY <3>1, <5>1
      <4>2. d.number \in Number /\ table[d.number] \in {Entry(k, Holds(s)), Entry(k, Std)}
        BY <2>1, <3>1 DEF WiresTo
      <4>3. Holds(s) \in Owners /\ Std \in Owners
        BY DEF Owners
      <4> QED
        BY <4>1, <4>2, <4>3, EntryIs DEF OwnedBy
    <3> QED
      BY <2>1, <3>1 DEF WiresTo, Variant
  <2> QED
    BY <1>4, <2>1 DEF SlotOK, WiredOK, Live
<1> QED
  BY <1>5, <1>6, <1>7 DEF SlotOK

\* The handle in s is gone, or has lost its pipe and thread.
LEMMA Emptied ==
    ASSUME IInv, NEW s \in Slot, UNCHANGED platform, table' = Closing(s),
           \/ handles'[s] = Nothing
           \/ /\ HasThread(s)
              /\ handles'[s] = [handles[s] EXCEPT !.held = FALSE]
    PROVE  SlotOK(s)'
<1>1. TypeOK /\ SlotOK(s)
  BY DEF IInv
<1>2. \A n \in Fd : ~OwnedBy(n, Holds(s))' /\ ~OwnedBy(n, Lends(s))'
  <2>1. \A n \in Fd : n \in Number
    BY DEF Number
  <2> QED
    BY <1>1, <2>1, ClosingIs DEF OwnedBy
<1>3. HasOpen(Holds(s), {})' /\ HasOpen(Lends(s), {})'
  BY <1>2 DEF HasOpen
<1>4. CASE handles'[s] = Nothing
  BY <1>3, <1>4 DEF SlotOK, BuiltOK, WiredOK, OwnOK, Live
<1>5. CASE HasThread(s) /\ handles'[s] = [handles[s] EXCEPT !.held = FALSE]
  <2>1. /\ Live(s) /\ handles[s] \in AllHandles /\ handles[s].made.thread # {}
        /\ handles'[s].by = handles[s].by /\ handles'[s].made = handles[s].made
        /\ ~handles'[s].held
    BY <1>1, <1>5 DEF HasThread, Live, TypeOK, AllHandles
  <2>2. BuiltOK(s)'
    BY <1>1, <2>1 DEF SlotOK, BuiltOK, Constructors
  <2>3. WiredOK(s)' /\ OwnOK(s)'
    BY <1>3, <2>1 DEF WiredOK, OwnOK
  <2> QED
    BY <2>2, <2>3 DEF SlotOK
<1> QED
  BY <1>4, <1>5

\* Only what the handle in s has open, or what is free, is touched.
Touches(s) ==
    \A n \in Number : ~OwnedBy(n, Holds(s)) /\ ~OwnedBy(n, Lends(s)) /\ table[n] # Nothing
                         => table'[n] = table[n]

\* What is new is the handle's.
Gives(s) ==
    \A n \in Number : ~OwnedBy(n, Holds(s))' /\ ~OwnedBy(n, Lends(s))' /\ table'[n] # Nothing
                         => table'[n] = table[n]

\* A step of one handle leaves the others as they are.
LEMMA OthersStay ==
    ASSUME IInv, NEW s \in Slot, NEW t \in Slot, t # s, UNCHANGED platform,
           handles'[t] = handles[t], Touches(s), Gives(s)
    PROVE  SlotOK(t)'
<1>1. \A n \in Number : OwnedBy(n, Holds(t)) \/ OwnedBy(n, Lends(t)) \/ OwnedBy(n, Std)
                           => table'[n] = table[n]
  BY OwnersDiffer DEF Touches, OwnedBy
<1>2. \A n \in Number : OwnedBy(n, Holds(t))' \/ OwnedBy(n, Lends(t))' => table'[n] = table[n]
  BY OwnersDiffer DEF Gives, OwnedBy
<1> QED
  BY <1>1, <1>2, Elsewhere

LEMMA ClosingTouches ==
    ASSUME TypeOK, NEW s \in Slot, table' = Closing(s)
    PROVE  Touches(s) /\ Gives(s)
BY ClosingIs DEF Touches, Gives, OwnedBy

\* A handle fresh from its constructor.
LEMMA HandleIs ==
    ASSUME TypeOK, NEW m, MadeOK(m), NEW by \in Names, NEW free \in SUBSET Fd,
           NEW at \in Placements(m, free)
    PROVE  /\ Handle(m, by, at) \in AllHandles /\ Handle(m, by, at) # Nothing
           /\ Handle(m, by, at).made = m /\ Handle(m, by, at).by = by /\ Handle(m, by, at).held
           /\ Handle(m, by, at).read = Descriptor(m.read, at)
           /\ Handle(m, by, at).write = Descriptor(m.write, at)
<1>1. ASSUME NEW k \in {m.read, m.write} PROVE Descriptor(k, at) \in Descriptors
  <2>1. CASE k = None
    BY <2>1 DEF Descriptor, Descriptors
  <2>2. CASE k # None
    <3>1. NumberOf(k, at) \in Number
      <4>1. CASE k \in StdKinds
        BY <4>1, StdOpen DEF NumberOf, StdKinds
      <4>2. CASE k \notin StdKinds
        <5>1. k \in Opened(m)
          BY <2>2, <4>2 DEF Opened, StdKinds
        <5>2. at[k] \in Fd
          BY <5>1, PlacementsAre
        <5> QED
          BY <4>2, <5>2, StdOpen DEF NumberOf, StdKinds
      <4> QED
        BY <4>1, <4>2
    <3>2. Variant(k) \in {"File", "Socket"}
      BY DEF Variant
    <3> QED
      BY <2>2, <3>1, <3>2 DEF Descriptor, Descriptors
  <2> QED
    BY <2>1, <2>2
<1>2. Handle(m, by, at) \in AllHandles
  <2>1. Descriptor(m.read, at) \in Descriptors /\ Descriptor(m.write, at) \in Descriptors
    BY <1>1
  <2>2. m \in AllMade
    BY DEF MadeOK
  <2> QED
    BY <2>1, <2>2 DEF Handle, AllHandles
<1>3. Handle(m, by, at) # Nothing
  BY <1>2, NothingAssumption
<1> QED
  BY <1>2, <1>3 DEF Handle

LEMMA NamesAre ==
    ASSUME NEW f \in Constructors, NEW by \in DOMAIN f
    PROVE  by \in Names
BY DEF Constructors, Names

\* A handle is put in s with what its constructor opens.
Install(s, m, by, at) ==
    /\ at \in Placements(m, {n \in Fd : Closing(s)[n] = Nothing})
    /\ table' = Placed(Closing(s), s, m, at)
    /\ handles' = [handles EXCEPT ![s] = Handle(m, by, at)]
    /\ UNCHANGED platform

\* Where everything is afterwards: what the constructor keeps and what its
\* thread gets are at the places chosen for them, all else is as it was.
LEMMA InstalledIs ==
    ASSUME TypeOK, NEW s \in Slot, NEW m, MadeOK(m), NEW by, NEW at, Install(s, m, by, at)
    PROVE  /\ \A k \in Opened(m) :
                /\ at[k] \in Fd /\ at[k] \in Number /\ Closing(s)[at[k]] = Nothing
                /\ table'[at[k]] = IF k \in m.kept THEN Entry(k, Holds(s))
                                   ELSE IF k \in m.thread THEN Entry(k, Lends(s)) ELSE Nothing
           /\ \A k, l \in Opened(m) : at[k] = at[l] => k = l
           /\ \A n \in Number : (\A k \in Opened(m) : at[k] # n) => table'[n] = Closing(s)[n]
<1> DEFINE free == {n \in Fd : Closing(s)[n] = Nothing}
<1>1. free \in SUBSET Fd /\ at \in Placements(m, free)
  BY DEF Install
<1>2. /\ at \in [Opened(m) -> free] /\ DOMAIN at = Opened(m)
      /\ \A k, l \in Opened(m) : at[k] = at[l] => k = l
      /\ \A k \in Opened(m) : at[k] \in free /\ at[k] \in Fd /\ at[k] \in Number
  <2> HIDE DEF free
  <2> QED
    BY <1>1, PlacementsAre DEF Number
<1>3. ASSUME NEW k \in Opened(m)
      PROVE  table'[at[k]] = IF k \in m.kept THEN Entry(k, Holds(s))
                             ELSE IF k \in m.thread THEN Entry(k, Lends(s)) ELSE Nothing
  <2>1. (CHOOSE l \in DOMAIN at : at[l] = at[k]) = k
    BY <1>2
  <2> QED
    BY <1>2, <2>1 DEF Placed, Install
<1>4. ASSUME NEW n \in Number, \A k \in Opened(m) : at[k] # n
      PROVE  table'[n] = Closing(s)[n]
  BY <1>2, <1>4 DEF Placed, Install
<1> QED
  BY <1>2, <1>3, <1>4

LEMMA InstalledOwn ==
    ASSUME TypeOK, NEW s \in Slot, NEW m, MadeOK(m), NEW by, NEW at, Install(s, m, by, at)
    PROVE  /\ HasOpen(Holds(s), m.kept \ StdKinds)'
           /\ HasOpen(Lends(s), m.thread)'
           /\ Touches(s) /\ Gives(s)
<1>1. /\ m.kept \ StdKinds \subseteq Opened(m) /\ m.thread \subseteq Opened(m)
      /\ Opened(m) \subseteq Kinds /\ m.kept \cap m.thread = {} /\ Opened(m) \cap StdKinds = {}
  BY OpenedIs
<1>2. Holds(s) \in Owners /\ Lends(s) \in Owners /\ Holds(s) # Lends(s)
  BY OwnersDiffer DEF Owners
<1>3. ASSUME NEW k \in Opened(m)
      PROVE  /\ k \in m.kept => /\ OwnedBy(at[k], Holds(s))' /\ table'[at[k]].kind = k
                                /\ ~OwnedBy(at[k], Lends(s))'
             /\ k \in m.thread => /\ OwnedBy(at[k], Lends(s))' /\ table'[at[k]].kind = k
                                  /\ ~OwnedBy(at[k], Holds(s))'
             /\ k \notin m.kept \cup m.thread => table'[at[k]] = Nothing
  <2>1. k \in Kinds
    BY <1>1
  <2>2. /\ Entry(k, Holds(s)) # Nothing /\ Entry(k, Holds(s)).kind = k
        /\ Entry(k, Holds(s)).owner = Holds(s)
        /\ Entry(k, Lends(s)) # Nothing /\ Entry(k, Lends(s)).kind = k
        /\ Entry(k, Lends(s)).owner = Lends(s)
    BY <1>2, <2>1, EntryIs
  <2>3. table'[at[k]] = IF k \in m.kept THEN Entry(k, Holds(s))
                        ELSE IF k \in m.thread THEN Entry(k, Lends(s)) ELSE Nothing
    BY InstalledIs
  <2> QED
    BY <1>1, <1>2, <2>2, <2>3 DEF OwnedBy
<1>4. ASSUME NEW n \in Number, \A k \in Opened(m) : at[k] # n
      PROVE  table'[n] = Closing(s)[n] /\ ~OwnedBy(n, Holds(s))' /\ ~OwnedBy(n, Lends(s))'
  <2>1. table'[n] = Closing(s)[n]
    BY <1>4, InstalledIs
  <2> QED
    BY <2>1, ClosingIs DEF OwnedBy
<1>5. \A n \in Fd : n \in Number
  BY DEF Number
<1>6. ASSUME NEW n \in Fd
      PROVE  /\ OwnedBy(n, Holds(s))' => \E k \in m.kept \ StdKinds : k \in Opened(m) /\ n = at[k]
             /\ OwnedBy(n, Lends(s))' => \E k \in m.thread : k \in Opened(m) /\ n = at[k]
  <2>1. CASE \A k \in Opened(m) : at[k] # n
    BY <1>4, <1>5, <2>1
  <2>2. ASSUME NEW k \in Opened(m), at[k] = n
        PROVE  /\ OwnedBy(n, Holds(s))' => k \in m.kept \ StdKinds
               /\ OwnedBy(n, Lends(s))' => k \in m.thread
    BY <1>1, <1>3, <2>2 DEF OwnedBy
  <2> QED
    BY <2>1, <2>2
<1>7. \A k, l \in Opened(m) : at[k] = at[l] => k = l
  BY InstalledIs
<1>8. \A k \in Opened(m) : at[k] \in Fd /\ at[k] \in Number /\ Closing(s)[at[k]] = Nothing
  BY InstalledIs
<1>9. HasOpen(Holds(s), m.kept \ StdKinds)'
  <2>1. \A k \in m.kept \ StdKinds :
          k \in Opened(m) /\ at[k] \in Fd /\ OwnedBy(at[k], Holds(s))' /\ table'[at[k]].kind = k
    BY <1>1, <1>3, <1>8
  <2> QED
    BY <1>6, <2>1 DEF HasOpen
<1>10. HasOpen(Lends(s), m.thread)'
  <2>1. \A k \in m.thread :
          k \in Opened(m) /\ at[k] \in Fd /\ OwnedBy(at[k], Lends(s))' /\ table'[at[k]].kind = k
    BY <1>1, <1>3, <1>8
  <2> QED
    BY <1>6, <2>1 DEF HasOpen
<1>11. Touches(s)
  <2>1. ASSUME NEW n \in Number, ~OwnedBy(n, Holds(s)), ~OwnedBy(n, Lends(s)), table[n] # Nothing
        PROVE  table'[n] = table[n]
    <3>1. Closing(s)[n] = table[n]
      BY <2>1, ClosingIs
    <3>2. \A k \in Opened(m) : at[k] # n
      BY <1>8, <2>1, <3>1
    <3> QED
      BY <1>4, <3>1, <3>2
  <2> QED
    BY <2>1 DEF Touches
<1>12. Gives(s)
  <2>1. ASSUME NEW n \in Number, ~OwnedBy(n, Holds(s))', ~OwnedBy(n, Lends(s))', table'[n] # Nothing
        PROVE  table'[n] = table[n]
    <3>1. \A k \in Opened(m) : at[k] # n
      BY <1>3, <2>1 DEF OwnedBy
    <3>2. table'[n] = Closing(s)[n]
      BY <1>4, <3>1
    <3> QED
      BY <2>1, <3>2, ClosingIs
  <2> QED
    BY <2>1 DEF Gives
<1> QED
  BY <1>9, <1>10, <1>11, <1>12

\* The standard streams stay where they are.
LEMMA InstalledStd ==
    ASSUME TypeOK, NEW s \in Slot, NEW m, MadeOK(m), NEW by, NEW at, Install(s, m, by, at)
    PROVE  table'[StdIn] = Entry("stdin", Std) /\ table'[StdOut] = Entry("stdout", Std)
<1>1. \A k \in Opened(m) : at[k] # StdIn /\ at[k] # StdOut
  BY InstalledIs, StdOpen
<1>2. table'[StdIn] = Closing(s)[StdIn] /\ table'[StdOut] = Closing(s)[StdOut]
  BY <1>1, InstalledIs, StdOpen
<1> QED
  BY <1>2, ClosingIs, StdOpen

LEMMA InstalledType ==
    ASSUME TypeOK, NEW s \in Slot, NEW m, MadeOK(m), NEW by \in Names, NEW at, Install(s, m, by, at)
    PROVE  TypeOK'
<1>1. table' \in [Number -> Entries \cup {Nothing}]
  <2>1. ASSUME NEW n \in Number PROVE table'[n] \in Entries \cup {Nothing}
    <3>1. CASE \A k \in Opened(m) : at[k] # n
      BY <3>1, InstalledIs, ClosingIs
    <3>2. ASSUME NEW k \in Opened(m), at[k] = n PROVE table'[n] \in Entries \cup {Nothing}
      <4>1. k \in Kinds /\ Holds(s) \in Owners /\ Lends(s) \in Owners
        BY OpenedIs DEF Owners
      <4>2. Entry(k, Holds(s)) \in Entries /\ Entry(k, Lends(s)) \in Entries
        BY <4>1, EntryIs
      <4>3. table'[at[k]] \in {Entry(k, Holds(s)), Entry(k, Lends(s)), Nothing}
        BY InstalledIs
      <4> QED
        BY <3>2, <4>2, <4>3
    <3> QED
      BY <3>1, <3>2
  <2>2. table' = [n \in Number |-> table'[n]]
    BY DEF Install, Placed
  <2> QED
    BY <2>1, <2>2
<1>2. handles' \in [Slot -> AllHandles \cup {Nothing}]
  <2> DEFINE free == {n \in Fd : Closing(s)[n] = Nothing}
             h == Handle(m, by, at)
  <2>1. free \in SUBSET Fd /\ at \in Placements(m, free) /\ handles' = [handles EXCEPT ![s] = h]
    BY DEF Install
  <2>2. h \in AllHandles
    <3> HIDE DEF free
    <3> QED
      BY <2>1, HandleIs
  <2> HIDE DEF h
  <2> QED
    BY <2>1, <2>2 DEF TypeOK
<1> QED
  BY <1>1, <1>2, InstalledStd DEF TypeOK, Install

LEMMA InstalledSlot ==
    ASSUME IInv, NEW s \in Slot, NEW f \in Constructors, NEW by \in DOMAIN f, NEW at,
           Install(s, f[by], by, at)
    PROVE  SlotOK(s)'
<1> DEFINE m == f[by]
           free == {n \in Fd : Closing(s)[n] = Nothing}
<1>1. TypeOK /\ by \in Names /\ MadeOK(m) /\ platform \in Platforms
  BY MadeWell, NamesAre DEF IInv, TypeOK
<1>2. /\ free \in SUBSET Fd /\ at \in Placements(m, free)
      /\ handles' = [handles EXCEPT ![s] = Handle(m, by, at)] /\ UNCHANGED platform
      /\ Install(s, m, by, at)
  BY DEF Install
<1>3. m = f[by]
  OBVIOUS
<1> HIDE DEF m, free
<1>4. handles'[s] = Handle(m, by, at)
  BY <1>1, <1>2 DEF TypeOK
<1>5. /\ handles'[s] # Nothing /\ handles'[s].made = m /\ handles'[s].by = by
      /\ handles'[s].held
      /\ handles'[s].read = Descriptor(m.read, at) /\ handles'[s].write = Descriptor(m.write, at)
  BY <1>1, <1>2, <1>4, HandleIs
<1>6. BuiltOK(s)'
  BY <1>2, <1>3, <1>5 DEF BuiltOK, Constructors
<1>7. OwnOK(s)'
  <2>1. HasOpen(Holds(s), m.kept \ StdKinds)' /\ HasOpen(Lends(s), m.thread)'
    BY <1>1, <1>2, InstalledOwn
  <2> QED
    BY <1>5, <2>1 DEF OwnOK, Live
<1>8. ASSUME NEW k \in {m.read, m.write} PROVE WiresTo(s, k, Descriptor(k, at))'
  <2>1. ASSUME k = None PROVE Descriptor(k, at)' = Nothing
    BY <2>1 DEF Descriptor
  <2>2. ASSUME k \in m.kept
        PROVE  /\ Descriptor(k, at)'.as = Variant(k)' /\ Descriptor(k, at)'.number \in Number
               /\ table'[Descriptor(k, at)'.number] \in {Entry(k, Holds(s)), Entry(k, Std)}
    <3>1. k # None /\ k \in Kinds
      BY <1>1, <2>2, OpenedIs
    <3>2. Descriptor(k, at)' = [as |-> Variant(k)', number |-> NumberOf(k, at)]
      BY <3>1 DEF Descriptor
    <3>3. NumberOf(k, at) \in Number /\ table'[NumberOf(k, at)] \in {Entry(k, Holds(s)), Entry(k, Std)}
      <4>1. CASE k \in StdKinds
        BY <1>1, <1>2, <4>1, InstalledStd, StdOpen DEF NumberOf, StdKinds
      <4>2. CASE k \notin StdKinds
        <5>1. k \in Opened(m)
          BY <1>1, <2>2, <4>2, OpenedIs
        <5>2. at[k] \in Number /\ table'[at[k]] = Entry(k, Holds(s))
          BY <1>1, <1>2, <2>2, <5>1, InstalledIs
        <5> QED
          BY <4>2, <5>2 DEF NumberOf, StdKinds
      <4> QED
        BY <4>1, <4>2
    <3> QED
      BY <3>2, <3>3
  <2>3. k \in handles'[s].made.kept <=> k \in m.kept
    BY <1>5
  <2> QED
    BY <2>1, <2>2, <2>3 DEF WiresTo
<1>9. WiredOK(s)'
  <2>1. /\ WiresTo(s, m.read, Descriptor(m.read, at))'
        /\ WiresTo(s, m.write, Descriptor(m.write, at))'
    BY <1>8
  <2>2. Descriptor(m.read, at)' = Descriptor(m.read, at) /\ Descriptor(m.write, at)' = Descriptor(m.write, at)
    BY <1>2 DEF Descriptor, Variant
  <2> QED
    BY <1>5, <2>1, <2>2 DEF WiredOK
<1> QED
  BY <1>6, <1>7, <1>9 DEF SlotOK

LEMMA InstallInv ==
    ASSUME IInv, NEW s \in Slot, NEW f \in Constructors, NEW by \in DOMAIN f, NEW at,
           Install(s, f[by], by, at)
    PROVE  IInv' /\ Touches(s) /\ \A t \in Slot : t # s => handles'[t] = handles[t]
<1>1. TypeOK /\ by \in Names /\ MadeOK(f[by])
  BY MadeWell, NamesAre DEF IInv, TypeOK
<1>2. TypeOK' /\ Touches(s) /\ Gives(s)
  BY <1>1, InstalledType, InstalledOwn
<1>3. \A t \in Slot : t # s => handles'[t] = handles[t]
  BY <1>1 DEF Install, TypeOK
<1>4. \A t \in Slot : t # s => SlotOK(t)'
  BY <1>2, <1>3, OthersStay DEF Install
<1> QED
  BY <1>2, <1>3, <1>4, InstalledSlot DEF IInv

(***************************************************************************)
(* The actions                                                             *)
(***************************************************************************)
\* What every step of the handle in s comes to.
Only(s) == Touches(s) /\ \A t \in Slot : t # s => handles'[t] = handles[t]

LEMMA BuildInv ==
    ASSUME IInv, NEW s \in Slot, Build(s)
    PROVE  IInv' /\ Only(s)
<1>1. TypeOK /\ OwnOK(s) /\ handles[s] = Nothing
  BY DEF IInv, SlotOK, Build
<1>2. Closing(s) = table
  <2>1. \A n \in Fd : ~OwnedBy(n, Holds(s)) /\ ~OwnedBy(n, Lends(s))
    BY <1>1 DEF OwnOK, Live, HasOpen
  <2>2. /\ ~OwnedBy(StdIn, Holds(s)) /\ ~OwnedBy(StdIn, Lends(s))
        /\ ~OwnedBy(StdOut, Holds(s)) /\ ~OwnedBy(StdOut, Lends(s))
    BY <1>1, OwnersDiffer DEF TypeOK, OwnedBy, Entry
  <2>3. \A n \in Number : ~OwnedBy(n, Holds(s)) /\ ~OwnedBy(n, Lends(s))
    BY <2>1, <2>2 DEF Number
  <2>4. \A n \in Number : Closing(s)[n] = table[n]
    BY <1>1, <2>3, ClosingIs
  <2> QED
    BY <1>1, <2>4, ClosingIs DEF TypeOK
<1>3. PICK f \in Constructors : \E by \in DOMAIN f : \E at : Install(s, f[by], by, at)
  BY <1>2 DEF Build, Install, Free
<1>4. PICK by \in DOMAIN f : \E at : Install(s, f[by], by, at)
  BY <1>3
<1> QED
  BY <1>4, InstallInv DEF Only

LEMMA FlushInv ==
    ASSUME IInv, NEW s \in Slot, Flush(s)
    PROVE  IInv' /\ Only(s)
<1>1. BuiltOK(s) /\ Live(s)
  BY DEF IInv, SlotOK, Flush, HasThread
<1>2. PICK f \in Constructors : /\ handles[s].by \in DOMAIN f
                                /\ handles[s].made = f[handles[s].by]
  BY <1>1 DEF BuiltOK
<1>3. PICK at : Install(s, handles[s].made, handles[s].by, at)
  BY DEF Flush, Install
<1> QED
  BY <1>2, <1>3, InstallInv DEF Only

\* A drop, or the loss of the thread.
LEMMA ClosingInv ==
    ASSUME IInv, NEW s \in Slot, LoseThread(s) \/ Drop(s)
    PROVE  IInv' /\ Only(s)
<1>1. TypeOK /\ table' = Closing(s) /\ UNCHANGED platform /\ Live(s)
  BY DEF IInv, LoseThread, Drop, HasThread
<1>2. \/ handles'[s] = Nothing
      \/ HasThread(s) /\ handles'[s] = [handles[s] EXCEPT !.held = FALSE]
  BY <1>1 DEF LoseThread, Drop, TypeOK
<1>3. \A t \in Slot : t # s => handles'[t] = handles[t]
  BY <1>1 DEF LoseThread, Drop, TypeOK
<1>4. handles' \in [Slot -> AllHandles \cup {Nothing}]
  <2>1. handles[s] \in AllHandles
    BY <1>1 DEF TypeOK, Live
  <2>2. [handles[s] EXCEPT !.held = FALSE] \in AllHandles
    BY <2>1 DEF AllHandles
  <2> HIDE DEF AllHandles
  <2> QED
    BY <1>1, <2>2 DEF LoseThread, Drop, TypeOK
<1>5. TypeOK'
  BY <1>1, <1>4, ClosingIs DEF TypeOK
<1>6. SlotOK(s)'
  BY <1>1, <1>2, Emptied
<1>7. Touches(s) /\ Gives(s)
  BY <1>1, ClosingTouches
<1>8. \A t \in Slot : t # s => SlotOK(t)'
  BY <1>1, <1>3, <1>7, OthersStay
<1> QED
  BY <1>3, <1>5, <1>6, <1>7, <1>8 DEF IInv, Only

\* The application's own files are nobody else's.
LEMMA AppInv ==
    ASSUME IInv, AppOpens \/ AppCloses
    PROVE  IInv' /\ UNCHANGED handles
<1>1. TypeOK /\ App \in Owners /\ "file" \in Kinds /\ UNCHANGED <<platform, handles>>
  BY DEF IInv, Owners, Kinds, Readable, AppOpens, AppCloses
<1>2. Entry("file", App) \in Entries /\ Entry("file", App) # Nothing /\ Entry("file", App).owner = App
  BY <1>1, EntryIs
<1>3. PICK n \in Fd, e \in {Entry("file", App), Nothing} :
        /\ table' = [table EXCEPT ![n] = e]
        /\ table[n] \in {Entry("file", App), Nothing}
  BY DEF AppOpens, AppCloses, Free
<1>4. TypeOK'
  <2>1. table' \in [Number -> Entries \cup {Nothing}]
    BY <1>1, <1>2, <1>3 DEF TypeOK
  <2>2. table'[StdIn] = table[StdIn] /\ table'[StdOut] = table[StdOut]
    BY <1>1, <1>3, StdOpen DEF TypeOK
  <2> QED
    BY <1>1, <2>1, <2>2 DEF TypeOK
<1>5. \A l \in Number : l # n => table'[l] = table[l]
  BY <1>1, <1>3 DEF TypeOK
<1>6. table'[n] = e
  BY <1>1, <1>3, StdOpen DEF TypeOK
<1>7. ASSUME NEW s \in Slot PROVE SlotOK(s)'
  <2>1. /\ ~OwnedBy(n, Holds(s)) /\ ~OwnedBy(n, Lends(s)) /\ ~OwnedBy(n, Std)
        /\ ~OwnedBy(n, Holds(s))' /\ ~OwnedBy(n, Lends(s))'
    BY <1>2, <1>3, <1>6, OwnersDiffer DEF OwnedBy
  <2>2. /\ \A l \in Number : OwnedBy(l, Holds(s)) \/ OwnedBy(l, Lends(s)) \/ OwnedBy(l, Std)
                                => table'[l] = table[l]
        /\ \A l \in Number : OwnedBy(l, Holds(s))' \/ OwnedBy(l, Lends(s))'
                                => table'[l] = table[l]
    BY <1>5, <2>1
  <2> QED
    BY <1>1, <2>2, Elsewhere
<1> QED
  BY <1>1, <1>4, <1>7 DEF IInv

\* Nothing but io moves.
LEMMA IdleInv ==
    ASSUME IInv, UNCHANGED <<platform, table, handles>>
    PROVE  IInv'
<1>1. TypeOK'
  BY DEF IInv, TypeOK
<1>2. ASSUME NEW s \in Slot PROVE SlotOK(s)'
  BY Elsewhere
<1> QED
  BY <1>1, <1>2 DEF IInv

LEMMA InitInv ==
    ASSUME Init
    PROVE  IInv
<1>1. Std \in Owners /\ "stdin" \in Kinds /\ "stdout" \in Kinds
  BY DEF Owners, Kinds, Readable, Writable
<1>2. /\ Entry("stdin", Std) \in Entries /\ Entry("stdin", Std) # Nothing
      /\ Entry("stdout", Std) \in Entries /\ Entry("stdout", Std) # Nothing
  BY <1>1, EntryIs
<1>3. TypeOK
  <2>1. table \in [Number -> Entries \cup {Nothing}]
    BY <1>2 DEF Init
  <2>2. table[StdIn] = Entry("stdin", Std) /\ table[StdOut] = Entry("stdout", Std)
    BY NumbersAssumption DEF Init, Number
  <2>3. handles \in [Slot -> AllHandles \cup {Nothing}]
    BY DEF Init
  <2> QED
    BY <2>1, <2>2, <2>3 DEF Init, TypeOK
<1>4. \A n \in Fd : table[n] = Nothing
  BY NumbersAssumption DEF Init, Number
<1>5. ASSUME NEW s \in Slot PROVE SlotOK(s)
  <2>1. ~Live(s)
    BY DEF Init, Live
  <2>2. HasOpen(Holds(s), {}) /\ HasOpen(Lends(s), {})
    BY <1>4 DEF HasOpen, OwnedBy
  <2> QED
    BY <2>1, <2>2 DEF SlotOK, BuiltOK, WiredOK, OwnOK
<1> QED
  BY <1>3, <1>5 DEF IInv

\* One step of the specification, and whom it touches.
LEMMA StepInv ==
    ASSUME IInv, [Next]_vars
    PROVE  IInv' /\ (UNCHANGED handles \/ \E s \in Slot : Only(s))
<1>1. ASSUME NEW s \in Slot, Build(s) PROVE IInv' /\ Only(s)
  BY <1>1, BuildInv
<1>2. ASSUME NEW s \in Slot, Flush(s) PROVE IInv' /\ Only(s)
  BY <1>2, FlushInv
<1>3. ASSUME NEW s \in Slot, LoseThread(s) \/ Drop(s) PROVE IInv' /\ Only(s)
  BY <1>3, ClosingInv
<1>4. ASSUME NEW s \in Slot, NEW d \in {"read", "write"}, Transfer(s, d)
      PROVE  IInv' /\ UNCHANGED handles
  BY <1>4, IdleInv DEF Transfer
<1>5. ASSUME AppOpens \/ AppCloses PROVE IInv' /\ UNCHANGED handles
  BY <1>5, AppInv
<1>6. ASSUME UNCHANGED vars PROVE IInv' /\ UNCHANGED handles
  BY <1>6, IdleInv DEF vars
<1> QED
  BY <1>1, <1>2, <1>3, <1>4, <1>5, <1>6 DEF Next, Uses

\* The invariant every theorem below rests on.
LEMMA InvariantHolds == Spec => []IInv
<1>1. Init => IInv
  BY InitInv
<1>2. IInv /\ [Next]_vars => IInv'
  BY StepInv
<1> QED
  BY <1>1, <1>2, PTL DEF Spec

(***************************************************************************)
(* The theorems                                                            *)
(***************************************************************************)

\* The tables of open descriptors and of handles are always well formed, and
\* the standard streams are always open: no constructor, flush, error or drop
\* of a handle over them closes them.
THEOREM TypeCorrect == Spec => []TypeOK
<1>1. IInv => TypeOK
  BY DEF IInv
<1> QED
  BY <1>1, InvariantHolds, PTL

\* A descriptor of the handle, over what its constructor keeps.
LEMMA ReachesItsOwn ==
    ASSUME IInv, NEW s \in Slot, NEW d \in {"read", "write"}, Live(s), Sound(s),
           handles[s][d] # Nothing
    PROVE  IsOwn(Reach(handles[s][d]), s, d)
<1> DEFINE m == handles[s].made
<1>1. TypeOK /\ BuiltOK(s) /\ WiredOK(s) /\ platform \in Platforms
  BY DEF IInv, TypeOK, SlotOK
<1>2. FitsWell(m) /\ MadeOK(m)
  <2>1. PICK f \in Constructors : handles[s].by \in DOMAIN f /\ m = f[handles[s].by]
    BY <1>1 DEF BuiltOK
  <2>2. Keeper(handles[s].by)
    BY DEF Sound, Keeper
  <2> QED
    BY <1>1, <2>1, <2>2, MadeWell
<1>3. WiresTo(s, m.read, handles[s].read) /\ WiresTo(s, m.write, handles[s].write)
  BY <1>1 DEF WiredOK, Sound
<1>4. PICK k \in m.kept \cap Wants(d) : WiresTo(s, k, handles[s][d])
  <2>1. CASE d = "read"
    BY <1>2, <1>3, <2>1 DEF FitsWell, Wants, WiresTo
  <2>2. CASE d = "write"
    BY <1>2, <1>3, <2>2 DEF FitsWell, Wants, WiresTo
  <2> QED
    BY <2>1, <2>2
<1> DEFINE n == handles[s][d].number
           e == table[n]
<1>5. /\ handles[s][d].as = Variant(k) /\ n \in Number
      /\ e \in {Entry(k, Holds(s)), Entry(k, Std)}
  BY <1>4 DEF WiresTo
<1>6. k \in Kinds /\ Holds(s) \in Owners /\ Std \in Owners
  BY <1>2, <1>4 DEF MadeOK, AllMade, Owners
<1>7. e # Nothing /\ e.kind = k /\ e.owner \in {Holds(s), Std}
  <2> HIDE DEF e
  <2> QED
    BY <1>5, <1>6, EntryIs
<1>8. Reach(handles[s][d]) = e
  <2>1. platform = "winx" => (handles[s][d].as = "Socket" <=> e.kind \in Socket)
    BY <1>5, <1>7 DEF Variant
  <2> QED
    BY <1>7, <2>1 DEF Reach
<1> HIDE DEF e
<1> QED
  BY <1>4, <1>7, <1>8 DEF IsOwn

\* What the documentation of the resources promises: the descriptors of a
\* handle stay open, its own, the right way round and of the right variant, as
\* long as it lives, through every construction, flush, error and drop, whatever
\* numbers are used again and however many handles there are.  The constructors
\* that forget a child's pipes are excepted (see NoForeignIO).
THEOREM DescriptorsStayLive == Spec => []DescriptorsLive
<1>1. IInv => DescriptorsLive
  BY ReachesItsOwn DEF DescriptorsLive
<1> QED
  BY <1>1, InvariantHolds, PTL

\* Nothing leaks, nothing is closed twice: what a handle and its thread have
\* open is what its constructor took, each once, and nothing is left of it
\* when the handle, or its pipe and thread, are gone.
THEOREM EveryNumberHasOneOwner == Spec => []OneOwner
<1>1. ASSUME IInv PROVE OneOwner
  <2>1. ASSUME NEW s \in Slot PROVE OwnOK(s)
    BY <1>1 DEF IInv, SlotOK
  <2> QED
    BY <2>1 DEF OwnOK, OneOwner, HasOpen, OwnedBy, StdKinds
<1> QED
  BY <1>1, InvariantHolds, PTL

\* Construction, flush, error and drop of one handle leave alone what any other
\* handle, the standard library or the application has open, although the
\* numbers come from one table.
THEOREM OthersStayUntouched == Spec => OthersUntouched
<1>1. ASSUME IInv, [Next]_vars, NEW s \in Slot, handles'[s] # handles[s], NEW n \in Number,
             table[n] # Nothing, table[n].owner \notin {Holds(s), Lends(s)}
      PROVE  table'[n] = table[n]
  <2>1. Only(s)
    BY <1>1, StepInv DEF Only
  <2> QED
    BY <1>1, <2>1 DEF Only, Touches, OwnedBy
<1>2. IInv /\ [Next]_vars =>
        [\A s \in Slot : handles'[s] # handles[s] =>
           \A n \in Number : table[n] # Nothing /\ table[n].owner \notin {Holds(s), Lends(s)}
                               => table'[n] = table[n]]_vars
  BY <1>1
<1> QED
  BY <1>2, InvariantHolds, PTL DEF Spec, OthersUntouched
===============================================================================
