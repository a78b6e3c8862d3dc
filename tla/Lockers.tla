-------------------------------- MODULE Lockers --------------------------------
(***************************************************************************)
(* StdinLocker and StdoutLocker (src/lockers.rs), and the constructors and *)
(* destructors of the handles that hold them (ReadHandle::stdin,           *)
(* WriteHandle::stdout and ReadWriteHandle::stdin_stdout of                *)
(* src/posish.rs).                                                         *)
(*                                                                         *)
(* A locker is a flag that says that the stream is claimed and a thread    *)
(* that takes std's lock of the stream and parks on it.  Threads of the    *)
(* application build handles, drop handles built by any of them (a handle  *)
(* is Send), and lock std's streams on their own account, through          *)
(* std::io::stdin().lock() or a println!.                                  *)
(***************************************************************************)
EXTENDS Integers, SequencesExt

CONSTANTS
    Thread,   \* The threads of the application.
    Locker,   \* The lockers, each with its thread; a dropped one is reused.
    NoOne     \* Holds a lock nobody holds.

ASSUME NamesAssumption == NoOne \notin Thread \cup Locker /\ Thread \cap Locker = {}

VARIABLES
    claimed,    \* STDIN_CLAIMED and STDOUT_CLAIMED
    holder,     \* who holds std's lock of each stream
    locker,     \* per locker, its stream, its thread and its unpark token
    handles,    \* the handles alive, each the sequence of its lockers
    call,       \* per thread, the constructor or destructor it is in
    refused,    \* per thread, whether its last constructor was refused
    lost        \* history: streams whose lock thread could not be spawned

vars == <<claimed, holder, locker, handles, call, refused, lost>>

Stream == {"stdin", "stdout"}

\* ReadHandle::stdin, WriteHandle::stdout and ReadWriteHandle::stdin_stdout.
Constructors == {<<"stdin">>, <<"stdout">>, <<"stdin", "stdout">>}

\* `want' has the streams still to be claimed, `got' the lockers the call
\* holds: those it has made, or those it has yet to drop.
CallAt(at, want, got) == [at |-> at, want |-> want, got |-> got]
Idle == CallAt("idle", <<>>, <<>>)

In(t, at) == call[t].at = at
Goes(t, c) == call' = [call EXCEPT ![t] = c]

Unused == [stream |-> "stdin", thread |-> "none", token |-> FALSE]
InUse(l) == locker[l].thread # "none"

(***************************************************************************)
(* The constructors                                                        *)
(***************************************************************************)
Construct(t) ==
    /\ In(t, "idle")
    /\ \E streams \in Constructors : Goes(t, CallAt("claim", streams, <<>>))
    /\ refused' = [refused EXCEPT ![t] = FALSE]
    /\ UNCHANGED <<claimed, holder, locker, handles, lost>>

\* Mutant: the lockers made so far are forgotten, not dropped.
GiveUpWithoutDrop(t) == Goes(t, Idle)

\* Mutant: the constructor returns with its lockers still in its hands.
GiveUpInPlace(t) == Goes(t, [call[t] EXCEPT !.at = "idle"])

\* `?' drops the lockers made so far.
GiveUp(t) == Goes(t, IF call[t].got = <<>> THEN Idle
                     ELSE CallAt("unpark", <<>>, call[t].got))

\* The compare_and_swap of new.
Claim(t) ==
    /\ In(t, "claim")
    /\ LET s == Head(call[t].want) IN
       IF claimed[s]
       THEN /\ GiveUp(t)
            /\ refused' = [refused EXCEPT ![t] = TRUE]
            /\ UNCHANGED claimed
       ELSE /\ claimed' = [claimed EXCEPT ![s] = TRUE]
            /\ Goes(t, [call[t] EXCEPT !.at = "spawn"])
            /\ UNCHANGED refused
    /\ UNCHANGED <<holder, locker, handles, lost>>

\* new returns as soon as the thread is spawned, the constructor as soon as it
\* has all its lockers.
Spawn(t) ==
    /\ In(t, "spawn")
    /\ \E l \in Locker :
         LET want == Tail(call[t].want)
             got  == Append(call[t].got, l)
         IN
         /\ ~InUse(l)
         /\ locker' = [locker EXCEPT ![l] =
                [stream |-> Head(call[t].want), thread |-> "waiting", token |-> FALSE]]
         /\ IF want = <<>>
            THEN Goes(t, Idle) /\ handles' = handles \cup {got}
            ELSE Goes(t, CallAt("claim", want, got)) /\ UNCHANGED handles
    /\ UNCHANGED <<claimed, holder, refused, lost>>

SpawnFails(t) ==
    /\ In(t, "spawn")
    /\ GiveUp(t)
    /\ lost' = lost \cup {Head(call[t].want)}
    /\ UNCHANGED <<claimed, holder, locker, handles, refused>>

(***************************************************************************)
(* The destructors                                                         *)
(***************************************************************************)
DropHandle(t) ==
    /\ In(t, "idle")
    /\ \E h \in handles : /\ handles' = handles \ {h}
                          /\ Goes(t, CallAt("unpark", <<>>, h))
    /\ UNCHANGED <<claimed, holder, locker, refused, lost>>

\* Mutant: the thread is joined without having been unparked.
UnparkForgotten(t) ==
    /\ In(t, "unpark")
    /\ Goes(t, [call[t] EXCEPT !.at = "join"])
    /\ UNCHANGED <<claimed, holder, locker, handles, refused, lost>>

\* Mutant: the claim is given up before the thread has been joined.
UnparkAndUnclaim(t) ==
    /\ In(t, "unpark")
    /\ LET l == Head(call[t].got) IN
       /\ locker' = [locker EXCEPT ![l].token = TRUE]
       /\ claimed' = [claimed EXCEPT ![locker[l].stream] = FALSE]
    /\ Goes(t, [call[t] EXCEPT !.at = "join"])
    /\ UNCHANGED <<holder, handles, refused, lost>>

Unpark(t) ==
    /\ In(t, "unpark")
    /\ locker' = [locker EXCEPT ![Head(call[t].got)].token = TRUE]
    /\ Goes(t, [call[t] EXCEPT !.at = "join"])
    /\ UNCHANGED <<claimed, holder, handles, refused, lost>>

Join(t) ==
    /\ In(t, "join")
    /\ locker[Head(call[t].got)].thread = "exited"
    /\ Goes(t, [call[t] EXCEPT !.at = "store"])
    /\ UNCHANGED <<claimed, holder, locker, handles, refused, lost>>

Store(t) ==
    /\ In(t, "store")
    /\ LET l    == Head(call[t].got)
           rest == Tail(call[t].got)
       IN /\ claimed' = [claimed EXCEPT ![locker[l].stream] = FALSE]
          /\ locker' = [locker EXCEPT ![l] = Unused]
          /\ Goes(t, IF rest = <<>> THEN Idle ELSE CallAt("unpark", <<>>, rest))
    /\ UNCHANGED <<holder, handles, refused, lost>>

(***************************************************************************)
(* The thread of a locker                                                  *)
(***************************************************************************)
Acquire(l) ==
    /\ locker[l].thread = "waiting" /\ holder[locker[l].stream] = NoOne
    /\ holder' = [holder EXCEPT ![locker[l].stream] = l]
    /\ locker' = [locker EXCEPT ![l].thread = "parked"]
    /\ UNCHANGED <<claimed, handles, call, refused, lost>>

\* Mutant: park returns without a token, as thread::park may.
WakeSpuriously(l) ==
    /\ locker[l].thread = "parked"
    /\ holder' = [holder EXCEPT ![locker[l].stream] = NoOne]
    /\ locker' = [locker EXCEPT ![l].thread = "exited"]
    /\ UNCHANGED <<claimed, handles, call, refused, lost>>

\* park returns, the lock is released and the thread ends.
Release(l) ==
    /\ locker[l].thread = "parked" /\ locker[l].token
    /\ holder' = [holder EXCEPT ![locker[l].stream] = NoOne]
    /\ locker' = [locker EXCEPT ![l].thread = "exited"]
    /\ UNCHANGED <<claimed, handles, call, refused, lost>>

(***************************************************************************)
(* The application's own use of std's locks                                *)
(***************************************************************************)
LockStd(t, s) ==
    /\ In(t, "idle") /\ holder[s] = NoOne
    /\ holder' = [holder EXCEPT ![s] = t]
    /\ UNCHANGED <<claimed, locker, handles, call, refused, lost>>

UnlockStd(t, s) ==
    /\ In(t, "idle") /\ holder[s] = t
    /\ holder' = [holder EXCEPT ![s] = NoOne]
    /\ UNCHANGED <<claimed, locker, handles, call, refused, lost>>

(***************************************************************************)
(* The specification                                                       *)
(***************************************************************************)
Init ==
    /\ claimed = [s \in Stream |-> FALSE]
    /\ holder = [s \in Stream |-> NoOne]
    /\ locker = [l \in Locker |-> Unused]
    /\ handles = {}
    /\ call = [t \in Thread |-> Idle]
    /\ refused = [t \in Thread |-> FALSE]
    /\ lost = {}

InCall(t) == Claim(t) \/ Spawn(t) \/ SpawnFails(t) \/ Unpark(t) \/ Join(t) \/ Store(t)

Next ==
    \/ \E t \in Thread : Construct(t) \/ DropHandle(t) \/ InCall(t)
    \/ \E l \in Locker : Acquire(l) \/ Release(l)
    \/ \E t \in Thread, s \in Stream : LockStd(t, s) \/ UnlockStd(t, s)

\* Threads run on; one that has locked a stream for itself unlocks it; and a
\* lock that keeps being released is obtained in the end.
Fairness ==
    /\ \A t \in Thread : WF_vars(InCall(t))
    /\ \A t \in Thread, s \in Stream : WF_vars(UnlockStd(t, s))
    /\ \A l \in Locker : SF_vars(Acquire(l)) /\ WF_vars(Release(l))

Spec == Init /\ [][Next]_vars /\ Fairness

(***************************************************************************)
(* Properties                                                              *)
(***************************************************************************)
\* Types, and what a call has at each of its places: streams still to claim
\* while it constructs, lockers while it destroys, neither between calls.
TypeOK ==
    /\ claimed \in [Stream -> BOOLEAN]
    /\ holder \in [Stream -> {NoOne} \cup Thread \cup Locker]
    /\ locker \in [Locker -> [stream : Stream, token : BOOLEAN,
                              thread : {"none", "waiting", "parked", "exited"}]]
    /\ handles \subseteq Seq(Locker)
    /\ call \in [Thread -> [at : {"idle", "claim", "spawn", "unpark", "join", "store"},
                            want : Seq(Stream), got : Seq(Locker)]]
    /\ \A t \in Thread :
         /\ In(t, "idle") => call[t] = Idle
         /\ In(t, "claim") \/ In(t, "spawn") <=> call[t].want # <<>>
         /\ In(t, "unpark") \/ In(t, "join") \/ In(t, "store") => call[t].got # <<>>
    /\ refused \in [Thread -> BOOLEAN]
    /\ lost \subseteq Stream

\* "Fails if a StdinLocker instance already exists": two lockers of one stream
\* never exist at a time, neither two handles, nor one in construction and one
\* in destruction, nor the thread of one and the handle of the next.
OneLocker ==
    \A l, m \in Locker :
        InUse(l) /\ InUse(m) /\ locker[l].stream = locker[m].stream => l = m

\* A locker whose thread has the lock keeps it until its drop has begun: while
\* it is held, nothing lets the application back to the std stream.
HeldUntilDropped ==
    [][\A s \in Stream, l \in Locker :
         holder[s] = l /\ holder'[s] # l =>
             \E t \in Thread : In(t, "join") /\ Head(call[t].got) = l]_vars

\* Someone has the stream: a handle, a constructor or a destructor.
Owned(s, t) ==
    \/ \E h \in handles : \E i \in DOMAIN h : locker[h[i]].stream = s
    \/ \E u \in Thread :
         \/ \E i \in DOMAIN call[u].got : locker[call[u].got[i]].stream = s
         \/ u # t /\ In(u, "spawn") /\ Head(call[u].want) = s

Refused(t) == ~refused[t] /\ refused'[t]

\* "attempted dual-ownership": a constructor is refused a stream only if
\* somebody has it, whatever constructors failed half way before, unless the
\* thread of an earlier locker of the stream could not be spawned.
RefusedOnlyIfOwnedOrLost ==
    [][\A t \in Thread : Refused(t) =>
         Head(call[t].want) \in lost \/ Owned(Head(call[t].want), t)]_vars

\* The same without the exception: after a thread that could not be spawned,
\* nobody has the stream and every constructor is refused it.
RefusedOnlyIfOwned ==
    [][\A t \in Thread : Refused(t) => Owned(Head(call[t].want), t)]_vars

\* "This acquires a StdinLock to prevent accesses to std::io::Stdin while this
\* is live": no thread of the application has the lock of a live handle's
\* stream.
LiveMeansLocked ==
    \A h \in handles : \A i \in DOMAIN h : holder[locker[h[i]].stream] \notin Thread

CallsUnlocked == \A t \in Thread : ~In(t, "idle") => \A s \in Stream : holder[s] # t

\* Every constructor and destructor returns, the destructor that joins a
\* thread still waiting for the lock included, provided that no thread of the
\* application calls one while it has locked a stream for itself (one that
\* does may join a thread that waits for it).
CallsReturn ==
    []CallsUnlocked => \A t \in Thread : ~In(t, "idle") ~> In(t, "idle")
================================================================================
