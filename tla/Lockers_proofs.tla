----------------------------- MODULE Lockers_proofs -----------------------------
(***************************************************************************)
(* Proofs about Lockers, for every number of threads and of lockers.       *)
(***************************************************************************)
EXTENDS Lockers, SequenceTheorems, TLAPS

(***************************************************************************)
(* The inductive invariant                                                 *)
(***************************************************************************)
Places == {"idle", "claim", "spawn", "unpark", "join", "store"}
Calls == [at : Places, want : Seq(Stream), got : Seq(Locker)]

\* What a call has at each of its places.
Shape(c) ==
    /\ c.at = "idle" => c = Idle
    /\ c.at \in {"claim", "spawn"} <=> c.want # <<>>
    /\ c.at \in {"unpark", "join", "store"} => c.got # <<>>

Types ==
    /\ claimed \in [Stream -> BOOLEAN]
    /\ holder \in [Stream -> {NoOne} \cup Thread \cup Locker]
    /\ locker \in [Locker -> [stream : Stream, token : BOOLEAN,
                              thread : {"none", "waiting", "parked", "exited"}]]
    /\ handles \subseteq Seq(Locker) \ {<<>>}
    /\ call \in [Thread -> Calls] /\ \A t \in Thread : Shape(call[t])
    /\ refused \in [Thread -> BOOLEAN]
    /\ lost \subseteq Stream

Has(q, l) == \E i \in DOMAIN q : q[i] = l
Once(q) == \A i, j \in DOMAIN q : q[i] = q[j] => i = j

\* A locker in use is in one handle, or in the hands of one call, once; and
\* what those have is in use.
OnePlace ==
    /\ \A h \in handles : Once(h)
    /\ \A t \in Thread : Once(call[t].got)
    /\ \A l \in Locker :
         /\ \A h \in handles : Has(h, l) => InUse(l)
         /\ \A t \in Thread : Has(call[t].got, l) => InUse(l)
         /\ \A h, k \in handles : Has(h, l) /\ Has(k, l) => h = k
         /\ \A t, u \in Thread : Has(call[t].got, l) /\ Has(call[u].got, l) => t = u
         /\ \A h \in handles, t \in Thread : ~(Has(h, l) /\ Has(call[t].got, l))
         /\ InUse(l) => \/ \E h \in handles : Has(h, l)
                        \/ \E t \in Thread : Has(call[t].got, l)

\* t has claimed s and has yet to spawn the thread.
Claims(t, s) == In(t, "spawn") /\ Head(call[t].want) = s
Serves(l, s) == InUse(l) /\ locker[l].stream = s

\* A claim is one locker's, or one thread's that is about to make a locker, or
\* nobody's after a failure; and neither is without a claim.
OneClaim ==
    \A s \in Stream :
        /\ \A l \in Locker : Serves(l, s) => claimed[s]
        /\ \A t \in Thread : Claims(t, s) => claimed[s]
        /\ \A l, m \in Locker : Serves(l, s) /\ Serves(m, s) => l = m
        /\ \A t, u \in Thread : Claims(t, s) /\ Claims(u, s) => t = u
        /\ \A l \in Locker, t \in Thread : ~(Serves(l, s) /\ Claims(t, s))
        /\ claimed[s] => \/ s \in lost
                         \/ \E l \in Locker : Serves(l, s)
                         \/ \E t \in Thread : Claims(t, s)

\* Only a destructor unparks, and it stores only after the thread has ended.
TokenOK ==
    /\ \A l \in Locker : locker[l].token =>
         \E t \in Thread : (In(t, "join") \/ In(t, "store")) /\ Head(call[t].got) = l
    /\ \A t \in Thread : In(t, "store") => locker[Head(call[t].got)].thread = "exited"

\* A parked thread has the lock.
HolderOK ==
    \A l \in Locker : locker[l].thread = "parked" => holder[locker[l].stream] = l

IInv == Types /\ OnePlace /\ OneClaim /\ TokenOK /\ HolderOK

LEMMA Typed == IInv => TypeOK
<1> SUFFICES ASSUME Types PROVE TypeOK
  BY DEF IInv
<1>1. call \in [Thread -> [at : {"idle", "claim", "spawn", "unpark", "join", "store"},
                           want : Seq(Stream), got : Seq(Locker)]]
  BY DEF Types, Calls, Places
<1>2. \A t \in Thread :
        /\ In(t, "idle") => call[t] = Idle
        /\ In(t, "claim") \/ In(t, "spawn") <=> call[t].want # <<>>
        /\ In(t, "unpark") \/ In(t, "join") \/ In(t, "store") => call[t].got # <<>>
  BY DEF Types, Shape, In
<1> QED
  BY <1>1, <1>2 DEF Types, TypeOK

(***************************************************************************)
(* Sequences of lockers                                                    *)
(***************************************************************************)
LEMMA EmptyHas == Once(<<>>) /\ \A l : ~Has(<<>>, l)
BY EmptySeq DEF Once, Has

LEMMA HeadAndTail ==
    ASSUME NEW S, NEW q \in Seq(S), q # <<>>
    PROVE  /\ Head(q) \in S /\ Tail(q) \in Seq(S) /\ Has(q, Head(q))
           /\ \A l : Has(q, l) <=> l = Head(q) \/ Has(Tail(q), l)
           /\ Once(q) => Once(Tail(q)) /\ ~Has(Tail(q), Head(q))
<1>1. /\ Head(q) \in S /\ Tail(q) \in Seq(S) /\ Len(Tail(q)) = Len(q) - 1
      /\ \A i \in 1 .. Len(Tail(q)) : Tail(q)[i] = q[i + 1]
  BY HeadTailProperties
<1>2. Len(q) \in Nat /\ Len(q) >= 1 /\ DOMAIN q = 1 .. Len(q) /\ DOMAIN Tail(q) = 1 .. Len(q) - 1
  BY <1>1, LenProperties
<1>3. Head(q) = q[1]
  OBVIOUS
<1> DEFINE r == Tail(q)
<1>4. \A i \in 1 .. Len(q) - 1 : r[i] = q[i + 1] /\ i + 1 \in 1 .. Len(q)
  BY <1>1, <1>2
<1>5. \A i \in 1 .. Len(q) : i = 1 \/ (i - 1 \in 1 .. Len(q) - 1 /\ q[i] = r[i - 1])
  BY <1>1, <1>2
<1>6. Has(q, Head(q))
  BY <1>2, <1>3 DEF Has
<1>7. \A l : Has(q, l) <=> l = Head(q) \/ Has(r, l)
  <2> TAKE l
  <2>1. ASSUME Has(r, l) PROVE Has(q, l)
    BY <2>1, <1>2, <1>4 DEF Has
  <2>2. ASSUME Has(q, l), l # Head(q) PROVE Has(r, l)
    BY <2>2, <1>2, <1>3, <1>5 DEF Has
  <2> QED
    BY <2>1, <2>2, <1>6
<1>8. ASSUME Once(q) PROVE Once(r) /\ ~Has(r, Head(q))
  <2>1. Once(r)
    <3> SUFFICES ASSUME NEW i \in 1 .. Len(q) - 1, NEW j \in 1 .. Len(q) - 1, r[i] = r[j]
                 PROVE  i = j
      BY <1>2 DEF Once
    <3>1. q[i + 1] = q[j + 1] /\ i + 1 \in DOMAIN q /\ j + 1 \in DOMAIN q
      BY <1>2, <1>4
    <3>2. i + 1 = j + 1
      BY <1>8, <3>1 DEF Once
    <3> QED
      BY <3>2
  <2>2. ASSUME NEW i \in 1 .. Len(q) - 1, r[i] = q[1] PROVE FALSE
    <3>1. q[i + 1] = q[1] /\ i + 1 \in DOMAIN q /\ 1 \in DOMAIN q
      BY <2>2, <1>2, <1>4
    <3>2. i + 1 = 1
      BY <1>8, <3>1 DEF Once
    <3> QED
      BY <3>2
  <2> QED
    BY <2>1, <2>2, <1>2, <1>3 DEF Has
<1> QED
  BY <1>1, <1>6, <1>7, <1>8

LEMMA Appended ==
    ASSUME NEW S, NEW q \in Seq(S), NEW x \in S, ~Has(q, x), Once(q)
    PROVE  /\ Append(q, x) \in Seq(S) /\ Append(q, x) # <<>> /\ Once(Append(q, x))
           /\ \A l : Has(Append(q, x), l) <=> l = x \/ Has(q, l)
<1> DEFINE r == Append(q, x)
<1>1. /\ r \in Seq(S) /\ r # <<>> /\ Len(r) = Len(q) + 1
      /\ \A i \in 1 .. Len(q) : r[i] = q[i]
      /\ r[Len(q) + 1] = x
  BY AppendProperties
<1>2. /\ Len(q) \in Nat /\ DOMAIN q = 1 .. Len(q) /\ DOMAIN r = 1 .. Len(q) + 1
  BY <1>1, LenProperties
<1> HIDE DEF r
<1>3. \A l : Has(r, l) <=> l = x \/ Has(q, l)
  <2> TAKE l
  <2>1. ASSUME Has(q, l) \/ l = x PROVE Has(r, l)
    BY <2>1, <1>1, <1>2 DEF Has
  <2>2. ASSUME Has(r, l), l # x PROVE Has(q, l)
    <3>1. PICK i \in 1 .. Len(q) + 1 : r[i] = l
      BY <2>2, <1>2 DEF Has
    <3>2. i \in 1 .. Len(q)
      BY <3>1, <2>2, <1>1, <1>2
    <3> QED
      BY <3>1, <3>2, <1>1, <1>2 DEF Has
  <2> QED
    BY <2>1, <2>2
<1>4. Once(r)
  <2> SUFFICES ASSUME NEW i \in 1 .. Len(q) + 1, NEW j \in 1 .. Len(q) + 1, r[i] = r[j]
               PROVE  i = j
    BY <1>2 DEF Once
  <2>1. ASSUME NEW k \in 1 .. Len(q) PROVE r[k] # x
    BY <2>1, <1>1, <1>2 DEF Has
  <2>2. CASE i \in 1 .. Len(q) /\ j \in 1 .. Len(q)
    BY <2>2, <1>1, <1>2 DEF Once
  <2>3. CASE i = Len(q) + 1 \/ j = Len(q) + 1
    <3>1. r[i] = x /\ r[j] = x
      BY <2>3, <1>1
    <3> QED
      BY <3>1, <2>1, <1>2
  <2> QED
    BY <2>2, <2>3, <1>2
<1> QED
  BY <1>1, <1>3, <1>4 DEF r

(***************************************************************************)
(* What a step leaves alone                                                *)
(***************************************************************************)
Threads == {"none", "waiting", "parked", "exited"}

LEMMA GoesTo ==
    ASSUME IInv, NEW t \in Thread, NEW c \in Calls, Shape(c), Goes(t, c)
    PROVE  /\ call'[t] = c /\ \A u \in Thread : u # t => call'[u] = call[u]
           /\ call' \in [Thread -> Calls] /\ \A u \in Thread : Shape(call'[u])
<1>1. call \in [Thread -> Calls] /\ \A u \in Thread : Shape(call[u])
  BY DEF IInv, Types
<1>2. call' = [call EXCEPT ![t] = c]
  BY DEF Goes
<1>3. call'[t] = c /\ \A u \in Thread : u # t => call'[u] = call[u]
  BY <1>1, <1>2
<1>4. \A u \in Thread : Shape(call'[u])
  <2> SUFFICES ASSUME NEW u \in Thread PROVE Shape(call'[u])
    OBVIOUS
  <2>1. CASE u = t
    BY <1>3, <2>1
  <2>2. CASE u # t
    BY <1>1, <1>3, <2>2
  <2> QED
    BY <2>1, <2>2
<1> QED
  BY <1>1, <1>2, <1>3, <1>4

LEMMA IdleIsCall == Idle \in Calls /\ Shape(Idle) /\ Idle.at = "idle" /\ Idle.got = <<>>
<1>1. <<>> \in Seq(Stream) /\ <<>> \in Seq(Locker)
  BY EmptySeq
<1> QED
  BY <1>1 DEF Idle, CallAt, Calls, Shape, Places

\* What every thread and every locker is, for the steps that follow.
LEMMA Parts ==
    IInv => /\ \A t \in Thread : /\ call[t] \in Calls /\ Shape(call[t])
                                 /\ call[t].want \in Seq(Stream) /\ call[t].got \in Seq(Locker)
            /\ \A l \in Locker : /\ locker[l].stream \in Stream /\ locker[l].token \in BOOLEAN
                                 /\ locker[l].thread \in Threads
BY DEF IInv, Types, Calls, Threads

LEMMA PlacesStay ==
    ASSUME OnePlace, UNCHANGED handles,
           \A t \in Thread : call'[t].got = call[t].got,
           \A l \in Locker : InUse(l)' <=> InUse(l)
    PROVE  OnePlace'
BY DEF OnePlace

LEMMA ClaimsStay ==
    ASSUME OneClaim, UNCHANGED <<claimed, lost>>,
           \A l \in Locker, s \in Stream : Serves(l, s)' <=> Serves(l, s),
           \A t \in Thread, s \in Stream : Claims(t, s)' <=> Claims(t, s)
    PROVE  OneClaim'
BY DEF OneClaim

\* A step in a constructor that makes no locker.
LEMMA Constructs ==
    ASSUME IInv, NEW t \in Thread, NEW c \in Calls, Shape(c), Goes(t, c),
           c.got = call[t].got, c.at # "store", ~In(t, "join"), ~In(t, "store"),
           UNCHANGED <<handles, locker, holder>>,
           claimed' \in [Stream -> BOOLEAN], refused' \in [Thread -> BOOLEAN],
           lost' \subseteq Stream, OneClaim'
    PROVE  IInv'
<1>1. /\ call'[t] = c /\ \A u \in Thread : u # t => call'[u] = call[u]
      /\ call' \in [Thread -> Calls] /\ \A u \in Thread : Shape(call'[u])
  BY GoesTo
<1>2. Types'
  BY <1>1 DEF IInv, Types
<1>3. OnePlace'
  <2>1. \A u \in Thread : call'[u].got = call[u].got
    BY <1>1
  <2>2. \A l \in Locker : InUse(l)' <=> InUse(l)
    BY DEF InUse
  <2> QED
    BY <2>1, <2>2, PlacesStay DEF IInv
<1>4. TokenOK' /\ HolderOK'
  <2>1. \A u \in Thread : In(u, "join") \/ In(u, "store") => call'[u] = call[u]
    BY <1>1
  <2>2. \A u \in Thread : In(u, "store")' => u # t
    BY <1>1 DEF In
  <2> QED
    BY <1>1, <2>1, <2>2 DEF IInv, TokenOK, HolderOK, In
<1> QED
  BY <1>2, <1>3, <1>4 DEF IInv

LEMMA ConstructInv == ASSUME NEW t \in Thread PROVE IInv /\ Construct(t) => IInv'
<1> SUFFICES ASSUME IInv, Construct(t) PROVE IInv'
  OBVIOUS
<1>1. PICK streams \in Constructors : Goes(t, CallAt("claim", streams, <<>>))
  BY DEF Construct
<1> DEFINE c == CallAt("claim", streams, <<>>)
<1>2. c \in Calls /\ Shape(c) /\ c.got = <<>> /\ c.at = "claim"
  <2>1. streams \in Seq(Stream) /\ streams # <<>> /\ <<>> \in Seq(Locker)
    <3>1. "stdin" \in Stream /\ "stdout" \in Stream
      BY DEF Stream
    <3>2. /\ <<"stdin">> \in Seq(Stream) /\ <<"stdout">> \in Seq(Stream)
          /\ <<"stdin", "stdout">> \in Seq(Stream)
      BY <3>1
    <3>3. <<"stdin">> # <<>> /\ <<"stdout">> # <<>> /\ <<"stdin", "stdout">> # <<>>
      OBVIOUS
    <3> QED
      BY <3>2, <3>3, EmptySeq DEF Constructors
  <2> QED
    BY <2>1 DEF CallAt, Calls, Shape, Places
<1>3. Goes(t, c)
  BY <1>1
<1> HIDE DEF c
<1>4. call[t].got = <<>> /\ In(t, "idle")
  BY Parts, IdleIsCall DEF Construct, Shape, In
<1>5. OneClaim'
  <2>1. /\ call'[t] = c /\ \A u \in Thread : u # t => call'[u] = call[u]
    BY <1>2, <1>3, GoesTo
  <2>2. \A u \in Thread, s \in Stream : Claims(u, s)' <=> Claims(u, s)
    BY <1>2, <1>4, <2>1 DEF Claims, In
  <2>3. \A l \in Locker, s \in Stream : Serves(l, s)' <=> Serves(l, s)
    BY DEF Construct, Serves, InUse
  <2> QED
    BY <2>2, <2>3, ClaimsStay DEF IInv, Construct
<1>6. /\ UNCHANGED <<handles, locker, holder>> /\ refused' \in [Thread -> BOOLEAN]
      /\ claimed' \in [Stream -> BOOLEAN] /\ lost' \subseteq Stream
  BY DEF Construct, IInv, Types
<1>7. ~In(t, "join") /\ ~In(t, "store")
  BY <1>4 DEF In
<1> QED
  BY <1>2, <1>3, <1>4, <1>5, <1>6, <1>7, Constructs

\* Where a constructor that gives up goes.
LEMMA GivesUp ==
    ASSUME IInv, NEW t \in Thread, GiveUp(t)
    PROVE  \E c \in Calls : /\ Shape(c) /\ Goes(t, c) /\ c.got = call[t].got
                            /\ c.at \in {"idle", "unpark"}
<1>1. call[t].got \in Seq(Locker) /\ <<>> \in Seq(Stream)
  BY Parts, EmptySeq
<1>2. CASE call[t].got = <<>>
  BY <1>2, IdleIsCall DEF GiveUp
<1>3. CASE call[t].got # <<>>
  <2> DEFINE c == CallAt("unpark", <<>>, call[t].got)
  <2>1. /\ c \in Calls /\ Shape(c) /\ Goes(t, c) /\ c.got = call[t].got /\ c.at = "unpark"
    BY <1>1, <1>3 DEF GiveUp, CallAt, Calls, Shape, Places
  <2> QED
    BY <2>1
<1> QED
  BY <1>2, <1>3

\* The stream that is next to be claimed.
LEMMA Wanted ==
    ASSUME IInv, NEW t \in Thread, In(t, "claim") \/ In(t, "spawn")
    PROVE  /\ Head(call[t].want) \in Stream /\ Tail(call[t].want) \in Seq(Stream)
           /\ call[t].want \in Seq(Stream) /\ call[t].want # <<>>
           /\ ~In(t, "idle") /\ ~In(t, "join") /\ ~In(t, "store") /\ ~In(t, "unpark")
<1>1. call[t].want \in Seq(Stream) /\ call[t].want # <<>>
  BY Parts DEF In, Shape
<1> QED
  BY <1>1, HeadTailProperties DEF In

LEMMA ClaimInv == ASSUME NEW t \in Thread PROVE IInv /\ Claim(t) => IInv'
<1> SUFFICES ASSUME IInv, Claim(t) PROVE IInv'
  OBVIOUS
<1> DEFINE s == Head(call[t].want)
<1>1. /\ In(t, "claim") /\ UNCHANGED <<holder, locker, handles, lost>>
      /\ \/ claimed[s] /\ GiveUp(t) /\ refused' = [refused EXCEPT ![t] = TRUE]
            /\ UNCHANGED claimed
         \/ ~claimed[s] /\ claimed' = [claimed EXCEPT ![s] = TRUE]
            /\ Goes(t, [call[t] EXCEPT !.at = "spawn"]) /\ UNCHANGED refused
  BY DEF Claim
<1>2. s \in Stream /\ call[t].want # <<>> /\ ~In(t, "join") /\ ~In(t, "store")
  BY <1>1, Wanted
<1> HIDE DEF s
<1>3. /\ claimed' \in [Stream -> BOOLEAN] /\ refused' \in [Thread -> BOOLEAN]
      /\ lost' \subseteq Stream
  BY <1>1, <1>2 DEF IInv, Types
<1>4. \A l \in Locker, x \in Stream : Serves(l, x)' <=> Serves(l, x)
  BY <1>1 DEF Serves, InUse
<1>5. CASE claimed[s] /\ GiveUp(t) /\ UNCHANGED claimed
  <2>1. PICK c \in Calls : /\ Shape(c) /\ Goes(t, c) /\ c.got = call[t].got
                           /\ c.at \in {"idle", "unpark"}
    BY <1>5, GivesUp
  <2>2. call'[t] = c /\ \A u \in Thread : u # t => call'[u] = call[u]
    BY <2>1, GoesTo
  <2>3. \A u \in Thread, x \in Stream : Claims(u, x)' <=> Claims(u, x)
    BY <1>1, <2>1, <2>2 DEF Claims, In
  <2>4. OneClaim'
    BY <1>1, <1>4, <1>5, <2>3, ClaimsStay DEF IInv
  <2> QED
    BY <1>1, <1>2, <1>3, <2>1, <2>4, Constructs
<1>6. CASE /\ ~claimed[s] /\ claimed' = [claimed EXCEPT ![s] = TRUE]
           /\ Goes(t, [call[t] EXCEPT !.at = "spawn"])
  <2> DEFINE c == [call[t] EXCEPT !.at = "spawn"]
  <2>1. /\ c \in Calls /\ Shape(c) /\ c.got = call[t].got /\ c.at = "spawn"
        /\ c.want = call[t].want
    BY <1>2, Parts DEF Calls, Shape, Places
  <2>2. Goes(t, c)
    BY <1>6
  <2> HIDE DEF c
  <2>3. call'[t] = c /\ \A u \in Thread : u # t => call'[u] = call[u]
    BY <2>1, <2>2, GoesTo
  <2>4. \A u \in Thread, x \in Stream : Claims(u, x)' <=> Claims(u, x) \/ (u = t /\ x = s)
    BY <1>1, <2>1, <2>3 DEF Claims, In, s
  <2>5. \A x \in Stream : claimed'[x] <=> claimed[x] \/ x = s
    BY <1>6, <1>2 DEF IInv, Types
  <2>6. OneClaim'
    BY <1>1, <1>2, <1>4, <1>6, <2>4, <2>5 DEF IInv, OneClaim
  <2> QED
    BY <1>1, <1>2, <1>3, <2>1, <2>2, <2>6, Constructs
<1> QED
  BY <1>1, <1>5, <1>6

LEMMA SpawnFailsInv == ASSUME NEW t \in Thread PROVE IInv /\ SpawnFails(t) => IInv'
<1> SUFFICES ASSUME IInv, SpawnFails(t) PROVE IInv'
  OBVIOUS
<1> DEFINE s == Head(call[t].want)
<1>1. /\ In(t, "spawn") /\ UNCHANGED <<claimed, holder, locker, handles, refused>>
      /\ GiveUp(t) /\ lost' = lost \cup {s}
  BY DEF SpawnFails
<1>2. s \in Stream /\ ~In(t, "join") /\ ~In(t, "store")
  BY <1>1, Wanted
<1> HIDE DEF s
<1>3. PICK c \in Calls : /\ Shape(c) /\ Goes(t, c) /\ c.got = call[t].got
                         /\ c.at \in {"idle", "unpark"}
  BY <1>1, GivesUp
<1>4. call'[t] = c /\ \A u \in Thread : u # t => call'[u] = call[u]
  BY <1>3, GoesTo
<1>5. \A u \in Thread, x \in Stream : Claims(u, x)' <=> Claims(u, x) /\ u # t
  BY <1>1, <1>3, <1>4 DEF Claims, In
<1>6. \A x \in Stream : Claims(t, x) => x = s
  BY DEF Claims, s
<1>7. \A l \in Locker, x \in Stream : Serves(l, x)' <=> Serves(l, x)
  BY <1>1 DEF Serves, InUse
<1>8. OneClaim'
  BY <1>1, <1>5, <1>6, <1>7 DEF IInv, OneClaim
<1>9. /\ claimed' \in [Stream -> BOOLEAN] /\ refused' \in [Thread -> BOOLEAN]
      /\ lost' \subseteq Stream
  BY <1>1, <1>2 DEF IInv, Types
<1> QED
  BY <1>1, <1>2, <1>3, <1>8, <1>9, Constructs

LEMMA SpawnInv == ASSUME NEW t \in Thread PROVE IInv /\ Spawn(t) => IInv'
<1> SUFFICES ASSUME IInv, Spawn(t) PROVE IInv'
  OBVIOUS
<1> DEFINE s == Head(call[t].want)
           want == Tail(call[t].want)
<1>1. PICK l \in Locker :
        /\ ~InUse(l)
        /\ locker' = [locker EXCEPT ![l] = [stream |-> s, thread |-> "waiting", token |-> FALSE]]
        /\ IF want = <<>>
           THEN Goes(t, Idle) /\ handles' = handles \cup {Append(call[t].got, l)}
           ELSE Goes(t, CallAt("claim", want, Append(call[t].got, l))) /\ UNCHANGED handles
  BY DEF Spawn
<1> DEFINE got == Append(call[t].got, l)
<1>2. /\ In(t, "spawn") /\ UNCHANGED <<claimed, holder, refused, lost>>
      /\ s \in Stream /\ want \in Seq(Stream) /\ ~In(t, "join") /\ ~In(t, "store")
      /\ Claims(t, s)
  BY Wanted DEF Spawn, Claims
<1>3. /\ got \in Seq(Locker) /\ got # <<>> /\ Once(got)
      /\ \A m : Has(got, m) <=> m = l \/ Has(call[t].got, m)
  <2>1. call[t].got \in Seq(Locker) /\ Once(call[t].got) /\ ~Has(call[t].got, l)
    BY <1>1, Parts DEF IInv, OnePlace
  <2> QED
    BY <2>1, Appended
<1>4. PICK c \in Calls :
        /\ Shape(c) /\ Goes(t, c) /\ c.at \in {"idle", "claim"}
        /\ \/ c.got = <<>> /\ handles' = handles \cup {got}
           \/ c.got = got /\ handles' = handles
  <2>1. CASE want = <<>>
    BY <1>1, <2>1, IdleIsCall
  <2>2. CASE want # <<>>
    <3> DEFINE c == CallAt("claim", want, got)
    <3>1. c \in Calls /\ Shape(c) /\ c.at = "claim" /\ c.got = got
      <4> HIDE DEF want, got
      <4> QED
        BY <1>2, <1>3, <2>2 DEF CallAt, Calls, Shape, Places
    <3> QED
      BY <1>1, <2>2, <3>1
  <2> QED
    BY <2>1, <2>2
<1>5. /\ locker'[l].stream = s /\ locker'[l].thread = "waiting" /\ locker'[l].token = FALSE
      /\ \A m \in Locker : m # l => locker'[m] = locker[m]
      /\ locker' \in [Locker -> [stream : Stream, token : BOOLEAN,
                                 thread : {"none", "waiting", "parked", "exited"}]]
  <2> HIDE DEF s
  <2> QED
    BY <1>1, <1>2 DEF IInv, Types
<1> HIDE DEF s, want, got
<1>6. /\ call'[t] = c /\ \A u \in Thread : u # t => call'[u] = call[u]
      /\ call' \in [Thread -> Calls] /\ \A u \in Thread : Shape(call'[u])
  BY <1>4, GoesTo
<1>7. Types'
  <2>1. handles' \subseteq Seq(Locker) \ {<<>>}
    BY <1>3, <1>4 DEF IInv, Types
  <2> QED
    BY <1>2, <1>5, <1>6, <2>1 DEF IInv, Types
<1>8. \A m \in Locker : InUse(m)' <=> InUse(m) \/ m = l
  BY <1>5 DEF InUse
<1>9. OnePlace'
  <2>1. /\ \A h \in handles : Once(h) /\ ~Has(h, l)
        /\ \A u \in Thread : Once(call[u].got) /\ ~Has(call[u].got, l)
    BY <1>1 DEF IInv, OnePlace
  <2>2. CASE c.got = <<>> /\ handles' = handles \cup {got}
    <3>1. \A u \in Thread : u # t => call'[u].got = call[u].got
      BY <1>6
    <3>2. call'[t].got = <<>> /\ Once(<<>>) /\ \A m : ~Has(<<>>, m)
      BY <1>6, <2>2, EmptyHas
    <3>3. (\A h \in handles' : Once(h)) /\ (\A u \in Thread : Once(call'[u].got))
      BY <1>3, <2>1, <2>2, <3>1, <3>2
    <3>4. ASSUME NEW m \in Locker
          PROVE  /\ \A h \in handles' : Has(h, m) => InUse(m)'
                 /\ \A u \in Thread : Has(call'[u].got, m) => InUse(m)'
                 /\ \A h, k \in handles' : Has(h, m) /\ Has(k, m) => h = k
                 /\ \A u, v \in Thread : Has(call'[u].got, m) /\ Has(call'[v].got, m) => u = v
                 /\ \A h \in handles', u \in Thread : ~(Has(h, m) /\ Has(call'[u].got, m))
                 /\ InUse(m)' => \/ \E h \in handles' : Has(h, m)
                                 \/ \E u \in Thread : Has(call'[u].got, m)
      BY <1>3, <1>8, <2>1, <2>2, <3>1, <3>2 DEF IInv, OnePlace
    <3> QED
      BY <3>3, <3>4 DEF OnePlace
  <2>3. CASE c.got = got /\ handles' = handles
    <3>1. \A u \in Thread : u # t => call'[u].got = call[u].got
      BY <1>6
    <3>2. call'[t].got = got
      BY <1>6, <2>3
    <3>3. (\A h \in handles' : Once(h)) /\ (\A u \in Thread : Once(call'[u].got))
      BY <1>3, <2>1, <2>3, <3>1, <3>2
    <3>4. ASSUME NEW m \in Locker
          PROVE  /\ \A h \in handles' : Has(h, m) => InUse(m)'
                 /\ \A u \in Thread : Has(call'[u].got, m) => InUse(m)'
                 /\ \A h, k \in handles' : Has(h, m) /\ Has(k, m) => h = k
                 /\ \A u, v \in Thread : Has(call'[u].got, m) /\ Has(call'[v].got, m) => u = v
                 /\ \A h \in handles', u \in Thread : ~(Has(h, m) /\ Has(call'[u].got, m))
                 /\ InUse(m)' => \/ \E h \in handles' : Has(h, m)
                                 \/ \E u \in Thread : Has(call'[u].got, m)
      BY <1>3, <1>8, <2>1, <2>3, <3>1, <3>2 DEF IInv, OnePlace
    <3> QED
      BY <3>3, <3>4 DEF OnePlace
  <2> QED
    BY <1>4, <2>2, <2>3
<1>10. OneClaim'
  <2>1. \A u \in Thread, x \in Stream : Claims(u, x)' <=> Claims(u, x) /\ u # t
    BY <1>2, <1>4, <1>6 DEF Claims, In
  <2>2. \A m \in Locker, x \in Stream :
          Serves(m, x)' <=> (m # l /\ Serves(m, x)) \/ (m = l /\ x = s)
    BY <1>5, <1>8 DEF Serves
  <2>3. \A x \in Stream : (Claims(t, x) => x = s) /\ ~Serves(l, x)
    BY <1>1 DEF Claims, Serves, s
  <2> QED
    BY <1>2, <2>1, <2>2, <2>3 DEF IInv, OneClaim
<1>11. TokenOK'
  <2>1. \A u \in Thread : In(u, "join") \/ In(u, "store") => u # t /\ call'[u] = call[u]
    BY <1>2, <1>6 DEF In
  <2>2. \A u \in Thread : In(u, "store")' => In(u, "store") /\ u # t
    BY <1>4, <1>6 DEF In
  <2>3. \A u \in Thread : In(u, "store") => Head(call[u].got) \in Locker
                                            /\ Head(call[u].got) # l
    <3> SUFFICES ASSUME NEW u \in Thread, In(u, "store")
                 PROVE  Head(call[u].got) \in Locker /\ Head(call[u].got) # l
      OBVIOUS
    <3>1. call[u].got \in Seq(Locker) /\ call[u].got # <<>>
      BY Parts DEF In, Shape
    <3>2. Head(call[u].got) \in Locker /\ Has(call[u].got, Head(call[u].got))
      BY <3>1, HeadAndTail
    <3> QED
      BY <1>1, <3>2 DEF IInv, OnePlace
  <2> QED
    BY <1>5, <2>1, <2>2, <2>3 DEF IInv, TokenOK, In
<1>12. HolderOK'
  BY <1>2, <1>5 DEF IInv, HolderOK
<1> QED
  BY <1>7, <1>9, <1>10, <1>11, <1>12 DEF IInv

(***************************************************************************)
(* The destructors                                                         *)
(***************************************************************************)
LEMMA DropHandleInv == ASSUME NEW t \in Thread PROVE IInv /\ DropHandle(t) => IInv'
<1> SUFFICES ASSUME IInv, DropHandle(t) PROVE IInv'
  OBVIOUS
<1>1. PICK h \in handles : handles' = handles \ {h} /\ Goes(t, CallAt("unpark", <<>>, h))
  BY DEF DropHandle
<1>2. In(t, "idle") /\ UNCHANGED <<claimed, holder, locker, refused, lost>>
  BY DEF DropHandle
<1>3. call[t].got = <<>> /\ ~In(t, "join") /\ ~In(t, "store") /\ ~In(t, "spawn")
  BY <1>2, Parts, IdleIsCall DEF Shape, In
<1>0. h \in Seq(Locker) /\ h # <<>>
  BY <1>1 DEF IInv, Types
<1> DEFINE c == CallAt("unpark", <<>>, h)
<1>4. c \in Calls /\ Shape(c) /\ Goes(t, c) /\ c.at = "unpark" /\ c.got = h
  <2>1. <<>> \in Seq(Stream)
    BY EmptySeq
  <2> QED
    BY <1>0, <1>1, <2>1 DEF CallAt, Calls, Shape, Places
<1> HIDE DEF c
<1>5. /\ call'[t] = c /\ \A u \in Thread : u # t => call'[u] = call[u]
      /\ call' \in [Thread -> Calls] /\ \A u \in Thread : Shape(call'[u])
  BY <1>4, GoesTo
<1>6. Types'
  BY <1>1, <1>2, <1>5 DEF IInv, Types
<1>7. \A m \in Locker : InUse(m)' <=> InUse(m)
  BY <1>2 DEF InUse
<1>8. OnePlace'
  <2>1. /\ call'[t].got = h /\ \A u \in Thread : u # t => call'[u].got = call[u].got
        /\ \A m : ~Has(call[t].got, m)
    BY <1>3, <1>4, <1>5, EmptyHas
  <2>2. (\A k \in handles' : Once(k)) /\ (\A u \in Thread : Once(call'[u].got))
    BY <1>1, <2>1 DEF IInv, OnePlace
  <2>3. ASSUME NEW m \in Locker
        PROVE  /\ \A k \in handles' : Has(k, m) => InUse(m)'
               /\ \A u \in Thread : Has(call'[u].got, m) => InUse(m)'
               /\ \A j, k \in handles' : Has(j, m) /\ Has(k, m) => j = k
               /\ \A u, v \in Thread : Has(call'[u].got, m) /\ Has(call'[v].got, m) => u = v
               /\ \A k \in handles', u \in Thread : ~(Has(k, m) /\ Has(call'[u].got, m))
               /\ InUse(m)' => \/ \E k \in handles' : Has(k, m)
                               \/ \E u \in Thread : Has(call'[u].got, m)
    BY <1>1, <1>7, <2>1 DEF IInv, OnePlace
  <2> QED
    BY <2>2, <2>3 DEF OnePlace
<1>9. OneClaim'
  <2>1. \A u \in Thread, x \in Stream : Claims(u, x)' <=> Claims(u, x)
    BY <1>3, <1>4, <1>5 DEF Claims, In
  <2>2. \A l \in Locker, x \in Stream : Serves(l, x)' <=> Serves(l, x)
    BY <1>2 DEF Serves, InUse
  <2> QED
    BY <1>2, <2>1, <2>2, ClaimsStay DEF IInv
<1>10. TokenOK' /\ HolderOK'
  <2>1. \A u \in Thread : In(u, "join") \/ In(u, "store") => call'[u] = call[u]
    BY <1>3, <1>5
  <2>2. \A u \in Thread : In(u, "store")' => u # t
    BY <1>4, <1>5 DEF In
  <2> QED
    BY <1>2, <1>5, <2>1, <2>2 DEF IInv, TokenOK, HolderOK, In
<1> QED
  BY <1>6, <1>8, <1>9, <1>10 DEF IInv

\* The locker a destructor is at.
LEMMA First ==
    ASSUME IInv, NEW t \in Thread, In(t, "unpark") \/ In(t, "join") \/ In(t, "store")
    PROVE  /\ call[t].got \in Seq(Locker) /\ call[t].got # <<>>
           /\ Head(call[t].got) \in Locker /\ Has(call[t].got, Head(call[t].got))
           /\ InUse(Head(call[t].got))
           /\ \A u \in Thread : Has(call[u].got, Head(call[t].got)) => u = t
           /\ ~In(t, "idle") /\ ~In(t, "claim") /\ ~In(t, "spawn")
<1>1. call[t].got \in Seq(Locker) /\ call[t].got # <<>>
  BY Parts DEF In, Shape
<1>2. Head(call[t].got) \in Locker /\ Has(call[t].got, Head(call[t].got))
  BY <1>1, HeadAndTail
<1> QED
  BY <1>1, <1>2 DEF IInv, OnePlace, In

\* On the way from unpark to store a call keeps what it has.
LEMMA GoesOn ==
    ASSUME IInv, NEW t \in Thread, NEW at \in {"join", "store"},
           In(t, "unpark") \/ In(t, "join"),
           Goes(t, [call[t] EXCEPT !.at = at])
    PROVE  /\ call'[t].at = at /\ call'[t].got = call[t].got
           /\ \A u \in Thread : u # t => call'[u] = call[u]
           /\ call' \in [Thread -> Calls] /\ \A u \in Thread : Shape(call'[u])
           /\ \A u \in Thread, x \in Stream : Claims(u, x)' <=> Claims(u, x)
<1> DEFINE c == [call[t] EXCEPT !.at = at]
<1>1. c \in Calls /\ Shape(c) /\ c.at = at /\ c.got = call[t].got
  BY Parts, First DEF Calls, Shape, Places, In
<1>2. Goes(t, c)
  OBVIOUS
<1> HIDE DEF c
<1>3. /\ call'[t] = c /\ \A u \in Thread : u # t => call'[u] = call[u]
      /\ call' \in [Thread -> Calls] /\ \A u \in Thread : Shape(call'[u])
  BY <1>1, <1>2, GoesTo
<1>4. \A u \in Thread, x \in Stream : Claims(u, x)' <=> Claims(u, x)
  BY <1>1, <1>3 DEF Claims, In
<1> QED
  BY <1>1, <1>3, <1>4

LEMMA UnparkInv == ASSUME NEW t \in Thread PROVE IInv /\ Unpark(t) => IInv'
<1> SUFFICES ASSUME IInv, Unpark(t) PROVE IInv'
  OBVIOUS
<1> DEFINE l == Head(call[t].got)
<1>1. /\ In(t, "unpark") /\ locker' = [locker EXCEPT ![l].token = TRUE]
      /\ Goes(t, [call[t] EXCEPT !.at = "join"])
      /\ UNCHANGED <<claimed, holder, handles, refused, lost>>
  BY DEF Unpark
<1>2. l \in Locker
  BY <1>1, First
<1>3. /\ call'[t].at = "join" /\ call'[t].got = call[t].got
      /\ \A u \in Thread : u # t => call'[u] = call[u]
      /\ call' \in [Thread -> Calls] /\ \A u \in Thread : Shape(call'[u])
      /\ \A u \in Thread, x \in Stream : Claims(u, x)' <=> Claims(u, x)
  BY <1>1, GoesOn
<1>4. /\ locker' \in [Locker -> [stream : Stream, token : BOOLEAN,
                                 thread : {"none", "waiting", "parked", "exited"}]]
      /\ \A m \in Locker : /\ locker'[m].stream = locker[m].stream
                           /\ locker'[m].thread = locker[m].thread
                           /\ m # l => locker'[m] = locker[m]
  <2> HIDE DEF l
  <2> QED
    BY <1>1, <1>2 DEF IInv, Types
<1>5. Types'
  BY <1>1, <1>3, <1>4 DEF IInv, Types
<1>6. OnePlace'
  <2>1. \A m \in Locker : InUse(m)' <=> InUse(m)
    BY <1>4 DEF InUse
  <2>2. \A u \in Thread : call'[u].got = call[u].got
    BY <1>3
  <2> QED
    BY <1>1, <2>1, <2>2, PlacesStay DEF IInv
<1>7. OneClaim'
  <2>1. \A m \in Locker, x \in Stream : Serves(m, x)' <=> Serves(m, x)
    BY <1>4 DEF Serves, InUse
  <2> QED
    BY <1>1, <1>3, <2>1, ClaimsStay DEF IInv
<1>8. TokenOK'
  <2>1. \A m \in Locker : locker'[m].token =>
          \E u \in Thread : (In(u, "join")' \/ In(u, "store")') /\ Head(call'[u].got) = m
    <3> SUFFICES ASSUME NEW m \in Locker, locker'[m].token
                 PROVE  \E u \in Thread :
                          (In(u, "join")' \/ In(u, "store")') /\ Head(call'[u].got) = m
      OBVIOUS
    <3>1. CASE m = l
      BY <1>3, <3>1 DEF In
    <3>2. CASE m # l
      <4>1. PICK u \in Thread : (In(u, "join") \/ In(u, "store")) /\ Head(call[u].got) = m
        BY <1>4, <3>2 DEF IInv, TokenOK
      <4>2. u # t
        BY <1>1, <4>1 DEF In
      <4> QED
        BY <1>3, <4>1, <4>2 DEF In
    <3> QED
      BY <3>1, <3>2
  <2>2. \A u \in Thread : In(u, "store")' => locker'[Head(call'[u].got)].thread = "exited"
    <3> SUFFICES ASSUME NEW u \in Thread, In(u, "store")'
                 PROVE  locker'[Head(call'[u].got)].thread = "exited"
      OBVIOUS
    <3>1. u # t /\ In(u, "store") /\ call'[u] = call[u]
      BY <1>3 DEF In
    <3>2. Head(call[u].got) \in Locker
      BY <3>1, First
    <3> QED
      BY <1>4, <3>1, <3>2 DEF IInv, TokenOK
  <2> QED
    BY <2>1, <2>2 DEF TokenOK
<1>9. HolderOK'
  <2>1. holder' = holder
    BY <1>1
  <2>2. \A m \in Locker : locker'[m].stream = locker[m].stream /\ locker'[m].thread = locker[m].thread
    BY <1>4
  <2>3. HolderOK
    BY DEF IInv
  <2> QED
    BY ONLY <2>1, <2>2, <2>3 DEF HolderOK
<1> QED
  BY <1>5, <1>6, <1>7, <1>8, <1>9 DEF IInv

LEMMA JoinInv == ASSUME NEW t \in Thread PROVE IInv /\ Join(t) => IInv'
<1> SUFFICES ASSUME IInv, Join(t) PROVE IInv'
  OBVIOUS
<1>1. /\ In(t, "join") /\ Goes(t, [call[t] EXCEPT !.at = "store"])
      /\ locker[Head(call[t].got)].thread = "exited"
      /\ UNCHANGED <<claimed, holder, locker, handles, refused, lost>>
  BY DEF Join
<1>2. /\ call'[t].at = "store" /\ call'[t].got = call[t].got
      /\ \A u \in Thread : u # t => call'[u] = call[u]
      /\ call' \in [Thread -> Calls] /\ \A u \in Thread : Shape(call'[u])
      /\ \A u \in Thread, x \in Stream : Claims(u, x)' <=> Claims(u, x)
  BY <1>1, GoesOn
<1>3. Types'
  BY <1>1, <1>2 DEF IInv, Types
<1>4. OnePlace'
  <2>1. \A m \in Locker : InUse(m)' <=> InUse(m)
    BY <1>1 DEF InUse
  <2>2. \A u \in Thread : call'[u].got = call[u].got
    BY <1>2
  <2> QED
    BY <1>1, <2>1, <2>2, PlacesStay DEF IInv
<1>5. OneClaim'
  <2>1. \A m \in Locker, x \in Stream : Serves(m, x)' <=> Serves(m, x)
    BY <1>1 DEF Serves, InUse
  <2> QED
    BY <1>1, <1>2, <2>1, ClaimsStay DEF IInv
<1>6. TokenOK'
  <2>1. \A u \in Thread : In(u, "join") \/ In(u, "store") =>
          (In(u, "join")' \/ In(u, "store")') /\ Head(call'[u].got) = Head(call[u].got)
    BY <1>2 DEF In
  <2>2. \A u \in Thread : In(u, "store")' =>
          (u = t \/ In(u, "store")) /\ Head(call'[u].got) = Head(call[u].got)
    BY <1>2 DEF In
  <2> QED
    BY <1>1, <2>1, <2>2 DEF IInv, TokenOK
<1>7. HolderOK'
  BY <1>1 DEF IInv, HolderOK
<1> QED
  BY <1>3, <1>4, <1>5, <1>6, <1>7 DEF IInv

LEMMA StoreInv == ASSUME NEW t \in Thread PROVE IInv /\ Store(t) => IInv'
<1> SUFFICES ASSUME IInv, Store(t) PROVE IInv'
  OBVIOUS
<1> DEFINE l == Head(call[t].got)
           rest == Tail(call[t].got)
           s == locker[l].stream
<1>1. /\ In(t, "store") /\ claimed' = [claimed EXCEPT ![s] = FALSE]
      /\ locker' = [locker EXCEPT ![l] = Unused]
      /\ Goes(t, IF rest = <<>> THEN Idle ELSE CallAt("unpark", <<>>, rest))
      /\ UNCHANGED <<holder, handles, refused, lost>>
  BY DEF Store
<1>2. /\ l \in Locker /\ InUse(l) /\ s \in Stream /\ Has(call[t].got, l)
      /\ call[t].got \in Seq(Locker) /\ call[t].got # <<>>
      /\ \A u \in Thread : Has(call[u].got, l) => u = t
      /\ ~In(t, "spawn") /\ ~In(t, "unpark") /\ ~In(t, "join")
  BY <1>1, First, Parts DEF In
<1>3. /\ rest \in Seq(Locker) /\ Once(rest) /\ ~Has(rest, l)
      /\ \A m : Has(call[t].got, m) <=> m = l \/ Has(rest, m)
  BY <1>2, HeadAndTail DEF IInv, OnePlace
<1>4. PICK c \in Calls : Shape(c) /\ Goes(t, c) /\ c.at \in {"idle", "unpark"} /\ c.got = rest
  <2>1. CASE rest = <<>>
    BY <1>1, <2>1, IdleIsCall
  <2>2. CASE rest # <<>>
    <3> DEFINE c == CallAt("unpark", <<>>, rest)
    <3>1. c \in Calls /\ Shape(c) /\ c.at = "unpark" /\ c.got = rest
      <4>1. <<>> \in Seq(Stream)
        BY EmptySeq
      <4> HIDE DEF rest
      <4> QED
        BY <4>1, <1>3, <2>2 DEF CallAt, Calls, Shape, Places
    <3> QED
      BY <1>1, <2>2, <3>1
  <2> QED
    BY <2>1, <2>2
<1> HIDE DEF s, rest
<1>5. /\ locker'[l] = Unused /\ \A m \in Locker : m # l => locker'[m] = locker[m]
      /\ locker' \in [Locker -> [stream : Stream, token : BOOLEAN,
                                 thread : {"none", "waiting", "parked", "exited"}]]
      /\ Unused.thread = "none" /\ Unused.token = FALSE
  <2> HIDE DEF l
  <2>1. Unused \in [stream : Stream, token : BOOLEAN,
                    thread : {"none", "waiting", "parked", "exited"}]
    BY DEF Unused, Stream
  <2>2. Unused.thread = "none" /\ Unused.token = FALSE
    BY DEF Unused
  <2> QED
    BY <1>1, <1>2, <2>1, <2>2 DEF IInv, Types
<1>6. /\ call'[t] = c /\ \A u \in Thread : u # t => call'[u] = call[u]
      /\ call' \in [Thread -> Calls] /\ \A u \in Thread : Shape(call'[u])
  BY <1>4, GoesTo
<1>0. s = locker[l].stream
  BY DEF s
<1> HIDE DEF l
<1>7. \A x \in Stream : claimed'[x] <=> claimed[x] /\ x # s
  BY <1>1, <1>2 DEF IInv, Types
<1>8. Types'
  <2>1. claimed' \in [Stream -> BOOLEAN]
    BY <1>1, <1>2 DEF IInv, Types
  <2> QED
    BY <2>1, <1>1, <1>5, <1>6 DEF IInv, Types
<1>9. \A m \in Locker : InUse(m)' <=> InUse(m) /\ m # l
  BY <1>5 DEF InUse
<1>10. OnePlace'
  <2>1. call'[t].got = rest /\ \A u \in Thread : u # t => call'[u].got = call[u].got
    BY <1>4, <1>6
  <2>2. (\A h \in handles' : Once(h)) /\ (\A u \in Thread : Once(call'[u].got))
    BY <1>1, <1>3, <2>1 DEF IInv, OnePlace
  <2>3. ASSUME NEW m \in Locker
        PROVE  /\ \A h \in handles' : Has(h, m) => InUse(m)'
               /\ \A u \in Thread : Has(call'[u].got, m) => InUse(m)'
               /\ \A h, k \in handles' : Has(h, m) /\ Has(k, m) => h = k
               /\ \A u, v \in Thread : Has(call'[u].got, m) /\ Has(call'[v].got, m) => u = v
               /\ \A h \in handles', u \in Thread : ~(Has(h, m) /\ Has(call'[u].got, m))
               /\ InUse(m)' => \/ \E h \in handles' : Has(h, m)
                               \/ \E u \in Thread : Has(call'[u].got, m)
    BY <1>1, <1>2, <1>3, <1>9, <2>1 DEF IInv, OnePlace
  <2> QED
    BY <2>2, <2>3 DEF OnePlace
<1>11. OneClaim'
  <2>1. \A u \in Thread, x \in Stream : Claims(u, x)' <=> Claims(u, x)
    BY <1>2, <1>4, <1>6 DEF Claims, In
  <2>2. \A m \in Locker, x \in Stream : Serves(m, x)' <=> Serves(m, x) /\ m # l
    BY <1>5, <1>9 DEF Serves
  <2>3. Serves(l, s) /\ \A x \in Stream : Serves(l, x) => x = s
    BY <1>0, <1>2 DEF Serves
  <2> QED
    BY <1>1, <1>2, <1>7, <2>1, <2>2, <2>3 DEF IInv, OneClaim
<1>12. TokenOK'
  <2>1. ASSUME NEW m \in Locker, locker'[m].token
        PROVE  \E u \in Thread : (In(u, "join")' \/ In(u, "store")') /\ Head(call'[u].got) = m
    <3>1. m # l /\ locker[m].token
      BY <1>5, <2>1
    <3>2. PICK u \in Thread : (In(u, "join") \/ In(u, "store")) /\ Head(call[u].got) = m
      BY <3>1 DEF IInv, TokenOK
    <3>3. u # t
      BY <3>1, <3>2 DEF l
    <3> QED
      BY <1>6, <3>2, <3>3 DEF In
  <2>2. ASSUME NEW u \in Thread, In(u, "store")'
        PROVE  locker'[Head(call'[u].got)].thread = "exited"
    <3>1. u # t /\ In(u, "store") /\ call'[u] = call[u]
      BY <1>4, <1>6, <2>2 DEF In
    <3>2. Head(call[u].got) \in Locker /\ Head(call[u].got) # l
      BY <1>2, <3>1, First
    <3> QED
      BY <1>5, <3>1, <3>2 DEF IInv, TokenOK
  <2> QED
    BY <2>1, <2>2 DEF TokenOK
<1>13. HolderOK'
  BY <1>1, <1>5 DEF IInv, HolderOK
<1> QED
  BY <1>8, <1>10, <1>11, <1>12, <1>13 DEF IInv

(***************************************************************************)
(* Std's locks                                                             *)
(***************************************************************************)
\* A step of std's lock, or of a locker's thread between two places where it
\* is in use, changes no call and no claim.
LEMMA LocksInv ==
    ASSUME IInv, UNCHANGED <<claimed, handles, call, refused, lost>>,
           holder' \in [Stream -> {NoOne} \cup Thread \cup Locker],
           locker' \in [Locker -> [stream : Stream, token : BOOLEAN,
                                   thread : {"none", "waiting", "parked", "exited"}]],
           \A l \in Locker : /\ locker'[l].stream = locker[l].stream
                             /\ locker'[l].token = locker[l].token
                             /\ locker[l].thread = "none" <=> locker'[l].thread = "none"
                             /\ locker[l].thread = "exited" => locker'[l].thread = "exited",
           HolderOK'
    PROVE  IInv'
<1>1. Types'
  BY DEF IInv, Types
<1>2. OnePlace'
  <2>1. \A l \in Locker : InUse(l)' <=> InUse(l)
    BY DEF InUse
  <2> QED
    BY <2>1, PlacesStay DEF IInv
<1>3. OneClaim'
  <2>1. \A l \in Locker, s \in Stream : Serves(l, s)' <=> Serves(l, s)
    BY DEF Serves, InUse
  <2>2. \A t \in Thread, s \in Stream : Claims(t, s)' <=> Claims(t, s)
    BY DEF Claims, In
  <2> QED
    BY <2>1, <2>2, ClaimsStay DEF IInv
<1>4. TokenOK'
  <2>1. \A t \in Thread : In(t, "store") => Head(call[t].got) \in Locker
    BY First
  <2> QED
    BY <2>1 DEF IInv, TokenOK, In
<1> QED
  BY <1>1, <1>2, <1>3, <1>4 DEF IInv

LEMMA AcquireInv == ASSUME NEW l \in Locker PROVE IInv /\ Acquire(l) => IInv'
<1> SUFFICES ASSUME IInv, Acquire(l) PROVE IInv'
  OBVIOUS
<1> DEFINE s == locker[l].stream
<1>1. /\ locker[l].thread = "waiting" /\ holder[s] = NoOne /\ s \in Stream
      /\ holder' = [holder EXCEPT ![s] = l] /\ locker' = [locker EXCEPT ![l].thread = "parked"]
      /\ UNCHANGED <<claimed, handles, call, refused, lost>>
  BY Parts DEF Acquire
<1>2. locker' \in [Locker -> [stream : Stream, token : BOOLEAN,
                              thread : {"none", "waiting", "parked", "exited"}]]
  BY <1>1 DEF IInv, Types
<1>3. /\ locker'[l].thread = "parked" /\ locker'[l].stream = s
      /\ locker'[l].token = locker[l].token
      /\ \A m \in Locker : m # l => locker'[m] = locker[m]
  BY <1>1 DEF IInv, Types
<1> HIDE DEF s
<1>4. /\ holder' \in [Stream -> {NoOne} \cup Thread \cup Locker]
      /\ holder'[s] = l /\ \A x \in Stream : x # s => holder'[x] = holder[x]
  BY <1>1 DEF IInv, Types
<1>5. HolderOK'
  <2> SUFFICES ASSUME NEW m \in Locker, locker'[m].thread = "parked"
               PROVE  holder'[locker'[m].stream] = m
    BY DEF HolderOK
  <2>1. CASE m = l
    BY <1>3, <1>4, <2>1
  <2>2. CASE m # l
    <3>1. holder[locker[m].stream] = m /\ locker'[m] = locker[m]
      BY <1>3, <2>2 DEF IInv, HolderOK
    <3>2. locker[m].stream # s /\ locker[m].stream \in Stream
      BY <1>1, <3>1, Parts, NamesAssumption
    <3> QED
      BY <1>4, <3>1, <3>2
  <2> QED
    BY <2>1, <2>2
<1>6. \A m \in Locker : /\ locker'[m].stream = locker[m].stream
                        /\ locker'[m].token = locker[m].token
                        /\ locker[m].thread = "none" <=> locker'[m].thread = "none"
                        /\ locker[m].thread = "exited" => locker'[m].thread = "exited"
  BY <1>1, <1>3 DEF s
<1> QED
  BY <1>1, <1>2, <1>4, <1>5, <1>6, LocksInv

LEMMA ReleaseInv == ASSUME NEW l \in Locker PROVE IInv /\ Release(l) => IInv'
<1> SUFFICES ASSUME IInv, Release(l) PROVE IInv'
  OBVIOUS
<1> DEFINE s == locker[l].stream
<1>1. /\ locker[l].thread = "parked" /\ s \in Stream
      /\ holder' = [holder EXCEPT ![s] = NoOne] /\ locker' = [locker EXCEPT ![l].thread = "exited"]
      /\ UNCHANGED <<claimed, handles, call, refused, lost>>
  BY Parts DEF Release
<1>2. locker' \in [Locker -> [stream : Stream, token : BOOLEAN,
                              thread : {"none", "waiting", "parked", "exited"}]]
  BY <1>1 DEF IInv, Types
<1>3. /\ locker'[l].thread = "exited" /\ locker'[l].stream = s
      /\ locker'[l].token = locker[l].token
      /\ \A m \in Locker : m # l => locker'[m] = locker[m]
  BY <1>1 DEF IInv, Types
<1>4. /\ holder' \in [Stream -> {NoOne} \cup Thread \cup Locker]
      /\ \A x \in Stream : x # s => holder'[x] = holder[x]
  BY <1>1 DEF IInv, Types
<1>5. HolderOK'
  <2> SUFFICES ASSUME NEW m \in Locker, locker'[m].thread = "parked"
               PROVE  holder'[locker'[m].stream] = m
    BY DEF HolderOK
  <2>1. m # l /\ locker'[m] = locker[m]
    BY <1>3
  <2>2. holder[locker[m].stream] = m /\ locker[m].stream \in Stream
    BY <2>1, Parts DEF IInv, HolderOK
  <2>3. holder[s] = l
    BY <1>1 DEF IInv, HolderOK
  <2>4. locker[m].stream # s
    BY <2>1, <2>2, <2>3
  <2> QED
    BY <1>4, <2>1, <2>2, <2>4
<1>6. \A m \in Locker : /\ locker'[m].stream = locker[m].stream
                        /\ locker'[m].token = locker[m].token
                        /\ locker[m].thread = "none" <=> locker'[m].thread = "none"
                        /\ locker[m].thread = "exited" => locker'[m].thread = "exited"
  BY <1>1, <1>3
<1> QED
  BY <1>1, <1>2, <1>4, <1>5, <1>6, LocksInv

LEMMA StdInv ==
    ASSUME NEW t \in Thread, NEW s \in Stream
    PROVE  IInv /\ (LockStd(t, s) \/ UnlockStd(t, s)) => IInv'
<1> SUFFICES ASSUME IInv, LockStd(t, s) \/ UnlockStd(t, s) PROVE IInv'
  OBVIOUS
<1>1. UNCHANGED <<claimed, locker, handles, call, refused, lost>>
  BY DEF LockStd, UnlockStd
<1>2. /\ holder' \in [Stream -> {NoOne} \cup Thread \cup Locker]
      /\ \A x \in Stream : x # s => holder'[x] = holder[x]
  BY DEF LockStd, UnlockStd, IInv, Types
<1>3. \A l \in Locker : holder[s] # l
  BY NamesAssumption DEF LockStd, UnlockStd
<1>4. HolderOK'
  <2> SUFFICES ASSUME NEW l \in Locker, locker[l].thread = "parked"
               PROVE  holder'[locker[l].stream] = l
    BY <1>1 DEF HolderOK
  <2>1. holder[locker[l].stream] = l /\ locker[l].stream \in Stream
    BY Parts DEF IInv, HolderOK
  <2>2. locker[l].stream # s
    BY <1>3, <2>1
  <2> QED
    BY <1>2, <2>1, <2>2
<1>5. locker' \in [Locker -> [stream : Stream, token : BOOLEAN,
                              thread : {"none", "waiting", "parked", "exited"}]]
  BY <1>1 DEF IInv, Types
<1> QED
  BY <1>1, <1>2, <1>4, <1>5, LocksInv

(***************************************************************************)
(* The theorems                                                            *)
(***************************************************************************)
LEMMA InitInv == Init => IInv
<1> SUFFICES ASSUME Init PROVE IInv
  OBVIOUS
<1>1. \A t \in Thread : call[t] = Idle
  BY DEF Init
<1>2. \A l \in Locker : locker[l].thread = "none" /\ locker[l].token = FALSE
  BY DEF Init, Unused
<1>3. Types
  <2>1. Unused \in [stream : Stream, token : BOOLEAN,
                    thread : {"none", "waiting", "parked", "exited"}]
    BY DEF Unused, Stream
  <2> QED
    BY <2>1, IdleIsCall DEF Init, Types
<1>4. OnePlace
  BY <1>1, <1>2, IdleIsCall, EmptyHas DEF Init, OnePlace, InUse
<1>5. OneClaim
  <2>1. /\ \A s \in Stream : ~claimed[s]
        /\ \A l \in Locker, s \in Stream : ~Serves(l, s)
        /\ \A t \in Thread, s \in Stream : ~Claims(t, s)
    BY <1>1, <1>2, IdleIsCall DEF Init, Serves, InUse, Claims, In
  <2> QED
    BY <2>1 DEF OneClaim
<1>6. TokenOK /\ HolderOK
  BY <1>1, <1>2, IdleIsCall DEF TokenOK, HolderOK, In
<1> QED
  BY <1>3, <1>4, <1>5, <1>6 DEF IInv

LEMMA StepInv == IInv /\ [Next]_vars => IInv'
<1> SUFFICES ASSUME IInv, [Next]_vars PROVE IInv'
  OBVIOUS
<1>1. ASSUME NEW t \in Thread, Construct(t) \/ DropHandle(t) \/ InCall(t) PROVE IInv'
  BY <1>1, ConstructInv, DropHandleInv, ClaimInv, SpawnInv, SpawnFailsInv, UnparkInv, JoinInv,
     StoreInv DEF InCall
<1>2. ASSUME NEW l \in Locker, Acquire(l) \/ Release(l) PROVE IInv'
  BY <1>2, AcquireInv, ReleaseInv
<1>3. ASSUME NEW t \in Thread, NEW s \in Stream, LockStd(t, s) \/ UnlockStd(t, s) PROVE IInv'
  BY <1>3, StdInv
<1>4. CASE UNCHANGED vars
  <2>1. /\ UNCHANGED <<claimed, handles, call, refused, lost, holder, locker>>
        /\ HolderOK'
    BY <1>4 DEF vars, IInv, HolderOK
  <2>2. /\ holder' \in [Stream -> {NoOne} \cup Thread \cup Locker]
        /\ locker' \in [Locker -> [stream : Stream, token : BOOLEAN,
                                   thread : {"none", "waiting", "parked", "exited"}]]
    BY <2>1 DEF IInv, Types
  <2> QED
    BY <2>1, <2>2, LocksInv
<1> QED
  BY <1>1, <1>2, <1>3, <1>4 DEF Next

\* The inductive invariant holds: every locker in use is in one place, and
\* every claim has one reason.
THEOREM InvariantHolds == Spec => []IInv
<1>1. Init => IInv
  BY InitInv
<1>2. IInv /\ [Next]_vars => IInv'
  BY StepInv
<1> QED
  BY <1>1, <1>2, PTL DEF Spec

\* Types, and what a constructor or destructor has at each of its places.
THEOREM TypeCorrect == Spec => []TypeOK
BY Typed, InvariantHolds, PTL

\* Two lockers of one stream never exist at a time, whoever constructs and
\* drops handles, and whichever constructors fail half way.
THEOREM OnlyOneLocker == Spec => []OneLocker
<1>1. IInv => OneLocker
  BY Parts DEF IInv, OneClaim, OneLocker, Serves
<1> QED
  BY <1>1, InvariantHolds, PTL

\* A lock thread keeps std's lock until the destructor of its locker joins it.
THEOREM KeepsTheLock == Spec => HeldUntilDropped
<1> DEFINE Kept ==
      \A s \in Stream, l \in Locker :
         holder[s] = l /\ holder'[s] # l =>
             \E t \in Thread : In(t, "join") /\ Head(call[t].got) = l
<1>1. ASSUME IInv, Next PROVE Kept
  <2> SUFFICES ASSUME NEW s \in Stream, NEW l \in Locker, holder[s] = l, holder'[s] # l
               PROVE  \E t \in Thread : In(t, "join") /\ Head(call[t].got) = l
    OBVIOUS
  <2>0. holder \in [Stream -> {NoOne} \cup Thread \cup Locker] /\ l # NoOne /\ l \notin Thread
    BY <1>1, NamesAssumption DEF IInv, Types
  <2>1. ASSUME NEW t \in Thread, Construct(t) \/ DropHandle(t) \/ InCall(t) PROVE FALSE
    BY <2>1 DEF Construct, DropHandle, InCall, Claim, Spawn, SpawnFails, Unpark, Join, Store
  <2>2. ASSUME NEW t \in Thread, NEW x \in Stream, LockStd(t, x) \/ UnlockStd(t, x) PROVE FALSE
    BY <2>0, <2>2 DEF LockStd, UnlockStd
  <2>3. ASSUME NEW m \in Locker, Acquire(m) PROVE FALSE
    BY <1>1, <2>0, <2>3, Parts DEF Acquire
  <2>4. ASSUME NEW m \in Locker, Release(m)
        PROVE  \E t \in Thread : In(t, "join") /\ Head(call[t].got) = l
    <3>1. locker[m].stream = s
      BY <1>1, <2>0, <2>4, Parts DEF Release
    <3>2. m = l
      BY <1>1, <2>4, <3>1 DEF Release, IInv, HolderOK
    <3>3. PICK t \in Thread : (In(t, "join") \/ In(t, "store")) /\ Head(call[t].got) = l
      BY <1>1, <2>4, <3>2 DEF Release, IInv, TokenOK
    <3>4. ~In(t, "store")
      BY <1>1, <2>4, <3>2, <3>3 DEF Release, IInv, TokenOK
    <3> QED
      BY <3>3, <3>4
  <2> QED
    BY <1>1, <2>1, <2>2, <2>3, <2>4 DEF Next
<1>2. IInv /\ [Next]_vars => [Kept]_vars
  BY <1>1
<1> QED
  BY <1>2, InvariantHolds, PTL DEF Spec, HeldUntilDropped

\* A constructor is refused a stream only while a handle, a constructor or a
\* destructor has it, unless a lock thread of that stream could not be spawned.
THEOREM RefusalsHaveReason == Spec => RefusedOnlyIfOwnedOrLost
<1> DEFINE Reason ==
      \A t \in Thread : Refused(t) =>
         Head(call[t].want) \in lost \/ Owned(Head(call[t].want), t)
<1>1. ASSUME IInv, Next PROVE Reason
  <2> SUFFICES ASSUME NEW t \in Thread, ~refused[t], refused'[t],
                      Head(call[t].want) \notin lost
               PROVE  Owned(Head(call[t].want), t)
    BY DEF Refused
  <2> DEFINE s == Head(call[t].want)
  <2>1. Claim(t) /\ claimed[s]
    <3>1. ASSUME NEW u \in Thread, Construct(u) PROVE FALSE
      BY <1>1, <3>1 DEF Construct, IInv, Types
    <3>2. ASSUME NEW u \in Thread,
                 DropHandle(u) \/ Spawn(u) \/ SpawnFails(u) \/ Unpark(u) \/ Join(u) \/ Store(u)
          PROVE  FALSE
      BY <3>2 DEF DropHandle, Spawn, SpawnFails, Unpark, Join, Store
    <3>3. ASSUME NEW l \in Locker, Acquire(l) \/ Release(l) PROVE FALSE
      BY <3>3 DEF Acquire, Release
    <3>4. ASSUME NEW u \in Thread, NEW x \in Stream, LockStd(u, x) \/ UnlockStd(u, x)
          PROVE  FALSE
      BY <3>4 DEF LockStd, UnlockStd
    <3>5. ASSUME NEW u \in Thread, Claim(u) PROVE u = t /\ claimed[s]
      BY <1>1, <3>5 DEF Claim, IInv, Types
    <3> QED
      BY <1>1, <3>1, <3>2, <3>3, <3>4, <3>5 DEF Next, InCall
  <2>2. In(t, "claim") /\ s \in Stream /\ s \notin lost
    BY <1>1, <2>1, Wanted DEF Claim
  <2>3. \/ \E l \in Locker : Serves(l, s)
        \/ \E u \in Thread : Claims(u, s)
    <3> HIDE DEF s
    <3> QED
      BY <1>1, <2>1, <2>2 DEF IInv, OneClaim
  <2>4. ASSUME NEW l \in Locker, Serves(l, s) PROVE Owned(s, t)
    <3>1. \/ \E h \in handles : Has(h, l)
          \/ \E u \in Thread : Has(call[u].got, l)
      BY <1>1, <2>4 DEF IInv, OnePlace, Serves
    <3> HIDE DEF s
    <3> QED
      BY <2>4, <3>1 DEF Has, Serves, Owned
  <2>5. ASSUME NEW u \in Thread, Claims(u, s) PROVE Owned(s, t)
    <3>1. u # t
      BY <2>2, <2>5 DEF Claims, In
    <3> QED
      BY <2>5, <3>1 DEF Claims, Owned
  <2> QED
    BY <2>3, <2>4, <2>5
<1>2. IInv /\ [Next]_vars => [Reason]_vars
  BY <1>1
<1> QED
  BY <1>2, InvariantHolds, PTL DEF Spec, RefusedOnlyIfOwnedOrLost
================================================================================
