--------------------------- MODULE OwnershipProofs --------------------------
(***************************************************************************)
(* Theorems about Filtering, for any number of ranks, any data and any     *)
(* script of operations: no data set is used after it is deleted, left     *)
(* behind, or changed under the hands of the host.  The last theorem is    *)
(* about the samples that HistSampling takes.                              *)
(*                                                                         *)
(* The argument: every program, on each of its branches, leads from a      *)
(* filter that has its input to one that owns its output and nothing else, *)
(* by steps that delete and overwrite only what the filter owns.  On the   *)
(* stack of a rank no two frames own the same data set, and all that is on *)
(* the heap is owned by a frame or held by the host.                       *)
(***************************************************************************)
EXTENDS FilteringProofs

USE DEF Stopped

-----------------------------------------------------------------------------
(* Programs and what they own.  While a filter runs, has are the registers  *)
(* of its frame that point to a data set, own those whose data set it has to *)
(* delete or to return, slices the number of contours it has put aside, and  *)
(* cells what its answers tell of the test "cells" for its own field: first  *)
(* whether the field exists, then its association.                          *)

Registers == {"in", "old", "out", "temp", "other"}
Knowledge == {"nothing", "exists", "none", "assoc", "yes", "no"}

Holding(has, own, slices, cells) ==
  [has |-> has, own |-> own, slices |-> slices, cells |-> cells]

Start == Holding({"in"}, {}, 0, "nothing")

(* Register reg gets a data set of its own. *)
Made(s, reg) == Holding(s.has \cup {reg}, s.own \cup {reg}, s.slices, s.cells)

Learned(op, step, known) ==
  IF step.q = "exists" THEN IF step.f = op.f THEN "exists" ELSE "nothing"
  ELSE IF step.q = "assoc"
       THEN IF step.f = op.f /\ known = "exists" THEN "assoc" ELSE "nothing"
  ELSE known

(* Steps that neither move nor make a data set. *)
Quiet ==
  {"check", "mapFields", "clear", "addBlocks", "build", "addCounter", "increment",
   "calcStats", "computed"}

(* Operations that filters call. *)
Callable(op) == WellFormedOp(op) /\ op.name \notin Functions \cup {"HistSampling"}

(* HistSampling without ghosts to strip adds its field to the host's data.  *)
Samples(op) == op.name = "HistSampling" /\ op.ghost = ""

(* A step that a filter may do with what it has, and what it has then. *)
Does(op, step, s, t) ==
  \/ /\ step.do = "ask"
     /\ step.of \in s.has
     /\ t = Holding(s.has, s.own, s.slices, Learned(op, step, s.cells))
  \/ /\ step.do \in Quiet
     /\ t = s
  \/ /\ step.do = "map"
     /\ step.from \in s.has /\ step.to \in Registers \ s.own
     /\ t = Made(s, step.to)
  \/ /\ step.do = "picture"
     /\ "out" \notin s.own
     /\ t = Made(s, "out")
  \/ /\ step.do = "overwrite"
     /\ step.of \in s.has /\ step.work.name = "valSampled"
     /\ step.of \in s.own \/ Samples(op)
     /\ t = s
  \/ /\ step.do = "update"
     /\ step.from \in s.has /\ Callable(step.op)
     /\ \/ /\ step.to \in Registers \ s.own
           /\ t = Made(s, step.to)
        \/ /\ step.to = "slices"
           /\ t = Holding(s.has, s.own, s.slices + 1, s.cells)
  \/ /\ step.do = "delete"
     /\ step.reg \in s.own /\ step.reg # "in"
     /\ t = Holding(s.has \ {step.reg}, s.own \ {step.reg}, s.slices, s.cells)
  \/ /\ step.do = "assign"
     /\ step.from \in s.has \ s.own /\ step.to \in Registers \ s.own
     /\ t = Holding(s.has \cup {step.to}, s.own, s.slices, s.cells)
  \/ /\ step.do = "restore"
     /\ "in" \in s.own /\ "old" \in s.has \ s.own
     /\ t = Holding(s.has \ {"old"}, s.own \ {"in"}, s.slices, s.cells)
  \/ /\ step.do = "merge"
     /\ "out" \notin s.own
     /\ t = Holding(s.has \cup {"out"}, s.own \cup {"out"}, 0, s.cells)
  \/ /\ step.do = "take"
     /\ "out" \notin s.own /\ s.slices = 1
     /\ t = Holding(s.has \cup {"out"}, s.own \cup {"out"}, 0, s.cells)
  \/ /\ step.do = "metadata"
     /\ "in" \in s.has /\ "out" \in s.own
     /\ t = s

(* The association must be known where it decides about a copy of the input. *)
MayBranch(op, step, s) ==
  /\ step.test = "cells" => step.f = op.f /\ s.cells \in {"none", "assoc", "yes", "no"}
  /\ IsList(step.then) /\ IsList(step.else)

(* Where a test may lead, and what is known then. *)
Goes(op, step, s, branch, t) ==
  IF step.test = "cells"
  THEN \/ /\ s.cells \in {"assoc", "yes"} /\ branch = step.then
          /\ t = Holding(s.has, s.own, s.slices, "yes")
       \/ /\ s.cells \in {"assoc", "no"} /\ branch = step.else
          /\ t = Holding(s.has, s.own, s.slices, "no")
       \/ /\ s.cells = "none" /\ branch = step.else
          /\ t = s
  ELSE IF step.test = "exists"
  THEN \/ branch = step.then /\ t = s
       \/ /\ branch = step.else
          /\ t = IF step.f = op.f /\ s.cells = "exists"
                 THEN Holding(s.has, s.own, s.slices, "none") ELSE s
  ELSE branch \in {step.then, step.else} /\ t = s

(* What a filter has when it returns: its output, and nothing else. *)
Over(op, s) ==
  /\ s.slices = 0
  /\ IF op.name \in Functions THEN s.own = {} /\ "out" \notin s.has ELSE s.own = {"out"}

(* Slice without planes throws. *)
Blocked(op, step) == step.do = "check" /\ step.test = "planes" /\ op.planes = <<>>

(* W has, with a filter that still has todo to do, what comes after it. *)
Fine(W, op, todo, s) ==
  /\ IsList(todo)
  /\ todo = <<>> => Over(op, s)
  /\ todo # <<>> =>
       \/ Blocked(op, Head(todo))
       \/ /\ Head(todo).do = "if"
          /\ MayBranch(op, Head(todo), s)
          /\ \A branch, t : Goes(op, Head(todo), s, branch, t) =>
                              <<op, Then(branch, Tail(todo)), t>> \in W
       \/ \E t : Does(op, Head(todo), s, t) /\ <<op, Tail(todo), t>> \in W

Closed(W) == \A op, todo, s : <<op, todo, s>> \in W => Fine(W, op, todo, s)

(* A filter that has s and todo to do does it to the end, with no step it    *)
(* may not do, and leaves nothing behind.                                   *)
Safe(op, todo, s) == \E W : Closed(W) /\ <<op, todo, s>> \in W

LEMMA FineMore ==
  ASSUME NEW V, NEW W, V \subseteq W, NEW op, NEW todo, NEW s, Fine(V, op, todo, s)
  PROVE  Fine(W, op, todo, s)
<1>1. IsList(todo) /\ (todo = <<>> => Over(op, s))
  BY DEF Fine
<1>2. ASSUME todo # <<>>,
             ~ Blocked(op, Head(todo))
      PROVE  Fine(W, op, todo, s)
  <2>1. CASE /\ Head(todo).do = "if"
             /\ MayBranch(op, Head(todo), s)
             /\ \A branch, t : Goes(op, Head(todo), s, branch, t) =>
                                 <<op, Then(branch, Tail(todo)), t>> \in V
    BY <1>1, <2>1, Zenon DEF Fine
  <2>2. ASSUME NEW t, Does(op, Head(todo), s, t), <<op, Tail(todo), t>> \in V
        PROVE  Fine(W, op, todo, s)
    BY <1>1, <2>2, Zenon DEF Fine
  <2>3. QED
    BY <1>2, <2>1, <2>2, Zenon DEF Fine
<1>3. QED
  BY <1>1, <1>2, Zenon DEF Fine

LEMMA ClosedBoth ==
  ASSUME NEW V, NEW W, Closed(V), Closed(W)
  PROVE  Closed(V \cup W)
<1> SUFFICES ASSUME NEW op, NEW todo, NEW s, <<op, todo, s>> \in V \cup W
             PROVE  Fine(V \cup W, op, todo, s)
  BY DEF Closed
<1>1. CASE <<op, todo, s>> \in V
  <2>1. V \subseteq V \cup W
    OBVIOUS
  <2>2. Fine(V, op, todo, s)
    BY <1>1, Zenon DEF Closed
  <2>3. QED
    BY <2>1, <2>2, FineMore
<1>2. CASE <<op, todo, s>> \in W
  <2>1. W \subseteq V \cup W
    OBVIOUS
  <2>2. Fine(W, op, todo, s)
    BY <1>2, Zenon DEF Closed
  <2>3. QED
    BY <2>1, <2>2, FineMore
<1>3. QED
  BY <1>1, <1>2

LEMMA SafeBy ==
  ASSUME NEW V, Closed(V), NEW op, NEW todo, NEW s,
         Fine(V \cup {<<op, todo, s>>}, op, todo, s)
  PROVE  Safe(op, todo, s)
<1> DEFINE W == V \cup {<<op, todo, s>>}
<1>1. V \subseteq W /\ <<op, todo, s>> \in W
  OBVIOUS
<1>2. ASSUME NEW o, NEW d, NEW x, <<o, d, x>> \in W
      PROVE  Fine(W, o, d, x)
  <2>1. CASE <<o, d, x>> \in V
    <3>1. Fine(V, o, d, x)
      BY <2>1, Zenon DEF Closed
    <3> HIDE DEF W
    <3>2. QED
      BY <1>1, <3>1, FineMore
  <2>2. CASE <<o, d, x>> = <<op, todo, s>>
    <3>1. o = op /\ d = todo /\ x = s
      BY <2>2
    <3>2. QED
      BY <3>1
  <2>3. QED
    BY <1>2, <2>1, <2>2
<1> HIDE DEF W
<1>3. Closed(W)
  BY <1>2 DEF Closed
<1>4. QED
  BY <1>1, <1>3 DEF Safe

-----------------------------------------------------------------------------
(* What it takes to be safe. *)

(* Joining lists. *)
LEMMA ThenIs ==
  ASSUME NEW p, NEW q, IsList(p), IsList(q)
  PROVE  /\ IsList(Then(p, q)) /\ Then(<<>>, q) = q /\ Then(p, <<>>) = p
<1>1. PICK S : p \in Seq(S)
  BY DEF IsList
<1>2. PICK T : q \in Seq(T)
  BY DEF IsList
<1>3. IsList(Then(p, q))
  BY Joined2 DEF Then
<1>4. Then(<<>>, q) = q /\ Then(p, <<>>) = p
  BY <1>1, <1>2, ConcatEmptySeq DEF Then
<1>5. QED
  BY <1>3, <1>4

LEMMA ThenThen ==
  ASSUME NEW p, NEW q, NEW d, IsList(p), IsList(q), IsList(d)
  PROVE  Then(Then(p, q), d) = Then(p, Then(q, d))
<1>1. PICK P : p \in Seq(P)
  BY DEF IsList
<1>2. PICK Q : q \in Seq(Q)
  BY DEF IsList
<1>3. PICK D : d \in Seq(D)
  BY DEF IsList
<1> DEFINE U == P \cup Q \cup D
<1>4. p \in Seq(U) /\ q \in Seq(U) /\ d \in Seq(U)
  BY <1>1, <1>2, <1>3, SeqMonotonic
<1> HIDE DEF U
<1>5. (p \o q) \o d = p \o (q \o d)
  BY <1>4, ConcatAssociative
<1>6. QED
  BY <1>5 DEF Then

LEMMA SafeOver ==
  ASSUME NEW op, NEW s, Over(op, s)
  PROVE  Safe(op, <<>>, s)
<1>1. Closed({})
  BY DEF Closed
<1>2. Fine({} \cup {<<op, <<>>, s>>}, op, <<>>, s)
  BY NoList DEF Fine
<1>3. QED
  BY <1>1, <1>2, SafeBy, Zenon

LEMMA SafeBlocked ==
  ASSUME NEW op, NEW s, NEW step, NEW rest, IsList(rest), Blocked(op, step)
  PROVE  Safe(op, Then(<<step>>, rest), s)
<1> DEFINE todo == <<step>> \o rest
<1>1. IsList(todo) /\ todo # <<>> /\ Head(todo) = step
  BY Fronted
<1>2. Closed({})
  BY DEF Closed
<1> HIDE DEF todo
<1>3. Fine({} \cup {<<op, todo, s>>}, op, todo, s)
  BY <1>1, Zenon DEF Fine
<1>4. Safe(op, todo, s)
  BY <1>2, <1>3, SafeBy, Zenon
<1>5. QED
  BY <1>4 DEF todo, Then

LEMMA SafeStep ==
  ASSUME NEW op, NEW s, NEW t, NEW step, NEW rest, IsList(rest), Safe(op, rest, t),
         Does(op, step, s, t)
  PROVE  Safe(op, Then(<<step>>, rest), s)
<1> DEFINE todo == <<step>> \o rest
<1>1. IsList(todo) /\ todo # <<>> /\ Head(todo) = step /\ Tail(todo) = rest
  BY Fronted
<1> HIDE DEF todo
<1>2. PICK V : Closed(V) /\ <<op, rest, t>> \in V
  BY DEF Safe
<1>3. Fine(V \cup {<<op, todo, s>>}, op, todo, s)
  BY <1>1, <1>2, Zenon DEF Fine
<1>4. QED
  BY <1>2, <1>3, SafeBy, Zenon DEF todo, Then

LEMMA SafeBranch ==
  ASSUME NEW op, NEW s, NEW step, NEW rest, IsList(rest), step.do = "if",
         MayBranch(op, step, s),
         \A branch, t : Goes(op, step, s, branch, t) => Safe(op, Then(branch, rest), t)
  PROVE  Safe(op, Then(<<step>>, rest), s)
<1> DEFINE todo == <<step>> \o rest
           Both == {step.then, step.else}
           After == {s} \cup {Holding(s.has, s.own, s.slices, k) : k \in Knowledge}
           set(branch, t) ==
             IF Goes(op, step, s, branch, t)
             THEN CHOOSE W : Closed(W) /\ <<op, Then(branch, rest), t>> \in W ELSE {}
           U == UNION {set(branch, t) : branch \in Both, t \in After}
<1>1. IsList(todo) /\ todo # <<>> /\ Head(todo) = step /\ Tail(todo) = rest
  BY Fronted
<1> HIDE DEF todo
<1>2. \A branch, t : Goes(op, step, s, branch, t) => branch \in Both /\ t \in After
  <2>1. {"none", "yes", "no"} \subseteq Knowledge
    BY DEF Knowledge
  <2>2. QED
    BY <2>1, Zenon DEF Goes
<1>3. ASSUME NEW branch, NEW t, Goes(op, step, s, branch, t)
      PROVE  Closed(set(branch, t)) /\ <<op, Then(branch, rest), t>> \in set(branch, t)
  <2>1. \E W : Closed(W) /\ <<op, Then(branch, rest), t>> \in W
    BY <1>3 DEF Safe
  <2>2. QED
    BY <1>3, <2>1, Zenon
<1>4. \A branch, t : Closed(set(branch, t))
  <2>1. Closed({})
    BY DEF Closed
  <2>2. QED
    BY <1>3, <2>1, Zenon
<1> HIDE DEF set, Both, After
<1>5. Closed(U)
  <2> SUFFICES ASSUME NEW o, NEW d, NEW x, <<o, d, x>> \in U
               PROVE  Fine(U, o, d, x)
    BY DEF Closed
  <2>1. PICK branch \in Both, t \in After : <<o, d, x>> \in set(branch, t)
    OBVIOUS
  <2>2. Fine(set(branch, t), o, d, x)
    BY <1>4, <2>1, Zenon DEF Closed
  <2>3. set(branch, t) \subseteq U
    OBVIOUS
  <2> HIDE DEF U
  <2>4. QED
    BY <2>2, <2>3, FineMore
<1>6. \A branch, t : Goes(op, step, s, branch, t) => <<op, Then(branch, rest), t>> \in U
  <2> SUFFICES ASSUME NEW branch, NEW t, Goes(op, step, s, branch, t)
               PROVE  <<op, Then(branch, rest), t>> \in U
    OBVIOUS
  <2>1. branch \in Both /\ t \in After
    BY <1>2
  <2>2. <<op, Then(branch, rest), t>> \in set(branch, t)
    BY <1>3
  <2>3. QED
    BY <2>1, <2>2
<1> HIDE DEF U
<1>7. Fine(U \cup {<<op, todo, s>>}, op, todo, s)
  <2>1. \A branch, t : Goes(op, step, s, branch, t) =>
          <<op, Then(branch, rest), t>> \in U \cup {<<op, todo, s>>}
    BY <1>6
  <2>2. QED
    BY <1>1, <2>1, Zenon DEF Fine
<1>8. QED
  BY <1>5, <1>7, SafeBy, Zenon DEF todo, Then

-----------------------------------------------------------------------------
(* From what to what a piece of a program leads. *)

(* The filter has what is listed, and it may still have the old input. *)
Some(has, own, n, known) ==
  {Holding(has, own, n, k) : k \in known} \cup
  {Holding(has \cup {"old"}, own, n, k) : k \in known}
SomeOf(has, own, n) == Some(has, own, n, Knowledge)

(* With any of S a filter can do prog, if with all of T it can do the rest. *)
Leads(op, S, prog, T) ==
  /\ IsList(prog)
  /\ \A rest : /\ IsList(rest)
               /\ \A t \in T : Safe(op, rest, t)
               => \A s \in S : Safe(op, Then(prog, rest), s)

LEMMA LeadsMore ==
  ASSUME NEW op, NEW S, NEW prog, NEW T, Leads(op, S, prog, T),
         NEW R, R \subseteq S, NEW U, T \subseteq U
  PROVE  Leads(op, R, prog, U)
BY Zenon DEF Leads

LEMMA LeadsNone == \A op, S : Leads(op, S, <<>>, S)
<1> SUFFICES ASSUME NEW op, NEW S, NEW rest, IsList(rest), \A t \in S : Safe(op, rest, t)
             PROVE  \A s \in S : Safe(op, Then(<<>>, rest), s)
  BY NoList DEF Leads
<1>1. Then(<<>>, rest) = rest
  BY NoList, ThenIs
<1>2. QED
  BY <1>1

LEMMA LeadsJoined ==
  ASSUME NEW op, NEW S, NEW p, NEW T, NEW q, NEW U, Leads(op, S, p, T), Leads(op, T, q, U)
  PROVE  Leads(op, S, p \o q, U)
<1> DEFINE pq == Then(p, q)
<1>1. IsList(p) /\ IsList(q)
  BY DEF Leads
<1>2. IsList(pq)
  BY <1>1, ThenIs
<1>3. ASSUME NEW rest, IsList(rest), \A u \in U : Safe(op, rest, u)
      PROVE  \A s \in S : Safe(op, Then(pq, rest), s)
  <2>1. \A t \in T : Safe(op, Then(q, rest), t)
    BY <1>3 DEF Leads
  <2>2. IsList(Then(q, rest))
    BY <1>1, <1>3, ThenIs
  <2>3. \A s \in S : Safe(op, Then(p, Then(q, rest)), s)
    BY <2>1, <2>2 DEF Leads
  <2>4. Then(pq, rest) = Then(p, Then(q, rest))
    BY <1>1, <1>3, ThenThen
  <2>5. QED
    BY <2>3, <2>4
<1> HIDE DEF pq
<1>4. Leads(op, S, pq, U)
  BY <1>2, <1>3, Zenon DEF Leads
<1>5. QED
  BY <1>4 DEF pq, Then

LEMMA LeadsStep ==
  ASSUME NEW op, NEW S, NEW step, NEW T, \A s \in S : \E t \in T : Does(op, step, s, t)
  PROVE  Leads(op, S, <<step>>, T)
<1>1. IsList(<<step>>)
  BY OneIsList
<1>2. ASSUME NEW rest, IsList(rest), \A t \in T : Safe(op, rest, t), NEW s \in S
      PROVE  Safe(op, Then(<<step>>, rest), s)
  <2>1. PICK t \in T : Does(op, step, s, t)
    OBVIOUS
  <2>2. Safe(op, rest, t)
    BY <1>2
  <2>3. QED
    BY <1>2, <2>1, <2>2, SafeStep
<1>3. QED
  BY <1>1, <1>2, Zenon DEF Leads

LEMMA LeadsNowhere ==
  ASSUME NEW op, NEW S, NEW step, NEW T, Blocked(op, step)
  PROVE  Leads(op, S, <<step>>, T)
<1>1. IsList(<<step>>)
  BY OneIsList
<1>2. ASSUME NEW rest, IsList(rest), NEW s \in S
      PROVE  Safe(op, Then(<<step>>, rest), s)
  BY <1>2, SafeBlocked
<1>3. QED
  BY <1>1, <1>2, Zenon DEF Leads

LEMMA LeadsBranch ==
  ASSUME NEW op, NEW S, NEW step, NEW T, step.do = "if", NEW A, NEW B,
         Leads(op, A, step.then, T), Leads(op, B, step.else, T),
         \A s \in S : /\ MayBranch(op, step, s)
                      /\ \A branch, t : Goes(op, step, s, branch, t) =>
                           (branch = step.then /\ t \in A) \/ (branch = step.else /\ t \in B)
  PROVE  Leads(op, S, <<step>>, T)
<1>1. IsList(<<step>>)
  BY OneIsList
<1>2. ASSUME NEW rest, IsList(rest), \A t \in T : Safe(op, rest, t), NEW s \in S
      PROVE  Safe(op, Then(<<step>>, rest), s)
  <2>1. /\ \A t \in A : Safe(op, Then(step.then, rest), t)
        /\ \A t \in B : Safe(op, Then(step.else, rest), t)
    BY <1>2 DEF Leads
  <2>2. ASSUME NEW branch, NEW t, Goes(op, step, s, branch, t)
        PROVE  Safe(op, Then(branch, rest), t)
    <3>1. (branch = step.then /\ t \in A) \/ (branch = step.else /\ t \in B)
      BY <2>2
    <3>2. CASE branch = step.then /\ t \in A
      BY <2>1, <3>2
    <3>3. CASE branch = step.else /\ t \in B
      BY <2>1, <3>3
    <3>4. QED
      BY <3>1, <3>2, <3>3
  <2>3. MayBranch(op, step, s)
    OBVIOUS
  <2>4. QED
    BY <1>2, <2>2, <2>3, SafeBranch
<1>3. QED
  BY <1>1, <1>2, Zenon DEF Leads

(* One piece after the other. *)
LEMMA LeadsFlat ==
  ASSUME NEW op, NEW lists, IsList(lists), NEW T,
         \A i \in 1 .. Len(lists) : Leads(op, T[i - 1], lists[i], T[i])
  PROVE  Leads(op, T[0], FlattenSeq(lists), T[Len(lists)])
<1> DEFINE n == Len(lists)
<1>1. n \in Nat
  BY ListIs
<1>2. CASE n = 0
  <2>1. lists = <<>>
    BY <1>2, ListIs
  <2>2. FlattenSeq(lists) = lists
    BY <1>2 DEF FlattenSeq
  <2>3. QED
    BY <1>2, <2>1, <2>2, LeadsNone
<1>3. CASE n # 0
  <2>1. PICK h : Joins(h, lists, n)
    BY <1>1, JoinsExist
  <2>2. FlattenSeq(lists) = h[n]
    BY <1>1, <1>3, <2>1, FlattenIs
  <2> DEFINE N == {k \in Nat : k \in 1 .. n => Leads(op, T[0], h[k], T[k])}
  <2>3. 0 \in N
    OBVIOUS
  <2>4. ASSUME NEW k \in Nat, k \in N PROVE k + 1 \in N
    <3> SUFFICES ASSUME k + 1 \in 1 .. n PROVE Leads(op, T[0], h[k + 1], T[k + 1])
      OBVIOUS
    <3>1. h[k + 1] = IF k + 1 = 1 THEN lists[k + 1] ELSE h[(k + 1) - 1] \o lists[k + 1]
      BY <2>1 DEF Joins
    <3>2. Leads(op, T[k], lists[k + 1], T[k + 1])
      <4>1. (k + 1) - 1 = k
        OBVIOUS
      <4>2. QED
        BY <4>1
    <3>3. CASE k = 0
      BY <3>1, <3>2, <3>3
    <3>4. CASE k # 0
      <4>1. k \in 1 .. n /\ k + 1 # 1 /\ (k + 1) - 1 = k
        BY <1>1, <3>4
      <4>2. Leads(op, T[0], h[k], T[k])
        BY <2>4, <4>1
      <4>3. h[k + 1] = h[k] \o lists[k + 1]
        BY <3>1, <4>1
      <4>4. QED
        BY <3>2, <4>2, <4>3, LeadsJoined
    <3>5. QED
      BY <3>3, <3>4
  <2>5. Nat \subseteq N
    <3> HIDE DEF N
    <3>1. QED
      BY <2>3, <2>4, NatInductionSet
  <2>6. n \in N
    BY <1>1, <2>5
  <2>7. QED
    BY <1>1, <1>3, <2>2, <2>6
<1>4. QED
  BY <1>2, <1>3

LEMMA LeadsToEnd ==
  ASSUME NEW op, NEW S, NEW prog, NEW T, Leads(op, S, prog, T), \A t \in T : Over(op, t)
  PROVE  \A s \in S : Safe(op, prog, s)
<1>1. \A t \in T : Safe(op, <<>>, t)
  BY SafeOver
<1>2. Then(prog, <<>>) = prog
  BY NoList, ThenIs DEF Leads
<1>3. QED
  BY <1>1, <1>2, NoList DEF Leads

-----------------------------------------------------------------------------
(* Where single steps lead. *)

LEMMA HoldingIs ==
  ASSUME NEW h, NEW o, NEW n, NEW k
  PROVE  /\ Holding(h, o, n, k).has = h /\ Holding(h, o, n, k).own = o
         /\ Holding(h, o, n, k).slices = n /\ Holding(h, o, n, k).cells = k
BY DEF Holding

LEMMA SomeIs ==
  ASSUME NEW h, NEW o, NEW n, NEW known, NEW s \in Some(h, o, n, known)
  PROVE  /\ h \subseteq s.has /\ s.has \subseteq h \cup {"old"}
         /\ s.own = o /\ s.slices = n /\ s.cells \in known
         /\ s = Holding(s.has, s.own, s.slices, s.cells)
<1>1. PICK x \in {h, h \cup {"old"}}, k \in known : s = Holding(x, o, n, k)
  BY DEF Some
<1>2. h \subseteq x /\ x \subseteq h \cup {"old"}
  BY <1>1
<1>3. s.has = x /\ s.own = o /\ s.slices = n /\ s.cells = k
  BY <1>1, HoldingIs
<1>4. QED
  BY <1>1, <1>2, <1>3

LEMMA IsSome ==
  ASSUME NEW h, NEW o, NEW n, NEW known, NEW k \in known, NEW x, h \subseteq x,
         x \subseteq h \cup {"old"}
  PROVE  Holding(x, o, n, k) \in Some(h, o, n, known)
<1>1. x = h \/ x = h \cup {"old"}
  <2>1. CASE "old" \in x
    BY <2>1
  <2>2. CASE "old" \notin x
    BY <2>2
  <2>3. QED
    BY <2>1, <2>2
<1>2. QED
  BY <1>1 DEF Some

(* A question that tells nothing about the field's cells. *)
LEMMA LeadsAsk ==
  ASSUME NEW op, NEW h, NEW o, NEW n, NEW known, NEW q, NEW of \in h, NEW f,
         q \notin {"exists", "assoc"}
  PROVE  Leads(op, Some(h, o, n, known), <<Ask(q, of, f)>>, Some(h, o, n, known))
<1> DEFINE step == Ask(q, of, f)
<1>1. step.do = "ask" /\ step.of = of /\ step.q = q
  BY DEF Ask
<1> HIDE DEF step
<1>2. ASSUME NEW s \in Some(h, o, n, known)
      PROVE  Does(op, step, s, s)
  <2>1. h \subseteq s.has /\ s = Holding(s.has, s.own, s.slices, s.cells)
    BY SomeIs
  <2>2. Learned(op, step, s.cells) = s.cells
    BY <1>1 DEF Learned
  <2>3. of \in s.has
    BY <2>1
  <2>4. QED
    BY <1>1, <2>1, <2>2, <2>3, Zenon DEF Does
<1>3. QED
  BY <1>2, LeadsStep DEF step

(* SomeOf question. *)
LEMMA LearnedIsKnown ==
  ASSUME NEW op, NEW step, NEW k \in Knowledge
  PROVE  Learned(op, step, k) \in Knowledge
BY DEF Learned, Knowledge

LEMMA LeadsLearn ==
  ASSUME NEW op, NEW h, NEW o, NEW n, NEW known, NEW learnt, NEW q, NEW of \in h, NEW f,
         \A k \in known : Learned(op, Ask(q, of, f), k) \in learnt
  PROVE  Leads(op, Some(h, o, n, known), <<Ask(q, of, f)>>, Some(h, o, n, learnt))
<1> DEFINE step == Ask(q, of, f)
<1>1. step.do = "ask" /\ step.of = of
  BY DEF Ask
<1>2. \A k \in known : Learned(op, step, k) \in learnt
  OBVIOUS
<1> HIDE DEF step
<1>3. ASSUME NEW s \in Some(h, o, n, known)
      PROVE  \E t \in Some(h, o, n, learnt) : Does(op, step, s, t)
  <2>1. /\ h \subseteq s.has /\ s.has \subseteq h \cup {"old"} /\ s.own = o
        /\ s.slices = n /\ s.cells \in known
    BY SomeIs
  <2> DEFINE t == Holding(s.has, s.own, s.slices, Learned(op, step, s.cells))
  <2>2. t \in Some(h, o, n, learnt)
    BY <1>2, <2>1, IsSome
  <2>3. of \in s.has
    BY <2>1
  <2>4. Does(op, step, s, t)
    BY <1>1, <2>3, Zenon DEF Does
  <2>5. QED
    BY <2>2, <2>4
<1>4. QED
  BY <1>3, LeadsStep DEF step

LEMMA LeadsAny ==
  ASSUME NEW op, NEW h, NEW o, NEW n, NEW q, NEW of \in h, NEW f
  PROVE  Leads(op, SomeOf(h, o, n), <<Ask(q, of, f)>>, SomeOf(h, o, n))
BY LearnedIsKnown, LeadsLearn DEF SomeOf

LEMMA LeadsQuiet ==
  ASSUME NEW op, NEW S, NEW step, step.do \in Quiet
  PROVE  Leads(op, S, <<step>>, S)
<1>1. \A s \in S : Does(op, step, s, s)
  BY DEF Does
<1>2. QED
  BY <1>1, LeadsStep

LEMMA LeadsCheck == \A op, S, test, f : Leads(op, S, <<Check(test, f)>>, S)
<1> SUFFICES ASSUME NEW op, NEW S, NEW test, NEW f
             PROVE  Leads(op, S, <<Check(test, f)>>, S)
  OBVIOUS
<1>1. Check(test, f).do \in Quiet
  BY DEF Check, Quiet
<1>2. QED
  BY <1>1, LeadsQuiet

LEMMA LeadsOwn == \A op, S, test, of, f : Leads(op, S, <<CheckOwn(test, of, f)>>, S)
<1> SUFFICES ASSUME NEW op, NEW S, NEW test, NEW of, NEW f
             PROVE  Leads(op, S, <<CheckOwn(test, of, f)>>, S)
  OBVIOUS
<1>1. CheckOwn(test, of, f).do \in Quiet
  BY DEF CheckOwn, Quiet
<1>2. QED
  BY <1>1, LeadsQuiet

LEMMA LeadsDo ==
  ASSUME NEW op, NEW S, NEW what \in Quiet
  PROVE  Leads(op, S, <<Do(what)>>, S)
BY LeadsQuiet DEF Do

(* What a filter has can become more, or less. *)
LEMMA LeadsTo ==
  ASSUME NEW op, NEW step, NEW h, NEW o, NEW n, NEW known, NEW g, NEW p, NEW m,
         \A s \in Some(h, o, n, known) :
           \E x : /\ g \subseteq x /\ x \subseteq g \cup {"old"}
                  /\ Does(op, step, s, Holding(x, p, m, s.cells))
  PROVE  Leads(op, Some(h, o, n, known), <<step>>, Some(g, p, m, known))
<1>1. ASSUME NEW s \in Some(h, o, n, known)
      PROVE  \E t \in Some(g, p, m, known) : Does(op, step, s, t)
  <2>1. PICK x : /\ g \subseteq x /\ x \subseteq g \cup {"old"}
                 /\ Does(op, step, s, Holding(x, p, m, s.cells))
    OBVIOUS
  <2>2. s.cells \in known
    BY SomeIs
  <2>3. Holding(x, p, m, s.cells) \in Some(g, p, m, known)
    BY <2>1, <2>2, IsSome
  <2>4. QED
    BY <2>1, <2>3
<1>2. QED
  BY <1>1, LeadsStep

LEMMA LeadsMap ==
  ASSUME NEW op, NEW h, NEW o, NEW n, NEW known, NEW work, NEW from \in h,
         NEW to \in Registers \ o
  PROVE  Leads(op, Some(h, o, n, known), <<Map(work, from, to)>>,
               Some(h \cup {to}, o \cup {to}, n, known))
<1> DEFINE step == Map(work, from, to)
<1>1. step.do = "map" /\ step.from = from /\ step.to = to
  BY DEF Map
<1> HIDE DEF step
<1>2. ASSUME NEW s \in Some(h, o, n, known)
      PROVE  \E x : /\ h \cup {to} \subseteq x /\ x \subseteq h \cup {to} \cup {"old"}
                    /\ Does(op, step, s, Holding(x, o \cup {to}, n, s.cells))
  <2>1. h \subseteq s.has /\ s.has \subseteq h \cup {"old"} /\ s.own = o /\ s.slices = n
    BY SomeIs
  <2>2. step.from \in s.has /\ step.to \in Registers \ s.own
    BY <1>1, <2>1
  <2>3. Made(s, step.to) = Holding(s.has \cup {to}, o \cup {to}, n, s.cells)
    BY <1>1, <2>1 DEF Made
  <2>4. Does(op, step, s, Holding(s.has \cup {to}, o \cup {to}, n, s.cells))
    BY <1>1, <2>2, <2>3, Zenon DEF Does
  <2>5. h \cup {to} \subseteq s.has \cup {to} /\ s.has \cup {to} \subseteq h \cup {to} \cup {"old"}
    BY <2>1
  <2>6. QED
    BY <2>4, <2>5
<1>3. QED
  BY <1>2, LeadsTo DEF step

LEMMA LeadsUpdate ==
  ASSUME NEW op, NEW h, NEW o, NEW n, NEW known, NEW called, Callable(called),
         NEW from \in h, NEW to \in Registers \ o
  PROVE  Leads(op, Some(h, o, n, known), <<Update(called, from, to)>>,
               Some(h \cup {to}, o \cup {to}, n, known))
<1> DEFINE step == Update(called, from, to)
<1>1. step.do = "update" /\ step.from = from /\ step.to = to /\ step.op = called
  BY DEF Update
<1> HIDE DEF step
<1>2. ASSUME NEW s \in Some(h, o, n, known)
      PROVE  \E x : /\ h \cup {to} \subseteq x /\ x \subseteq h \cup {to} \cup {"old"}
                    /\ Does(op, step, s, Holding(x, o \cup {to}, n, s.cells))
  <2>1. h \subseteq s.has /\ s.has \subseteq h \cup {"old"} /\ s.own = o /\ s.slices = n
    BY SomeIs
  <2>2. step.from \in s.has /\ step.to \in Registers \ s.own /\ Callable(step.op)
    BY <1>1, <2>1
  <2>3. Made(s, step.to) = Holding(s.has \cup {to}, o \cup {to}, n, s.cells)
    BY <1>1, <2>1 DEF Made
  <2>4. Does(op, step, s, Holding(s.has \cup {to}, o \cup {to}, n, s.cells))
    BY <1>1, <2>2, <2>3, Zenon DEF Does
  <2>5. h \cup {to} \subseteq s.has \cup {to} /\ s.has \cup {to} \subseteq h \cup {to} \cup {"old"}
    BY <2>1
  <2>6. QED
    BY <2>4, <2>5
<1>3. QED
  BY <1>2, LeadsTo DEF step

(* One more contour is put aside. *)
LEMMA LeadsContour ==
  ASSUME NEW op, NEW h, NEW o, NEW n, NEW known, NEW called, Callable(called), NEW from \in h
  PROVE  Leads(op, Some(h, o, n, known), <<Update(called, from, "slices")>>,
               Some(h, o, n + 1, known))
<1> DEFINE step == Update(called, from, "slices")
<1>1. step.do = "update" /\ step.from = from /\ step.to = "slices" /\ step.op = called
  BY DEF Update
<1> HIDE DEF step
<1>2. ASSUME NEW s \in Some(h, o, n, known)
      PROVE  \E x : /\ h \subseteq x /\ x \subseteq h \cup {"old"}
                    /\ Does(op, step, s, Holding(x, o, n + 1, s.cells))
  <2>1. h \subseteq s.has /\ s.has \subseteq h \cup {"old"} /\ s.own = o /\ s.slices = n
    BY SomeIs
  <2>2. step.from \in s.has /\ Callable(step.op)
    BY <1>1, <2>1
  <2>3. Holding(s.has, s.own, s.slices + 1, s.cells) = Holding(s.has, o, n + 1, s.cells)
    BY <2>1
  <2>4. Does(op, step, s, Holding(s.has, o, n + 1, s.cells))
    BY <1>1, <2>2, <2>3, Zenon DEF Does
  <2>5. QED
    BY <2>1, <2>4
<1>3. QED
  BY <1>2, LeadsTo DEF step

LEMMA LeadsDelete ==
  ASSUME NEW op, NEW h, NEW o, NEW n, NEW known, NEW reg \in o, reg # "in"
  PROVE  Leads(op, Some(h, o, n, known), <<Delete(reg)>>,
               Some(h \ {reg}, o \ {reg}, n, known))
<1> DEFINE step == Delete(reg)
<1>1. step.do = "delete" /\ step.reg = reg
  BY DEF Delete
<1> HIDE DEF step
<1>2. ASSUME NEW s \in Some(h, o, n, known)
      PROVE  \E x : /\ h \ {reg} \subseteq x /\ x \subseteq (h \ {reg}) \cup {"old"}
                    /\ Does(op, step, s, Holding(x, o \ {reg}, n, s.cells))
  <2>1. h \subseteq s.has /\ s.has \subseteq h \cup {"old"} /\ s.own = o /\ s.slices = n
    BY SomeIs
  <2>2. step.reg \in s.own /\ step.reg # "in"
    BY <1>1, <2>1
  <2>3. Holding(s.has \ {step.reg}, s.own \ {step.reg}, s.slices, s.cells) =
          Holding(s.has \ {reg}, o \ {reg}, n, s.cells)
    BY <1>1, <2>1
  <2>4. Does(op, step, s, Holding(s.has \ {reg}, o \ {reg}, n, s.cells))
    BY <1>1, <2>2, <2>3, Zenon DEF Does
  <2>5. h \ {reg} \subseteq s.has \ {reg} /\ s.has \ {reg} \subseteq (h \ {reg}) \cup {"old"}
    BY <2>1
  <2>6. QED
    BY <2>4, <2>5
<1>3. QED
  BY <1>2, LeadsTo DEF step

LEMMA LeadsAssign ==
  ASSUME NEW op, NEW h, NEW n, NEW known, NEW from \in h, from # "old",
         NEW to \in Registers
  PROVE  Leads(op, Some(h, {}, n, known), <<Assign(to, from)>>,
               Some(h \cup {to}, {}, n, known))
<1> DEFINE step == Assign(to, from)
<1>1. step.do = "assign" /\ step.from = from /\ step.to = to
  BY DEF Assign
<1> HIDE DEF step
<1>2. ASSUME NEW s \in Some(h, {}, n, known)
      PROVE  \E x : /\ h \cup {to} \subseteq x /\ x \subseteq h \cup {to} \cup {"old"}
                    /\ Does(op, step, s, Holding(x, {}, n, s.cells))
  <2>1. h \subseteq s.has /\ s.has \subseteq h \cup {"old"} /\ s.own = {} /\ s.slices = n
    BY SomeIs
  <2>2. step.from \in s.has \ s.own /\ step.to \in Registers \ s.own
    BY <1>1, <2>1
  <2>3. Holding(s.has \cup {step.to}, s.own, s.slices, s.cells) =
          Holding(s.has \cup {to}, {}, n, s.cells)
    BY <1>1, <2>1
  <2>4. Does(op, step, s, Holding(s.has \cup {to}, {}, n, s.cells))
    BY <1>1, <2>2, <2>3, Zenon DEF Does
  <2>5. h \cup {to} \subseteq s.has \cup {to} /\ s.has \cup {to} \subseteq h \cup {to} \cup {"old"}
    BY <2>1
  <2>6. QED
    BY <2>4, <2>5
<1>3. QED
  BY <1>2, LeadsTo DEF step

(* A test that what is owned does not depend on. *)
LEMMA LeadsIf ==
  ASSUME NEW op, NEW S, NEW T, NEW test, NEW f, NEW then, NEW else,
         test \notin {"cells", "exists"}, Leads(op, S, then, T), Leads(op, S, else, T)
  PROVE  Leads(op, S, <<If(test, f, then, else)>>, T)
<1> DEFINE step == If(test, f, then, else)
<1>1. step.do = "if" /\ step.test = test /\ step.then = then /\ step.else = else
  BY DEF If
<1> HIDE DEF step
<1>2. IsList(then) /\ IsList(else)
  BY DEF Leads
<1>3. ASSUME NEW s \in S
      PROVE  /\ MayBranch(op, step, s)
             /\ \A branch, t : Goes(op, step, s, branch, t) =>
                  (branch = step.then /\ t \in S) \/ (branch = step.else /\ t \in S)
  BY <1>1, <1>2 DEF MayBranch, Goes
<1>4. QED
  BY <1>1, <1>3, LeadsBranch DEF step

(* The test whether a field exists: where it does not, and that was the last *)
(* question about the filter's own field, the filter knows it.              *)
LEMMA LeadsIfExists ==
  ASSUME NEW op, NEW h, NEW o, NEW n, NEW known, NEW less, NEW T, NEW f, NEW then, NEW else,
         \A k \in known : IF f = op.f /\ k = "exists" THEN "none" \in less ELSE k \in less,
         Leads(op, Some(h, o, n, known), then, T), Leads(op, Some(h, o, n, less), else, T)
  PROVE  Leads(op, Some(h, o, n, known), <<If("exists", f, then, else)>>, T)
<1> DEFINE step == If("exists", f, then, else)
           S == Some(h, o, n, known)
           R == Some(h, o, n, less)
<1>1. step.do = "if" /\ step.test = "exists" /\ step.then = then /\ step.else = else /\ step.f = f
  BY DEF If
<1> HIDE DEF step
<1>2. IsList(then) /\ IsList(else)
  BY DEF Leads
<1>3. ASSUME NEW s \in S
      PROVE  /\ MayBranch(op, step, s)
             /\ \A branch, t : Goes(op, step, s, branch, t) =>
                  (branch = step.then /\ t \in S) \/ (branch = step.else /\ t \in R)
  <2>1. MayBranch(op, step, s)
    BY <1>1, <1>2 DEF MayBranch
  <2>2. /\ h \subseteq s.has /\ s.has \subseteq h \cup {"old"} /\ s.own = o
        /\ s.slices = n /\ s.cells \in known
        /\ s = Holding(s.has, s.own, s.slices, s.cells)
    BY SomeIs
  <2>3. /\ f = op.f /\ s.cells = "exists" => Holding(s.has, s.own, s.slices, "none") \in R
        /\ ~(f = op.f /\ s.cells = "exists") => s \in R
    BY <2>2, IsSome
  <2> HIDE DEF S, R
  <2>4. QED
    BY <1>1, <1>3, <2>1, <2>3, Zenon DEF Goes
<1> HIDE DEF S, R
<1>4. Leads(op, S, <<step>>, T)
  <2>1. Leads(op, S, step.then, T) /\ Leads(op, R, step.else, T)
    BY <1>1 DEF S, R
  <2>2. QED
    BY <1>1, <1>3, <2>1, LeadsBranch
<1>5. QED
  BY <1>4 DEF S, step

(* The test whether the filter's field is one of cells. *)
LEMMA LeadsIfCells ==
  ASSUME NEW op, NEW S, NEW A, NEW B, NEW T, NEW then, NEW else,
         \A s \in S : /\ s.cells \in {"none", "assoc", "yes", "no"}
                      /\ s.cells \in {"assoc", "yes"} =>
                           Holding(s.has, s.own, s.slices, "yes") \in A
                      /\ s.cells \in {"assoc", "no"} =>
                           Holding(s.has, s.own, s.slices, "no") \in B
                      /\ s.cells = "none" => s \in B,
         Leads(op, A, then, T), Leads(op, B, else, T)
  PROVE  Leads(op, S, <<If("cells", op.f, then, else)>>, T)
<1> DEFINE step == If("cells", op.f, then, else)
<1>1. step.do = "if" /\ step.test = "cells" /\ step.then = then /\ step.else = else /\ step.f = op.f
  BY DEF If
<1> HIDE DEF step
<1>2. IsList(then) /\ IsList(else)
  BY DEF Leads
<1>3. ASSUME NEW s \in S
      PROVE  /\ MayBranch(op, step, s)
             /\ \A branch, t : Goes(op, step, s, branch, t) =>
                  (branch = step.then /\ t \in A) \/ (branch = step.else /\ t \in B)
  <2>1. MayBranch(op, step, s)
    BY <1>1, <1>2 DEF MayBranch
  <2>2. QED
    BY <1>1, <1>3, <2>1, Zenon DEF Goes
<1>4. QED
  BY <1>1, <1>3, LeadsBranch DEF step

-----------------------------------------------------------------------------
(* Pieces written out step by step. *)

LEMMA TwoOne ==
  ASSUME NEW a, NEW b, NEW c
  PROVE  <<a, b, c>> = <<a, b>> \o <<c>>
OBVIOUS

LEMMA ThreeOne ==
  ASSUME NEW a, NEW b, NEW c, NEW d
  PROVE  <<a, b, c, d>> = <<a, b, c>> \o <<d>>
OBVIOUS

LEMMA LeadsTwo ==
  ASSUME NEW op, NEW S, NEW a, NEW T, NEW b, NEW U,
         Leads(op, S, <<a>>, T), Leads(op, T, <<b>>, U)
  PROVE  Leads(op, S, <<a, b>>, U)
<1>1. Leads(op, S, <<a>> \o <<b>>, U)
  BY LeadsJoined
<1>2. QED
  BY <1>1, Two

LEMMA LeadsThree ==
  ASSUME NEW op, NEW S, NEW a, NEW T, NEW b, NEW c, NEW U,
         Leads(op, S, <<a>>, T), Leads(op, T, <<b, c>>, U)
  PROVE  Leads(op, S, <<a, b, c>>, U)
<1> DEFINE q == <<b, c>>
<1>1. Leads(op, T, q, U) /\ <<a, b, c>> = <<a>> \o q
  BY Three
<1> HIDE DEF q
<1>2. Leads(op, S, <<a>> \o q, U)
  BY <1>1, LeadsJoined
<1>3. QED
  BY <1>1, <1>2

LEMMA LeadsFour ==
  ASSUME NEW op, NEW S, NEW a, NEW T, NEW b, NEW c, NEW d, NEW U,
         Leads(op, S, <<a>>, T), Leads(op, T, <<b, c, d>>, U)
  PROVE  Leads(op, S, <<a, b, c, d>>, U)
<1> DEFINE q == <<b, c, d>>
<1>1. Leads(op, T, q, U) /\ <<a, b, c, d>> = <<a>> \o q
  BY Four
<1> HIDE DEF q
<1>2. Leads(op, S, <<a>> \o q, U)
  BY <1>1, LeadsJoined
<1>3. QED
  BY <1>1, <1>2

LEMMA LeadsFive ==
  ASSUME NEW op, NEW S, NEW a, NEW T, NEW b, NEW c, NEW d, NEW e, NEW U,
         Leads(op, S, <<a>>, T), Leads(op, T, <<b, c, d, e>>, U)
  PROVE  Leads(op, S, <<a, b, c, d, e>>, U)
<1> DEFINE q == <<b, c, d, e>>
<1>1. Leads(op, T, q, U) /\ <<a, b, c, d, e>> = <<a>> \o q
  BY Five
<1> HIDE DEF q
<1>2. Leads(op, S, <<a>> \o q, U)
  BY <1>1, LeadsJoined
<1>3. QED
  BY <1>1, <1>2

LEMMA LeadsBoth ==
  ASSUME NEW op, NEW R, NEW S, NEW prog, NEW T, NEW U,
         Leads(op, R, prog, T), Leads(op, S, prog, U)
  PROVE  Leads(op, R \cup S, prog, T \cup U)
<1> DEFINE Q == R \cup S
           V == T \cup U
<1>1. \A s \in Q : s \in R \/ s \in S
  OBVIOUS
<1>2. \A v \in T : v \in V
  OBVIOUS
<1>3. \A v \in U : v \in V
  OBVIOUS
<1> HIDE DEF Q, V
<1>4. ASSUME NEW rest, IsList(rest), \A v \in V : Safe(op, rest, v), NEW s \in Q
      PROVE  Safe(op, Then(prog, rest), s)
  <2>1. CASE s \in R
    BY <1>2, <1>4, <2>1, Zenon DEF Leads
  <2>2. CASE s \in S
    BY <1>3, <1>4, <2>2, Zenon DEF Leads
  <2>3. QED
    BY <1>1, <1>4, <2>1, <2>2
<1>5. IsList(prog)
  BY DEF Leads
<1>6. Leads(op, Q, prog, V)
  BY <1>4, <1>5, Zenon DEF Leads
<1>7. QED
  BY <1>6 DEF Q, V

LEMMA SomeMore ==
  ASSUME NEW h, NEW o, NEW n, NEW known, NEW more, known \subseteq more
  PROVE  /\ Some(h, o, n, known) \subseteq Some(h, o, n, more)
         /\ Some(h \cup {"old"}, o, n, known) \subseteq Some(h, o, n, more)
<1>1. ASSUME NEW g, g = h \/ g = h \cup {"old"}, NEW s \in Some(g, o, n, known)
      PROVE  s \in Some(h, o, n, more)
  <2>1. /\ g \subseteq s.has /\ s.has \subseteq g \cup {"old"} /\ s.own = o /\ s.slices = n
        /\ s.cells \in known /\ s = Holding(s.has, s.own, s.slices, s.cells)
    BY SomeIs
  <2>2. h \subseteq s.has /\ s.has \subseteq h \cup {"old"} /\ s.cells \in more
    BY <1>1, <2>1
  <2>3. Holding(s.has, o, n, s.cells) \in Some(h, o, n, more)
    BY <2>2, IsSome
  <2>4. QED
    BY <2>1, <2>3
<1>2. QED
  BY <1>1

-----------------------------------------------------------------------------
(* Pieces that only ask, of a data set the filter has, and check. *)

Preserves(op, of, prog) ==
  \A h, o, n : of \in h => Leads(op, SomeOf(h, o, n), prog, SomeOf(h, o, n))

LEMMA AskKeeps == \A op, q, of, f : Preserves(op, of, <<Ask(q, of, f)>>)
BY LeadsAny DEF Preserves

LEMMA CheckKeeps == \A op, of, test, f : Preserves(op, of, <<Check(test, f)>>)
BY LeadsCheck DEF Preserves

LEMMA OwnKeeps == \A op, of, test, f : Preserves(op, of, <<CheckOwn(test, of, f)>>)
BY LeadsOwn DEF Preserves

LEMMA DoKeeps == \A op, of : \A what \in Quiet : Preserves(op, of, <<Do(what)>>)
BY LeadsDo DEF Preserves

LEMMA NoneKeeps == \A op, of : Preserves(op, of, <<>>)
BY LeadsNone DEF Preserves

LEMMA JoinedKeeps ==
  ASSUME NEW op, NEW of, NEW p, NEW q, Preserves(op, of, p), Preserves(op, of, q)
  PROVE  Preserves(op, of, p \o q)
<1> SUFFICES ASSUME NEW h, NEW o, NEW n, of \in h
             PROVE  Leads(op, SomeOf(h, o, n), p \o q, SomeOf(h, o, n))
  BY DEF Preserves
<1>1. Leads(op, SomeOf(h, o, n), p, SomeOf(h, o, n)) /\ Leads(op, SomeOf(h, o, n), q, SomeOf(h, o, n))
  BY DEF Preserves
<1>2. QED
  BY <1>1, LeadsJoined

LEMMA TwoKeeps ==
  ASSUME NEW op, NEW of, NEW a, NEW b, Preserves(op, of, <<a>>), Preserves(op, of, <<b>>)
  PROVE  Preserves(op, of, <<a, b>>)
<1>1. Preserves(op, of, <<a>> \o <<b>>)
  BY JoinedKeeps
<1>2. QED
  BY <1>1, Two

LEMMA ThreeKeeps ==
  ASSUME NEW op, NEW of, NEW a, NEW b, NEW c,
         Preserves(op, of, <<a>>), Preserves(op, of, <<b>>), Preserves(op, of, <<c>>)
  PROVE  Preserves(op, of, <<a, b, c>>)
<1> DEFINE q == <<b, c>>
<1>1. Preserves(op, of, q) /\ <<a, b, c>> = <<a>> \o q
  BY TwoKeeps, Three
<1> HIDE DEF q
<1>2. QED
  BY <1>1, JoinedKeeps

LEMMA FiveKeeps ==
  ASSUME NEW op, NEW of, NEW a, NEW b, NEW c, NEW d, NEW e,
         Preserves(op, of, <<a>>), Preserves(op, of, <<b>>), Preserves(op, of, <<c>>),
         Preserves(op, of, <<d>>), Preserves(op, of, <<e>>)
  PROVE  Preserves(op, of, <<a, b, c, d, e>>)
<1> DEFINE p == <<c, d, e>>
           q == <<b, c, d, e>>
<1>1. Preserves(op, of, p) /\ q = <<b>> \o p
  BY ThreeKeeps, Four
<1>2. <<a, b, c, d, e>> = <<a>> \o q
  BY Five
<1> HIDE DEF p, q
<1>3. Preserves(op, of, q)
  BY <1>1, JoinedKeeps
<1>4. Preserves(op, of, <<a>> \o q)
  BY <1>3, JoinedKeeps
<1>5. QED
  BY <1>2, <1>4

LEMMA SevenKeeps ==
  ASSUME NEW op, NEW of, NEW a, NEW b, NEW c, NEW d, NEW e, NEW f, NEW g,
         Preserves(op, of, <<a>>), Preserves(op, of, <<b>>), Preserves(op, of, <<c>>),
         Preserves(op, of, <<d>>), Preserves(op, of, <<e>>), Preserves(op, of, <<f>>),
         Preserves(op, of, <<g>>)
  PROVE  Preserves(op, of, <<a, b, c, d, e, f, g>>)
<1>1. Preserves(op, of, <<a, b>>)
  BY TwoKeeps
<1>2. Preserves(op, of, <<c, d, e, f, g>>)
  BY FiveKeeps
<1>3. Preserves(op, of, <<a, b>> \o <<c, d, e, f, g>>)
  BY <1>1, <1>2, JoinedKeeps
<1> DEFINE t == <<a, b, c, d, e, f, g>>
           u == <<a, b>> \o <<c, d, e, f, g>>
<1>4. t = u
  OBVIOUS
<1>5. Preserves(op, of, u)
  BY <1>3
<1> HIDE DEF t, u
<1>6. Preserves(op, of, t)
  BY <1>4, <1>5
<1>7. QED
  BY <1>6 DEF t

LEMMA IfKeeps ==
  ASSUME NEW op, NEW of, NEW test, test # "cells", NEW f, NEW then, NEW else,
         Preserves(op, of, then), Preserves(op, of, else)
  PROVE  Preserves(op, of, <<If(test, f, then, else)>>)
<1> SUFFICES ASSUME NEW h, NEW o, NEW n, of \in h
             PROVE  Leads(op, SomeOf(h, o, n), <<If(test, f, then, else)>>, SomeOf(h, o, n))
  BY DEF Preserves
<1>1. Leads(op, SomeOf(h, o, n), then, SomeOf(h, o, n)) /\ Leads(op, SomeOf(h, o, n), else, SomeOf(h, o, n))
  BY DEF Preserves
<1>2. CASE test = "exists"
  <2>1. \A k \in Knowledge :
          IF f = op.f /\ k = "exists" THEN "none" \in Knowledge ELSE k \in Knowledge
    BY DEF Knowledge
  <2>2. QED
    BY <1>1, <1>2, <2>1, LeadsIfExists DEF SomeOf
<1>3. CASE test # "exists"
  BY <1>1, <1>3, LeadsIf
<1>4. QED
  BY <1>2, <1>3

LEMMA FieldKeeps == \A op, f : Preserves(op, "in", CheckForRequiredField(f))
BY AskKeeps, CheckKeeps, TwoKeeps DEF CheckForRequiredField

LEMMA AssociationKeeps == \A op, of, f : Preserves(op, of, GetFieldAssociation(of, f))
<1> SUFFICES ASSUME NEW op, NEW of, NEW f PROVE Preserves(op, of, GetFieldAssociation(of, f))
  OBVIOUS
<1> DEFINE then == <<Ask("assoc", of, f), Check("assoc", f)>>
<1>1. Preserves(op, of, then)
  BY AskKeeps, CheckKeeps, TwoKeeps
<1> HIDE DEF then
<1>2. Preserves(op, of, <<If("exists", f, then, <<>>)>>)
  BY <1>1, IfKeeps, NoneKeeps
<1>3. Preserves(op, of, <<Ask("exists", of, f), If("exists", f, then, <<>>)>>)
  BY <1>2, AskKeeps, TwoKeeps
<1>4. QED
  BY <1>3 DEF GetFieldAssociation, then

LEMMA RangeKeeps == \A op, of, f : Preserves(op, of, GetGlobalRange(of, f))
<1> SUFFICES ASSUME NEW op, NEW of, NEW f PROVE Preserves(op, of, GetGlobalRange(of, f))
  OBVIOUS
<1> DEFINE then == <<Ask("rangeLo", of, f), Ask("rangeHi", of, f)>>
<1>1. Preserves(op, of, then)
  BY AskKeeps, TwoKeeps
<1> HIDE DEF then
<1>2. Preserves(op, of, <<If("ranged", f, then, <<>>)>>)
  BY <1>1, IfKeeps, NoneKeeps
<1>3. Preserves(op, of, <<CheckOwn("alike", of, f)>> \o
        <<Ask("rangeComps", of, f), Check("range", f), If("ranged", f, then, <<>>)>>)
  <2> DEFINE rest == <<Ask("rangeComps", of, f), Check("range", f), If("ranged", f, then, <<>>)>>
  <2>1. Preserves(op, of, rest)
    BY <1>2, AskKeeps, CheckKeeps, ThreeKeeps
  <2> HIDE DEF rest
  <2>2. Preserves(op, of, <<CheckOwn("alike", of, f)>> \o rest)
    BY <2>1, OwnKeeps, JoinedKeeps
  <2>3. QED
    BY <2>2 DEF rest
<1>4. QED
  BY <1>3, Four DEF GetGlobalRange, then

LEMMA PointMeshKeeps == \A op, of : Preserves(op, of, IsPointMesh(of))
<1> SUFFICES ASSUME NEW op, NEW of PROVE Preserves(op, of, IsPointMesh(of))
  OBVIOUS
<1> DEFINE else == <<Ask("points", of, "")>>
<1>1. Preserves(op, of, else)
  BY AskKeeps
<1> HIDE DEF else
<1>2. Preserves(op, of, <<If("empty", "", <<>>, else)>>)
  BY <1>1, IfKeeps, NoneKeeps
<1>3. Preserves(op, of, <<Ask("empty", of, ""), If("empty", "", <<>>, else)>>)
  BY <1>2, AskKeeps, TwoKeeps
<1>4. QED
  BY <1>3 DEF IsPointMesh, else

LEMMA FlatKeeps ==
  ASSUME NEW op, NEW of, NEW lists, IsList(lists),
         \A i \in 1 .. Len(lists) : Preserves(op, of, lists[i])
  PROVE  Preserves(op, of, FlattenSeq(lists))
<1> SUFFICES ASSUME NEW h, NEW o, NEW n, of \in h
             PROVE  Leads(op, SomeOf(h, o, n), FlattenSeq(lists), SomeOf(h, o, n))
  BY DEF Preserves
<1> DEFINE S == SomeOf(h, o, n)
           T == [i \in 0 .. Len(lists) |-> S]
<1>1. Len(lists) \in Nat
  BY ListIs
<1>2. \A i \in 1 .. Len(lists) : Leads(op, S, lists[i], S)
  BY DEF Preserves
<1> HIDE DEF S
<1>3. T[0] = S /\ T[Len(lists)] = S /\ \A i \in 1 .. Len(lists) : T[i - 1] = S /\ T[i] = S
  BY <1>1
<1> HIDE DEF T
<1>4. \A i \in 1 .. Len(lists) : Leads(op, T[i - 1], lists[i], T[i])
  BY <1>2, <1>3
<1>5. Leads(op, T[0], FlattenSeq(lists), T[Len(lists)])
  BY <1>4, LeadsFlat
<1>6. QED
  BY <1>3, <1>5 DEF S

LEMMA HistogramKeeps == \A op, of : Preserves(op, of, Histogram(of, op))
<1> SUFFICES ASSUME NEW op, NEW of PROVE Preserves(op, of, Histogram(of, op))
  OBVIOUS
<1> DEFINE first == <<Ask("domains", of, ""), Check("domains", ""),
                      Ask("exists", of, op.f), Check("exists", op.f)>>
           scalar == <<Check("scalar", op.f)>>
           range == IF op.range.lo <= op.range.hi THEN <<>>
                    ELSE GetGlobalRange(of, op.f) \o scalar
           last == <<CheckOwn("castable", of, op.f), Ask("bins", of, op.f)>>
<1>1. Preserves(op, of, first)
  <2> DEFINE p == <<Check("domains", ""), Ask("exists", of, op.f), Check("exists", op.f)>>
  <2>1. Preserves(op, of, p)
    BY AskKeeps, CheckKeeps, ThreeKeeps
  <2>2. first = <<Ask("domains", of, "")>> \o p
    BY Four
  <2> HIDE DEF p, first
  <2>3. QED
    BY <2>1, <2>2, AskKeeps, JoinedKeeps
<1>2. Preserves(op, of, scalar) /\ Preserves(op, of, last)
  BY AskKeeps, CheckKeeps, OwnKeeps, TwoKeeps
<1> HIDE DEF first, scalar, last
<1>3. Preserves(op, of, range)
  BY <1>2, RangeKeeps, NoneKeeps, JoinedKeeps
<1> HIDE DEF range
<1>4. Preserves(op, of, (first \o range) \o last)
  BY <1>1, <1>2, <1>3, JoinedKeeps
<1>5. QED
  BY <1>4 DEF Histogram, first, scalar, range, last

LEMMA StatisticsKeeps == \A op : Preserves(op, "in", Statistics(op))
<1> SUFFICES ASSUME NEW op PROVE Preserves(op, "in", Statistics(op))
  OBVIOUS
<1> DEFINE q == <<"count", "sum", "sum2", "sum3", "sum4">>
           asks == [i \in 1 .. 5 |-> Ask(q[i], "in", op.f)]
           five == <<Ask(q[1], "in", op.f), Ask(q[2], "in", op.f), Ask(q[3], "in", op.f),
                     Ask(q[4], "in", op.f), Ask(q[5], "in", op.f)>>
           first == <<CheckOwn("castable", "in", op.f)>>
<1>1. Statistics(op) = (CheckForRequiredField(op.f) \o first) \o asks
  BY DEF Statistics
<1> HIDE DEF q
<1>2. asks = five
  <2>1. /\ IsList(asks) /\ Len(asks) = 5
        /\ \A i \in 1 .. 5 : asks[i] = Ask(q[i], "in", op.f)
    <3>1. asks = [i \in 1 .. 5 |-> asks[i]]
      OBVIOUS
    <3>2. \A i \in 1 .. 5 : asks[i] = Ask(q[i], "in", op.f)
      OBVIOUS
    <3> HIDE DEF asks
    <3>3. QED
      BY <3>1, <3>2, ListOf
  <2>2. five \in Seq({five[1], five[2], five[3], five[4], five[5]}) /\ Len(five) = 5
    OBVIOUS
  <2>3. five[1] = Ask(q[1], "in", op.f) /\ five[2] = Ask(q[2], "in", op.f)
        /\ five[3] = Ask(q[3], "in", op.f) /\ five[4] = Ask(q[4], "in", op.f)
        /\ five[5] = Ask(q[5], "in", op.f)
    OBVIOUS
  <2>4. IsList(five)
    BY <2>2 DEF IsList
  <2> HIDE DEF asks, five
  <2>5. \A i \in 1 .. 5 : asks[i] = five[i]
    <3>1. \A i \in 1 .. 5 : i = 1 \/ i = 2 \/ i = 3 \/ i = 4 \/ i = 5
      OBVIOUS
    <3>2. asks[1] = five[1] /\ asks[2] = five[2] /\ asks[3] = five[3] /\ asks[4] = five[4]
          /\ asks[5] = five[5]
      BY <2>1, <2>3
    <3>3. QED
      BY <3>1, <3>2
  <2>6. QED
    BY <2>1, <2>2, <2>4, <2>5, ListEqual
<1>3. Preserves(op, "in", five)
  BY AskKeeps, FiveKeeps
<1>4. Preserves(op, "in", first)
  BY OwnKeeps
<1> HIDE DEF asks, five, first
<1>5. QED
  BY <1>1, <1>2, <1>3, <1>4, FieldKeeps, JoinedKeeps

LEMMA FunctionsKeep ==
  ASSUME NEW op, WellFormedOp(op), op.name \in Functions
  PROVE  Preserves(op, "in", Program(op))
<1>1. CASE op.name = "Histogram"
  BY <1>1, HistogramKeeps DEF Program
<1>2. CASE op.name = "Statistics"
  BY <1>2, StatisticsKeeps DEF Program
<1>3. CASE op.name = "BoundsMap"
  <2>1. /\ Preserves(op, "in", <<Do("clear")>>) /\ Preserves(op, "in", <<Do("addBlocks")>>)
        /\ Preserves(op, "in", <<Do("build")>>)
    BY DoKeeps DEF Quiet
  <2>2. Preserves(op, "in", <<Do("clear"), CheckOwn("unique", "in", ""), Do("addBlocks"),
                          Ask("blocks", "in", ""), Ask("boxes", "in", ""), Ask("ids", "in", ""),
                          Do("build")>>)
    BY <2>1, AskKeeps, OwnKeeps, SevenKeeps
  <2>3. Program(op) = BoundsMap(op)
    BY <1>3 DEF Program
  <2>4. QED
    BY <2>2, <2>3 DEF BoundsMap
<1>4. CASE op.name = "Query"
  <2>1. Preserves(op, "in", Query(op))
    BY AskKeeps, RangeKeeps, AssociationKeeps, PointMeshKeeps DEF Query
  <2>2. QED
    BY <1>4, <2>1 DEF Program
<1>5. CASE op.name \in CountingOps
  <2>1. /\ Preserves(op, "in", <<Do("addCounter")>>) /\ Preserves(op, "in", <<Do("increment")>>)
        /\ Preserves(op, "in", <<Do("calcStats")>>)
    BY DoKeeps DEF Quiet
  <2>2. Preserves(op, "in", Count(op)) /\ Preserves(op, "in", TotalVal(op))
    BY <2>1, CheckKeeps, TwoKeeps DEF Count, TotalVal
  <2>3. Program(op) \in {Count(op), TotalVal(op)}
    BY <1>5 DEF Program, CountingOps
  <2>4. QED
    BY <2>2, <2>3
<1>6. QED
  BY <1>1, <1>2, <1>3, <1>4, <1>5 DEF Functions

-----------------------------------------------------------------------------
(* Programs that make an output. *)

(* What a filter begins and ends with. *)
Begun == SomeOf({"in"}, {}, 0)
Ended == SomeOf({"in", "out"}, {"out"}, 0)

(* A program that gets from the one to the other, perhaps with temp besides. *)
Makes(op, prog) ==
  Leads(op, Begun, prog, Ended \cup SomeOf({"in", "out", "temp"}, {"out"}, 0))

LEMMA LeadsMakes ==
  ASSUME NEW op, NEW prog, Leads(op, Begun, prog, Ended)
  PROVE  Makes(op, prog)
<1>1. Begun \subseteq Begun /\ Ended \subseteq Ended \cup SomeOf({"in", "out", "temp"}, {"out"}, 0)
  OBVIOUS
<1>2. QED
  BY <1>1, LeadsMore DEF Makes

LEMMA MapMakes == \A op, work : Leads(op, Begun, <<Map(work, "in", "out")>>, Ended)
<1> SUFFICES ASSUME NEW op, NEW work
             PROVE  Leads(op, Begun, <<Map(work, "in", "out")>>, Ended)
  OBVIOUS
<1>1. {"in"} \cup {"out"} = {"in", "out"} /\ {} \cup {"out"} = {"out"}
      /\ "out" \in Registers \ {} /\ "in" \in {"in"}
  BY DEF Registers
<1>2. Leads(op, Some({"in"}, {}, 0, Knowledge), <<Map(work, "in", "out")>>,
            Some({"in"} \cup {"out"}, {} \cup {"out"}, 0, Knowledge))
  BY <1>1, LeadsMap
<1>3. QED
  BY <1>1, <1>2 DEF Begun, Ended, SomeOf

(* After questions about the input. *)
LEMMA KeepsThenMakes ==
  ASSUME NEW op, NEW p, NEW q, NEW T, Preserves(op, "in", p), Leads(op, Begun, q, T)
  PROVE  Leads(op, Begun, p \o q, T)
<1>1. Leads(op, Begun, p, Begun)
  BY DEF Preserves, Begun
<1>2. QED
  BY <1>1, LeadsJoined

LEMMA PlainProgramsMake ==
  ASSUME NEW op,
         op.name \in {"CleanGrid", "NoOp", "PointTransform", "Triangulate", "Tetrahedralize",
                      "Recenter", "Lagrangian", "VectorMagnitude", "CellAverage",
                      "PointAverage", "GhostStripper", "VectorComponent", "Log",
                      "ParticleMerging"}
  PROVE  Leads(op, Begun, Program(op), Ended)
<1> DEFINE here == <<Map(op, "in", "out")>>
           field == CheckForRequiredField(op.f)
           named == <<Check("named", "")>>
           ordered == <<Check("ordered", "")>>
           comps == <<Ask("comps", "in", op.f), Check("component", op.f), Check("named", "")>>
           positive == <<Check("positive", op.f)>>
           points == <<Check("pointMesh", "")>>
<1>1. Leads(op, Begun, here, Ended)
  BY MapMakes
<1>2. /\ Preserves(op, "in", field) /\ Preserves(op, "in", named) /\ Preserves(op, "in", ordered)
      /\ Preserves(op, "in", comps) /\ Preserves(op, "in", positive) /\ Preserves(op, "in", points)
  BY FieldKeeps, CheckKeeps, AskKeeps, ThreeKeeps
<1>3. /\ CleanGrid(op) = here /\ PointTransform(op) = here /\ Triangulate(op) = here
      /\ Tetrahedralize(op) = here
  BY DEF CleanGrid, PointTransform, Triangulate, Tetrahedralize
<1>4. /\ NoOp(op) = field \o here /\ Recenter(op) = field \o here
      /\ Lagrangian(op) = field \o here /\ VectorMagnitude(op) = field \o here
  BY DEF NoOp, Recenter, Lagrangian, VectorMagnitude
<1>5. CellAverage(op) = field \o (named \o here) /\ PointAverage(op) = field \o (named \o here)
  BY Two DEF CellAverage, PointAverage
<1>6. GhostStripper(op) = (ordered \o field) \o here
  BY DEF GhostStripper
<1>7. VectorComponent(op) = field \o (comps \o here)
  <2>1. comps \o here = <<Ask("comps", "in", op.f), Check("component", op.f), Check("named", ""),
                          Map(op, "in", "out")>>
    BY ThreeOne
  <2>2. QED
    BY <2>1 DEF VectorComponent
<1>8. /\ Log(op) = (field \o GetGlobalRange("in", op.f)) \o (positive \o here)
      /\ ParticleMerging(op) = (field \o IsPointMesh("in")) \o (points \o here)
  BY Two DEF Log, ParticleMerging
<1> HIDE DEF here, field, named, ordered, comps, positive, points
<1>9. /\ Leads(op, Begun, field \o here, Ended)
      /\ Leads(op, Begun, field \o (named \o here), Ended)
      /\ Leads(op, Begun, (ordered \o field) \o here, Ended)
      /\ Leads(op, Begun, field \o (comps \o here), Ended)
      /\ Leads(op, Begun, (field \o GetGlobalRange("in", op.f)) \o (positive \o here), Ended)
      /\ Leads(op, Begun, (field \o IsPointMesh("in")) \o (points \o here), Ended)
  BY <1>1, <1>2, JoinedKeeps, KeepsThenMakes, RangeKeeps, PointMeshKeeps
<1>10. Program(op) \in
         {here, field \o here, field \o (named \o here), (ordered \o field) \o here,
          field \o (comps \o here),
          (field \o GetGlobalRange("in", op.f)) \o (positive \o here),
          (field \o IsPointMesh("in")) \o (points \o here)}
  <2>1. Program(op) \in
         {CleanGrid(op), PointTransform(op), Triangulate(op), Tetrahedralize(op), NoOp(op),
          Recenter(op), Lagrangian(op), VectorMagnitude(op), CellAverage(op), PointAverage(op),
          GhostStripper(op), VectorComponent(op), Log(op), ParticleMerging(op)}
    BY DEF Program
  <2>2. QED
    BY <1>3, <1>4, <1>5, <1>6, <1>7, <1>8, <2>1
<1>11. QED
  BY <1>1, <1>9, <1>10

LEMMA CompositeVectorMakes ==
  ASSUME NEW op, op.fields \in Seq(STRING)
  PROVE  Leads(op, Begun, CompositeVector(op), Ended)
<1> DEFINE n == Len(op.fields)
           fields == FlattenSeq([i \in 1 .. n |-> CheckForRequiredField(op.fields[i])])
           comps == FlattenSeq([i \in 1 .. n |-> <<Ask("comps", "in", op.fields[i])>>])
           assocs == FlattenSeq([i \in 1 .. n |-> GetFieldAssociation("in", op.fields[i])])
           last == <<Check("sameAssoc", ""), Check("named", "")>>
           here == <<Map(op, "in", "out")>>
<1>1. n \in Nat /\ DOMAIN op.fields = 1 .. n
  OBVIOUS
<1>2. ASSUME NEW lists, lists = [i \in 1 .. n |-> lists[i]],
             \A i \in 1 .. n : Preserves(op, "in", lists[i])
      PROVE  Preserves(op, "in", FlattenSeq(lists))
  <2> HIDE DEF n
  <2>1. IsList(lists) /\ Len(lists) = n
    BY <1>1, <1>2, ListOf
  <2>2. QED
    BY <1>2, <2>1, FlatKeeps
<1>3. Preserves(op, "in", fields)
  BY <1>2, FieldKeeps
<1>4. Preserves(op, "in", comps)
  BY <1>2, AskKeeps
<1>5. Preserves(op, "in", assocs)
  BY <1>2, AssociationKeeps
<1>6. Preserves(op, "in", last) /\ Preserves(op, "in", <<Check("scalars", "")>>)
  BY CheckKeeps, TwoKeeps
<1>7. CompositeVector(op) =
        (((fields \o comps) \o <<Check("scalars", "")>>) \o assocs) \o (last \o here)
  <2>1. last \o here = <<Check("sameAssoc", ""), Check("named", ""), Map(op, "in", "out")>>
    BY TwoOne
  <2>2. QED
    BY <1>1, <2>1 DEF CompositeVector
<1>8. Leads(op, Begun, here, Ended)
  BY MapMakes
<1> HIDE DEF n, fields, comps, assocs, last, here
<1>9. Preserves(op, "in", ((fields \o comps) \o <<Check("scalars", "")>>) \o assocs)
  BY <1>3, <1>4, <1>5, <1>6, JoinedKeeps
<1>10. Leads(op, Begun, last \o here, Ended)
  BY <1>6, <1>8, KeepsThenMakes
<1>11. QED
  BY <1>7, <1>9, <1>10, KeepsThenMakes

-----------------------------------------------------------------------------
(* Programs that use other filters. *)

LEMMA FiltersCallable ==
  ASSUME NEW op, "name" \in DOMAIN op,
         op.name \in FilterNames \ {"CompositeVector", "Slice", "HistSampling"}
  PROVE  Callable(op)
<1>1. WellFormedOp(op)
  BY DEF WellFormedOp, FilterNames, CountingOps
<1>2. op.name \notin Functions \cup {"HistSampling"}
  BY DEF FilterNames, Functions, CountingOps
<1>3. QED
  BY <1>1, <1>2 DEF Callable

LEMMA AnyMap ==
  ASSUME NEW op, NEW h, NEW o, NEW n, NEW work, NEW from \in h, NEW to \in Registers \ o,
         NEW g, g = h \cup {to}, NEW p, p = o \cup {to}
  PROVE  Leads(op, SomeOf(h, o, n), <<Map(work, from, to)>>, SomeOf(g, p, n))
BY LeadsMap DEF SomeOf

LEMMA AnyUpdate ==
  ASSUME NEW op, NEW h, NEW o, NEW n, NEW called, Callable(called), NEW from \in h,
         NEW to \in Registers \ o, NEW g, g = h \cup {to}, NEW p, p = o \cup {to}
  PROVE  Leads(op, SomeOf(h, o, n), <<Update(called, from, to)>>, SomeOf(g, p, n))
BY LeadsUpdate DEF SomeOf

LEMMA AnyDelete ==
  ASSUME NEW op, NEW h, NEW o, NEW n, NEW reg \in o, reg # "in",
         NEW g, g = h \ {reg}, NEW p, p = o \ {reg}
  PROVE  Leads(op, SomeOf(h, o, n), <<Delete(reg)>>, SomeOf(g, p, n))
BY LeadsDelete DEF SomeOf

LEMMA CleanGridCallable == Callable([name |-> "CleanGrid", f |-> "", map |-> {}])
<1> DEFINE sub == [name |-> "CleanGrid", f |-> "", map |-> {}]
<1>1. /\ sub.name = "CleanGrid" /\ "name" \in DOMAIN sub
      /\ "CleanGrid" \in FilterNames \ {"CompositeVector", "Slice", "HistSampling"}
  BY DEF FilterNames
<1> HIDE DEF sub
<1>2. Callable(sub)
  BY <1>1, FiltersCallable
<1>3. QED
  BY <1>2 DEF sub

(* The cells left over in a data set of the filter's own become its output. *)
LEMMA CleanedAway ==
  ASSUME NEW op, NEW reg \in {"temp", "other"}
  PROVE  Leads(op, SomeOf({"in", reg}, {reg}, 0), <<CleanGridOf(reg), Delete(reg)>>, Ended)
<1>1. /\ "out" \in Registers \ {reg} /\ {"in", reg, "out"} = {"in", reg} \cup {"out"}
      /\ {reg, "out"} = {reg} \cup {"out"} /\ reg # "in" /\ reg \in {"in", reg}
      /\ reg \in {reg, "out"}
  BY DEF Registers
<1>2. {"in", "out"} = {"in", reg, "out"} \ {reg} /\ {"out"} = {reg, "out"} \ {reg}
  OBVIOUS
<1>3. Leads(op, SomeOf({"in", reg}, {reg}, 0), <<CleanGridOf(reg)>>,
            SomeOf({"in", reg, "out"}, {reg, "out"}, 0))
  BY <1>1, CleanGridCallable, AnyUpdate DEF CleanGridOf
<1>4. Leads(op, SomeOf({"in", reg, "out"}, {reg, "out"}, 0), <<Delete(reg)>>,
            SomeOf({"in", "out"}, {"out"}, 0))
  BY <1>1, <1>2, AnyDelete
<1>5. QED
  BY <1>3, <1>4, LeadsTwo DEF Ended

LEMMA MapAside ==
  \A op, work : Leads(op, Begun, <<Map(work, "in", "temp")>>, SomeOf({"in", "temp"}, {"temp"}, 0))
<1> SUFFICES ASSUME NEW op, NEW work
             PROVE  Leads(op, Begun, <<Map(work, "in", "temp")>>,
                          SomeOf({"in", "temp"}, {"temp"}, 0))
  OBVIOUS
<1>1. /\ "temp" \in Registers \ {} /\ "in" \in {"in"}
      /\ {"in", "temp"} = {"in"} \cup {"temp"} /\ {"temp"} = {} \cup {"temp"}
  BY DEF Registers
<1>2. QED
  BY <1>1, AnyMap DEF Begun

LEMMA ThresholdMakes == \A op : Leads(op, Begun, Threshold(op), Ended)
<1> SUFFICES ASSUME NEW op PROVE Leads(op, Begun, Threshold(op), Ended)
  OBVIOUS
<1> DEFINE last == <<Map(op, "in", "temp"), CleanGridOf("temp"), Delete("temp")>>
<1>1. Leads(op, Begun, last, Ended)
  BY MapAside, CleanedAway, LeadsThree
<1> HIDE DEF last
<1>2. Leads(op, Begun, CheckForRequiredField(op.f) \o last, Ended)
  BY <1>1, FieldKeeps, KeepsThenMakes
<1>3. QED
  BY <1>2 DEF Threshold, last

LEMMA ClipAtCallable == \A f, value, invert : Callable(ClipAt(f, value, invert))
<1> SUFFICES ASSUME NEW f, NEW value, NEW invert PROVE Callable(ClipAt(f, value, invert))
  OBVIOUS
<1> DEFINE sub == ClipAt(f, value, invert)
<1>1. /\ sub.name = "ClipField" /\ "name" \in DOMAIN sub
      /\ "ClipField" \in FilterNames \ {"CompositeVector", "Slice", "HistSampling"}
  BY DEF FilterNames, ClipAt
<1> HIDE DEF sub
<1>2. Callable(sub)
  BY <1>1, FiltersCallable
<1>3. QED
  BY <1>2 DEF sub

(* Two data sets aside, the first of them no longer needed. *)
LEMMA HandedOn ==
  ASSUME NEW op, NEW called, Callable(called)
  PROVE  /\ Leads(op, SomeOf({"in", "temp"}, {"temp"}, 0), <<Update(called, "temp", "other")>>,
                  SomeOf({"in", "temp", "other"}, {"temp", "other"}, 0))
         /\ Leads(op, SomeOf({"in", "temp", "other"}, {"temp", "other"}, 0), <<Delete("temp")>>,
                  SomeOf({"in", "other"}, {"other"}, 0))
<1>1. /\ "other" \in Registers \ {"temp"} /\ "temp" \in {"in", "temp"}
      /\ {"in", "temp", "other"} = {"in", "temp"} \cup {"other"}
      /\ {"temp", "other"} = {"temp"} \cup {"other"}
  BY DEF Registers
<1>2. /\ "temp" \in {"temp", "other"} /\ "temp" # "in"
      /\ {"in", "other"} = {"in", "temp", "other"} \ {"temp"}
      /\ {"other"} = {"temp", "other"} \ {"temp"}
  OBVIOUS
<1>3. QED
  BY <1>1, <1>2, AnyUpdate, AnyDelete

LEMMA IsoVolumeMakes == \A op : Leads(op, Begun, IsoVolume(op), Ended)
<1> SUFFICES ASSUME NEW op PROVE Leads(op, Begun, IsoVolume(op), Ended)
  OBVIOUS
<1> DEFINE high == ClipAt(op.f, op.hi, TRUE)
           low == ClipAt(op.f, op.lo, FALSE)
           last == <<Update(high, "in", "temp"), Update(low, "temp", "other"),
                     Delete("temp"), CleanGridOf("other"), Delete("other")>>
<1>1. Callable(high) /\ Callable(low)
  BY ClipAtCallable
<1>2. IsoVolume(op) = CheckForRequiredField(op.f) \o last
  BY DEF IsoVolume
<1> HIDE DEF high, low
<1>3. Leads(op, Begun, <<Update(high, "in", "temp")>>, SomeOf({"in", "temp"}, {"temp"}, 0))
  <2>1. /\ "temp" \in Registers \ {} /\ "in" \in {"in"}
        /\ {"in", "temp"} = {"in"} \cup {"temp"} /\ {"temp"} = {} \cup {"temp"}
    BY DEF Registers
  <2>2. QED
    BY <1>1, <2>1, AnyUpdate DEF Begun
<1>4. Leads(op, SomeOf({"in", "temp", "other"}, {"temp", "other"}, 0),
            <<Delete("temp"), CleanGridOf("other"), Delete("other")>>, Ended)
  BY <1>1, HandedOn, CleanedAway, LeadsThree
<1>5. Leads(op, SomeOf({"in", "temp"}, {"temp"}, 0),
            <<Update(low, "temp", "other"), Delete("temp"), CleanGridOf("other"), Delete("other")>>,
            Ended)
  BY <1>1, <1>4, HandedOn, LeadsFour
<1>6. Leads(op, Begun, last, Ended)
  BY <1>3, <1>5, LeadsFive
<1> HIDE DEF last
<1>7. QED
  BY <1>2, <1>6, FieldKeeps, KeepsThenMakes

LEMMA ClipMakes == \A op : Leads(op, Begun, Clip(op), Ended)
<1> SUFFICES ASSUME NEW op PROVE Leads(op, Begun, Clip(op), Ended)
  OBVIOUS
<1> DEFINE iso == [name |-> "IsoVolume", f |-> "mclip_field", map |-> {},
                   lo |-> IF op.invert THEN -Inf ELSE 0,
                   hi |-> IF op.invert THEN 0 ELSE Inf]
           marked == [op EXCEPT !.name = "mclip_field"]
           copy == [op EXCEPT !.name = "copy"]
           multi == <<Map(marked, "in", "temp"), Update(iso, "temp", "other"), Delete("temp"),
                      Map(copy, "other", "temp"), Delete("other")>>
           single == <<Map(op, "in", "temp")>>
           last == <<CleanGridOf("temp"), Delete("temp")>>
           clip == (IF Len(op.planes) > 1 THEN multi ELSE single) \o last
           none == <<Map(copy, "in", "out")>>
           Aside == SomeOf({"in", "temp"}, {"temp"}, 0)
<1>1. Callable(iso)
  <2>1. /\ iso.name = "IsoVolume" /\ "name" \in DOMAIN iso
        /\ "IsoVolume" \in FilterNames \ {"CompositeVector", "Slice", "HistSampling"}
    BY DEF FilterNames
  <2> HIDE DEF iso
  <2>2. QED
    BY <2>1, FiltersCallable
<1>2. Clip(op) = <<Ask("domains", "in", ""), If("domains", "", clip, none)>>
  BY DEF Clip
<1> HIDE DEF iso, marked, copy
<1>3. Leads(op, Begun, multi, Aside)
  <2> DEFINE Both == SomeOf({"in", "temp", "other"}, {"temp", "other"}, 0)
             Other == SomeOf({"in", "other"}, {"other"}, 0)
  <2>1. Leads(op, Other, <<Map(copy, "other", "temp")>>, Both)
    <3>1. /\ "temp" \in Registers \ {"other"} /\ "other" \in {"in", "other"}
          /\ {"in", "temp", "other"} = {"in", "other"} \cup {"temp"}
          /\ {"temp", "other"} = {"other"} \cup {"temp"}
      BY DEF Registers
    <3>2. QED
      BY <3>1, AnyMap
  <2>2. Leads(op, Both, <<Delete("other")>>, Aside)
    <3>1. /\ "other" \in {"temp", "other"} /\ "other" # "in"
          /\ {"in", "temp"} = {"in", "temp", "other"} \ {"other"}
          /\ {"temp"} = {"temp", "other"} \ {"other"}
      OBVIOUS
    <3>2. QED
      BY <3>1, AnyDelete
  <2>3. /\ Leads(op, Aside, <<Update(iso, "temp", "other")>>, Both)
        /\ Leads(op, Both, <<Delete("temp")>>, Other)
    BY <1>1, HandedOn
  <2>4. Leads(op, Begun, <<Map(marked, "in", "temp")>>, Aside)
    BY MapAside
  <2> HIDE DEF Both, Other, Aside
  <2>5. Leads(op, Other, <<Map(copy, "other", "temp"), Delete("other")>>, Aside)
    BY <2>1, <2>2, LeadsTwo
  <2>6. Leads(op, Both, <<Delete("temp"), Map(copy, "other", "temp"), Delete("other")>>, Aside)
    BY <2>3, <2>5, LeadsThree
  <2>7. Leads(op, Aside, <<Update(iso, "temp", "other"), Delete("temp"),
                           Map(copy, "other", "temp"), Delete("other")>>, Aside)
    BY <2>3, <2>6, LeadsFour
  <2>8. QED
    BY <2>4, <2>7, LeadsFive
<1>4. Leads(op, Begun, single, Aside) /\ Leads(op, Begun, none, Ended)
  BY MapAside, MapMakes
<1>5. Leads(op, Aside, last, Ended)
  BY CleanedAway
<1> HIDE DEF multi, single, none, last, Aside
<1>6. Leads(op, Begun, clip, Ended)
  BY <1>3, <1>4, <1>5, LeadsJoined
<1> HIDE DEF clip
<1>7. Leads(op, Begun, <<If("domains", "", clip, none)>>, Ended)
  BY <1>4, <1>6, LeadsIf
<1>8. Leads(op, Begun, <<Ask("domains", "in", "")>>, Begun)
  BY LeadsAny DEF Begun
<1>9. QED
  BY <1>2, <1>7, <1>8, LeadsTwo

-----------------------------------------------------------------------------
(* Filters that work on an averaged copy of the input, where the field is    *)
(* one of cells.                                                            *)

Averaged(h, o) ==
  Some(h \cup {"old"}, o \cup {"in"}, 0, {"yes"}) \cup Some(h \cup {"old"}, o, 0, {"none", "no"})

LEMMA AssociationLearnt ==
  ASSUME NEW op, NEW h, NEW o, "in" \in h
  PROVE  Leads(op, SomeOf(h, o, 0), GetFieldAssociation("in", op.f),
               Some(h, o, 0, {"assoc", "none"}))
<1> DEFINE then == <<Ask("assoc", "in", op.f), Check("assoc", op.f)>>
           Known == Some(h, o, 0, {"exists"})
           End == Some(h, o, 0, {"assoc", "none"})
<1>1. Leads(op, SomeOf(h, o, 0), <<Ask("exists", "in", op.f)>>, Known)
  <2>1. \A k \in Knowledge : Learned(op, Ask("exists", "in", op.f), k) \in {"exists"}
    BY DEF Learned, Ask
  <2>2. QED
    BY <2>1, LeadsLearn DEF SomeOf
<1>2. Leads(op, Known, then, End)
  <2>1. \A k \in {"exists"} : Learned(op, Ask("assoc", "in", op.f), k) \in {"assoc", "none"}
    BY DEF Learned, Ask
  <2>2. Leads(op, Known, <<Ask("assoc", "in", op.f)>>, End)
    BY <2>1, LeadsLearn
  <2>3. QED
    BY <2>2, LeadsCheck, LeadsTwo
<1>3. Leads(op, Some(h, o, 0, {"none"}), <<>>, End)
  <2>1. Some(h, o, 0, {"none"}) \subseteq End /\ End \subseteq End
    BY SomeMore
  <2>2. Leads(op, End, <<>>, End)
    BY LeadsNone
  <2> HIDE DEF End
  <2>3. QED
    BY <2>1, <2>2, LeadsMore
<1> HIDE DEF then, End
<1>4. Leads(op, Known, <<If("exists", op.f, then, <<>>)>>, End)
  BY <1>2, <1>3, LeadsIfExists
<1> HIDE DEF Known
<1>5. Leads(op, SomeOf(h, o, 0), <<Ask("exists", "in", op.f), If("exists", op.f, then, <<>>)>>, End)
  BY <1>1, <1>4, LeadsTwo
<1>6. QED
  BY <1>5 DEF GetFieldAssociation, then, End

LEMMA RecenterCallable ==
  \A f : Callable([name |-> "Recenter", f |-> f, map |-> {}, assoc |-> "points"])
<1> SUFFICES ASSUME NEW f
             PROVE  Callable([name |-> "Recenter", f |-> f, map |-> {}, assoc |-> "points"])
  OBVIOUS
<1> DEFINE sub == [name |-> "Recenter", f |-> f, map |-> {}, assoc |-> "points"]
<1>1. /\ sub.name = "Recenter" /\ "name" \in DOMAIN sub
      /\ "Recenter" \in FilterNames \ {"CompositeVector", "Slice", "HistSampling"}
  BY DEF FilterNames
<1> HIDE DEF sub
<1>2. Callable(sub)
  BY <1>1, FiltersCallable
<1>3. QED
  BY <1>2 DEF sub

LEMMA LeadsToPoints == \A op : Leads(op, Begun, ToPoints(op.f), Averaged({"in"}, {}))
<1> SUFFICES ASSUME NEW op PROVE Leads(op, Begun, ToPoints(op.f), Averaged({"in"}, {}))
  OBVIOUS
<1> DEFINE sub == [name |-> "Recenter", f |-> op.f, map |-> {}, assoc |-> "points"]
           then == <<Update(sub, "in", "in")>>
           h == {"in", "old"}
           S == Some(h, {}, 0, {"assoc", "none"})
           A == Some(h, {}, 0, {"yes"})
           B == Some(h, {}, 0, {"none", "no"})
           End == Averaged({"in"}, {})
<1>1. Leads(op, Begun, <<Assign("old", "in")>>, SomeOf(h, {}, 0))
  <2>1. /\ {"in"} \cup {"old"} = h /\ "old" \in Registers /\ "in" \in {"in"} /\ "in" # "old"
    BY DEF Registers
  <2>2. Leads(op, Some({"in"}, {}, 0, Knowledge), <<Assign("old", "in")>>,
              Some({"in"} \cup {"old"}, {}, 0, Knowledge))
    BY <2>1, LeadsAssign
  <2>3. QED
    BY <2>1, <2>2 DEF Begun, SomeOf
<1>2. Leads(op, SomeOf(h, {}, 0), GetFieldAssociation("in", op.f), S)
  BY AssociationLearnt
<1>3. End = Some(h, {"in"}, 0, {"yes"}) \cup B
  <2>1. {"in"} \cup {"old"} = h /\ {} \cup {"in"} = {"in"}
    OBVIOUS
  <2>2. QED
    BY <2>1, Zenon DEF Averaged
<1>4. Leads(op, A, then, End)
  <2>1. /\ h \cup {"in"} = h /\ {} \cup {"in"} = {"in"} /\ "in" \in Registers \ {} /\ "in" \in h
    BY DEF Registers
  <2>2. Callable(sub)
    BY RecenterCallable
  <2> HIDE DEF sub
  <2>3. Leads(op, Some(h, {}, 0, {"yes"}), <<Update(sub, "in", "in")>>,
              Some(h \cup {"in"}, {} \cup {"in"}, 0, {"yes"}))
    BY <2>1, <2>2, LeadsUpdate
  <2>4. Leads(op, A, then, Some(h, {"in"}, 0, {"yes"}))
    BY <2>1, <2>3
  <2>5. A \subseteq A /\ Some(h, {"in"}, 0, {"yes"}) \subseteq End
    BY <1>3
  <2> HIDE DEF A, then, End
  <2>6. QED
    BY <2>4, <2>5, LeadsMore
<1>5. Leads(op, B, <<>>, End)
  <2>1. B \subseteq End /\ End \subseteq End
    BY <1>3
  <2>2. Leads(op, End, <<>>, End)
    BY LeadsNone
  <2> HIDE DEF B, End
  <2>3. QED
    BY <2>1, <2>2, LeadsMore
<1>6. \A s \in S : /\ s.cells \in {"none", "assoc", "yes", "no"}
                   /\ s.cells \in {"assoc", "yes"} =>
                        Holding(s.has, s.own, s.slices, "yes") \in A
                   /\ s.cells \in {"assoc", "no"} =>
                        Holding(s.has, s.own, s.slices, "no") \in B
                   /\ s.cells = "none" => s \in B
  <2> SUFFICES ASSUME NEW s \in S
               PROVE  /\ s.cells \in {"none", "assoc", "yes", "no"}
                      /\ s.cells \in {"assoc", "yes"} =>
                           Holding(s.has, s.own, s.slices, "yes") \in A
                      /\ s.cells \in {"assoc", "no"} =>
                           Holding(s.has, s.own, s.slices, "no") \in B
                      /\ s.cells = "none" => s \in B
    OBVIOUS
  <2>1. /\ h \subseteq s.has /\ s.has \subseteq h \cup {"old"} /\ s.own = {}
        /\ s.slices = 0 /\ s.cells \in {"assoc", "none"}
        /\ s = Holding(s.has, s.own, s.slices, s.cells)
    BY SomeIs
  <2>2. \A k \in {"yes"} : Holding(s.has, s.own, s.slices, k) \in A
    BY <2>1, IsSome
  <2>3. \A k \in {"none", "no"} : Holding(s.has, s.own, s.slices, k) \in B
    BY <2>1, IsSome
  <2> HIDE DEF A, B, S
  <2>4. QED
    BY <2>1, <2>2, <2>3
<1> HIDE DEF then, S, A, B, End
<1>7. Leads(op, S, <<If("cells", op.f, then, <<>>)>>, End)
  BY <1>4, <1>5, <1>6, LeadsIfCells
<1>8. Leads(op, Begun, (<<Assign("old", "in")>> \o GetFieldAssociation("in", op.f)) \o
                       <<If("cells", op.f, then, <<>>)>>, End)
  BY <1>1, <1>2, <1>7, LeadsJoined
<1>9. QED
  BY <1>8 DEF ToPoints, then, sub, End

LEMMA AveragedMap ==
  ASSUME NEW op, NEW h, NEW o, NEW work, NEW from \in h, NEW to \in Registers \ o, to # "in",
         NEW g, g = h \cup {to}, NEW p, p = o \cup {to}
  PROVE  Leads(op, Averaged(h, o), <<Map(work, from, to)>>, Averaged(g, p))
<1>1. /\ from \in h \cup {"old"} /\ to \in Registers \ (o \cup {"in"})
      /\ (h \cup {"old"}) \cup {to} = g \cup {"old"} /\ (o \cup {"in"}) \cup {to} = p \cup {"in"}
  OBVIOUS
<1>2. Leads(op, Some(h \cup {"old"}, o \cup {"in"}, 0, {"yes"}), <<Map(work, from, to)>>,
            Some(g \cup {"old"}, p \cup {"in"}, 0, {"yes"}))
  <2>1. Leads(op, Some(h \cup {"old"}, o \cup {"in"}, 0, {"yes"}), <<Map(work, from, to)>>,
              Some((h \cup {"old"}) \cup {to}, (o \cup {"in"}) \cup {to}, 0, {"yes"}))
    BY <1>1, LeadsMap
  <2>2. QED
    BY <1>1, <2>1
<1>3. Leads(op, Some(h \cup {"old"}, o, 0, {"none", "no"}), <<Map(work, from, to)>>,
            Some(g \cup {"old"}, p, 0, {"none", "no"}))
  <2>1. Leads(op, Some(h \cup {"old"}, o, 0, {"none", "no"}), <<Map(work, from, to)>>,
              Some((h \cup {"old"}) \cup {to}, o \cup {to}, 0, {"none", "no"}))
    BY <1>1, LeadsMap
  <2>2. QED
    BY <1>1, <2>1
<1>4. QED
  BY <1>2, <1>3, LeadsBoth DEF Averaged

LEMMA AveragedUpdate ==
  ASSUME NEW op, NEW h, NEW o, NEW called, Callable(called), NEW from \in h,
         NEW to \in Registers \ o, to # "in", NEW g, g = h \cup {to}, NEW p, p = o \cup {to}
  PROVE  Leads(op, Averaged(h, o), <<Update(called, from, to)>>, Averaged(g, p))
<1>1. /\ from \in h \cup {"old"} /\ to \in Registers \ (o \cup {"in"})
      /\ (h \cup {"old"}) \cup {to} = g \cup {"old"} /\ (o \cup {"in"}) \cup {to} = p \cup {"in"}
  OBVIOUS
<1>2. Leads(op, Some(h \cup {"old"}, o \cup {"in"}, 0, {"yes"}), <<Update(called, from, to)>>,
            Some(g \cup {"old"}, p \cup {"in"}, 0, {"yes"}))
  <2>1. Leads(op, Some(h \cup {"old"}, o \cup {"in"}, 0, {"yes"}), <<Update(called, from, to)>>,
              Some((h \cup {"old"}) \cup {to}, (o \cup {"in"}) \cup {to}, 0, {"yes"}))
    BY <1>1, LeadsUpdate
  <2>2. QED
    BY <1>1, <2>1
<1>3. Leads(op, Some(h \cup {"old"}, o, 0, {"none", "no"}), <<Update(called, from, to)>>,
            Some(g \cup {"old"}, p, 0, {"none", "no"}))
  <2>1. Leads(op, Some(h \cup {"old"}, o, 0, {"none", "no"}), <<Update(called, from, to)>>,
              Some((h \cup {"old"}) \cup {to}, o \cup {to}, 0, {"none", "no"}))
    BY <1>1, LeadsUpdate
  <2>2. QED
    BY <1>1, <2>1
<1>4. QED
  BY <1>2, <1>3, LeadsBoth DEF Averaged

(* The copy is deleted if there is one, and the input is the old one again. *)
LEMMA LeadsRestored ==
  ASSUME NEW op, NEW h, NEW o, "in" \in h, "old" \notin h, "in" \notin o, "old" \notin o
  PROVE  Leads(op, Averaged(h, o), DeleteRecentered(op.f), SomeOf(h, o, 0))
<1> DEFINE A == Some(h \cup {"old"}, o \cup {"in"}, 0, {"yes"})
           B == Some(h \cup {"old"}, o, 0, {"none", "no"})
           S == A \cup B
           End == SomeOf(h, o, 0)
           then == <<Do("restore")>>
<1>1. Leads(op, A, then, End)
  <2> DEFINE step == Do("restore")
  <2>1. step.do = "restore"
    BY DEF Do
  <2> HIDE DEF step
  <2>2. ASSUME NEW s \in A
        PROVE  \E x : /\ h \subseteq x /\ x \subseteq h \cup {"old"}
                      /\ Does(op, step, s, Holding(x, o, 0, s.cells))
    <3>1. /\ h \cup {"old"} \subseteq s.has /\ s.has \subseteq (h \cup {"old"}) \cup {"old"}
          /\ s.own = o \cup {"in"} /\ s.slices = 0
      BY SomeIs
    <3>2. "in" \in s.own /\ "old" \in s.has \ s.own
      BY <3>1
    <3>3. Holding(s.has \ {"old"}, s.own \ {"in"}, s.slices, s.cells) =
            Holding(s.has \ {"old"}, o, 0, s.cells)
      <4>1. s.own \ {"in"} = o
        BY <3>1
      <4>2. QED
        BY <3>1, <4>1
    <3>4. Does(op, step, s, Holding(s.has \ {"old"}, o, 0, s.cells))
      BY <2>1, <3>2, <3>3, Zenon DEF Does
    <3>5. h \subseteq s.has \ {"old"} /\ s.has \ {"old"} \subseteq h \cup {"old"}
      BY <3>1
    <3>6. QED
      BY <3>4, <3>5
  <2>3. Leads(op, A, <<step>>, Some(h, o, 0, {"yes"}))
    BY <2>2, LeadsTo
  <2>4. A \subseteq A /\ Some(h, o, 0, {"yes"}) \subseteq End
    BY SomeMore DEF SomeOf, Knowledge
  <2> HIDE DEF A, End
  <2>5. Leads(op, A, <<step>>, End)
    BY <2>3, <2>4, LeadsMore
  <2>6. QED
    BY <2>5 DEF step
<1>2. Leads(op, B, <<>>, End)
  <2>1. {"none", "no"} \subseteq Knowledge
    BY DEF Knowledge
  <2>2. B \subseteq End /\ End \subseteq End
    BY <2>1, SomeMore DEF SomeOf
  <2>3. Leads(op, End, <<>>, End)
    BY LeadsNone
  <2> HIDE DEF B, End
  <2>4. QED
    BY <2>2, <2>3, LeadsMore
<1>3. \A s \in S : /\ s.cells \in {"none", "assoc", "yes", "no"}
                   /\ s.cells \in {"assoc", "yes"} =>
                        Holding(s.has, s.own, s.slices, "yes") \in A
                   /\ s.cells \in {"assoc", "no"} =>
                        Holding(s.has, s.own, s.slices, "no") \in B
                   /\ s.cells = "none" => s \in B
  <2>1. ASSUME NEW s \in A
        PROVE  s.cells = "yes" /\ Holding(s.has, s.own, s.slices, "yes") = s
    <3>1. s.cells \in {"yes"} /\ s = Holding(s.has, s.own, s.slices, s.cells)
      BY SomeIs
    <3>2. s.cells = "yes"
      BY <3>1
    <3>3. QED
      BY <3>1, <3>2
  <2>2. ASSUME NEW s \in B
        PROVE  /\ s.cells \in {"none", "no"}
               /\ s.cells = "no" => Holding(s.has, s.own, s.slices, "no") = s
    <3>1. s.cells \in {"none", "no"} /\ s = Holding(s.has, s.own, s.slices, s.cells)
      BY SomeIs
    <3>2. QED
      BY <3>1
  <2>3. \A s \in S : s \in A \/ s \in B
    OBVIOUS
  <2> HIDE DEF A, B, S
  <2>4. QED
    BY <2>1, <2>2, <2>3
<1> HIDE DEF A, B, End, then
<1>4. Leads(op, S, <<If("cells", op.f, then, <<>>)>>, End)
  <2> HIDE DEF S
  <2>1. QED
    BY <1>1, <1>2, <1>3, LeadsIfCells
<1>5. QED
  BY <1>4 DEF DeleteRecentered, Averaged, A, B, End, then

LEMMA OnPointsMakes ==
  \A op : Leads(op, Begun, ClipField(op), Ended) /\ Leads(op, Begun, Gradient(op), Ended)
<1> SUFFICES ASSUME NEW op
             PROVE  Leads(op, Begun, ClipField(op), Ended) /\ Leads(op, Begun, Gradient(op), Ended)
  OBVIOUS
<1> DEFINE here == <<Map(op, "in", "out")>>
<1>1. Leads(op, Averaged({"in"}, {}), here, Averaged({"in", "out"}, {"out"}))
  <2>1. /\ "in" \in {"in"} /\ "out" \in Registers \ {} /\ "out" # "in"
        /\ {"in", "out"} = {"in"} \cup {"out"} /\ {"out"} = {} \cup {"out"}
    BY DEF Registers
  <2>2. QED
    BY <2>1, AveragedMap
<1>2. Leads(op, Averaged({"in", "out"}, {"out"}), DeleteRecentered(op.f), Ended)
  BY LeadsRestored DEF Ended
<1>3. Leads(op, Begun, CheckForRequiredField(op.f), Begun)
  BY FieldKeeps DEF Preserves, Begun
<1> HIDE DEF here
<1>4. Leads(op, Begun, ((CheckForRequiredField(op.f) \o ToPoints(op.f)) \o here) \o
                       DeleteRecentered(op.f), Ended)
  BY <1>1, <1>2, <1>3, LeadsToPoints, LeadsJoined
<1>5. QED
  BY <1>4 DEF ClipField, Gradient, here

LEMMA MarchingCubesMakes == \A op : Leads(op, Begun, MarchingCubes(op), Ended)
<1> SUFFICES ASSUME NEW op PROVE Leads(op, Begun, MarchingCubes(op), Ended)
  OBVIOUS
<1> DEFINE range == IF op.levels # -1 THEN GetGlobalRange("in", op.f) ELSE <<>>
           here == <<Map(op, "in", "temp"), CleanGridOf("temp")>>
           isos == <<Check("isos", op.f)>>
           last == <<Delete("temp")>>
           Copied == Averaged({"in", "temp", "out"}, {"temp", "out"})
           All == SomeOf({"in", "temp", "out"}, {"temp", "out"}, 0)
<1>1. Preserves(op, "in", range)
  BY RangeKeeps, NoneKeeps
<1>2. Preserves(op, "in", isos)
  BY CheckKeeps
<1>3. Leads(op, Averaged({"in"}, {}), here, Copied)
  <2>1. /\ "in" \in {"in"} /\ "temp" \in Registers \ {} /\ "temp" # "in"
        /\ {"in", "temp"} = {"in"} \cup {"temp"} /\ {"temp"} = {} \cup {"temp"}
    BY DEF Registers
  <2>2. /\ "temp" \in {"in", "temp"} /\ "out" \in Registers \ {"temp"} /\ "out" # "in"
        /\ {"in", "temp", "out"} = {"in", "temp"} \cup {"out"}
        /\ {"temp", "out"} = {"temp"} \cup {"out"}
    BY DEF Registers
  <2>3. Leads(op, Averaged({"in"}, {}), <<Map(op, "in", "temp")>>, Averaged({"in", "temp"}, {"temp"}))
    BY <2>1, AveragedMap
  <2>4. Leads(op, Averaged({"in", "temp"}, {"temp"}), <<CleanGridOf("temp")>>, Copied)
    BY <2>2, CleanGridCallable, AveragedUpdate DEF CleanGridOf
  <2> HIDE DEF Copied
  <2>5. QED
    BY <2>3, <2>4, LeadsTwo
<1>4. Leads(op, Copied, DeleteRecentered(op.f), All)
  BY LeadsRestored
<1>5. Leads(op, All, last, Ended)
  <2>1. /\ "temp" \in {"temp", "out"} /\ "temp" # "in"
        /\ {"in", "out"} = {"in", "temp", "out"} \ {"temp"} /\ {"out"} = {"temp", "out"} \ {"temp"}
    OBVIOUS
  <2>2. QED
    BY <2>1, AnyDelete DEF Ended
<1>6. MarchingCubes(op) =
        (((((CheckForRequiredField(op.f) \o range) \o isos) \o ToPoints(op.f)) \o here) \o
          DeleteRecentered(op.f)) \o last
  BY DEF MarchingCubes
<1> HIDE DEF range, here, isos, last, Copied, All
<1>7. Leads(op, Begun, (CheckForRequiredField(op.f) \o range) \o isos, Begun)
  BY <1>1, <1>2, FieldKeeps, JoinedKeeps DEF Preserves, Begun
<1>8. Leads(op, Begun, (((CheckForRequiredField(op.f) \o range) \o isos) \o ToPoints(op.f)) \o
                       here, Copied)
  BY <1>3, <1>7, LeadsToPoints, LeadsJoined
<1>9. QED
  BY <1>4, <1>5, <1>6, <1>8, LeadsJoined

LEMMA KeepsBegun ==
  ASSUME NEW op, NEW p, Preserves(op, "in", p)
  PROVE  Leads(op, Begun, p, Begun)
BY DEF Preserves, Begun

LEMMA ContourCallable == Callable(SliceContour)
<1>1. /\ SliceContour.name = "MarchingCubes" /\ "name" \in DOMAIN SliceContour
      /\ "MarchingCubes" \in FilterNames \ {"CompositeVector", "Slice", "HistSampling"}
  BY DEF SliceContour, FilterNames
<1>2. QED
  BY <1>1, FiltersCallable

(* The contours become the output, or the only one does. *)
LEMMA SlicesTaken ==
  ASSUME NEW op, NEW n, NEW what, what = "merge" \/ (what = "take" /\ n = 1)
  PROVE  Leads(op, SomeOf({"in"}, {}, n), <<Do(what)>>, Ended)
<1> DEFINE step == Do(what)
<1>1. step.do = what
  BY DEF Do
<1> HIDE DEF step
<1>2. ASSUME NEW s \in Some({"in"}, {}, n, Knowledge)
      PROVE  \E x : /\ {"in", "out"} \subseteq x /\ x \subseteq {"in", "out"} \cup {"old"}
                    /\ Does(op, step, s, Holding(x, {"out"}, 0, s.cells))
  <2>1. {"in"} \subseteq s.has /\ s.has \subseteq {"in"} \cup {"old"} /\ s.own = {} /\ s.slices = n
    BY SomeIs
  <2>2. Holding(s.has \cup {"out"}, s.own \cup {"out"}, 0, s.cells) =
          Holding(s.has \cup {"out"}, {"out"}, 0, s.cells) /\ "out" \notin s.own
    BY <2>1
  <2>3. Does(op, step, s, Holding(s.has \cup {"out"}, {"out"}, 0, s.cells))
    <3>1. CASE what = "merge"
      BY <1>1, <2>2, <3>1, Zenon DEF Does
    <3>2. CASE what = "take" /\ n = 1
      BY <1>1, <2>1, <2>2, <3>2, Zenon DEF Does
    <3>3. QED
      BY <3>1, <3>2
  <2>4. /\ {"in", "out"} \subseteq s.has \cup {"out"}
        /\ s.has \cup {"out"} \subseteq {"in", "out"} \cup {"old"}
    BY <2>1
  <2>5. QED
    BY <2>3, <2>4
<1>3. QED
  BY <1>2, LeadsTo DEF step, Ended, SomeOf

LEMMA SliceMakes ==
  ASSUME NEW op, op.planes \in Seq(Int)
  PROVE  Leads(op, Begun, Slice(op), Ended)
<1> DEFINE n == Len(op.planes)
           cut(s) == <<Map(SliceField(op, s), "in", "temp"),
                       Update(SliceContour, "temp", "slices"), Delete("temp")>>
           cuts == [s \in 1 .. n |-> cut(s)]
           flat == FlattenSeq(cuts)
           first == <<Check("planes", "")>>
           what == IF Len(op.planes) > 1 THEN "merge" ELSE "take"
           last == <<Do(what)>>
           T == [i \in 0 .. n |-> SomeOf({"in"}, {}, i)]
<1>1. n \in Nat /\ DOMAIN op.planes = 1 .. n
  OBVIOUS
<1>2. Slice(op) = (first \o flat) \o last
  BY <1>1 DEF Slice
<1>3. ASSUME NEW i \in Nat, NEW s
      PROVE  Leads(op, SomeOf({"in"}, {}, i), cut(s), SomeOf({"in"}, {}, i + 1))
  <2> DEFINE work == SliceField(op, s)
             Aside == SomeOf({"in", "temp"}, {"temp"}, i)
             More == SomeOf({"in", "temp"}, {"temp"}, i + 1)
  <2>1. Leads(op, SomeOf({"in"}, {}, i), <<Map(work, "in", "temp")>>, Aside)
    <3>1. /\ "in" \in {"in"} /\ "temp" \in Registers \ {}
          /\ {"in", "temp"} = {"in"} \cup {"temp"} /\ {"temp"} = {} \cup {"temp"}
      BY DEF Registers
    <3> HIDE DEF work
    <3>2. QED
      BY <3>1, AnyMap
  <2>2. Leads(op, Aside, <<Update(SliceContour, "temp", "slices")>>, More)
    <3>1. "temp" \in {"in", "temp"}
      OBVIOUS
    <3>2. QED
      BY <3>1, ContourCallable, LeadsContour DEF SomeOf
  <2>3. Leads(op, More, <<Delete("temp")>>, SomeOf({"in"}, {}, i + 1))
    <3>1. /\ "temp" \in {"temp"} /\ "temp" # "in"
          /\ {"in"} = {"in", "temp"} \ {"temp"} /\ {} = {"temp"} \ {"temp"}
      OBVIOUS
    <3>2. QED
      BY <3>1, AnyDelete
  <2> HIDE DEF work, Aside, More
  <2>4. Leads(op, Aside, <<Update(SliceContour, "temp", "slices"), Delete("temp")>>,
              SomeOf({"in"}, {}, i + 1))
    BY <2>2, <2>3, LeadsTwo
  <2>5. Leads(op, SomeOf({"in"}, {}, i), <<Map(work, "in", "temp"),
              Update(SliceContour, "temp", "slices"), Delete("temp")>>, SomeOf({"in"}, {}, i + 1))
    BY <2>1, <2>4, LeadsThree
  <2>6. QED
    BY <2>5 DEF work
<1>4. T[0] = Begun /\ T[n] = SomeOf({"in"}, {}, n)
  BY <1>1 DEF Begun
<1> HIDE DEF cut
<1>5. IsList(cuts) /\ Len(cuts) = n
  <2>1. cuts = [s \in 1 .. n |-> cuts[s]]
    OBVIOUS
  <2> HIDE DEF cuts, n
  <2>2. QED
    BY <1>1, <2>1, ListOf
<1>6. \A i \in 1 .. Len(cuts) : Leads(op, T[i - 1], cuts[i], T[i])
  <2> SUFFICES ASSUME NEW i \in 1 .. n PROVE Leads(op, T[i - 1], cuts[i], T[i])
    BY <1>5
  <2>1. i - 1 \in Nat /\ (i - 1) + 1 = i /\ i - 1 \in 0 .. n /\ i \in 0 .. n
    BY <1>1
  <2>2. T[i - 1] = SomeOf({"in"}, {}, i - 1) /\ T[i] = SomeOf({"in"}, {}, i) /\ cuts[i] = cut(i)
    BY <2>1
  <2> HIDE DEF T, cuts, n
  <2> DEFINE j == i - 1
  <2>3. j \in Nat /\ j + 1 = i
    BY <2>1
  <2>4. T[i - 1] = SomeOf({"in"}, {}, j) /\ T[i] = SomeOf({"in"}, {}, i)
    BY <2>2
  <2> HIDE DEF j
  <2>5. Leads(op, SomeOf({"in"}, {}, j), cut(i), SomeOf({"in"}, {}, j + 1))
    BY <1>3, <2>3
  <2>6. QED
    BY <2>2, <2>3, <2>4, <2>5
<1> HIDE DEF T, cuts
<1>7. Leads(op, Begun, flat, SomeOf({"in"}, {}, n))
  <2>1. Leads(op, T[0], flat, T[Len(cuts)])
    BY <1>5, <1>6, LeadsFlat
  <2>2. QED
    BY <1>4, <1>5, <2>1
<1>8. CASE op.planes = <<>>
  <2>1. Blocked(op, Check("planes", ""))
    BY <1>8 DEF Blocked, Check
  <2>2. Leads(op, Begun, first, Ended)
    BY <2>1, LeadsNowhere
  <2>3. Leads(op, Begun, first, SomeOf({"in"}, {}, n)) /\ Leads(op, Begun, first, Begun)
    BY <2>1, LeadsNowhere
  <2>4. n = 0 /\ what = "take"
    BY <1>8
  <2>5. ASSUME NEW q, IsList(q) PROVE Leads(op, Begun, first \o q, Ended)
    <3>1. Leads(op, {}, q, Ended)
      BY <2>5 DEF Leads
    <3>2. Leads(op, Begun, first, {})
      BY <2>1, LeadsNowhere
    <3> HIDE DEF first
    <3>3. QED
      BY <3>1, <3>2, LeadsJoined
  <2>6. IsList(flat) /\ IsList(last) /\ IsList(first)
    BY <1>7, OneIsList DEF Leads
  <2>7. Leads(op, Begun, first \o flat, {})
    <3>1. Leads(op, {}, flat, {})
      BY <2>6 DEF Leads
    <3>2. Leads(op, Begun, first, {})
      BY <2>1, LeadsNowhere
    <3> HIDE DEF first, flat
    <3>3. QED
      BY <3>1, <3>2, LeadsJoined
  <2>8. Leads(op, {}, last, Ended)
    BY <2>6 DEF Leads
  <2> HIDE DEF first, flat, last
  <2>9. QED
    BY <1>2, <2>7, <2>8, LeadsJoined
<1>9. CASE op.planes # <<>>
  <2>1. n # 0
    BY <1>9
  <2>2. what = "merge" \/ (what = "take" /\ n = 1)
    <3>1. CASE n > 1
      BY <3>1
    <3>2. CASE ~(n > 1)
      <4>1. what = "take" /\ n \in Nat
        BY <1>1, <3>2
      <4> HIDE DEF n, what
      <4>2. n = 1
        BY <2>1, <3>2, <4>1
      <4>3. QED
        BY <4>1, <4>2
    <3>3. QED
      BY <3>1, <3>2
  <2> HIDE DEF what, n
  <2>3. Leads(op, SomeOf({"in"}, {}, n), last, Ended)
    BY <2>2, SlicesTaken
  <2>4. Leads(op, Begun, first, Begun)
    BY LeadsCheck
  <2> HIDE DEF first, flat, last
  <2>5. QED
    BY <1>2, <1>7, <2>3, <2>4, LeadsJoined
<1>10. QED
  BY <1>8, <1>9

(* Work of HistSampling on a data set it may change. *)
LEMMA LeadsOverwrite ==
  ASSUME NEW op, NEW h, NEW o, NEW n, NEW work, work.name = "valSampled", NEW of \in h,
         of \in o \/ Samples(op)
  PROVE  Leads(op, SomeOf(h, o, n), <<Overwrite(work, of)>>, SomeOf(h, o, n))
<1> DEFINE step == Overwrite(work, of)
<1>1. step.do = "overwrite" /\ step.of = of /\ step.work = work
  BY DEF Overwrite
<1> HIDE DEF step
<1>2. ASSUME NEW s \in Some(h, o, n, Knowledge)
      PROVE  Does(op, step, s, s)
  <2>1. h \subseteq s.has /\ s.own = o
    BY SomeIs
  <2>2. step.of \in s.has /\ step.work.name = "valSampled"
        /\ (step.of \in s.own \/ Samples(op))
    BY <1>1, <2>1
  <2>3. QED
    BY <1>1, <2>2, Zenon DEF Does
<1>3. QED
  BY <1>2, LeadsStep DEF step, SomeOf

LEMMA HistSamplingMakes ==
  ASSUME NEW op, "name" \in DOMAIN op, op.name = "HistSampling"
  PROVE  Makes(op, HistSampling(op))
<1> DEFINE strip == [name |-> "GhostStripper", f |-> op.ghost, map |-> {}, lo |-> 0, hi |-> 0]
           keep == [name |-> "Threshold", f |-> "valSampled", map |-> {}, lo |-> 1, hi |-> 1]
           mark == [op EXCEPT !.name = "valSampled"]
           first == IF op.ghost = "" THEN <<Assign("temp", "in")>>
                    ELSE <<Update(strip, "in", "temp")>>
           over == <<Overwrite(mark, "temp")>>
           sample == <<Update(keep, "temp", "out")>>
           here == <<Overwrite(mark, "temp"), Update(keep, "temp", "out")>>
           last == IF op.ghost = "" THEN <<>> ELSE <<Delete("temp")>>
           asks == Histogram("temp", op)
           assoc == GetFieldAssociation("temp", op.f)
           End == Ended \cup SomeOf({"in", "out", "temp"}, {"out"}, 0)
<1>1. Callable(strip) /\ Callable(keep)
  <2>1. /\ strip.name = "GhostStripper" /\ keep.name = "Threshold"
        /\ "name" \in DOMAIN strip /\ "name" \in DOMAIN keep
        /\ {"GhostStripper", "Threshold"} \subseteq
             FilterNames \ {"CompositeVector", "Slice", "HistSampling"}
    BY DEF FilterNames
  <2> HIDE DEF strip, keep
  <2>2. QED
    BY <2>1, FiltersCallable
<1>2. mark.name = "valSampled"
  OBVIOUS
<1>3. HistSampling(op) = ((((CheckForRequiredField(op.f) \o first) \o asks) \o assoc) \o here) \o last
  BY DEF HistSampling
<1> HIDE DEF strip, keep, mark
<1>4. Leads(op, Begun, CheckForRequiredField(op.f), Begun)
  BY FieldKeeps DEF Preserves, Begun
<1>5. Preserves(op, "temp", asks) /\ Preserves(op, "temp", assoc)
  BY HistogramKeeps, AssociationKeeps
<1>6. here = over \o sample
  BY Two
<1>7. CASE op.ghost = ""
  <2> DEFINE S == SomeOf({"in", "temp"}, {}, 0)
             E == SomeOf({"in", "out", "temp"}, {"out"}, 0)
  <2>1. Leads(op, Begun, first, S)
    <3>1. {"in"} \cup {"temp"} = {"in", "temp"} /\ "temp" \in Registers /\ "in" \in {"in"}
          /\ "in" # "old"
      BY DEF Registers
    <3>2. Leads(op, Some({"in"}, {}, 0, Knowledge), <<Assign("temp", "in")>>,
                Some({"in"} \cup {"temp"}, {}, 0, Knowledge))
      BY <3>1, LeadsAssign
    <3>3. QED
      BY <1>7, <3>1, <3>2 DEF Begun, SomeOf
  <2>2. Leads(op, S, asks, S) /\ Leads(op, S, assoc, S)
    BY <1>5 DEF Preserves
  <2>3. Leads(op, S, over, S)
    <3>1. Samples(op)
      BY <1>7 DEF Samples
    <3>2. "temp" \in {"in", "temp"}
      OBVIOUS
    <3>3. QED
      BY <1>2, <3>1, <3>2, LeadsOverwrite, Zenon
  <2>4. Leads(op, S, sample, E)
    <3>1. /\ "temp" \in {"in", "temp"} /\ "out" \in Registers \ {}
          /\ {"in", "out", "temp"} = {"in", "temp"} \cup {"out"} /\ {"out"} = {} \cup {"out"}
      BY DEF Registers
    <3>2. QED
      BY <1>1, <3>1, AnyUpdate
  <2>5. Leads(op, E, last, E)
    BY <1>7, LeadsNone
  <2> HIDE DEF first, asks, assoc, over, sample, here, last, S, E
  <2>6. Leads(op, S, here, E)
    BY <1>6, <2>3, <2>4, LeadsJoined
  <2>7. Leads(op, Begun, ((CheckForRequiredField(op.f) \o first) \o asks) \o assoc, S)
    BY <1>4, <2>1, <2>2, LeadsJoined
  <2>8. Leads(op, Begun, HistSampling(op), E)
    BY <1>3, <2>5, <2>6, <2>7, LeadsJoined
  <2>9. Begun \subseteq Begun /\ E \subseteq End
    BY DEF E
  <2> HIDE DEF End
  <2>10. Leads(op, Begun, HistSampling(op), End)
    BY <2>8, <2>9, LeadsMore
  <2>11. QED
    BY <2>10 DEF Makes, End
<1>8. CASE op.ghost # ""
  <2> DEFINE S == SomeOf({"in", "temp"}, {"temp"}, 0)
             E == SomeOf({"in", "temp", "out"}, {"temp", "out"}, 0)
  <2>1. Leads(op, Begun, first, S)
    <3>1. /\ "temp" \in Registers \ {} /\ "in" \in {"in"}
          /\ {"in", "temp"} = {"in"} \cup {"temp"} /\ {"temp"} = {} \cup {"temp"}
      BY DEF Registers
    <3>2. QED
      BY <1>1, <1>8, <3>1, AnyUpdate DEF Begun
  <2>2. Leads(op, S, asks, S) /\ Leads(op, S, assoc, S)
    BY <1>5 DEF Preserves
  <2>3. Leads(op, S, over, S)
    BY <1>2, LeadsOverwrite
  <2>4. Leads(op, S, sample, E)
    <3>1. /\ "temp" \in {"in", "temp"} /\ "out" \in Registers \ {"temp"}
          /\ {"in", "temp", "out"} = {"in", "temp"} \cup {"out"}
          /\ {"temp", "out"} = {"temp"} \cup {"out"}
      BY DEF Registers
    <3>2. QED
      BY <1>1, <3>1, AnyUpdate
  <2>5. Leads(op, E, last, Ended)
    <3>1. /\ "temp" \in {"temp", "out"} /\ "temp" # "in"
          /\ {"in", "out"} = {"in", "temp", "out"} \ {"temp"}
          /\ {"out"} = {"temp", "out"} \ {"temp"}
      OBVIOUS
    <3>2. QED
      BY <1>8, <3>1, AnyDelete DEF Ended
  <2> HIDE DEF first, asks, assoc, over, sample, here, last, S, E
  <2>6. Leads(op, S, here, E)
    BY <1>6, <2>3, <2>4, LeadsJoined
  <2>7. Leads(op, Begun, ((CheckForRequiredField(op.f) \o first) \o asks) \o assoc, S)
    BY <1>4, <2>1, <2>2, LeadsJoined
  <2>8. Leads(op, Begun, HistSampling(op), Ended)
    BY <1>3, <2>5, <2>6, <2>7, LeadsJoined
  <2>9. QED
    BY <2>8, LeadsMakes
<1>9. QED
  BY <1>7, <1>8

LEMMA MetadataLeads ==
  ASSUME NEW op, NEW h, NEW n, {"in", "out"} \subseteq h
  PROVE  Leads(op, SomeOf(h, {"out"}, n), <<Do("metadata")>>, SomeOf(h, {"out"}, n))
<1> DEFINE step == Do("metadata")
<1>1. step.do = "metadata"
  BY DEF Do
<1> HIDE DEF step
<1>2. ASSUME NEW s \in Some(h, {"out"}, n, Knowledge)
      PROVE  Does(op, step, s, s)
  <2>1. h \subseteq s.has /\ s.own = {"out"}
    BY SomeIs
  <2>2. "in" \in s.has /\ "out" \in s.own
    BY <2>1
  <2>3. QED
    BY <1>1, <2>2, Zenon DEF Does
<1>3. QED
  BY <1>2, LeadsStep DEF step, SomeOf

(* The image, which rank 0 has and the others have none of. *)
LEMMA ScalarRendererMakes == \A op : Leads(op, Begun, ScalarRenderer(op), Ended)
<1> SUFFICES ASSUME NEW op PROVE Leads(op, Begun, ScalarRenderer(op), Ended)
  OBVIOUS
<1> DEFINE then == <<Ask("bounds", "in", ""), Ask("max_p", "in", ""), Ask("min_p", "in", ""),
                     Check("payload", ""), Ask("image", "in", "")>>
           ask == Ask("vote", "in", "")
           ifs == If("won", "", then, <<>>)
<1>1. Preserves(op, "in", then)
  BY AskKeeps, CheckKeeps, FiveKeeps
<1>2. ScalarRenderer(op) = <<ask, ifs, Do("picture"), Do("metadata")>>
  BY DEF ScalarRenderer
<1> HIDE DEF then
<1>3. Preserves(op, "in", <<ifs>>)
  BY <1>1, IfKeeps, NoneKeeps
<1>4. Preserves(op, "in", <<ask>>)
  BY AskKeeps
<1> HIDE DEF ask, ifs
<1>5. Leads(op, Begun, <<ifs>>, Begun) /\ Leads(op, Begun, <<ask>>, Begun)
  BY <1>3, <1>4, KeepsBegun
<1>6. Leads(op, Begun, <<Do("picture")>>, Ended)
  <2> DEFINE step == Do("picture")
  <2>1. step.do = "picture"
    BY DEF Do
  <2> HIDE DEF step
  <2>2. ASSUME NEW s \in Some({"in"}, {}, 0, Knowledge)
        PROVE  \E x : /\ {"in", "out"} \subseteq x /\ x \subseteq {"in", "out"} \cup {"old"}
                      /\ Does(op, step, s, Holding(x, {"out"}, 0, s.cells))
    <3>1. {"in"} \subseteq s.has /\ s.has \subseteq {"in"} \cup {"old"} /\ s.own = {} /\ s.slices = 0
      BY SomeIs
    <3>2. Made(s, "out") = Holding(s.has \cup {"out"}, {"out"}, 0, s.cells) /\ "out" \notin s.own
      BY <3>1 DEF Made
    <3>3. Does(op, step, s, Holding(s.has \cup {"out"}, {"out"}, 0, s.cells))
      BY <2>1, <3>2, Zenon DEF Does
    <3>4. /\ {"in", "out"} \subseteq s.has \cup {"out"}
          /\ s.has \cup {"out"} \subseteq {"in", "out"} \cup {"old"}
      BY <3>1
    <3>5. QED
      BY <3>3, <3>4
  <2>3. QED
    BY <2>2, LeadsTo DEF step, Begun, Ended, SomeOf
<1>7. Leads(op, Ended, <<Do("metadata")>>, Ended)
  BY MetadataLeads DEF Ended
<1>8. Leads(op, Begun, <<Do("picture"), Do("metadata")>>, Ended)
  BY <1>6, <1>7, LeadsTwo
<1>9. Leads(op, Begun, <<ifs, Do("picture"), Do("metadata")>>, Ended)
  BY <1>5, <1>8, LeadsThree
<1>10. QED
  BY <1>2, <1>5, <1>9, LeadsFour

-----------------------------------------------------------------------------
(* All operations of vtk-h. *)

LEMMA FilterMakes ==
  ASSUME NEW op, WellFormedOp(op), op.name \notin Functions \cup {"ScalarRenderer"}
  PROVE  Makes(op, Program(op))
<1>1. CASE op.name \in {"CleanGrid", "NoOp", "PointTransform", "Triangulate", "Tetrahedralize",
                        "Recenter", "Lagrangian", "VectorMagnitude", "CellAverage",
                        "PointAverage", "GhostStripper", "VectorComponent", "Log",
                        "ParticleMerging"}
  BY <1>1, PlainProgramsMake, LeadsMakes
<1>2. CASE op.name = "CompositeVector"
  <2>1. op.fields \in Seq(STRING)
    BY <1>2 DEF WellFormedOp
  <2>2. Program(op) = CompositeVector(op)
    BY <1>2 DEF Program
  <2>3. QED
    BY <2>1, <2>2, CompositeVectorMakes, LeadsMakes
<1>3. CASE op.name = "Slice"
  <2>1. op.planes \in Seq(Int)
    BY <1>3 DEF WellFormedOp
  <2>2. Program(op) = Slice(op)
    BY <1>3 DEF Program
  <2>3. QED
    BY <2>1, <2>2, SliceMakes, LeadsMakes
<1>4. CASE op.name = "HistSampling"
  <2>1. "name" \in DOMAIN op
    BY DEF WellFormedOp
  <2>2. Program(op) = HistSampling(op)
    BY <1>4 DEF Program
  <2>3. QED
    BY <1>4, <2>1, <2>2, HistSamplingMakes
<1>5. CASE op.name \in {"Threshold", "ClipField", "Gradient", "IsoVolume", "Clip",
                        "MarchingCubes"}
  <2>1. Program(op) \in {Threshold(op), ClipField(op), Gradient(op), IsoVolume(op), Clip(op),
                         MarchingCubes(op)}
    BY <1>5 DEF Program
  <2>2. Leads(op, Begun, Program(op), Ended)
    BY <2>1, ThresholdMakes, OnPointsMakes, IsoVolumeMakes, ClipMakes, MarchingCubesMakes
  <2>3. QED
    BY <2>2, LeadsMakes
<1>6. QED
  BY <1>1, <1>2, <1>3, <1>4, <1>5 DEF WellFormedOp, FilterNames

(* Every operation of vtk-h does what it may do only, and leaves nothing     *)
(* behind, whatever the answers to its questions are.                       *)
LEMMA ProgramsRun ==
  ASSUME NEW op, WellFormedOp(op), NEW logging
  PROVE  Safe(op, Steps(op, logging), Start)
<1>1. Start \in Begun
  <2>1. "nothing" \in Knowledge /\ {"in"} \subseteq {"in"} /\ {"in"} \subseteq {"in"} \cup {"old"}
    BY DEF Knowledge
  <2>2. QED
    BY <2>1, IsSome DEF Begun, SomeOf, Start
<1>2. CASE op.name \in Functions
  <2>1. Leads(op, Begun, Program(op), Begun)
    BY <1>2, FunctionsKeep DEF Preserves, Begun
  <2>2. ASSUME NEW s \in Begun PROVE Over(op, s)
    <3>1. s.has \subseteq {"in"} \cup {"old"} /\ s.own = {} /\ s.slices = 0
      BY SomeIs DEF Begun, SomeOf
    <3>2. "out" \notin s.has
      BY <3>1
    <3>3. QED
      BY <1>2, <3>1, <3>2, Zenon DEF Over
  <2>3. \A s \in Begun : Safe(op, Program(op), s)
    BY <2>1, <2>2, LeadsToEnd
  <2>4. Steps(op, logging) = Program(op)
    BY <1>2 DEF Steps
  <2>5. QED
    BY <1>1, <2>3, <2>4
<1> DEFINE More == SomeOf({"in", "out", "temp"}, {"out"}, 0)
           End == Ended \cup More
<1>3. ASSUME op.name \notin Functions, NEW s \in End
      PROVE  Over(op, s)
  <2>1. s \in Ended \/ s \in More
    OBVIOUS
  <2>2. s.own = {"out"} /\ s.slices = 0
    BY <2>1, SomeIs DEF Ended, SomeOf
  <2>3. QED
    BY <1>3, <2>2, Zenon DEF Over
<1>4. CASE op.name = "ScalarRenderer"
  <2>1. op.name \notin Functions
    BY <1>4 DEF Functions, CountingOps
  <2>2. Program(op) = ScalarRenderer(op) /\ Steps(op, logging) = Program(op)
    BY <1>4 DEF Program, Steps
  <2>3. Leads(op, Begun, ScalarRenderer(op), Ended)
    BY ScalarRendererMakes
  <2>4. \A s \in Ended : Over(op, s)
    BY <1>3, <2>1
  <2>5. \A s \in Begun : Safe(op, ScalarRenderer(op), s)
    BY <2>3, <2>4, LeadsToEnd
  <2>6. QED
    BY <1>1, <2>2, <2>5
<1>5. CASE op.name \notin Functions \cup {"ScalarRenderer"}
  <2> DEFINE Logged(of) == IF logging THEN <<Ask("structured", of, "")>> ELSE <<>>
  <2>1. \A of : Preserves(op, of, Logged(of))
    BY AskKeeps, NoneKeeps
  <2>2. Steps(op, logging) =
          (((Logged("in") \o <<Do("mapFields")>>) \o Program(op)) \o <<Do("metadata")>>) \o
          Logged("out")
    BY <1>5 DEF Steps, FilterUpdate
  <2> HIDE DEF Logged
  <2>3. Leads(op, Begun, Logged("in"), Begun)
    BY <2>1, KeepsBegun
  <2>4. Leads(op, Begun, <<Do("mapFields")>>, Begun)
    BY LeadsDo DEF Quiet
  <2>5. Leads(op, Begun, Program(op), End)
    BY <1>5, FilterMakes DEF Makes
  <2>6. Leads(op, End, <<Do("metadata")>>, End)
    <3>1. Leads(op, Ended, <<Do("metadata")>>, Ended) /\ Leads(op, More, <<Do("metadata")>>, More)
      BY MetadataLeads DEF Ended
    <3> HIDE DEF More
    <3>2. QED
      BY <3>1, LeadsBoth
  <2>7. Leads(op, End, Logged("out"), End)
    <3>1. Preserves(op, "out", Logged("out"))
      BY <2>1
    <3>2. Leads(op, Ended, Logged("out"), Ended) /\ Leads(op, More, Logged("out"), More)
      BY <3>1 DEF Preserves, Ended
    <3> HIDE DEF More
    <3>3. QED
      BY <3>2, LeadsBoth
  <2>8. \A s \in End : Over(op, s)
    BY <1>3, <1>5
  <2> HIDE DEF End
  <2>9. Leads(op, Begun, (((Logged("in") \o <<Do("mapFields")>>) \o Program(op)) \o
                          <<Do("metadata")>>) \o Logged("out"), End)
    BY <2>3, <2>4, <2>5, <2>6, <2>7, LeadsJoined
  <2>10. \A s \in Begun : Safe(op, Steps(op, logging), s)
    BY <2>2, <2>8, <2>9, LeadsToEnd
  <2>11. QED
    BY <1>1, <2>10
<1>6. QED
  BY <1>2, <1>4, <1>5

-----------------------------------------------------------------------------
(* What a rank owns. *)

OwnedOf(reg, slices, s) == {reg[x] : x \in s.own} \cup {slices[i] : i \in 1 .. Len(slices)}

(* The registers and contours of a frame are what its filter has: what it    *)
(* does not own is in B, what the filters that wait for it have, and what it  *)
(* owns is not, and is pointed to but once.                                  *)
Accounts(reg, slices, s, B) ==
  /\ reg = [x \in Registers |-> reg[x]]
  /\ IsList(slices) /\ Len(slices) = s.slices
  /\ s = Holding(s.has, s.own, s.slices, s.cells)
  /\ "in" \in s.has /\ s.own \subseteq s.has /\ s.has \subseteq Registers
  /\ "out" \notin s.has => reg["out"] = 0
  /\ \A x \in s.has \ s.own : reg[x] \in B
  /\ OwnedOf(reg, slices, s) \cap B = {}
  /\ \A x, y \in s.own : reg[x] = reg[y] => x = y
  /\ \A x \in s.own : \A i \in 1 .. Len(slices) : slices[i] # reg[x]

(* What is held after a contour, a delete, an assignment and a restore. *)
Contoured(s) == Holding(s.has, s.own, s.slices + 1, s.cells)
Dropping(s, x) == Holding(s.has \ {x}, s.own \ {x}, s.slices, s.cells)
Borrowing(s, x) == Holding(s.has \cup {x}, s.own, s.slices, s.cells)
Returning(s) == Holding(s.has \ {"old"}, s.own \ {"in"}, s.slices, s.cells)

(* What the contours were is the output now. *)
PutOut(s, t) ==
  /\ t.has = s.has \cup {"out"} /\ t.own = s.own \cup {"out"} /\ t.slices = 0
  /\ t = Holding(t.has, t.own, t.slices, t.cells) /\ t.cells = s.cells

(* The same registers with other knowledge. *)
LEMMA AccountsLearn ==
  ASSUME NEW reg, NEW slices, NEW s, NEW B, Accounts(reg, slices, s, B), NEW k
  PROVE  /\ Accounts(reg, slices, Holding(s.has, s.own, s.slices, k), B)
         /\ OwnedOf(reg, slices, Holding(s.has, s.own, s.slices, k)) = OwnedOf(reg, slices, s)
<1> DEFINE t == Holding(s.has, s.own, s.slices, k)
<1>1. t.has = s.has /\ t.own = s.own /\ t.slices = s.slices /\ t.cells = k
  BY HoldingIs
<1>2. t = Holding(t.has, t.own, t.slices, t.cells)
  BY <1>1
<1> HIDE DEF t
<1>3. OwnedOf(reg, slices, t) = OwnedOf(reg, slices, s)
  BY <1>1 DEF OwnedOf
<1>4. Accounts(reg, slices, t, B)
  BY <1>1, <1>2, <1>3 DEF Accounts
<1>5. QED
  BY <1>3, <1>4 DEF t

(* new is reg but for register x, which is v. *)
Replaced(new, reg, x, v) ==
  /\ new = [y \in Registers |-> new[y]] /\ new[x] = v
  /\ \A y \in Registers : y # x => new[y] = reg[y]

(* A register that gets a data set of its own. *)
LEMMA AccountsMake ==
  ASSUME NEW reg, NEW slices, NEW s, NEW B, Accounts(reg, slices, s, B),
         NEW x \in Registers \ s.own, NEW v, v \notin B, v \notin OwnedOf(reg, slices, s),
         NEW new, Replaced(new, reg, x, v)
  PROVE  /\ Accounts(new, slices, Made(s, x), B)
         /\ OwnedOf(new, slices, Made(s, x)) = OwnedOf(reg, slices, s) \cup {v}
<1> DEFINE t == Made(s, x)
<1>1. /\ t.has = s.has \cup {x} /\ t.own = s.own \cup {x} /\ t.slices = s.slices
      /\ t = Holding(t.has, t.own, t.slices, t.cells)
  BY HoldingIs DEF Made
<1>2. /\ new = [y \in Registers |-> new[y]] /\ new[x] = v
      /\ \A y \in Registers : y # x => new[y] = reg[y]
  BY DEF Replaced
<1> HIDE DEF t
<1>3. s.own \subseteq Registers /\ \A y \in s.own : new[y] = reg[y]
  BY <1>2 DEF Accounts
<1>4. OwnedOf(new, slices, t) = OwnedOf(reg, slices, s) \cup {v}
  BY <1>1, <1>2, <1>3 DEF OwnedOf
<1>5. /\ "in" \in t.has /\ t.own \subseteq t.has /\ t.has \subseteq Registers
      /\ IsList(slices) /\ Len(slices) = t.slices
  BY <1>1 DEF Accounts
<1>6. "out" \notin t.has => new["out"] = 0
  BY <1>1, <1>2 DEF Accounts, Registers
<1>7. \A y \in t.has \ t.own : new[y] \in B
  BY <1>1, <1>2 DEF Accounts
<1>8. OwnedOf(new, slices, t) \cap B = {}
  BY <1>4 DEF Accounts
<1>9. \A y \in s.own : reg[y] # v
  BY DEF OwnedOf
<1>10. \A y, z \in t.own : new[y] = new[z] => y = z
  <2>1. \A y \in t.own : y = x \/ (y \in s.own /\ new[y] = reg[y] /\ new[y] # v)
    BY <1>1, <1>3, <1>9
  <2>2. \A y, z \in s.own : reg[y] = reg[z] => y = z
    BY DEF Accounts
  <2>3. QED
    BY <1>2, <2>1, <2>2
<1>11. \A y \in t.own : \A i \in 1 .. Len(slices) : slices[i] # new[y]
  BY <1>1, <1>2, <1>3 DEF Accounts, OwnedOf
<1>12. Accounts(new, slices, t, B)
  BY <1>1, <1>2, <1>5, <1>6, <1>7, <1>8, <1>10, <1>11 DEF Accounts
<1>13. QED
  BY <1>4, <1>12 DEF t

(* A contour put aside. *)
LEMMA AccountsContour ==
  ASSUME NEW reg, NEW slices, NEW s, NEW B, Accounts(reg, slices, s, B),
         NEW v, v \notin B, v \notin OwnedOf(reg, slices, s)
  PROVE  /\ Accounts(reg, Append(slices, v), Contoured(s), B)
         /\ OwnedOf(reg, Append(slices, v), Contoured(s)) = OwnedOf(reg, slices, s) \cup {v}
<1> DEFINE t == Contoured(s)
           more == Append(slices, v)
<1>1. /\ t.has = s.has /\ t.own = s.own /\ t.slices = s.slices + 1
      /\ t = Holding(t.has, t.own, t.slices, t.cells)
  BY HoldingIs DEF Contoured
<1>2. /\ IsList(more) /\ Len(more) = Len(slices) + 1 /\ Len(slices) \in Nat
      /\ \A i \in 1 .. Len(slices) : more[i] = slices[i]
      /\ more[Len(slices) + 1] = v
  BY Appended, ListIs DEF Accounts
<1> HIDE DEF t, more
<1>3. \A i \in 1 .. Len(more) : i \in 1 .. Len(slices) \/ i = Len(slices) + 1
  BY <1>2
<1>4. OwnedOf(reg, more, t) = OwnedOf(reg, slices, s) \cup {v}
  <2>1. {more[i] : i \in 1 .. Len(more)} = {slices[i] : i \in 1 .. Len(slices)} \cup {v}
    <3>1. Len(slices) + 1 \in 1 .. Len(more) /\ 1 .. Len(slices) \subseteq 1 .. Len(more)
      BY <1>2
    <3>2. QED
      BY <1>2, <1>3, <3>1
  <2>2. QED
    BY <1>1, <2>1 DEF OwnedOf
<1>5. /\ "in" \in t.has /\ t.own \subseteq t.has /\ t.has \subseteq Registers
      /\ IsList(more) /\ Len(more) = t.slices
      /\ ("out" \notin t.has => reg["out"] = 0)
      /\ (\A x \in t.has \ t.own : reg[x] \in B)
      /\ (\A x, y \in t.own : reg[x] = reg[y] => x = y)
      /\ reg = [x \in Registers |-> reg[x]]
  BY <1>1, <1>2 DEF Accounts
<1>6. OwnedOf(reg, more, t) \cap B = {}
  BY <1>4 DEF Accounts
<1>7. \A x \in t.own : \A i \in 1 .. Len(more) : more[i] # reg[x]
  <2>1. \A x \in s.own : reg[x] # v
    BY DEF OwnedOf
  <2>2. \A x \in s.own : \A i \in 1 .. Len(slices) : slices[i] # reg[x]
    BY DEF Accounts
  <2>3. QED
    BY <1>1, <1>2, <1>3, <2>1, <2>2
<1>8. Accounts(reg, more, t, B)
  BY <1>1, <1>5, <1>6, <1>7 DEF Accounts
<1>9. QED
  BY <1>4, <1>8 DEF t, more

(* A data set deleted. *)
LEMMA AccountsDelete ==
  ASSUME NEW reg, NEW slices, NEW s, NEW B, Accounts(reg, slices, s, B),
         NEW x \in s.own, x # "in", NEW new, Replaced(new, reg, x, 0)
  PROVE  /\ Accounts(new, slices, Dropping(s, x), B)
         /\ OwnedOf(new, slices, Dropping(s, x)) = OwnedOf(reg, slices, s) \ {reg[x]}
<1> DEFINE t == Dropping(s, x)
<1>1. /\ t.has = s.has \ {x} /\ t.own = s.own \ {x} /\ t.slices = s.slices
      /\ t = Holding(t.has, t.own, t.slices, t.cells)
  BY HoldingIs DEF Dropping
<1>2. /\ new = [y \in Registers |-> new[y]] /\ new[x] = 0
      /\ \A y \in Registers : y # x => new[y] = reg[y]
  BY DEF Replaced
<1> HIDE DEF t
<1>3. s.own \subseteq s.has /\ s.has \subseteq Registers
  BY DEF Accounts
<1>4. OwnedOf(new, slices, t) = OwnedOf(reg, slices, s) \ {reg[x]}
  <2>1. {new[y] : y \in t.own} = {reg[y] : y \in s.own} \ {reg[x]}
    <3>1. \A y \in t.own : new[y] = reg[y] /\ reg[y] # reg[x] /\ y \in s.own
      BY <1>1, <1>2, <1>3 DEF Accounts
    <3>2. \A y \in s.own : reg[y] # reg[x] => y \in t.own
      BY <1>1
    <3>3. QED
      BY <3>1, <3>2
  <2>2. \A i \in 1 .. Len(slices) : slices[i] # reg[x]
    BY DEF Accounts
  <2>3. QED
    BY <2>1, <2>2 DEF OwnedOf
<1>5. /\ "in" \in t.has /\ t.own \subseteq t.has /\ t.has \subseteq Registers
      /\ IsList(slices) /\ Len(slices) = t.slices
  BY <1>1 DEF Accounts
<1>6. "out" \notin t.has => new["out"] = 0
  <2>1. CASE x = "out"
    BY <1>2, <2>1
  <2>2. CASE x # "out"
    <3>1. "out" \in Registers
      BY DEF Registers
    <3>2. QED
      BY <1>1, <1>2, <2>2, <3>1 DEF Accounts
  <2>3. QED
    BY <2>1, <2>2
<1>7. \A y \in t.has \ t.own : new[y] \in B
  BY <1>1, <1>2, <1>3 DEF Accounts
<1>8. OwnedOf(new, slices, t) \cap B = {}
  BY <1>4 DEF Accounts
<1>9. \A y \in t.own : y \in s.own /\ new[y] = reg[y]
  BY <1>1, <1>2, <1>3
<1>10. \A y, z \in t.own : new[y] = new[z] => y = z
  BY <1>9 DEF Accounts
<1>11. \A y \in t.own : \A i \in 1 .. Len(slices) : slices[i] # new[y]
  BY <1>9 DEF Accounts
<1>12. Accounts(new, slices, t, B)
  BY <1>1, <1>2, <1>5, <1>6, <1>7, <1>8, <1>10, <1>11 DEF Accounts
<1>13. QED
  BY <1>4, <1>12 DEF t

(* A pointer assigned to another. *)
LEMMA AccountsAssign ==
  ASSUME NEW reg, NEW slices, NEW s, NEW B, Accounts(reg, slices, s, B),
         NEW from \in s.has \ s.own, NEW to \in Registers \ s.own,
         NEW new, Replaced(new, reg, to, reg[from])
  PROVE  /\ Accounts(new, slices, Borrowing(s, to), B)
         /\ OwnedOf(new, slices, Borrowing(s, to)) = OwnedOf(reg, slices, s)
<1> DEFINE t == Borrowing(s, to)
           v == reg[from]
<1>1. /\ t.has = s.has \cup {to} /\ t.own = s.own /\ t.slices = s.slices
      /\ t = Holding(t.has, t.own, t.slices, t.cells)
  BY HoldingIs DEF Borrowing
<1>2. /\ new = [y \in Registers |-> new[y]] /\ new[to] = v
      /\ \A y \in Registers : y # to => new[y] = reg[y]
  BY DEF Replaced
<1>3. v \in B
  BY DEF Accounts
<1> HIDE DEF t, v
<1>4. s.own \subseteq s.has /\ s.has \subseteq Registers
  BY DEF Accounts
<1>5. \A y \in s.own : new[y] = reg[y]
  BY <1>2, <1>4
<1>6. OwnedOf(new, slices, t) = OwnedOf(reg, slices, s)
  BY <1>1, <1>5 DEF OwnedOf
<1>7. /\ "in" \in t.has /\ t.own \subseteq t.has /\ t.has \subseteq Registers
      /\ IsList(slices) /\ Len(slices) = t.slices
  BY <1>1 DEF Accounts
<1>8. "out" \notin t.has => new["out"] = 0
  BY <1>1, <1>2 DEF Accounts, Registers
<1>9. \A y \in t.has \ t.own : new[y] \in B
  <2>1. \A y \in t.has \ t.own : y = to \/ (y # to /\ y \in s.has \ s.own /\ y \in Registers)
    BY <1>1, <1>4
  <2>2. QED
    BY <1>2, <1>3, <2>1 DEF Accounts
<1>10. /\ OwnedOf(new, slices, t) \cap B = {}
       /\ \A y, z \in t.own : new[y] = new[z] => y = z
       /\ \A y \in t.own : \A i \in 1 .. Len(slices) : slices[i] # new[y]
  BY <1>1, <1>5, <1>6 DEF Accounts
<1>11. Accounts(new, slices, t, B)
  BY <1>1, <1>2, <1>7, <1>8, <1>9, <1>10 DEF Accounts
<1>12. QED
  BY <1>6, <1>11 DEF t, v

(* The averaged copy deleted, and the input back in its place. *)
LEMMA AccountsRestore ==
  ASSUME NEW reg, NEW slices, NEW s, NEW B, Accounts(reg, slices, s, B),
         "in" \in s.own, "old" \in s.has \ s.own,
         NEW new, new = [y \in Registers |-> new[y]], new["in"] = reg["old"], new["old"] = 0,
         \A y \in Registers : y \notin {"in", "old"} => new[y] = reg[y]
  PROVE  /\ Accounts(new, slices, Returning(s), B)
         /\ OwnedOf(new, slices, Returning(s)) = OwnedOf(reg, slices, s) \ {reg["in"]}
<1> DEFINE t == Returning(s)
<1>1. /\ t.has = s.has \ {"old"} /\ t.own = s.own \ {"in"} /\ t.slices = s.slices
      /\ t = Holding(t.has, t.own, t.slices, t.cells)
  BY HoldingIs DEF Returning
<1> HIDE DEF t
<1>2. s.own \subseteq s.has /\ s.has \subseteq Registers
  BY DEF Accounts
<1>3. \A y \in t.own : y \in s.own /\ y # "in" /\ new[y] = reg[y]
  BY <1>1, <1>2
<1>4. OwnedOf(new, slices, t) = OwnedOf(reg, slices, s) \ {reg["in"]}
  <2>1. {new[y] : y \in t.own} = {reg[y] : y \in s.own} \ {reg["in"]}
    <3>1. \A y \in t.own : new[y] = reg[y] /\ reg[y] # reg["in"] /\ y \in s.own
      BY <1>3 DEF Accounts
    <3>2. \A y \in s.own : reg[y] # reg["in"] => y \in t.own
      BY <1>1
    <3>3. QED
      BY <3>1, <3>2
  <2>2. \A i \in 1 .. Len(slices) : slices[i] # reg["in"]
    BY DEF Accounts
  <2>3. QED
    BY <2>1, <2>2 DEF OwnedOf
<1>5. /\ "in" \in t.has /\ t.own \subseteq t.has /\ t.has \subseteq Registers
      /\ IsList(slices) /\ Len(slices) = t.slices
  BY <1>1, <1>2 DEF Accounts
<1>6. "out" \notin t.has => new["out"] = 0
  BY <1>1 DEF Accounts, Registers
<1>7. \A y \in t.has \ t.own : new[y] \in B
  <2>1. \A y \in t.has \ t.own : y = "in" \/ (y \notin {"in", "old"} /\ y \in s.has \ s.own /\ y \in Registers)
    BY <1>1, <1>2
  <2>2. QED
    BY <2>1 DEF Accounts
<1>8. OwnedOf(new, slices, t) \cap B = {}
  BY <1>4 DEF Accounts
<1>9. /\ \A y, z \in t.own : new[y] = new[z] => y = z
      /\ \A y \in t.own : \A i \in 1 .. Len(slices) : slices[i] # new[y]
  BY <1>3 DEF Accounts
<1>10. Accounts(new, slices, t, B)
  BY <1>1, <1>5, <1>6, <1>7, <1>8, <1>9 DEF Accounts
<1>11. QED
  BY <1>4, <1>10 DEF t

(* The output takes the place of the contours, merged or the only one. *)
LEMMA AccountsMerge ==
  ASSUME NEW reg, NEW slices, NEW s, NEW B, Accounts(reg, slices, s, B), "out" \notin s.own,
         NEW v, v \notin B, \A x \in s.own : reg[x] # v,
         NEW new, Replaced(new, reg, "out", v), NEW t, PutOut(s, t)
  PROVE  /\ Accounts(new, <<>>, t, B)
         /\ OwnedOf(new, <<>>, t) = {reg[x] : x \in s.own} \cup {v}
<1> USE DEF Replaced, PutOut
<1> DEFINE none == <<>>
<1>3. IsList(none) /\ Len(none) = 0
  BY NoList
<1> HIDE DEF none
<1>4. s.own \subseteq s.has /\ s.has \subseteq Registers
  BY DEF Accounts
<1>5. \A y \in s.own : new[y] = reg[y]
  BY <1>4
<1>6. OwnedOf(new, none, t) = {reg[x] : x \in s.own} \cup {v}
  <2>1. 1 .. Len(none) = {}
    BY <1>3
  <2>2. {new[x] : x \in t.own} = {reg[x] : x \in s.own} \cup {v}
    BY <1>5
  <2>3. QED
    BY <2>1, <2>2 DEF OwnedOf
<1>7. /\ "in" \in t.has /\ t.own \subseteq t.has /\ t.has \subseteq Registers
      /\ Len(none) = t.slices /\ "out" \in t.has
  BY <1>3 DEF Accounts, Registers
<1>8. \A y \in t.has \ t.own : new[y] \in B
  <2>1. \A y \in t.has \ t.own : y # "out" /\ y \in s.has \ s.own /\ y \in Registers
    BY <1>4
  <2>2. QED
    BY <2>1 DEF Accounts
<1>9. OwnedOf(new, none, t) \cap B = {}
  <2>1. \A x \in s.own : reg[x] \notin B
    BY DEF Accounts, OwnedOf
  <2>2. QED
    BY <1>6, <2>1
<1>10. \A y, z \in t.own : new[y] = new[z] => y = z
  <2>1. \A y \in t.own : y = "out" \/ (y \in s.own /\ new[y] = reg[y] /\ new[y] # v)
    BY <1>5
  <2>2. \A y, z \in s.own : reg[y] = reg[z] => y = z
    BY DEF Accounts
  <2>3. QED
    BY <2>1, <2>2
<1>11. \A y \in t.own : \A i \in 1 .. Len(none) : none[i] # new[y]
  BY <1>3
<1>12. Accounts(new, none, t, B)
  BY <1>3, <1>7, <1>8, <1>9, <1>10, <1>11 DEF Accounts
<1>13. QED
  BY <1>6, <1>12 DEF none

(* The one contour becomes the output. *)
LEMMA AccountsTake ==
  ASSUME NEW reg, NEW slices, NEW s, NEW B, Accounts(reg, slices, s, B), "out" \notin s.own,
         s.slices = 1,
         NEW new, Replaced(new, reg, "out", slices[1]), NEW t, PutOut(s, t)
  PROVE  Accounts(new, <<>>, t, B) /\ OwnedOf(new, <<>>, t) = OwnedOf(reg, slices, s)
<1> DEFINE v == slices[1]
<1>1. Len(slices) = 1 /\ 1 .. Len(slices) = {1}
  BY DEF Accounts
<1>2. OwnedOf(reg, slices, s) = {reg[x] : x \in s.own} \cup {v}
  BY <1>1 DEF OwnedOf
<1>3. v \notin B /\ \A x \in s.own : reg[x] # v
  BY <1>1, <1>2 DEF Accounts
<1>4. Replaced(new, reg, "out", v)
  OBVIOUS
<1> HIDE DEF v
<1>5. Accounts(new, <<>>, t, B) /\ OwnedOf(new, <<>>, t) = {reg[x] : x \in s.own} \cup {v}
  BY <1>3, <1>4, AccountsMerge
<1>6. QED
  BY <1>2, <1>5

-----------------------------------------------------------------------------
(* Heaps. *)

IsDataSet(d) == d = [doms |-> d.doms, cycle |-> d.cycle] /\ d.cycle \in Nat

LiveIn(H) == {a \in DOMAIN H : H[a] # Freed}

IsHeap(H) == IsList(H) /\ \A a \in LiveIn(H) : IsDataSet(H[a])

LEMMA DataSetThere ==
  ASSUME NEW d, IsDataSet(d)
  PROVE  d # Freed
<1>1. Freed.cycle = -1
  BY DEF Freed
<1>2. QED
  BY <1>1 DEF IsDataSet

LEMMA DataSetOf ==
  ASSUME NEW doms, NEW cycle \in Nat
  PROVE  IsDataSet([doms |-> doms, cycle |-> cycle])
BY DEF IsDataSet

LEMMA DataSetWith ==
  ASSUME NEW d, IsDataSet(d), NEW doms, NEW cycle \in Nat
  PROVE  /\ IsDataSet([d EXCEPT !.doms = doms]) /\ [d EXCEPT !.doms = doms].doms = doms
         /\ [d EXCEPT !.doms = doms].cycle = d.cycle
         /\ IsDataSet([d EXCEPT !.cycle = cycle])
<1> DEFINE old == d.doms
           was == d.cycle
<1>1. d = [doms |-> old, cycle |-> was] /\ was \in Nat
  BY DEF IsDataSet
<1> HIDE DEF old, was
<1>2. [d EXCEPT !.doms = doms] = [doms |-> doms, cycle |-> was]
  BY <1>1
<1>3. [d EXCEPT !.cycle = cycle] = [doms |-> old, cycle |-> cycle]
  BY <1>1
<1>4. d.cycle = was
  BY <1>1
<1>5. QED
  BY <1>1, <1>2, <1>3, <1>4, DataSetOf

LEMMA NoDataIs == IsDataSet(NoData) /\ \A v : IsDataSet([NoData EXCEPT !.doms = v])
<1>1. NoData = [doms |-> <<>>, cycle |-> 0]
  BY DEF NoData
<1> DEFINE none == <<>>
<1> HIDE DEF none
<1>2. IsDataSet([doms |-> none, cycle |-> 0])
  BY DEF IsDataSet
<1>3. \A v : IsDataSet([[doms |-> none, cycle |-> 0] EXCEPT !.doms = v])
  BY DEF IsDataSet
<1>4. QED
  BY <1>1, <1>2, <1>3 DEF none

(* A data set is made: the heap grows. *)
LEMMA HeapGrows ==
  ASSUME NEW H, IsHeap(H), NEW d, IsDataSet(d)
  PROVE  /\ IsHeap(Append(H, d)) /\ LiveIn(Append(H, d)) = LiveIn(H) \cup {Len(H) + 1}
         /\ Len(H) + 1 \notin LiveIn(H)
         /\ \A a \in LiveIn(H) : Append(H, d)[a] = H[a]
<1> DEFINE K == Append(H, d)
           n == Len(H)
<1>1. /\ n \in Nat /\ IsList(K) /\ Len(K) = n + 1
      /\ \A i \in 1 .. n : K[i] = H[i]
      /\ K[n + 1] = d
      /\ DOMAIN H = 1 .. n
  BY Appended, ListIs DEF IsHeap
<1>2. DOMAIN K = 1 .. n + 1
  BY <1>1, ListIs
<1>3. d # Freed
  BY DataSetThere
<1> HIDE DEF K, n
<1>4. n + 1 \notin 1 .. n /\ 1 .. n + 1 = (1 .. n) \cup {n + 1}
  BY <1>1
<1>5. LiveIn(K) = LiveIn(H) \cup {n + 1} /\ n + 1 \notin LiveIn(H)
      /\ \A a \in LiveIn(H) : K[a] = H[a]
  BY <1>1, <1>2, <1>3, <1>4 DEF LiveIn
<1>6. IsHeap(K)
  BY <1>1, <1>5 DEF IsHeap
<1>7. QED
  BY <1>5, <1>6 DEF K, n

(* Data sets are deleted. *)
Emptied(K, H, D) == K = [a \in DOMAIN H |-> IF a \in D THEN Freed ELSE H[a]]

LEMMA HeapFreed ==
  ASSUME NEW H, IsHeap(H), NEW D, NEW K, Emptied(K, H, D)
  PROVE  /\ IsHeap(K) /\ LiveIn(K) = LiveIn(H) \ D /\ Len(K) = Len(H)
         /\ \A a \in LiveIn(H) \ D : K[a] = H[a]
<1>1. Len(H) \in Nat /\ DOMAIN H = 1 .. Len(H)
  BY ListIs DEF IsHeap
<1>2. K = [a \in 1 .. Len(H) |-> K[a]] /\ DOMAIN K = DOMAIN H
      /\ \A a \in DOMAIN H : K[a] = IF a \in D THEN Freed ELSE H[a]
  BY <1>1 DEF Emptied
<1>3. IsList(K) /\ Len(K) = Len(H)
  BY <1>1, <1>2, ListOf
<1>4. LiveIn(K) = LiveIn(H) \ D /\ \A a \in LiveIn(H) \ D : K[a] = H[a]
  BY <1>2 DEF LiveIn
<1>5. IsHeap(K)
  BY <1>3, <1>4 DEF IsHeap
<1>6. QED
  BY <1>3, <1>4, <1>5

FreedAt(K, H, a) == K = [H EXCEPT ![a] = Freed]

LEMMA HeapFreedOne ==
  ASSUME NEW H, IsHeap(H), NEW a, NEW K, FreedAt(K, H, a)
  PROVE  /\ IsHeap(K) /\ LiveIn(K) = LiveIn(H) \ {a}
         /\ \A b \in LiveIn(H) \ {a} : K[b] = H[b]
<1>1. K = [b \in DOMAIN H |-> IF b \in {a} THEN Freed ELSE H[b]]
  BY DEF FreedAt
<1>2. Emptied(K, H, {a})
  BY <1>1 DEF Emptied
<1>3. QED
  BY <1>2, HeapFreed

(* A data set is written to. *)
Written(K, H, a, d) == K = [H EXCEPT ![a] = d]

LEMMA HeapWritten ==
  ASSUME NEW H, IsHeap(H), NEW a \in LiveIn(H), NEW d, IsDataSet(d),
         NEW K, Written(K, H, a, d)
  PROVE  /\ IsHeap(K) /\ LiveIn(K) = LiveIn(H) /\ K[a] = d
         /\ \A b \in LiveIn(H) : b # a => K[b] = H[b]
<1>1. Len(H) \in Nat /\ DOMAIN H = 1 .. Len(H)
  BY ListIs DEF IsHeap
<1>2. K = [b \in 1 .. Len(H) |-> K[b]] /\ DOMAIN K = DOMAIN H
      /\ \A b \in DOMAIN H : K[b] = IF b = a THEN d ELSE H[b]
  BY <1>1 DEF Written
<1>3. d # Freed
  BY DataSetThere
<1>4. IsList(K)
  BY <1>1, <1>2, ListOf
<1>5. /\ LiveIn(K) = LiveIn(H) /\ \A b \in LiveIn(H) : b # a => K[b] = H[b]
      /\ K[a] = d
  BY <1>2, <1>3 DEF LiveIn
<1>6. IsHeap(K)
  BY <1>4, <1>5 DEF IsHeap
<1>7. QED
  BY <1>5, <1>6

-----------------------------------------------------------------------------
(* What a filter knows of its field, and what it may do next. *)

(* known is what the answers tell. *)
Knows(op, got, known) ==
  /\ known \in Knowledge
  /\ known # "nothing" => <<"exists", op.f>> \in DOMAIN got
  /\ known \in {"assoc", "yes", "no"} => <<"assoc", op.f>> \in DOMAIN got
  /\ known = "none" => ~got[<<"exists", op.f>>]
  /\ known = "yes" => Told(op, got, "cells", op.f)
  /\ known = "no" => ~Told(op, got, "cells", op.f)

LEMMA KnowsNothing == \A op, got : Knows(op, got, "nothing")
BY DEF Knows, Knowledge

(* A further answer. *)
LEMMA KnowsMore ==
  ASSUME NEW op, NEW got, NEW known, Knows(op, got, known), NEW step, NEW new, NEW answer,
         new = [k \in DOMAIN got \cup {<<step.q, step.f>>} |->
                  IF k = <<step.q, step.f>> THEN answer ELSE got[k]]
  PROVE  Knows(op, new, Learned(op, step, known))
<1>1. DOMAIN new = DOMAIN got \cup {<<step.q, step.f>>}
  OBVIOUS
<1>2. \A k \in DOMAIN got : k # <<step.q, step.f>> => new[k] = got[k]
  OBVIOUS
<1>3. CASE step.q = "exists"
  <2>1. <<step.q, step.f>> \in DOMAIN new
    BY <1>1
  <2>2. CASE step.f = op.f
    BY <1>3, <2>1, <2>2 DEF Learned, Knows, Knowledge
  <2>3. CASE step.f # op.f
    BY <1>3, <2>3, KnowsNothing DEF Learned
  <2>4. QED
    BY <2>2, <2>3
<1>4. CASE step.q = "assoc"
  <2>1. <<step.q, step.f>> \in DOMAIN new
    BY <1>1
  <2>2. CASE step.f = op.f /\ known = "exists"
    <3>1. <<"exists", op.f>> \in DOMAIN new /\ <<"assoc", op.f>> \in DOMAIN new
      BY <1>1, <1>4, <2>1, <2>2 DEF Knows
    <3>2. Learned(op, step, known) = "assoc"
      BY <1>4, <2>2 DEF Learned
    <3>3. QED
      BY <3>1, <3>2 DEF Knows, Knowledge
  <2>3. CASE ~(step.f = op.f /\ known = "exists")
    BY <1>4, <2>3, KnowsNothing DEF Learned
  <2>4. QED
    BY <2>2, <2>3
<1>5. CASE step.q \notin {"exists", "assoc"}
  <2>1. Learned(op, step, known) = known
    BY <1>5 DEF Learned
  <2>2. <<"exists", op.f>> # <<step.q, step.f>> /\ <<"assoc", op.f>> # <<step.q, step.f>>
    BY <1>5
  <2>3. /\ <<"exists", op.f>> \in DOMAIN got =>
             <<"exists", op.f>> \in DOMAIN new /\ new[<<"exists", op.f>>] = got[<<"exists", op.f>>]
        /\ <<"assoc", op.f>> \in DOMAIN got =>
             <<"assoc", op.f>> \in DOMAIN new /\ new[<<"assoc", op.f>>] = got[<<"assoc", op.f>>]
    BY <1>1, <1>2, <2>2
  <2>4. CASE known \in {"yes", "no"}
    <3>1. Told(op, new, "cells", op.f) <=> Told(op, got, "cells", op.f)
      BY <2>3, <2>4 DEF Told, Knows
    <3>2. QED
      BY <2>1, <2>3, <2>4, <3>1 DEF Knows
  <2>5. CASE known \notin {"yes", "no"}
    BY <2>1, <2>3, <2>5 DEF Knows
  <2>6. QED
    BY <2>4, <2>5
<1>6. QED
  BY <1>3, <1>4, <1>5

(* What a test tells. *)
LEMMA GoesWhere ==
  ASSUME NEW op, NEW got, NEW s, s = Holding(s.has, s.own, s.slices, s.cells),
         Knows(op, got, s.cells), NEW step, MayBranch(op, step, s)
  PROVE  \E t : /\ Goes(op, step, s, IF Told(op, got, step.test, step.f)
                                     THEN step.then ELSE step.else, t)
                /\ \E k : t = Holding(s.has, s.own, s.slices, k) /\ Knows(op, got, k)
<1> DEFINE told == Told(op, got, step.test, step.f)
           branch == IF told THEN step.then ELSE step.else
           Known(t) == \E k : t = Holding(s.has, s.own, s.slices, k) /\ Knows(op, got, k)
<1> SUFFICES \E t : Goes(op, step, s, branch, t) /\ Known(t)
  OBVIOUS
<1>0. branch = IF told THEN step.then ELSE step.else
  OBVIOUS
<1>1. Known(s)
  OBVIOUS
<1> HIDE DEF branch
<1>2. CASE step.test = "cells"
  <2>1. step.f = op.f /\ s.cells \in {"none", "assoc", "yes", "no"}
    BY <1>2 DEF MayBranch
  <2>2. told <=> Told(op, got, "cells", op.f)
    BY <1>2, <2>1
  <2>3. CASE s.cells = "none"
    <3>1. ~told
      BY <2>2, <2>3 DEF Told, Knows
    <3> HIDE DEF told
    <3>2. Goes(op, step, s, branch, s)
      BY <1>0, <1>2, <2>3, <3>1, Zenon DEF Goes
    <3>3. QED
      BY <1>1, <3>2
  <2>4. CASE s.cells # "none" /\ told
    <3> DEFINE t == Holding(s.has, s.own, s.slices, "yes")
    <3>1. s.cells \in {"assoc", "yes"}
      BY <2>1, <2>2, <2>4 DEF Knows
    <3>2. Knows(op, got, "yes")
      BY <2>2, <2>4, <3>1 DEF Knows, Knowledge
    <3> HIDE DEF told
    <3>3. Goes(op, step, s, branch, t)
      BY <1>0, <1>2, <2>4, <3>1, Zenon DEF Goes
    <3>4. QED
      BY <3>2, <3>3
  <2>5. CASE s.cells # "none" /\ ~told
    <3> DEFINE t == Holding(s.has, s.own, s.slices, "no")
    <3>1. s.cells \in {"assoc", "no"}
      BY <2>1, <2>2, <2>5 DEF Knows
    <3>2. Knows(op, got, "no")
      BY <2>2, <2>5, <3>1 DEF Knows, Knowledge
    <3> HIDE DEF told
    <3>3. Goes(op, step, s, branch, t)
      BY <1>0, <1>2, <2>5, <3>1, Zenon DEF Goes
    <3>4. QED
      BY <3>2, <3>3
  <2>6. QED
    BY <2>3, <2>4, <2>5
<1>3. CASE step.test = "exists"
  <2>1. told <=> got[<<"exists", step.f>>]
    BY <1>3 DEF Told
  <2>2. CASE told
    <3> HIDE DEF told
    <3>1. Goes(op, step, s, branch, s)
      BY <1>0, <1>3, <2>2, Zenon DEF Goes
    <3>2. QED
      BY <1>1, <3>1
  <2>3. CASE ~told /\ step.f = op.f /\ s.cells = "exists"
    <3> DEFINE t == Holding(s.has, s.own, s.slices, "none")
    <3>1. Knows(op, got, "none")
      BY <2>1, <2>3 DEF Knows, Knowledge
    <3> HIDE DEF told
    <3>2. Goes(op, step, s, branch, t)
      BY <1>0, <1>3, <2>3, Zenon DEF Goes
    <3>3. QED
      BY <3>1, <3>2
  <2>4. CASE ~told /\ ~(step.f = op.f /\ s.cells = "exists")
    <3> HIDE DEF told
    <3>1. Goes(op, step, s, branch, s)
      BY <1>0, <1>3, <2>4, Zenon DEF Goes
    <3>2. QED
      BY <1>1, <3>1
  <2>5. QED
    BY <2>2, <2>3, <2>4
<1>4. CASE step.test \notin {"cells", "exists"}
  <2> HIDE DEF told
  <2>1. branch \in {step.then, step.else}
    BY <1>0
  <2>2. Goes(op, step, s, branch, s)
    BY <1>4, <2>1 DEF Goes
  <2>3. QED
    BY <1>1, <2>2
<1>5. QED
  BY <1>2, <1>3, <1>4

(* A filter that has come to a step may take it. *)
LEMMA SafeGoesOn ==
  ASSUME NEW op, NEW todo, NEW s, Safe(op, todo, s), todo # <<>>
  PROVE  /\ IsList(todo)
         /\ Head(todo).do = "if" =>
              /\ MayBranch(op, Head(todo), s)
              /\ \A branch, t : Goes(op, Head(todo), s, branch, t) =>
                                  Safe(op, Then(branch, Tail(todo)), t)
         /\ Head(todo).do # "if" /\ ~Blocked(op, Head(todo)) =>
              \E t : Does(op, Head(todo), s, t) /\ Safe(op, Tail(todo), t)
<1>1. PICK W : Closed(W) /\ <<op, todo, s>> \in W
  BY DEF Safe
<1>2. Fine(W, op, todo, s)
  BY <1>1, Zenon DEF Closed
<1>3. IsList(todo)
  BY <1>2 DEF Fine
<1>4. \A d, t : <<op, d, t>> \in W => Safe(op, d, t)
  BY <1>1 DEF Safe
<1> DEFINE step == Head(todo)
           rest == Tail(todo)
<1>5. \/ Blocked(op, step)
      \/ /\ step.do = "if" /\ MayBranch(op, step, s)
         /\ \A branch, t : Goes(op, step, s, branch, t) => <<op, Then(branch, rest), t>> \in W
      \/ \E t : Does(op, step, s, t) /\ <<op, rest, t>> \in W
  BY <1>2, Zenon DEF Fine
<1> HIDE DEF step, rest
<1>6. Blocked(op, step) => step.do = "check"
  BY DEF Blocked
<1>7. \A t : Does(op, step, s, t) => step.do # "if"
  BY DEF Does, Quiet
<1>8. CASE step.do = "if"
  <2>1. MayBranch(op, step, s)
    BY <1>5, <1>6, <1>7, <1>8
  <2>2. \A branch, t : Goes(op, step, s, branch, t) => <<op, Then(branch, rest), t>> \in W
    BY <1>5, <1>6, <1>7, <1>8, Zenon
  <2>3. QED
    BY <1>3, <1>4, <1>8, <2>1, <2>2, Zenon DEF step, rest
<1>9. CASE step.do # "if"
  BY <1>3, <1>4, <1>5, <1>9, Zenon DEF step, rest
<1>10. QED
  BY <1>8, <1>9

LEMMA SafeEnds ==
  ASSUME NEW op, NEW s, Safe(op, <<>>, s)
  PROVE  Over(op, s)
<1>1. PICK W : Closed(W) /\ <<op, <<>>, s>> \in W
  BY DEF Safe
<1>2. Fine(W, op, <<>>, s)
  BY <1>1, Zenon DEF Closed
<1>3. QED
  BY <1>2, Zenon DEF Fine

-----------------------------------------------------------------------------
(* The frames of a rank and what each of their filters has. *)

Book(s, B) == [held |-> s, base |-> B]

(* What there is for the filter of frame f: what it owns, and what others have. *)
Whole(f, b) == b.base \cup OwnedOf(f.reg, f.slices, b.held)

Ledger(f, b) ==
  /\ IsFrame(f)
  /\ Accounts(f.reg, f.slices, b.held, b.base)
  /\ Knows(f.op, f.got, b.held.cells)
  /\ Safe(f.op, f.todo, b.held)

(* A filter that waits for the output of the next. *)
Awaiting(f) == f.todo # <<>> /\ Head(f.todo).do = "update"

(* The filters of the frames have what books say; the outermost has found   *)
(* what the host has, each other one what there was for its caller.          *)
BooksOK(frames, books, host) ==
  /\ IsList(frames) /\ IsList(books) /\ Len(books) = Len(frames)
  /\ \A i \in 1 .. Len(frames) : Ledger(frames[i], books[i])
  /\ frames # <<>> => books[1].base = host
  /\ \A i \in 1 .. Len(frames) - 1 :
       /\ Awaiting(frames[i]) /\ Callable(frames[i + 1].op)
       /\ books[i + 1].base = Whole(frames[i], books[i])
  /\ \A i, j \in 1 .. Len(frames) : i < j => Whole(frames[i], books[i]) \subseteq books[j].base

LEMMA BookIs ==
  ASSUME NEW s, NEW B
  PROVE  Book(s, B).held = s /\ Book(s, B).base = B
BY DEF Book

(* What the innermost filter finds. *)
LEMMA TopOfBooks ==
  ASSUME NEW frames, NEW books, NEW host, BooksOK(frames, books, host), frames # <<>>
  PROVE  /\ Ledger(Last(frames), Last(books)) /\ host \subseteq Last(books).base
         /\ \A i \in 1 .. Len(frames) :
              Whole(frames[i], books[i]) \subseteq Whole(Last(frames), Last(books))
         /\ books # <<>>
         /\ Len(frames) = 1 => Last(books).base = host
         /\ Len(frames) # 1 => Callable(Last(frames).op)
         /\ Last(frames) = frames[Len(frames)] /\ Last(books) = books[Len(frames)]
         /\ Len(frames) \in Nat \ {0}
<1> DEFINE n == Len(frames)
<1>1. n \in Nat \ {0} /\ books # <<>> /\ Last(frames) = frames[n] /\ Last(books) = books[n]
  <2>1. IsList(frames) /\ IsList(books) /\ Len(books) = n
    BY DEF BooksOK
  <2>2. n \in Nat /\ n # 0 /\ books # <<>>
    BY <2>1, ListIs
  <2>3. Last(frames) = frames[n] /\ Last(books) = books[n]
    BY <2>1 DEF Last
  <2>4. QED
    BY <2>2, <2>3
<1>2. /\ \A i \in 1 .. n : Ledger(frames[i], books[i])
      /\ books[1].base = host
      /\ \A i \in 1 .. n - 1 : Callable(frames[i + 1].op)
      /\ \A i, j \in 1 .. n : i < j => Whole(frames[i], books[i]) \subseteq books[j].base
  BY DEF BooksOK
<1> HIDE DEF n
<1>3. Ledger(frames[n], books[n])
  BY <1>1, <1>2
<1>4. n # 1 => Callable(frames[n].op)
  <2>1. n # 1 => n - 1 \in 1 .. n - 1 /\ (n - 1) + 1 = n
    BY <1>1
  <2>2. QED
    BY <1>2, <2>1
<1>5. host \subseteq books[n].base
  <2>1. CASE n = 1
    BY <1>2, <2>1
  <2>2. CASE n # 1
    <3>1. 1 \in 1 .. n /\ n \in 1 .. n /\ 1 < n
      BY <1>1, <2>2
    <3>2. host \subseteq Whole(frames[1], books[1])
      BY <1>2 DEF Whole
    <3>3. QED
      BY <1>2, <3>1, <3>2
  <2>3. QED
    BY <2>1, <2>2
<1>6. \A i \in 1 .. n : Whole(frames[i], books[i]) \subseteq Whole(frames[n], books[n])
  <2> SUFFICES ASSUME NEW i \in 1 .. n
               PROVE  Whole(frames[i], books[i]) \subseteq Whole(frames[n], books[n])
    OBVIOUS
  <2>1. CASE i = n
    BY <2>1
  <2>2. CASE i # n
    <3>1. i < n /\ n \in 1 .. n
      BY <1>1, <2>2
    <3>2. Whole(frames[i], books[i]) \subseteq books[n].base
      BY <1>2, <3>1
    <3>3. books[n].base \subseteq Whole(frames[n], books[n])
      BY DEF Whole
    <3>4. QED
      BY <3>2, <3>3
  <2>3. QED
    BY <2>1, <2>2
<1>7. QED
  BY <1>1, <1>2, <1>3, <1>4, <1>5, <1>6 DEF n

(* The innermost filter goes on. *)
LEMMA BooksSwapped ==
  ASSUME NEW frames, NEW books, NEW host, BooksOK(frames, books, host), frames # <<>>,
         NEW g, NEW c, Ledger(g, c), g.op = Last(frames).op, c.base = Last(books).base
  PROVE  BooksOK(Append(Front(frames), g), Append(Front(books), c), host)
<1> DEFINE n == Len(frames)
           gs == Append(Front(frames), g)
           cs == Append(Front(books), c)
<1>1. /\ n \in Nat \ {0} /\ IsList(frames) /\ IsList(books) /\ Len(books) = n /\ books # <<>>
      /\ Last(frames) = frames[n] /\ Last(books) = books[n]
  BY TopOfBooks DEF BooksOK
<1>2. /\ IsList(gs) /\ Len(gs) = n /\ gs[n] = g
      /\ \A i \in 1 .. n - 1 : gs[i] = frames[i]
  BY <1>1, LastReplaced
<1>3. /\ IsList(cs) /\ Len(cs) = n /\ cs[n] = c
      /\ \A i \in 1 .. n - 1 : cs[i] = books[i]
  BY <1>1, LastReplaced
<1>4. /\ \A i \in 1 .. n : Ledger(frames[i], books[i])
      /\ books[1].base = host
      /\ \A i \in 1 .. n - 1 :
           /\ Awaiting(frames[i]) /\ Callable(frames[i + 1].op)
           /\ books[i + 1].base = Whole(frames[i], books[i])
      /\ \A i, j \in 1 .. n : i < j => Whole(frames[i], books[i]) \subseteq books[j].base
  BY DEF BooksOK
<1> HIDE DEF n, gs, cs
<1>5. \A i \in 1 .. n : i \in 1 .. n - 1 \/ i = n
  BY <1>1
<1>6. \A i \in 1 .. n : Ledger(gs[i], cs[i]) /\ cs[i].base = books[i].base /\ gs[i].op = frames[i].op
  BY <1>1, <1>2, <1>3, <1>4, <1>5
<1>7. \A i \in 1 .. n - 1 : Whole(gs[i], cs[i]) = Whole(frames[i], books[i]) /\ i + 1 \in 1 .. n
  BY <1>1, <1>2, <1>3
<1>8. cs[1].base = host
  <2>1. 1 \in 1 .. n
    BY <1>1
  <2>2. QED
    BY <1>4, <1>6, <2>1
<1>9. \A i \in 1 .. n - 1 :
        /\ Awaiting(gs[i]) /\ Callable(gs[i + 1].op)
        /\ cs[i + 1].base = Whole(gs[i], cs[i])
  BY <1>2, <1>4, <1>6, <1>7
<1>10. \A i, j \in 1 .. n : i < j => Whole(gs[i], cs[i]) \subseteq cs[j].base
  <2> SUFFICES ASSUME NEW i \in 1 .. n, NEW j \in 1 .. n, i < j
               PROVE  Whole(gs[i], cs[i]) \subseteq cs[j].base
    OBVIOUS
  <2>1. i \in 1 .. n - 1
    BY <1>1
  <2>2. Whole(frames[i], books[i]) \subseteq books[j].base
    BY <1>4
  <2>3. QED
    BY <1>6, <1>7, <2>1, <2>2
<1>11. BooksOK(gs, cs, host)
  BY <1>2, <1>3, <1>6, <1>8, <1>9, <1>10 DEF BooksOK
<1>12. QED
  BY <1>11 DEF gs, cs

(* The innermost filter calls another. *)
LEMMA BooksPushed ==
  ASSUME NEW frames, NEW books, NEW host, BooksOK(frames, books, host), frames # <<>>,
         Awaiting(Last(frames)),
         NEW g, NEW c, Ledger(g, c), Callable(g.op), c.base = Whole(Last(frames), Last(books))
  PROVE  BooksOK(Append(frames, g), Append(books, c), host)
<1> DEFINE n == Len(frames)
           gs == Append(frames, g)
           cs == Append(books, c)
<1>1. /\ n \in Nat \ {0} /\ IsList(frames) /\ IsList(books) /\ Len(books) = n
      /\ Last(frames) = frames[n] /\ Last(books) = books[n]
      /\ \A i \in 1 .. n : Whole(frames[i], books[i]) \subseteq c.base
  <2>1. IsList(frames) /\ IsList(books) /\ Len(books) = n
    BY DEF BooksOK
  <2>2. /\ n \in Nat \ {0} /\ Last(frames) = frames[n] /\ Last(books) = books[n]
        /\ \A i \in 1 .. n : Whole(frames[i], books[i]) \subseteq Whole(Last(frames), Last(books))
    BY TopOfBooks
  <2>3. QED
    BY <2>1, <2>2
<1>2. /\ IsList(gs) /\ Len(gs) = n + 1 /\ gs[n + 1] = g
      /\ \A i \in 1 .. n : gs[i] = frames[i]
  BY <1>1, Appended
<1>3. /\ IsList(cs) /\ Len(cs) = n + 1 /\ cs[n + 1] = c
      /\ \A i \in 1 .. n : cs[i] = books[i]
  BY <1>1, Appended
<1>4. /\ \A i \in 1 .. n : Ledger(frames[i], books[i])
      /\ books[1].base = host
      /\ \A i \in 1 .. n - 1 :
           /\ Awaiting(frames[i]) /\ Callable(frames[i + 1].op)
           /\ books[i + 1].base = Whole(frames[i], books[i])
      /\ \A i, j \in 1 .. n : i < j => Whole(frames[i], books[i]) \subseteq books[j].base
  BY DEF BooksOK
<1> HIDE DEF n, gs, cs
<1>5. \A i \in 1 .. n + 1 : i \in 1 .. n \/ i = n + 1
  BY <1>1
<1>6. \A i \in 1 .. n + 1 : Ledger(gs[i], cs[i])
  BY <1>2, <1>3, <1>4, <1>5
<1>7. cs[1].base = host
  <2>1. 1 \in 1 .. n
    BY <1>1
  <2>2. QED
    BY <1>3, <1>4, <2>1
<1>8. \A i \in 1 .. n :
        /\ Awaiting(gs[i]) /\ Callable(gs[i + 1].op)
        /\ cs[i + 1].base = Whole(gs[i], cs[i])
  <2> SUFFICES ASSUME NEW i \in 1 .. n
               PROVE  /\ Awaiting(gs[i]) /\ Callable(gs[i + 1].op)
                      /\ cs[i + 1].base = Whole(gs[i], cs[i])
    OBVIOUS
  <2>1. CASE i = n
    BY <1>1, <1>2, <1>3, <2>1
  <2>2. CASE i # n
    <3>1. i \in 1 .. n - 1 /\ i + 1 \in 1 .. n
      BY <1>1, <2>2
    <3>2. QED
      BY <1>2, <1>3, <1>4, <3>1
  <2>3. QED
    BY <2>1, <2>2
<1>9. \A i, j \in 1 .. n + 1 : i < j => Whole(gs[i], cs[i]) \subseteq cs[j].base
  <2> SUFFICES ASSUME NEW i \in 1 .. n + 1, NEW j \in 1 .. n + 1, i < j
               PROVE  Whole(gs[i], cs[i]) \subseteq cs[j].base
    OBVIOUS
  <2>1. i \in 1 .. n
    BY <1>1
  <2>2. CASE j = n + 1
    BY <1>1, <1>2, <1>3, <2>1, <2>2
  <2>3. CASE j # n + 1
    <3>1. j \in 1 .. n
      BY <1>5, <2>3
    <3>2. QED
      BY <1>2, <1>3, <1>4, <2>1, <3>1
  <2>4. QED
    BY <2>2, <2>3
<1>10. BooksOK(gs, cs, host)
  <2>1. (n + 1) - 1 = n
    BY <1>1
  <2>2. QED
    BY <1>2, <1>3, <1>6, <1>7, <1>8, <1>9, <2>1 DEF BooksOK
<1>11. QED
  BY <1>10 DEF gs, cs

(* The innermost filter returns. *)
LEMMA BooksPopped ==
  ASSUME NEW frames, NEW books, NEW host, BooksOK(frames, books, host), frames # <<>>
  PROVE  /\ BooksOK(Front(frames), Front(books), host)
         /\ Len(frames) > 1 =>
              /\ Front(frames) # <<>>
              /\ Last(Front(frames)) = frames[Len(frames) - 1]
              /\ Awaiting(Last(Front(frames)))
              /\ Last(books).base = Whole(Last(Front(frames)), Last(Front(books)))
<1> DEFINE n == Len(frames)
           gs == Front(frames)
           cs == Front(books)
<1>1. /\ n \in Nat \ {0} /\ IsList(frames) /\ IsList(books) /\ Len(books) = n /\ books # <<>>
      /\ Last(books) = books[n]
  BY TopOfBooks DEF BooksOK
<1>2. /\ IsList(gs) /\ Len(gs) = n - 1
      /\ \A i \in 1 .. n - 1 : gs[i] = frames[i]
  BY <1>1, LastReplaced
<1>3. /\ IsList(cs) /\ Len(cs) = n - 1
      /\ \A i \in 1 .. n - 1 : cs[i] = books[i]
  BY <1>1, LastReplaced
<1>4. /\ \A i \in 1 .. n : Ledger(frames[i], books[i])
      /\ books[1].base = host
      /\ \A i \in 1 .. n - 1 :
           /\ Awaiting(frames[i]) /\ Callable(frames[i + 1].op)
           /\ books[i + 1].base = Whole(frames[i], books[i])
      /\ \A i, j \in 1 .. n : i < j => Whole(frames[i], books[i]) \subseteq books[j].base
  BY DEF BooksOK
<1>5. Last(gs) = gs[Len(gs)] /\ Last(cs) = cs[Len(cs)] /\ (gs # <<>> <=> Len(gs) # 0)
  BY <1>2, <1>3, ListIs DEF Last
<1> HIDE DEF n, gs, cs
<1>6. \A i \in 1 .. n - 1 : i \in 1 .. n
  BY <1>1
<1>7. \A i \in 1 .. n - 1 : Ledger(gs[i], cs[i])
  BY <1>2, <1>3, <1>4, <1>6
<1>8. gs # <<>> => cs[1].base = host
  <2>1. gs # <<>> => 1 \in 1 .. n - 1
    BY <1>1, <1>2, <1>5
  <2>2. QED
    BY <1>3, <1>4, <2>1
<1>9. \A i \in 1 .. (n - 1) - 1 :
        /\ Awaiting(gs[i]) /\ Callable(gs[i + 1].op)
        /\ cs[i + 1].base = Whole(gs[i], cs[i])
  <2>1. \A i \in 1 .. (n - 1) - 1 : i \in 1 .. n - 1 /\ i + 1 \in 1 .. n - 1
    BY <1>1
  <2>2. QED
    BY <1>2, <1>3, <1>4, <2>1
<1>10. \A i, j \in 1 .. n - 1 : i < j => Whole(gs[i], cs[i]) \subseteq cs[j].base
  BY <1>2, <1>3, <1>4, <1>6
<1>11. BooksOK(gs, cs, host)
  BY <1>2, <1>3, <1>7, <1>8, <1>9, <1>10 DEF BooksOK
<1>12. ASSUME n > 1
       PROVE  /\ gs # <<>> /\ Last(gs) = frames[n - 1] /\ Awaiting(Last(gs))
              /\ books[n].base = Whole(Last(gs), Last(cs))
  <2>1. n - 1 \in 1 .. n - 1 /\ (n - 1) + 1 = n /\ n - 1 # 0
    BY <1>1, <1>12
  <2>2. gs # <<>> /\ Last(gs) = frames[n - 1] /\ Last(cs) = books[n - 1]
    BY <1>2, <1>3, <1>5, <2>1
  <2>3. Awaiting(frames[n - 1]) /\ books[n].base = Whole(frames[n - 1], books[n - 1])
    BY <1>4, <2>1
  <2>4. QED
    BY <2>2, <2>3
<1>13. QED
  BY <1>1, <1>11, <1>12 DEF n, gs, cs

(* The host calls a filter. *)
LEMMA BooksOpened ==
  ASSUME NEW g, NEW c, Ledger(g, c)
  PROVE  BooksOK(<<g>>, <<c>>, c.base)
<1> DEFINE gs == <<g>>
           cs == <<c>>
<1>1. IsList(gs) /\ Len(gs) = 1 /\ gs[1] = g
  BY OneIsList
<1>2. IsList(cs) /\ Len(cs) = 1 /\ cs[1] = c
  BY OneIsList
<1> HIDE DEF gs, cs
<1>3. /\ 1 .. Len(gs) - 1 = {} /\ \A i \in 1 .. Len(gs) : i = 1
      /\ \A i, j \in 1 .. Len(gs) : ~(i < j)
  BY <1>1
<1>4. BooksOK(gs, cs, c.base)
  BY <1>1, <1>2, <1>3 DEF BooksOK
<1>5. QED
  BY <1>4 DEF gs, cs

LEMMA BooksClosed == \A host : BooksOK(<<>>, <<>>, host)
<1> DEFINE none == <<>>
<1>1. IsList(none) /\ Len(none) = 0
  BY NoList
<1>2. 1 .. Len(none) = {} /\ 1 .. Len(none) - 1 = {}
  BY <1>1
<1>3. \A host : BooksOK(none, none, host)
  <2> HIDE DEF none
  <2>1. QED
    BY <1>1, <1>2 DEF BooksOK, none
<1>4. QED
  BY <1>3

-----------------------------------------------------------------------------
(* What the ranks own: the inductive invariant. *)

(* What the host holds pointers to, of the results done. *)
Held(done) == {1} \cup ({done[k].out : k \in DOMAIN done} \ {0})

(* The frames and the heap are as the books say. *)
Stands(frames, books, H, host) ==
  /\ IsHeap(H) /\ BooksOK(frames, books, host)
  /\ LiveIn(H) = IF frames = <<>> THEN host ELSE Whole(Last(frames), Last(books))

RankOwns(st, frames, H, done, script) ==
  /\ IsHeap(H) /\ Held(done) \subseteq LiveIn(H)
  /\ Len(done) <= Len(script)
  /\ \A k \in 1 .. Len(done) : script[k].op.name \notin Functions => done[k].out # 0
  /\ frames # <<>> => /\ Len(done) < Len(script)
                      /\ frames[1].op = script[Len(done) + 1].op
  /\ st \notin Stopped => \E books : Stands(frames, books, H, Held(done))

OwnInv ==
  /\ heap = [r \in Ranks |-> heap[r]]
  /\ \A r \in Ranks : RankOwns(status[r], stack[r], heap[r], results[r], scenario.script)

(* What an operation may do to the data sets the host holds. *)
Keeping(op, A, H, K) ==
  \A a \in A : \/ K[a] = H[a]
               \/ /\ Samples(op)
                  /\ WithoutSample(K[a].doms) = WithoutSample(H[a].doms)
                  /\ K[a].cycle = H[a].cycle

(* The innermost filter f, with books b, goes on as g with c. *)
StepsTo(f, b, H, g, c, K) ==
  /\ Ledger(g, c) /\ g.op = f.op /\ c.base = b.base
  /\ IsHeap(K) /\ LiveIn(K) = Whole(g, c)
  /\ Keeping(f.op, b.base, H, K)

(* Where f stands. *)
StandsAt(f, b, H) == Ledger(f, b) /\ IsHeap(H) /\ LiveIn(H) = Whole(f, b)

(* No step changes what the hosts hold, but for the field of HistSampling. *)
HostsKeep ==
  \A s \in Ranks : Keeping(NextOp(s).op, Held(results[s]), heap[s], heap'[s])

LEMMA KeepingAll ==
  ASSUME NEW op, NEW A, NEW H, NEW K, \A a \in A : K[a] = H[a]
  PROVE  Keeping(op, A, H, K)
BY DEF Keeping

(* A step of rank r. *)
LEMMA OneOwns ==
  ASSUME Functional, OwnInv, NEW r \in Ranks, scenario' = scenario,
         status' = [status EXCEPT ![r] = status'[r]],
         stack' = [stack EXCEPT ![r] = stack'[r]],
         heap' = [heap EXCEPT ![r] = heap'[r]],
         results' = [results EXCEPT ![r] = results'[r]],
         RankOwns(status'[r], stack'[r], heap'[r], results'[r], scenario.script),
         Keeping(NextOp(r).op, Held(results[r]), heap[r], heap'[r])
  PROVE  OwnInv' /\ HostsKeep
<1>1. heap' = [s \in Ranks |-> heap'[s]]
  BY DEF OwnInv
<1>2. \A s \in Ranks : s # r =>
        /\ status'[s] = status[s] /\ stack'[s] = stack[s]
        /\ heap'[s] = heap[s] /\ results'[s] = results[s]
  BY DEF Functional, OwnInv
<1>3. \A s \in Ranks : RankOwns(status'[s], stack'[s], heap'[s], results'[s], scenario'.script)
  <2> SUFFICES ASSUME NEW s \in Ranks
               PROVE  RankOwns(status'[s], stack'[s], heap'[s], results'[s], scenario.script)
    OBVIOUS
  <2>1. CASE s = r
    BY <2>1
  <2>2. CASE s # r
    <3>1. RankOwns(status[s], stack[s], heap[s], results[s], scenario.script)
      BY DEF OwnInv
    <3>2. /\ status'[s] = status[s] /\ stack'[s] = stack[s]
          /\ heap'[s] = heap[s] /\ results'[s] = results[s]
      BY <1>2, <2>2
    <3>3. QED
      BY <3>1, <3>2
  <2>3. QED
    BY <2>1, <2>2
<1>4. \A s \in Ranks : Keeping(NextOp(s).op, Held(results[s]), heap[s], heap'[s])
  BY <1>2, KeepingAll
<1>5. QED
  BY <1>1, <1>3, <1>4 DEF OwnInv, HostsKeep

(* What there is when a filter is under way. *)
LEMMA TopStands ==
  ASSUME NEW st, NEW frames, NEW H, NEW done, NEW script,
         RankOwns(st, frames, H, done, script), st \notin Stopped, frames # <<>>,
         NEW g, NEW K,
         \A b : StandsAt(Last(frames), b, H) => \E c : StepsTo(Last(frames), b, H, g, c, K)
  PROVE  /\ RankOwns(st, Append(Front(frames), g), K, done, script)
         /\ Keeping(script[Len(done) + 1].op, Held(done), H, K)
<1> DEFINE host == Held(done)
           gs == Append(Front(frames), g)
           f == Last(frames)
<1>1. PICK books : Stands(frames, books, H, host)
  BY DEF RankOwns
<1> DEFINE b == Last(books)
<1>2. BooksOK(frames, books, host) /\ IsHeap(H) /\ LiveIn(H) = Whole(f, b)
  BY <1>1 DEF Stands
<1>3. /\ Ledger(f, b) /\ host \subseteq b.base
      /\ Len(frames) = 1 => b.base = host
      /\ Len(frames) # 1 => Callable(f.op)
      /\ f = frames[Len(frames)] /\ Len(frames) \in Nat \ {0}
  BY <1>2, TopOfBooks
<1>4. PICK c : StepsTo(f, b, H, g, c, K)
  BY <1>2, <1>3 DEF StandsAt
<1>5. IsList(frames)
  BY <1>2 DEF BooksOK
<1> DEFINE cs == Append(Front(books), c)
<1>6. BooksOK(gs, cs, host)
  <2> HIDE DEF host, f, b
  <2>1. Ledger(g, c) /\ g.op = Last(frames).op /\ c.base = Last(books).base
    BY <1>4 DEF StepsTo, f, b
  <2>2. QED
    BY <1>2, <2>1, BooksSwapped
<1>7. /\ gs # <<>> /\ Last(gs) = g /\ IsList(gs) /\ Len(gs) = Len(frames)
      /\ gs[1].op = frames[1].op
  <2>1. /\ IsList(gs) /\ Len(gs) = Len(frames) /\ gs[Len(frames)] = g
        /\ \A i \in 1 .. Len(frames) - 1 : gs[i] = frames[i]
    BY <1>5, LastReplaced
  <2> HIDE DEF gs
  <2>2. gs # <<>> /\ Last(gs) = g
    BY <1>3, <2>1, ListIs DEF Last
  <2>3. g.op = f.op
    BY <1>4 DEF StepsTo
  <2>4. gs[1].op = frames[1].op
    <3>1. CASE Len(frames) = 1
      BY <1>3, <2>1, <2>3, <3>1
    <3>2. CASE Len(frames) # 1
      <4>1. \A n \in Nat \ {0} : n # 1 => 1 \in 1 .. n - 1
        OBVIOUS
      <4>2. 1 \in 1 .. Len(frames) - 1
        BY <1>3, <3>2, <4>1, Zenon
      <4>3. QED
        BY <2>1, <4>2
    <3>3. QED
      BY <3>1, <3>2
  <2>5. QED
    BY <2>1, <2>2, <2>4
<1>8. Last(cs) = c
  <2>1. IsList(books) /\ books # <<>>
    BY <1>2, TopOfBooks DEF BooksOK
  <2>2. Len(cs) = Len(books) /\ cs[Len(books)] = c
    BY <2>1, LastReplaced
  <2> HIDE DEF cs
  <2>3. QED
    BY <2>2 DEF Last
<1>9. /\ IsHeap(K) /\ LiveIn(K) = Whole(g, c) /\ c.base = b.base
      /\ Keeping(f.op, b.base, H, K)
  BY <1>4 DEF StepsTo
<1> HIDE DEF host, gs, cs, f, b
<1>10. Stands(gs, cs, K, host)
  BY <1>6, <1>7, <1>8, <1>9 DEF Stands
<1>11. host \subseteq LiveIn(K)
  BY <1>3, <1>9 DEF Whole
<1>12. RankOwns(st, gs, K, done, script)
  BY <1>7, <1>9, <1>10, <1>11 DEF RankOwns, host
<1>13. Keeping(script[Len(done) + 1].op, host, H, K)
  <2>1. CASE Len(frames) = 1
    <3>1. f.op = script[Len(done) + 1].op
      BY <1>3, <2>1 DEF RankOwns
    <3>2. QED
      BY <1>3, <1>9, <2>1, <3>1
  <2>2. CASE Len(frames) # 1
    <3>1. ~Samples(f.op)
      BY <1>3, <2>2 DEF Callable, Samples
    <3>2. \A a \in b.base : K[a] = H[a]
      BY <1>9, <3>1 DEF Keeping
    <3>3. QED
      BY <1>3, <3>2, KeepingAll
  <2>3. QED
    BY <2>1, <2>2
<1>14. QED
  BY <1>12, <1>13 DEF gs, host

LEMMA TopGoesOn ==
  ASSUME WayInv, OwnInv, NEW r \in Ranks, stack[r] # <<>>, status[r] = "running",
         NEW g, NEW K, stack' = Put(r, g), heap' = [heap EXCEPT ![r] = K],
         UNCHANGED <<scenario, status, results>>,
         \A b : StandsAt(Top(r), b, heap[r]) => \E c : StepsTo(Top(r), b, heap[r], g, c, K)
  PROVE  OwnInv' /\ HostsKeep
<1>1. Functional
  BY DEF WayInv
<1>2. RankOwns(status[r], stack[r], heap[r], results[r], scenario.script)
  BY DEF OwnInv
<1>3. /\ stack'[r] = Append(Front(stack[r]), g) /\ stack' = [stack EXCEPT ![r] = stack'[r]]
      /\ status' = [status EXCEPT ![r] = status'[r]] /\ status'[r] = status[r]
      /\ results' = [results EXCEPT ![r] = results'[r]] /\ results'[r] = results[r]
  BY <1>1 DEF Functional, Put
<1>4. heap'[r] = K /\ heap' = [heap EXCEPT ![r] = heap'[r]]
  BY DEF OwnInv
<1>5. /\ RankOwns(status[r], Append(Front(stack[r]), g), K, results[r], scenario.script)
      /\ Keeping(scenario.script[Len(results[r]) + 1].op, Held(results[r]), heap[r], K)
  <2>1. status[r] \notin Stopped
    OBVIOUS
  <2>2. \A b : StandsAt(Last(stack[r]), b, heap[r]) =>
                \E c : StepsTo(Last(stack[r]), b, heap[r], g, c, K)
    BY DEF Top
  <2>3. QED
    BY <1>2, <2>1, <2>2, TopStands
<1>6. RankOwns(status'[r], stack'[r], heap'[r], results'[r], scenario.script)
  BY <1>3, <1>4, <1>5
<1>7. Keeping(NextOp(r).op, Held(results[r]), heap[r], heap'[r])
  BY <1>4, <1>5 DEF NextOp
<1>8. QED
  BY <1>1, <1>3, <1>4, <1>6, <1>7, OneOwns

-----------------------------------------------------------------------------
(* The steps of a filter, with what it has. *)

(* What it takes to do a step, and what there is then. *)
LEMMA DoesAsk ==
  ASSUME NEW op, NEW step, NEW s, NEW t, Does(op, step, s, t), step.do = "ask"
  PROVE  /\ step.of \in s.has
         /\ t = Holding(s.has, s.own, s.slices, Learned(op, step, s.cells))
BY DEF Does, Quiet

LEMMA DoesQuiet ==
  ASSUME NEW op, NEW step, NEW s, NEW t, Does(op, step, s, t), step.do \in Quiet
  PROVE  t = s
BY DEF Does, Quiet

LEMMA DoesMap ==
  ASSUME NEW op, NEW step, NEW s, NEW t, Does(op, step, s, t), step.do = "map"
  PROVE  /\ step.from \in s.has /\ step.to \in Registers \ s.own
         /\ t = Made(s, step.to)
BY DEF Does, Quiet

LEMMA DoesPicture ==
  ASSUME NEW op, NEW step, NEW s, NEW t, Does(op, step, s, t), step.do = "picture"
  PROVE  "out" \notin s.own /\ t = Made(s, "out")
BY DEF Does, Quiet

LEMMA DoesOverwrite ==
  ASSUME NEW op, NEW step, NEW s, NEW t, Does(op, step, s, t), step.do = "overwrite"
  PROVE  /\ step.of \in s.has /\ step.work.name = "valSampled" /\ t = s
         /\ step.of \in s.own \/ Samples(op)
BY DEF Does, Quiet

LEMMA DoesUpdate ==
  ASSUME NEW op, NEW step, NEW s, NEW t, Does(op, step, s, t), step.do = "update"
  PROVE  /\ step.from \in s.has /\ Callable(step.op)
         /\ \/ /\ step.to \in Registers \ s.own
               /\ t = Made(s, step.to)
            \/ /\ step.to = "slices"
               /\ t = Contoured(s)
BY DEF Does, Quiet, Contoured

LEMMA DoesDelete ==
  ASSUME NEW op, NEW step, NEW s, NEW t, Does(op, step, s, t), step.do = "delete"
  PROVE  /\ step.reg \in s.own /\ step.reg # "in"
         /\ t = Dropping(s, step.reg)
BY DEF Does, Quiet, Dropping

LEMMA DoesAssign ==
  ASSUME NEW op, NEW step, NEW s, NEW t, Does(op, step, s, t), step.do = "assign"
  PROVE  /\ step.from \in s.has \ s.own /\ step.to \in Registers \ s.own
         /\ t = Borrowing(s, step.to)
BY DEF Does, Quiet, Borrowing

LEMMA DoesRestore ==
  ASSUME NEW op, NEW step, NEW s, NEW t, Does(op, step, s, t), step.do = "restore"
  PROVE  /\ "in" \in s.own /\ "old" \in s.has \ s.own
         /\ t = Returning(s)
BY DEF Does, Quiet, Returning

LEMMA DoesMerge ==
  ASSUME NEW op, NEW step, NEW s, NEW t, Does(op, step, s, t), step.do = "merge"
  PROVE  /\ "out" \notin s.own
         /\ PutOut(s, t)
<1>1. /\ "out" \notin s.own
      /\ t = Holding(s.has \cup {"out"}, s.own \cup {"out"}, 0, s.cells)
  BY DEF Does, Quiet
<1>2. QED
  BY <1>1, HoldingIs DEF PutOut

LEMMA DoesTake ==
  ASSUME NEW op, NEW step, NEW s, NEW t, Does(op, step, s, t), step.do = "take"
  PROVE  /\ "out" \notin s.own /\ s.slices = 1
         /\ PutOut(s, t)
<1>1. /\ "out" \notin s.own /\ s.slices = 1
      /\ t = Holding(s.has \cup {"out"}, s.own \cup {"out"}, 0, s.cells)
  BY DEF Does, Quiet
<1>2. QED
  BY <1>1, HoldingIs DEF PutOut

LEMMA DoesMetadata ==
  ASSUME NEW op, NEW step, NEW s, NEW t, Does(op, step, s, t), step.do = "metadata"
  PROVE  "in" \in s.has /\ "out" \in s.own /\ t = s
BY DEF Does, Quiet

(* A step that leads to t. *)
LEMMA LedgerOn ==
  ASSUME NEW f, NEW b, Ledger(f, b), NEW g, Past(f, g, Tail(f.todo)), NEW t,
         Safe(f.op, Tail(f.todo), t), t.cells = b.held.cells,
         Accounts(g.reg, g.slices, t, b.base)
  PROVE  /\ Ledger(g, Book(t, b.base)) /\ g.op = f.op /\ Book(t, b.base).base = b.base
         /\ Whole(g, Book(t, b.base)) = b.base \cup OwnedOf(g.reg, g.slices, t)
<1>1. Book(t, b.base).held = t /\ Book(t, b.base).base = b.base
  BY BookIs
<1>2. IsFrame(g) /\ g.op = f.op /\ g.got = f.got /\ g.todo = Tail(f.todo)
  BY DEF Past
<1>3. Knows(f.op, f.got, b.held.cells)
  BY DEF Ledger
<1>4. Ledger(g, Book(t, b.base))
  BY <1>1, <1>2, <1>3 DEF Ledger
<1>5. QED
  BY <1>1, <1>2, <1>4 DEF Whole

(* What a filter has at a step that is no test. *)
LEMMA StepOf ==
  ASSUME NEW f, NEW b, Ledger(f, b), f.todo # <<>>, Head(f.todo).do \notin {"if", "check"}
  PROVE  /\ \E t : Does(f.op, Head(f.todo), b.held, t) /\ Safe(f.op, Tail(f.todo), t)
         /\ Accounts(f.reg, f.slices, b.held, b.base)
         /\ Whole(f, b) = b.base \cup OwnedOf(f.reg, f.slices, b.held)
<1>1. Safe(f.op, f.todo, b.held)
  BY DEF Ledger
<1>2. ~Blocked(f.op, Head(f.todo))
  BY DEF Blocked
<1>3. \E t : Does(f.op, Head(f.todo), b.held, t) /\ Safe(f.op, Tail(f.todo), t)
  BY <1>1, <1>2, SafeGoesOn
<1>4. QED
  BY <1>3 DEF Ledger, Whole

(* A step that leaves registers and data sets alone. *)
LEMMA QuietSteps ==
  ASSUME NEW f, NEW b, NEW H, StandsAt(f, b, H), f.todo # <<>>, Head(f.todo).do \in Quiet,
         ~Blocked(f.op, Head(f.todo)),
         NEW g, Past(f, g, Tail(f.todo)), g.reg = f.reg, g.slices = f.slices
  PROVE  \E c : StepsTo(f, b, H, g, c, H)
<1> DEFINE s == b.held
           c == Book(s, b.base)
<1>1. Ledger(f, b) /\ IsHeap(H) /\ LiveIn(H) = Whole(f, b)
  BY DEF StandsAt
<1>2. Safe(f.op, f.todo, s) /\ Accounts(g.reg, g.slices, s, b.base)
  BY <1>1 DEF Ledger
<1>3. Head(f.todo).do # "if"
  BY DEF Quiet
<1>4. PICK t : Does(f.op, Head(f.todo), s, t) /\ Safe(f.op, Tail(f.todo), t)
  BY <1>2, <1>3, SafeGoesOn
<1>5. t = s
  BY <1>4, DoesQuiet
<1>6. /\ Ledger(g, c) /\ g.op = f.op /\ c.base = b.base
      /\ Whole(g, c) = b.base \cup OwnedOf(g.reg, g.slices, s)
  BY <1>1, <1>2, <1>4, <1>5, LedgerOn
<1>7. Whole(g, c) = Whole(f, b)
  BY <1>6 DEF Whole
<1>8. Keeping(f.op, b.base, H, H)
  BY KeepingAll
<1> HIDE DEF c
<1>9. StepsTo(f, b, H, g, c, H)
  BY <1>1, <1>6, <1>7, <1>8 DEF StepsTo
<1>10. QED
  BY <1>9

(* A data set is made. *)
LEMMA MakeSteps ==
  ASSUME NEW f, NEW b, NEW H, StandsAt(f, b, H), f.todo # <<>>,
         NEW x, \/ Head(f.todo).do = "map" /\ x = Head(f.todo).to
                \/ Head(f.todo).do = "picture" /\ x = "out",
         NEW g, Past(f, g, Tail(f.todo)), g.reg = [f.reg EXCEPT ![x] = Len(H) + 1],
         g.slices = f.slices, NEW d, IsDataSet(d)
  PROVE  \E c : StepsTo(f, b, H, g, c, Append(H, d))
<1> DEFINE s == b.held
           v == Len(H) + 1
           K == Append(H, d)
<1>1. Ledger(f, b) /\ IsHeap(H) /\ LiveIn(H) = Whole(f, b)
  BY DEF StandsAt
<1>2. /\ \E t : Does(f.op, Head(f.todo), s, t) /\ Safe(f.op, Tail(f.todo), t)
      /\ Accounts(f.reg, f.slices, s, b.base)
      /\ Whole(f, b) = b.base \cup OwnedOf(f.reg, f.slices, s)
  BY <1>1, StepOf
<1>3. PICK t : Does(f.op, Head(f.todo), s, t) /\ Safe(f.op, Tail(f.todo), t)
  BY <1>2
<1>4. x \in Registers \ s.own /\ t = Made(s, x)
  <2>1. "out" \in Registers
    BY DEF Registers
  <2>2. QED
    BY <1>3, <2>1, DoesMap, DoesPicture
<1>5. /\ IsHeap(K) /\ LiveIn(K) = LiveIn(H) \cup {v} /\ v \notin LiveIn(H)
      /\ \A a \in LiveIn(H) : K[a] = H[a]
  BY <1>1, HeapGrows
<1> HIDE DEF v, K
<1>6. v \notin b.base /\ v \notin OwnedOf(f.reg, f.slices, s)
  BY <1>1, <1>2, <1>5
<1>7. Replaced(g.reg, f.reg, x, v)
  <2>1. f.reg = [y \in Registers |-> f.reg[y]]
    BY <1>2 DEF Accounts
  <2>2. g.reg = [f.reg EXCEPT ![x] = v]
    BY DEF v
  <2>3. QED
    BY <1>4, <2>1, <2>2 DEF Replaced
<1>8. /\ Accounts(g.reg, g.slices, t, b.base)
      /\ OwnedOf(g.reg, g.slices, t) = OwnedOf(f.reg, f.slices, s) \cup {v}
  <2> DEFINE new == g.reg
             old == f.reg
  <2>1. Replaced(new, old, x, v) /\ Accounts(old, f.slices, s, b.base)
        /\ v \notin OwnedOf(old, f.slices, s)
    BY <1>2, <1>6, <1>7
  <2> HIDE DEF new, old, s
  <2>2. /\ Accounts(new, f.slices, t, b.base)
        /\ OwnedOf(new, f.slices, t) = OwnedOf(old, f.slices, s) \cup {v}
    BY <1>4, <1>6, <2>1, AccountsMake
  <2>3. QED
    BY <2>2 DEF new, old
<1>9. t.cells = s.cells
  BY <1>4, HoldingIs DEF Made
<1> DEFINE c == Book(t, b.base)
<1>10. /\ Ledger(g, c) /\ g.op = f.op /\ c.base = b.base
       /\ Whole(g, c) = b.base \cup OwnedOf(g.reg, g.slices, t)
  BY <1>1, <1>3, <1>8, <1>9, LedgerOn
<1>11. LiveIn(K) = Whole(g, c)
  BY <1>1, <1>2, <1>5, <1>8, <1>10
<1>12. Keeping(f.op, b.base, H, K)
  <2>1. \A a \in b.base : K[a] = H[a]
    BY <1>1, <1>2, <1>5
  <2>2. QED
    BY <2>1, KeepingAll
<1> HIDE DEF c
<1>13. StepsTo(f, b, H, g, c, K)
  BY <1>5, <1>10, <1>11, <1>12 DEF StepsTo
<1>14. QED
  BY <1>13 DEF K

(* A step that leads to t, and to the data sets of K. *)
LEMMA StepsBy ==
  ASSUME NEW f, NEW b, NEW H, StandsAt(f, b, H), NEW g, Past(f, g, Tail(f.todo)),
         NEW t, Safe(f.op, Tail(f.todo), t), t.cells = b.held.cells,
         Accounts(g.reg, g.slices, t, b.base),
         NEW K, IsHeap(K), LiveIn(K) = b.base \cup OwnedOf(g.reg, g.slices, t),
         Keeping(f.op, b.base, H, K)
  PROVE  \E c : StepsTo(f, b, H, g, c, K)
<1> DEFINE c == Book(t, b.base)
<1>1. Ledger(f, b)
  BY DEF StandsAt
<1>2. /\ Ledger(g, c) /\ g.op = f.op /\ c.base = b.base
      /\ Whole(g, c) = b.base \cup OwnedOf(g.reg, g.slices, t)
  BY <1>1, LedgerOn
<1> HIDE DEF c
<1>3. StepsTo(f, b, H, g, c, K)
  BY <1>2 DEF StepsTo
<1>4. QED
  BY <1>3

(* What a filter that stands at a step has. *)
LEMMA HasAtStep ==
  ASSUME NEW f, NEW b, NEW H, StandsAt(f, b, H), f.todo # <<>>,
         Head(f.todo).do \notin {"if", "check"}
  PROVE  /\ \E t : Does(f.op, Head(f.todo), b.held, t) /\ Safe(f.op, Tail(f.todo), t)
         /\ Accounts(f.reg, f.slices, b.held, b.base)
         /\ IsHeap(H) /\ LiveIn(H) = b.base \cup OwnedOf(f.reg, f.slices, b.held)
         /\ b.base \cap OwnedOf(f.reg, f.slices, b.held) = {}
         /\ \A x \in b.held.has : x \in Registers /\ f.reg[x] \in LiveIn(H)
         /\ \A x \in b.held.own : x \in Registers /\ f.reg[x] \in OwnedOf(f.reg, f.slices, b.held)
<1> DEFINE s == b.held
           owned == OwnedOf(f.reg, f.slices, s)
<1>1. Ledger(f, b) /\ IsHeap(H) /\ LiveIn(H) = Whole(f, b)
  BY DEF StandsAt
<1>2. /\ \E t : Does(f.op, Head(f.todo), s, t) /\ Safe(f.op, Tail(f.todo), t)
      /\ Accounts(f.reg, f.slices, s, b.base)
      /\ Whole(f, b) = b.base \cup owned
  BY <1>1, StepOf
<1>3. /\ s.own \subseteq s.has /\ s.has \subseteq Registers /\ owned \cap b.base = {}
      /\ \A x \in s.has \ s.own : f.reg[x] \in b.base
  BY <1>2 DEF Accounts
<1>4. \A x \in s.own : f.reg[x] \in owned
  BY DEF OwnedOf
<1> HIDE DEF s, owned
<1>5. \A x \in s.has : f.reg[x] \in LiveIn(H)
  BY <1>1, <1>2, <1>3, <1>4
<1>6. QED
  BY <1>1, <1>2, <1>3, <1>4, <1>5 DEF s, owned

(* One register of a frame is replaced. *)
LEMMA ReplacedIs ==
  ASSUME NEW reg, reg = [x \in Registers |-> reg[x]], NEW x \in Registers, NEW v
  PROVE  Replaced([reg EXCEPT ![x] = v], reg, x, v)
BY DEF Replaced

LEMMA AssignSteps ==
  ASSUME NEW f, NEW b, NEW H, StandsAt(f, b, H), f.todo # <<>>, Head(f.todo).do = "assign",
         NEW g, Past(f, g, Tail(f.todo)), g.slices = f.slices,
         g.reg = [f.reg EXCEPT ![Head(f.todo).to] = f.reg[Head(f.todo).from]]
  PROVE  \E c : StepsTo(f, b, H, g, c, H)
<1> DEFINE s == b.held
           from == Head(f.todo).from
           to == Head(f.todo).to
<1>1. /\ \E t : Does(f.op, Head(f.todo), s, t) /\ Safe(f.op, Tail(f.todo), t)
      /\ Accounts(f.reg, f.slices, s, b.base)
      /\ IsHeap(H) /\ LiveIn(H) = b.base \cup OwnedOf(f.reg, f.slices, s)
  BY HasAtStep
<1>2. PICK t : Does(f.op, Head(f.todo), s, t) /\ Safe(f.op, Tail(f.todo), t)
  BY <1>1
<1>3. /\ from \in s.has \ s.own /\ to \in Registers \ s.own
      /\ t = Borrowing(s, to)
  BY <1>2, DoesAssign
<1>4. Replaced(g.reg, f.reg, to, f.reg[from])
  BY <1>1, <1>3, ReplacedIs DEF Accounts
<1>5. t.cells = s.cells
  BY <1>3, HoldingIs DEF Borrowing, Dropping, Returning
<1>6. /\ Accounts(g.reg, g.slices, t, b.base)
      /\ OwnedOf(g.reg, g.slices, t) = OwnedOf(f.reg, f.slices, s)
  <2> DEFINE new == g.reg
             old == f.reg
  <2>1. Replaced(new, old, to, old[from]) /\ Accounts(old, f.slices, s, b.base)
    BY <1>1, <1>4
  <2> HIDE DEF new, old, s, from, to
  <2>2. /\ Accounts(new, f.slices, t, b.base)
        /\ OwnedOf(new, f.slices, t) = OwnedOf(old, f.slices, s)
    BY <1>3, <2>1, AccountsAssign
  <2>3. QED
    BY <2>2 DEF new, old
<1>7. Keeping(f.op, b.base, H, H)
  BY KeepingAll
<1>8. QED
  BY <1>1, <1>2, <1>5, <1>6, <1>7, StepsBy

LEMMA TakeSteps ==
  ASSUME NEW f, NEW b, NEW H, StandsAt(f, b, H), f.todo # <<>>, Head(f.todo).do = "take",
         NEW g, Past(f, g, Tail(f.todo)), g.slices = <<>>,
         g.reg = [f.reg EXCEPT !["out"] = f.slices[1]]
  PROVE  \E c : StepsTo(f, b, H, g, c, H)
<1> DEFINE s == b.held
<1>1. /\ \E t : Does(f.op, Head(f.todo), s, t) /\ Safe(f.op, Tail(f.todo), t)
      /\ Accounts(f.reg, f.slices, s, b.base)
      /\ IsHeap(H) /\ LiveIn(H) = b.base \cup OwnedOf(f.reg, f.slices, s)
  BY HasAtStep
<1>2. PICK t : Does(f.op, Head(f.todo), s, t) /\ Safe(f.op, Tail(f.todo), t)
  BY <1>1
<1>3. /\ "out" \notin s.own /\ s.slices = 1
      /\ PutOut(s, t)
  BY <1>2, DoesTake
<1>4. Replaced(g.reg, f.reg, "out", f.slices[1])
  BY <1>1, ReplacedIs DEF Accounts, Registers
<1>5. t.cells = s.cells /\ PutOut(s, t)
  BY <1>3 DEF PutOut
<1>6. /\ Accounts(g.reg, g.slices, t, b.base)
      /\ OwnedOf(g.reg, g.slices, t) = OwnedOf(f.reg, f.slices, s)
  <2> DEFINE new == g.reg
             old == f.reg
             own == f.slices
  <2>1. Replaced(new, old, "out", own[1]) /\ Accounts(old, own, s, b.base)
    BY <1>1, <1>4
  <2> HIDE DEF new, old, s, own
  <2>2. /\ Accounts(new, <<>>, t, b.base)
        /\ OwnedOf(new, <<>>, t) = OwnedOf(old, own, s)
    BY <1>3, <1>5, <2>1, AccountsTake
  <2>3. QED
    BY <2>2 DEF new, old, own
<1>7. Keeping(f.op, b.base, H, H)
  BY KeepingAll
<1>8. QED
  BY <1>1, <1>2, <1>5, <1>6, <1>7, StepsBy

LEMMA DeleteSteps ==
  ASSUME NEW f, NEW b, NEW H, StandsAt(f, b, H), f.todo # <<>>, Head(f.todo).do = "delete",
         NEW g, Past(f, g, Tail(f.todo)), g.slices = f.slices,
         g.reg = [f.reg EXCEPT ![Head(f.todo).reg] = 0],
         NEW K, FreedAt(K, H, f.reg[Head(f.todo).reg])
  PROVE  \E c : StepsTo(f, b, H, g, c, K)
<1> DEFINE s == b.held
           x == Head(f.todo).reg
           owned == OwnedOf(f.reg, f.slices, s)
           v == f.reg[x]
<1>1. /\ \E t : Does(f.op, Head(f.todo), s, t) /\ Safe(f.op, Tail(f.todo), t)
      /\ Accounts(f.reg, f.slices, s, b.base)
      /\ IsHeap(H) /\ LiveIn(H) = b.base \cup owned /\ b.base \cap owned = {}
      /\ \A y \in s.own : y \in Registers /\ f.reg[y] \in owned
  BY HasAtStep
<1>2. PICK t : Does(f.op, Head(f.todo), s, t) /\ Safe(f.op, Tail(f.todo), t)
  BY <1>1
<1>3. /\ x \in s.own /\ x # "in"
      /\ t = Dropping(s, x)
  BY <1>2, DoesDelete
<1>4. v \in owned
  BY <1>1, <1>3
<1>5. t.cells = s.cells
  BY <1>3, HoldingIs DEF Borrowing, Dropping, Returning
<1>6. /\ Accounts(g.reg, g.slices, t, b.base)
      /\ OwnedOf(g.reg, g.slices, t) = owned \ {v}
  <2> DEFINE new == g.reg
             old == f.reg
  <2>1. new = [old EXCEPT ![x] = 0] /\ x \in Registers
    BY <1>1, <1>3
  <2>2. Accounts(old, f.slices, s, b.base)
    BY <1>1
  <2> HIDE DEF new, old, s, x, owned, v
  <2>3. Replaced(new, old, x, 0)
    BY <2>1, <2>2, ReplacedIs DEF Accounts
  <2>4. /\ Accounts(new, f.slices, t, b.base)
        /\ OwnedOf(new, f.slices, t) = OwnedOf(old, f.slices, s) \ {old[x]}
    BY <1>3, <2>2, <2>3, AccountsDelete
  <2>5. QED
    BY <2>4 DEF new, old, owned, v
<1>7. /\ IsHeap(K) /\ LiveIn(K) = LiveIn(H) \ {v}
      /\ \A a \in LiveIn(H) \ {v} : K[a] = H[a]
  <2>1. IsHeap(H) /\ FreedAt(K, H, v)
    BY <1>1
  <2> HIDE DEF v
  <2>2. QED
    BY <2>1, HeapFreedOne
<1> HIDE DEF v, owned, s, x
<1>8. v \notin b.base
  BY <1>1, <1>4
<1>9. Keeping(f.op, b.base, H, K)
  <2>1. \A a \in b.base : K[a] = H[a]
    BY <1>1, <1>7, <1>8
  <2>2. QED
    BY <2>1, KeepingAll
<1>10. LiveIn(K) = b.base \cup OwnedOf(g.reg, g.slices, t)
  BY <1>1, <1>6, <1>7, <1>8
<1>11. QED
  BY <1>2, <1>5, <1>6, <1>7, <1>9, <1>10, StepsBy DEF s

LEMMA RestoreSteps ==
  ASSUME NEW f, NEW b, NEW H, StandsAt(f, b, H), f.todo # <<>>, Head(f.todo).do = "restore",
         NEW g, Past(f, g, Tail(f.todo)), g.slices = f.slices,
         g.reg = [[f.reg EXCEPT !["in"] = f.reg["old"]] EXCEPT !["old"] = 0],
         NEW K, FreedAt(K, H, f.reg["in"])
  PROVE  \E c : StepsTo(f, b, H, g, c, K)
<1> DEFINE s == b.held
           owned == OwnedOf(f.reg, f.slices, s)
           v == f.reg["in"]
<1>1. /\ \E t : Does(f.op, Head(f.todo), s, t) /\ Safe(f.op, Tail(f.todo), t)
      /\ Accounts(f.reg, f.slices, s, b.base)
      /\ IsHeap(H) /\ LiveIn(H) = b.base \cup owned /\ b.base \cap owned = {}
      /\ \A y \in s.own : y \in Registers /\ f.reg[y] \in owned
  BY HasAtStep
<1>2. PICK t : Does(f.op, Head(f.todo), s, t) /\ Safe(f.op, Tail(f.todo), t)
  BY <1>1
<1>3. /\ "in" \in s.own /\ "old" \in s.has \ s.own
      /\ t = Returning(s)
  BY <1>2, DoesRestore
<1>4. v \in owned
  BY <1>1, <1>3
<1>5. t.cells = s.cells
  BY <1>3, HoldingIs DEF Borrowing, Dropping, Returning
<1>6. /\ Accounts(g.reg, g.slices, t, b.base)
      /\ OwnedOf(g.reg, g.slices, t) = owned \ {v}
  <2> DEFINE new == g.reg
             old == f.reg
  <2>1. Accounts(old, f.slices, s, b.base) /\ old = [y \in Registers |-> old[y]]
    BY <1>1 DEF Accounts
  <2>2. "in" \in Registers /\ "old" \in Registers
    BY DEF Registers
  <2>3. new = [[old EXCEPT !["in"] = old["old"]] EXCEPT !["old"] = 0]
    OBVIOUS
  <2> HIDE DEF new, old, s, owned, v
  <2>4. /\ new = [y \in Registers |-> new[y]] /\ new["in"] = old["old"] /\ new["old"] = 0
        /\ \A y \in Registers : y \notin {"in", "old"} => new[y] = old[y]
    BY <2>1, <2>2, <2>3
  <2>5. /\ Accounts(new, f.slices, t, b.base)
        /\ OwnedOf(new, f.slices, t) = OwnedOf(old, f.slices, s) \ {old["in"]}
    BY <1>3, <2>1, <2>4, AccountsRestore
  <2>6. QED
    BY <2>5 DEF new, old, owned, v
<1>7. /\ IsHeap(K) /\ LiveIn(K) = LiveIn(H) \ {v}
      /\ \A a \in LiveIn(H) \ {v} : K[a] = H[a]
  <2>1. IsHeap(H) /\ FreedAt(K, H, v)
    BY <1>1
  <2> HIDE DEF v
  <2>2. QED
    BY <2>1, HeapFreedOne
<1> HIDE DEF v, owned, s
<1>8. v \notin b.base
  BY <1>1, <1>4
<1>9. Keeping(f.op, b.base, H, K)
  <2>1. \A a \in b.base : K[a] = H[a]
    BY <1>1, <1>7, <1>8
  <2>2. QED
    BY <2>1, KeepingAll
<1>10. LiveIn(K) = b.base \cup OwnedOf(g.reg, g.slices, t)
  BY <1>1, <1>6, <1>7, <1>8
<1>11. QED
  BY <1>2, <1>5, <1>6, <1>7, <1>9, <1>10, StepsBy DEF s

(* Contours become one data set. *)
LEMMA MergeSteps ==
  ASSUME NEW f, NEW b, NEW H, StandsAt(f, b, H), f.todo # <<>>, Head(f.todo).do = "merge",
         NEW g, Past(f, g, Tail(f.todo)), g.slices = <<>>,
         g.reg = [f.reg EXCEPT !["out"] = Len(H) + 1],
         NEW L, NEW D, D = {f.slices[i] : i \in 1 .. Len(f.slices)}, Emptied(L, H, D),
         NEW d, IsDataSet(d), NEW K, K = Append(L, d)
  PROVE  \E c : StepsTo(f, b, H, g, c, K)
<1> DEFINE s == b.held
           v == Len(H) + 1
           owned == OwnedOf(f.reg, f.slices, s)
           kept == {f.reg[x] : x \in s.own}
<1>1. /\ \E t : Does(f.op, Head(f.todo), s, t) /\ Safe(f.op, Tail(f.todo), t)
      /\ Accounts(f.reg, f.slices, s, b.base)
      /\ IsHeap(H) /\ LiveIn(H) = b.base \cup owned /\ b.base \cap owned = {}
  BY HasAtStep
<1>2. PICK t : Does(f.op, Head(f.todo), s, t) /\ Safe(f.op, Tail(f.todo), t)
  BY <1>1
<1>3. "out" \notin s.own /\ PutOut(s, t)
  BY <1>2, DoesMerge
<1>4. owned = kept \cup D
  BY DEF OwnedOf
<1>5. kept \cap D = {}
  BY <1>1 DEF Accounts
<1>6. /\ IsHeap(L) /\ LiveIn(L) = LiveIn(H) \ D /\ Len(L) = Len(H)
      /\ \A a \in LiveIn(H) \ D : L[a] = H[a]
  <2>1. IsHeap(H)
    BY <1>1
  <2>2. QED
    BY <2>1, HeapFreed
<1>7. /\ IsHeap(K) /\ LiveIn(K) = LiveIn(L) \cup {v}
      /\ \A a \in LiveIn(L) : K[a] = L[a]
  <2>1. /\ IsHeap(Append(L, d)) /\ LiveIn(Append(L, d)) = LiveIn(L) \cup {Len(L) + 1}
        /\ \A a \in LiveIn(L) : Append(L, d)[a] = L[a]
    BY <1>6, HeapGrows, Zenon
  <2>2. Len(L) = Len(H)
    BY <1>6
  <2>3. QED
    BY <2>1, <2>2, Zenon
<1>8. v \notin LiveIn(H)
  <2>1. v \notin DOMAIN H
    <3>1. Len(H) \in Nat /\ DOMAIN H = 1 .. Len(H)
      BY <1>1, ListIs DEF IsHeap
    <3> DEFINE n == Len(H)
    <3>2. n \in Nat /\ DOMAIN H = 1 .. n
      BY <3>1
    <3> HIDE DEF n
    <3>3. n + 1 \notin 1 .. n
      BY <3>2
    <3>4. QED
      BY <3>2, <3>3 DEF n
  <2>2. QED
    BY <2>1 DEF LiveIn
<1>9. "out" \in Registers /\ f.reg = [y \in Registers |-> f.reg[y]]
  BY <1>1 DEF Accounts, Registers
<1>10. \A x \in s.own : f.reg[x] \in kept
  OBVIOUS
<1> HIDE DEF v, owned, kept, s
<1>11. /\ v \notin b.base /\ \A x \in s.own : f.reg[x] # v
  BY <1>1, <1>4, <1>8, <1>10
<1>12. /\ Accounts(g.reg, g.slices, t, b.base)
       /\ OwnedOf(g.reg, g.slices, t) = kept \cup {v}
  <2> DEFINE new == g.reg
             old == f.reg
             own == f.slices
  <2>1. new = [old EXCEPT !["out"] = v]
    BY DEF v
  <2>2. Accounts(old, own, s, b.base) /\ \A x \in s.own : old[x] # v
    BY <1>1, <1>11
  <2>3. old = [y \in Registers |-> old[y]]
    BY <1>9
  <2> HIDE DEF new, old, own
  <2>4. Replaced(new, old, "out", v)
    BY <1>9, <2>1, <2>3, ReplacedIs
  <2>5. /\ Accounts(new, <<>>, t, b.base)
        /\ OwnedOf(new, <<>>, t) = {old[x] : x \in s.own} \cup {v}
    BY <1>3, <1>11, <2>2, <2>4, AccountsMerge
  <2>6. QED
    BY <2>5 DEF new, old, kept
<1>13. t.cells = s.cells
  BY <1>3 DEF PutOut
<1>14. LiveIn(K) = b.base \cup OwnedOf(g.reg, g.slices, t)
  BY <1>1, <1>4, <1>5, <1>6, <1>7, <1>12
<1>15. Keeping(f.op, b.base, H, K)
  <2>1. \A a \in b.base : K[a] = H[a]
    BY <1>1, <1>4, <1>6, <1>7
  <2>2. QED
    BY <2>1, KeepingAll
<1>16. IsHeap(K) /\ Safe(f.op, Tail(f.todo), t)
  BY <1>2, <1>7
<1>17. QED
  BY <1>12, <1>13, <1>14, <1>15, <1>16, StepsBy DEF s

(* The steps that write to the data set of a register, and what those may     *)
(* write that write to data of the host.                                    *)
WritesTo(step, x) ==
  \/ step.do = "overwrite" /\ x = step.of
  \/ step.do = "metadata" /\ x = "out"

MayWrite(step, d, old) ==
  /\ IsDataSet(d)
  /\ step.do = "overwrite" /\ step.work.name = "valSampled" =>
       WithoutSample(d.doms) = WithoutSample(old.doms) /\ d.cycle = old.cycle

(* A data set is written to, of the filter's own or with a sample. *)
LEMMA WriteSteps ==
  ASSUME NEW f, NEW b, NEW H, StandsAt(f, b, H), f.todo # <<>>,
         NEW x, WritesTo(Head(f.todo), x),
         NEW g, Past(f, g, Tail(f.todo)), g.slices = f.slices, g.reg = f.reg,
         NEW d, f.reg[x] \in LiveIn(H) => MayWrite(Head(f.todo), d, H[f.reg[x]]),
         NEW K, Written(K, H, f.reg[x], d)
  PROVE  \E c : StepsTo(f, b, H, g, c, K)
<1> DEFINE s == b.held
           v == f.reg[x]
           owned == OwnedOf(f.reg, f.slices, s)
<1>0. Head(f.todo).do \notin {"if", "check"}
  BY DEF WritesTo
<1>1. /\ \E t : Does(f.op, Head(f.todo), s, t) /\ Safe(f.op, Tail(f.todo), t)
      /\ Accounts(f.reg, f.slices, s, b.base)
      /\ IsHeap(H) /\ LiveIn(H) = b.base \cup owned /\ b.base \cap owned = {}
      /\ (\A y \in s.has : f.reg[y] \in LiveIn(H))
      /\ (\A y \in s.own : f.reg[y] \in owned)
  BY <1>0, HasAtStep
<1>2. PICK t : Does(f.op, Head(f.todo), s, t) /\ Safe(f.op, Tail(f.todo), t)
  BY <1>1
<1>3. /\ t = s /\ x \in s.has
      /\ \/ x \in s.own
         \/ Samples(f.op) /\ Head(f.todo).do = "overwrite" /\ Head(f.todo).work.name = "valSampled"
  <2>1. s.own \subseteq s.has
    BY <1>1 DEF Accounts
  <2>2. CASE Head(f.todo).do = "overwrite"
    BY <1>2, <2>2, DoesOverwrite DEF WritesTo
  <2>3. CASE Head(f.todo).do = "metadata" /\ x = "out"
    BY <1>2, <2>1, <2>3, DoesMetadata
  <2>4. QED
    BY <2>2, <2>3 DEF WritesTo
<1>4. v \in LiveIn(H) /\ IsDataSet(d)
  BY <1>1, <1>3 DEF MayWrite
<1>5. Written(K, H, v, d)
  OBVIOUS
<1>6. /\ Accounts(g.reg, g.slices, t, b.base)
      /\ OwnedOf(g.reg, g.slices, t) = owned
  BY <1>1, <1>3
<1>7. x \in s.own => v \in owned
  BY <1>1
<1>8. Samples(f.op) /\ Head(f.todo).do = "overwrite" /\ Head(f.todo).work.name = "valSampled" =>
        WithoutSample(d.doms) = WithoutSample(H[v].doms) /\ d.cycle = H[v].cycle
  BY <1>4 DEF MayWrite
<1> HIDE DEF v, owned, s
<1>9. /\ IsHeap(K) /\ LiveIn(K) = LiveIn(H) /\ K[v] = d
      /\ \A a \in LiveIn(H) : a # v => K[a] = H[a]
  <2>1. IsHeap(H)
    BY <1>1
  <2>2. QED
    BY <1>4, <1>5, <2>1, HeapWritten
<1>10. Keeping(f.op, b.base, H, K)
  <2>1. CASE x \in s.own
    <3>1. \A a \in b.base : K[a] = H[a]
      BY <1>1, <1>7, <1>9, <2>1
    <3>2. QED
      BY <3>1, KeepingAll
  <2>2. CASE Samples(f.op) /\ Head(f.todo).do = "overwrite" /\ Head(f.todo).work.name = "valSampled"
    <3>1. \A a \in b.base : a # v => K[a] = H[a]
      BY <1>1, <1>9
    <3>2. QED
      BY <1>8, <1>9, <2>2, <3>1 DEF Keeping
  <2>3. QED
    BY <1>3, <2>1, <2>2
<1>11. LiveIn(K) = b.base \cup OwnedOf(g.reg, g.slices, t)
  BY <1>1, <1>6, <1>9
<1>12. t.cells = s.cells /\ Safe(f.op, Tail(f.todo), t)
  BY <1>2, <1>3
<1>13. QED
  BY <1>6, <1>9, <1>10, <1>11, <1>12, StepsBy DEF s

(* A domain without the field that HistSampling adds. *)
Unsampled(dom) == [dom EXCEPT !.fields = [n \in DOMAIN @ \ {"valSampled"} |-> @[n]]]

(* A domain with a sample added is the same without. *)
LEMMA SampleKeepsDomain ==
  ASSUME NEW dom, NEW field
  PROVE  Unsampled(AddField(dom, "valSampled", field)) = Unsampled(dom)
<1> DEFINE F == dom.fields
           name == "valSampled"
           new == [n \in DOMAIN F \cup {name} |-> IF n = name THEN field ELSE F[n]]
           with == [dom EXCEPT !.fields = new]
           W == with.fields
<1>1. [n \in DOMAIN new \ {name} |-> new[n]] = [n \in DOMAIN F \ {name} |-> F[n]]
  OBVIOUS
<1>2. AddField(dom, "valSampled", field) = with
  BY DEF AddField
<1>3. CASE "fields" \in DOMAIN dom
  <2>1. W = new
    BY <1>3
  <2> DEFINE some == [n \in DOMAIN F \ {name} |-> F[n]]
  <2>2. [n \in DOMAIN W \ {name} |-> W[n]] = some
    BY <1>1, <2>1
  <2>3. [with EXCEPT !.fields = [n \in DOMAIN W \ {name} |-> W[n]]] = [with EXCEPT !.fields = some]
    BY <2>2
  <2> HIDE DEF new
  <2>4. [with EXCEPT !.fields = some] = [dom EXCEPT !.fields = some]
    OBVIOUS
  <2>5. QED
    BY <1>2, <2>3, <2>4 DEF Unsampled
<1>4. CASE "fields" \notin DOMAIN dom
  <2>1. \A v : [dom EXCEPT !.fields = v] = [x \in DOMAIN dom |-> dom[x]]
    BY <1>4
  <2>2. with = [x \in DOMAIN dom |-> dom[x]]
    BY <2>1
  <2>3. \A v : [with EXCEPT !.fields = v] = [x \in DOMAIN dom |-> dom[x]]
    BY <1>4, <2>2
  <2> HIDE DEF with, F
  <2>4. QED
    BY <1>2, <2>1, <2>3 DEF Unsampled, F, with
<1>5. QED
  BY <1>3, <1>4

(* The domains after a loop that writes to them. *)
Reworked(work, sel, got, doms) == [i \in DOMAIN doms |-> Worked(work, sel, got, doms[i])]

(* The loop of HistSampling adds its field and nothing else. *)
LEMMA SampleKeeps ==
  ASSUME NEW work, work.name = "valSampled", NEW sel, NEW got, NEW doms
  PROVE  WithoutSample(Reworked(work, sel, got, doms)) = WithoutSample(doms)
<1> DEFINE done == Reworked(work, sel, got, doms)
<1>1. ASSUME NEW dom PROVE Unsampled(Worked(work, sel, got, dom)) = Unsampled(dom)
  <2>1. CASE Keeps(work, dom)
    BY <2>1 DEF Worked
  <2>2. CASE ~Keeps(work, dom)
    <3>1. Worked(work, sel, got, dom) = Sample(dom, work, got)
      BY <2>2 DEF Worked, OnDomain
    <3>2. PICK field : Sample(dom, work, got) = AddField(dom, "valSampled", field)
      BY DEF Sample
    <3>3. QED
      BY <3>1, <3>2, SampleKeepsDomain
  <2>3. QED
    BY <2>1, <2>2
<1>2. DOMAIN done = DOMAIN doms /\ \A i \in DOMAIN doms : done[i] = Worked(work, sel, got, doms[i])
  BY DEF Reworked
<1>3. WithoutSample(done) = [i \in DOMAIN done |-> Unsampled(done[i])]
  BY DEF WithoutSample, Unsampled
<1>4. WithoutSample(doms) = [i \in DOMAIN doms |-> Unsampled(doms[i])]
  BY DEF WithoutSample, Unsampled
<1>5. \A i \in DOMAIN doms : Unsampled(done[i]) = Unsampled(doms[i])
  BY <1>1, <1>2
<1> HIDE DEF done
<1>6. WithoutSample(done) = WithoutSample(doms)
  BY <1>2, <1>3, <1>4, <1>5
<1>7. QED
  BY <1>6 DEF done

LEMMA OverwriteSteps ==
  ASSUME NEW f, NEW b, NEW H, StandsAt(f, b, H), f.todo # <<>>,
         Head(f.todo).do = "overwrite",
         NEW g, Past(f, g, Tail(f.todo)), g.slices = f.slices, g.reg = f.reg,
         NEW v, v = f.reg[Head(f.todo).of],
         NEW K, K = [H EXCEPT ![v] =
                      [H[v] EXCEPT !.doms =
                          Reworked(Head(f.todo).work, f.sel, f.got, H[v].doms)]]
  PROVE  \E c : StepsTo(f, b, H, g, c, K)
<1> DEFINE step == Head(f.todo)
           work == step.work
           doms == Reworked(work, f.sel, f.got, H[v].doms)
           d == [H[v] EXCEPT !.doms = doms]
<1>1. K = [H EXCEPT ![v] = d]
  OBVIOUS
<1>2. work.name = "valSampled" => WithoutSample(doms) = WithoutSample(H[v].doms)
  BY SampleKeeps
<1> HIDE DEF doms
<1>3. IsHeap(H)
  BY DEF StandsAt
<1>4. v \in LiveIn(H) => IsDataSet(H[v])
  BY <1>3 DEF IsHeap
<1>5. v \in LiveIn(H) => IsDataSet(d) /\ d.doms = doms /\ d.cycle = H[v].cycle
  <2> DEFINE e == H[v]
  <2>1. v \in LiveIn(H) => IsDataSet(e)
    BY <1>4
  <2> HIDE DEF e
  <2>2. v \in LiveIn(H) => /\ IsDataSet([e EXCEPT !.doms = doms])
                           /\ [e EXCEPT !.doms = doms].doms = doms
                           /\ [e EXCEPT !.doms = doms].cycle = e.cycle
    BY <2>1, DataSetWith
  <2>3. QED
    BY <2>2 DEF e
<1> HIDE DEF d
<1>6. v \in LiveIn(H) => MayWrite(step, d, H[v])
  BY <1>2, <1>5 DEF MayWrite
<1> DEFINE x == step.of
<1>7. WritesTo(step, x) /\ v = f.reg[x] /\ Written(K, H, v, d)
  BY <1>1 DEF WritesTo, Written
<1> HIDE DEF x
<1>8. QED
  BY <1>6, <1>7, WriteSteps

LEMMA MetadataSteps ==
  ASSUME NEW f, NEW b, NEW H, StandsAt(f, b, H), f.todo # <<>>,
         Head(f.todo).do = "metadata",
         NEW g, Past(f, g, Tail(f.todo)), g.slices = f.slices, g.reg = f.reg,
         NEW v, v = f.reg["out"],
         NEW K, K = [H EXCEPT ![v] = [H[v] EXCEPT !.cycle = H[f.reg["in"]].cycle]]
  PROVE  \E c : StepsTo(f, b, H, g, c, K)
<1> DEFINE step == Head(f.todo)
           d == [H[v] EXCEPT !.cycle = H[f.reg["in"]].cycle]
<1>1. K = [H EXCEPT ![v] = d]
  OBVIOUS
<1>2. /\ IsHeap(H) /\ Accounts(f.reg, f.slices, b.held, b.base)
      /\ \A x \in b.held.has : f.reg[x] \in LiveIn(H)
  BY HasAtStep
<1>3. f.reg["in"] \in LiveIn(H)
  BY <1>2 DEF Accounts
<1>4. H[f.reg["in"]].cycle \in Nat
  BY <1>2, <1>3 DEF IsHeap, IsDataSet
<1>5. v \in LiveIn(H) => IsDataSet(H[v])
  BY <1>2 DEF IsHeap
<1>6. v \in LiveIn(H) => IsDataSet(d)
  BY <1>4, <1>5, DataSetWith
<1> HIDE DEF d
<1>7. v \in LiveIn(H) => MayWrite(step, d, H[v])
  BY <1>6 DEF MayWrite
<1> DEFINE x == "out"
<1>8. WritesTo(step, x) /\ v = f.reg[x] /\ Written(K, H, v, d)
  BY <1>1 DEF WritesTo, Written
<1> HIDE DEF x
<1>9. QED
  BY <1>7, <1>8, WriteSteps

(* A filter that goes on with the same data and other knowledge. *)
LEMMA KnowsSteps ==
  ASSUME NEW f, NEW b, NEW H, StandsAt(f, b, H),
         NEW g, IsFrame(g), g.op = f.op, g.slices = f.slices, g.reg = f.reg,
         NEW k, NEW t, t = Holding(b.held.has, b.held.own, b.held.slices, k),
         Knows(f.op, g.got, k), Safe(f.op, g.todo, t)
  PROVE  \E c : StepsTo(f, b, H, g, c, H)
<1> DEFINE s == b.held
           c == Book(t, b.base)
<1>1. Ledger(f, b) /\ IsHeap(H) /\ LiveIn(H) = Whole(f, b)
  BY DEF StandsAt
<1>2. Accounts(f.reg, f.slices, s, b.base)
  BY <1>1 DEF Ledger
<1> DEFINE reg == f.reg
           slices == f.slices
           base == b.base
<1>3. /\ Accounts(reg, slices, t, base)
      /\ OwnedOf(reg, slices, t) = OwnedOf(reg, slices, s)
  <2>1. Accounts(reg, slices, s, base) /\ t = Holding(s.has, s.own, s.slices, k)
    BY <1>2
  <2> HIDE DEF reg, slices, base, s
  <2>2. QED
    BY <2>1, AccountsLearn
<1>4. c.held = t /\ c.base = base /\ t.cells = k
  BY BookIs, HoldingIs
<1> HIDE DEF c
<1>5. Ledger(g, c)
  BY <1>3, <1>4 DEF Ledger
<1>6. LiveIn(H) = Whole(g, c)
  BY <1>1, <1>3, <1>4 DEF Whole
<1>7. Keeping(f.op, b.base, H, H)
  BY KeepingAll
<1>8. StepsTo(f, b, H, g, c, H)
  BY <1>1, <1>4, <1>5, <1>6, <1>7 DEF StepsTo
<1>9. QED
  BY <1>8

(* An answer. *)
LEMMA AnswerSteps ==
  ASSUME NEW f, NEW b, NEW H, StandsAt(f, b, H), f.todo # <<>>, Head(f.todo).do = "ask",
         NEW g, IsFrame(g), g.op = f.op, g.slices = f.slices, g.reg = f.reg,
         g.todo = Tail(f.todo), NEW heard, g.got = LearntFrom(f.got, Head(f.todo), heard)
  PROVE  \E c : StepsTo(f, b, H, g, c, H)
<1> DEFINE s == b.held
           op == f.op
           step == Head(f.todo)
           k == Learned(op, step, s.cells)
<1>1. PICK t : Does(op, step, s, t) /\ Safe(op, Tail(f.todo), t)
  BY HasAtStep
<1>2. t = Holding(s.has, s.own, s.slices, k)
  BY <1>1, DoesAsk
<1>3. Knows(op, f.got, s.cells)
  BY DEF StandsAt, Ledger
<1>4. Knows(op, g.got, k)
  <2> DEFINE new == g.got
             old == f.got
             key == <<step.q, step.f>>
             answer == AnswerTo(step.q, heard, old)
  <2>1. new = [x \in DOMAIN old \cup {<<step.q, step.f>>} |->
                 IF x = <<step.q, step.f>> THEN answer ELSE old[x]]
    BY DEF LearntFrom
  <2>2. Knows(op, old, s.cells)
    BY <1>3
  <2> HIDE DEF new, old, op, step, s, answer
  <2>3. Knows(op, new, Learned(op, step, s.cells))
    BY <2>1, <2>2, KnowsMore
  <2>4. QED
    BY <2>3 DEF new, op, step, s
<1> HIDE DEF k
<1>5. QED
  BY <1>1, <1>2, <1>4, KnowsSteps

(* A test. *)
LEMMA BranchSteps ==
  ASSUME NEW f, NEW b, NEW H, StandsAt(f, b, H), f.todo # <<>>, Head(f.todo).do = "if",
         NEW chosen, chosen = IF Told(f.op, f.got, Head(f.todo).test, Head(f.todo).f)
                              THEN Head(f.todo).then ELSE Head(f.todo).else,
         NEW g, Past(f, g, Then(chosen, Tail(f.todo))), g.slices = f.slices, g.reg = f.reg
  PROVE  \E c : StepsTo(f, b, H, g, c, H)
<1> DEFINE s == b.held
           op == f.op
           got == f.got
           step == Head(f.todo)
           rest == Tail(f.todo)
<1>1. /\ Knows(op, got, s.cells) /\ Safe(op, f.todo, s)
      /\ Accounts(f.reg, f.slices, s, b.base)
  BY DEF StandsAt, Ledger
<1>2. s = Holding(s.has, s.own, s.slices, s.cells)
  BY <1>1 DEF Accounts
<1>3. /\ MayBranch(op, step, s)
      /\ \A branch, t : Goes(op, step, s, branch, t) => Safe(op, Then(branch, rest), t)
  BY <1>1, SafeGoesOn
<1>4. chosen = IF Told(op, got, step.test, step.f) THEN step.then ELSE step.else
  OBVIOUS
<1>5. IsFrame(g) /\ g.op = op /\ g.got = got /\ g.todo = Then(chosen, rest)
  BY DEF Past
<1> HIDE DEF s, op, got, step, rest
<1>6. PICK t : /\ Goes(op, step, s, chosen, t)
               /\ \E k : t = Holding(s.has, s.own, s.slices, k) /\ Knows(op, got, k)
  BY <1>1, <1>2, <1>3, <1>4, GoesWhere
<1>7. PICK k : t = Holding(s.has, s.own, s.slices, k) /\ Knows(op, got, k)
  BY <1>6
<1>8. Safe(op, Then(chosen, rest), t)
  BY <1>3, <1>6
<1>9. QED
  BY <1>5, <1>7, <1>8, KnowsSteps DEF s, op

(* Questions about counters change nothing of what a filter has. *)
AsksCounter(step) == step.do = "ask" /\ step.of = "in" /\ step.q = "counter"

LEMMA CountersAsked ==
  ASSUME NEW op, NEW s, s = Holding(s.has, s.own, s.slices, s.cells), "in" \in s.has,
         NEW asks, IsList(asks), \A i \in 1 .. Len(asks) : AsksCounter(asks[i])
  PROVE  Leads(op, {s}, asks, {s})
<1> DEFINE Goal(list) == IsList(list) /\ (\A i \in 1 .. Len(list) : AsksCounter(list[i]))
                         => Leads(op, {s}, list, {s})
           N == {n \in Nat : \A list : Len(list) = n => Goal(list)}
<1>1. ASSUME NEW step, AsksCounter(step)
      PROVE  Leads(op, {s}, <<step>>, {s})
  <2>1. Learned(op, step, s.cells) = s.cells
    BY <1>1 DEF Learned, AsksCounter
  <2>2. Does(op, step, s, s)
    BY <1>1, <2>1, Zenon DEF Does, AsksCounter
  <2>3. QED
    BY <2>2, LeadsStep
<1>2. 0 \in N
  <2> SUFFICES ASSUME NEW list, Len(list) = 0, IsList(list) PROVE Leads(op, {s}, list, {s})
    OBVIOUS
  <2>1. list = <<>>
    BY ListIs
  <2>2. QED
    BY <2>1, LeadsNone
<1>3. ASSUME NEW n \in Nat, n \in N
      PROVE  n + 1 \in N
  <2> SUFFICES ASSUME NEW list, Len(list) = n + 1
               PROVE  Goal(list)
    <3> HIDE DEF Goal
    <3>1. QED
      OBVIOUS
  <2> SUFFICES ASSUME IsList(list), \A i \in 1 .. Len(list) : AsksCounter(list[i])
               PROVE  Leads(op, {s}, list, {s})
    OBVIOUS
  <2>1. list # <<>>
    BY ListIs
  <2>2. /\ Head(list) = list[1] /\ IsList(Tail(list)) /\ Len(Tail(list)) = Len(list) - 1
        /\ \A i \in 1 .. Len(list) - 1 : Tail(list)[i] = list[i + 1]
    BY <2>1, HeadTail
  <2>3. Len(Tail(list)) = n
    BY <2>2
  <2>4. AsksCounter(Head(list)) /\ \A i \in 1 .. Len(Tail(list)) : AsksCounter(Tail(list)[i])
    BY <2>2, <2>3
  <2>5. Leads(op, {s}, Tail(list), {s})
    BY <1>3, <2>2, <2>3, <2>4
  <2>6. Leads(op, {s}, <<Head(list)>>, {s})
    BY <1>1, <2>4
  <2>7. list = <<Head(list)>> \o Tail(list)
    BY <2>1, HeadThenTail
  <2> DEFINE p == <<Head(list)>>
             q == Tail(list)
             S == {s}
  <2>8. Leads(op, S, p \o q, S)
    <3>1. Leads(op, S, p, S) /\ Leads(op, S, q, S)
      BY <2>5, <2>6
    <3> HIDE DEF p, q, S
    <3>2. QED
      BY <3>1, LeadsJoined
  <2>9. QED
    BY <2>7, <2>8
<1>4. Nat \subseteq N
  <2> HIDE DEF N
  <2>1. QED
    BY <1>2, <1>3, NatInductionSet
<1>5. Len(asks) \in N
  BY <1>4, ListIs
<1>6. QED
  BY <1>5

(* All that TotalVal asks. *)
LEMMA CounterStepsLead ==
  ASSUME NEW op, NEW s, s = Holding(s.has, s.own, s.slices, s.cells), "in" \in s.has,
         NEW names, IsFiniteSet(names)
  PROVE  Leads(op, {s}, CounterSteps(names), {s})
<1> DEFINE n == Cardinality(names)
           seq == SetToSeq(names)
           asks == [i \in DOMAIN seq |-> Ask("counter", "in", seq[i])]
<1>1. n \in Nat /\ ExistsBijection(1 .. n, names)
  BY FS_CardinalityType
<1>2. \E f \in [1 .. n -> names] : IsInjective(f)
  BY <1>1 DEF ExistsBijection, Bijection, Injection
<1>3. seq \in [1 .. n -> names]
  BY <1>2 DEF SetToSeq
<1> HIDE DEF n, seq
<1>4. asks = [i \in 1 .. n |-> asks[i]]
  BY <1>3
<1>5. \A i \in 1 .. n : AsksCounter(asks[i])
  BY <1>3 DEF AsksCounter, Ask
<1> HIDE DEF asks
<1>6. IsList(asks) /\ Len(asks) = n
  BY <1>1, <1>4, ListOf
<1>7. Leads(op, {s}, asks, {s})
  BY <1>5, <1>6, CountersAsked
<1>8. Leads(op, {s}, <<Do("computed")>>, {s})
  BY LeadsDo DEF Quiet
<1>9. Leads(op, {s}, asks \o <<Do("computed")>>, {s})
  BY <1>7, <1>8, LeadsJoined
<1>10. QED
  BY <1>9 DEF CounterSteps, asks, seq

(* The totals are asked for. *)
LEMMA CalcSteps ==
  ASSUME NEW f, NEW b, NEW H, StandsAt(f, b, H), f.todo # <<>>, Head(f.todo).do = "calcStats",
         NEW names, IsFiniteSet(names), NEW asks, asks \in {<<>>, CounterSteps(names)},
         NEW g, Past(f, g, Then(asks, Tail(f.todo))), g.slices = f.slices, g.reg = f.reg
  PROVE  \E c : StepsTo(f, b, H, g, c, H)
<1> DEFINE s == b.held
           op == f.op
           rest == Tail(f.todo)
<1>1. /\ Knows(op, f.got, s.cells) /\ Safe(op, f.todo, s)
      /\ Accounts(f.reg, f.slices, s, b.base)
  BY DEF StandsAt, Ledger
<1>2. s = Holding(s.has, s.own, s.slices, s.cells) /\ "in" \in s.has
  BY <1>1 DEF Accounts
<1>3. IsList(rest)
  BY <1>1, SafeGoesOn, HeadTail
<1>4. Safe(op, rest, s)
  <2>1. PICK t : Does(op, Head(f.todo), s, t) /\ Safe(op, rest, t)
    BY HasAtStep
  <2>2. t = s
    BY <2>1, DoesQuiet DEF Quiet
  <2>3. QED
    BY <2>1, <2>2
<1>5. IsFrame(g) /\ g.op = op /\ g.got = f.got /\ g.todo = Then(asks, rest)
  BY DEF Past
<1> HIDE DEF s, op, rest
<1>6. Leads(op, {s}, asks, {s})
  BY <1>2, LeadsNone, CounterStepsLead
<1>7. \A x \in {s} : Safe(op, Then(asks, rest), x)
  BY <1>3, <1>4, <1>6 DEF Leads
<1>8. Safe(op, g.todo, s) /\ Knows(op, g.got, s.cells)
  BY <1>1, <1>5, <1>7
<1>9. QED
  BY <1>2, <1>5, <1>8, KnowsSteps DEF s, op

-----------------------------------------------------------------------------
(* The actions of a rank, as steps of its innermost filter. *)

(* g has the data of f, and what is changed of it. *)
SameData(f, g) == g.reg = f.reg /\ g.slices = f.slices

Changed(f, g) ==
  /\ SameData(f, g)
  /\ \A v : SameData(f, [g EXCEPT !.sel = v])
  /\ \A v : SameData(f, [g EXCEPT !.todo = v])
  /\ \A v : SameData(f, [g EXCEPT !.got = v])
  /\ \A v : [g EXCEPT !.reg = v].reg = v /\ [g EXCEPT !.reg = v].slices = f.slices
  /\ \A v : [g EXCEPT !.slices = v].slices = v /\ [g EXCEPT !.slices = v].reg = f.reg
  /\ \A v, w : /\ [g EXCEPT !.reg = v, !.slices = w].reg = v
               /\ [g EXCEPT !.reg = v, !.slices = w].slices = w

LEMMA DataOf ==
  ASSUME NEW f, IsFrame(f), NEW t
  PROVE  Changed(f, [f EXCEPT !.todo = t])
<1> DEFINE g == [f EXCEPT !.todo = t]
           D == DOMAIN f
<1>1. D = {"op", "todo", "reg", "slices", "sel", "got"} /\ f = [x \in D |-> f[x]]
  BY DEF IsFrame
<1> HIDE DEF D
<1>2. g = [x \in D |-> IF x = "todo" THEN t ELSE f[x]]
  BY <1>1
<1> HIDE DEF g
<1> USE <1>1, <1>2 DEF SameData
<1>3. SameData(f, g)
  OBVIOUS
<1>4. \A v : SameData(f, [g EXCEPT !.sel = v])
  OBVIOUS
<1>5. \A v : SameData(f, [g EXCEPT !.todo = v])
  OBVIOUS
<1>6. \A v : SameData(f, [g EXCEPT !.got = v])
  OBVIOUS
<1>7. \A v : [g EXCEPT !.reg = v].reg = v /\ [g EXCEPT !.reg = v].slices = f.slices
  OBVIOUS
<1>8. \A v : [g EXCEPT !.slices = v].slices = v /\ [g EXCEPT !.slices = v].reg = f.reg
  OBVIOUS
<1>9. \A v, w : /\ [g EXCEPT !.reg = v, !.slices = w].reg = v
                /\ [g EXCEPT !.reg = v, !.slices = w].slices = w
  OBVIOUS
<1>10. QED
  BY <1>3, <1>4, <1>5, <1>6, <1>7, <1>8, <1>9, Zenon DEF Changed, g

(* What a rank that is at a step goes on with. *)
LEMMA AtItsStep ==
  ASSUME WayInv, NEW r \in Ranks, NEW what, Doing(r, what)
  PROVE  /\ Moved(Top(r), Rest(r), Tail(Top(r).todo)) /\ Changed(Top(r), Rest(r))
         /\ Top(r).todo # <<>> /\ Head(Top(r).todo) = Step(r) /\ Step(r).do = what
         /\ stack[r] # <<>> /\ status[r] = "running"
<1>1. /\ IsFrame(Top(r)) /\ Top(r).todo # <<>> /\ Step(r) = Head(Top(r).todo)
      /\ status[r] = "running"
  BY DoingIs
<1>2. Moved(Top(r), Rest(r), Tail(Top(r).todo))
  BY RestIs
<1>3. Changed(Top(r), Rest(r))
  BY <1>1, DataOf DEF Rest
<1>4. QED
  BY <1>1, <1>2, <1>3 DEF Doing

(* The filter goes on with the data sets it has. *)
LEMMA HeapStays ==
  ASSUME OwnInv, NEW r \in Ranks, heap' = heap
  PROVE  heap' = [heap EXCEPT ![r] = heap[r]]
BY DEF OwnInv

(* A step that leaves registers and data sets alone, *)
LEMMA QuietOwns ==
  ASSUME WayInv, OwnInv, NEW r \in Ranks, NEW what \in Quiet, Doing(r, what),
         ~Blocked(Top(r).op, Step(r)), NEW g, Past(Top(r), g, Tail(Top(r).todo)),
         SameData(Top(r), g), stack' = Put(r, g),
         UNCHANGED <<scenario, status, heap, results>>
  PROVE  OwnInv' /\ HostsKeep
<1> DEFINE f == Top(r)
           H == heap[r]
<1>1. /\ f.todo # <<>> /\ Head(f.todo) = Step(r) /\ Step(r).do = what
      /\ stack[r] # <<>> /\ status[r] = "running"
  BY AtItsStep
<1>2. heap' = [heap EXCEPT ![r] = H]
  BY HeapStays
<1>3. /\ Past(f, g, Tail(f.todo)) /\ g.reg = f.reg /\ g.slices = f.slices
      /\ ~Blocked(f.op, Head(f.todo)) /\ Head(f.todo).do \in Quiet
  BY <1>1 DEF SameData
<1>4. \A b : StandsAt(f, b, H) => \E c : StepsTo(f, b, H, g, c, H)
  <2> HIDE DEF f, H
  <2>1. QED
    BY <1>1, <1>3, QuietSteps DEF f
<1>5. QED
  BY <1>1, <1>2, <1>4, TopGoesOn

(* a check that holds, bounds and counters among them. *)
LEMMA PlanesTold ==
  ASSUME NEW op, NEW got, NEW f, Told(op, got, "planes", f)
  PROVE  op.planes # <<>>
<1>1. Told(op, got, "planes", f) <=> op.planes # <<>>
  BY Zenon DEF Told
<1>2. QED
  BY <1>1

LEMMA QuietActionsOwn ==
  ASSUME WayInv, OwnInv, NEW r \in Ranks,
         \/ CheckHolds(r) \/ MapFields(r) \/ Bounding(r)
         \/ AddCounter(r) \/ Increment(r) \/ StatsComputed(r)
  PROVE  OwnInv' /\ HostsKeep
<1> DEFINE rest == Rest(r)
<1>1. rest = Rest(r)
  OBVIOUS
<1> HIDE DEF rest
<1>2. ASSUME NEW what, Doing(r, what)
      PROVE  /\ Past(Top(r), rest, Tail(Top(r).todo)) /\ SameData(Top(r), rest)
             /\ \A v : /\ Past(Top(r), [rest EXCEPT !.sel = v], Tail(Top(r).todo))
                       /\ SameData(Top(r), [rest EXCEPT !.sel = v])
             /\ what # "check" => ~Blocked(Top(r).op, Step(r))
  <2>1. /\ Moved(Top(r), rest, Tail(Top(r).todo)) /\ Changed(Top(r), rest)
        /\ Step(r).do = what
    BY <1>1, <1>2, AtItsStep
  <2>2. /\ Past(Top(r), rest, Tail(Top(r).todo))
        /\ \A v : Past(Top(r), [rest EXCEPT !.sel = v], Tail(Top(r).todo))
    BY <2>1 DEF Moved
  <2>3. /\ SameData(Top(r), rest) /\ \A v : SameData(Top(r), [rest EXCEPT !.sel = v])
    BY <2>1 DEF Changed
  <2>4. what # "check" => ~Blocked(Top(r).op, Step(r))
    BY <2>1 DEF Blocked
  <2>5. QED
    BY <2>2, <2>3, <2>4
<1>3. CASE CheckHolds(r)
  <2>1. /\ Doing(r, "check") /\ UNCHANGED <<scenario, status, heap, results>>
        /\ stack' = Put(r, rest) /\ Test(r, Step(r).test, Step(r).f)
    BY <1>1, <1>3 DEF CheckHolds
  <2>2. ~Blocked(Top(r).op, Step(r))
    <3> SUFFICES ASSUME Step(r).test = "planes" PROVE Top(r).op.planes # <<>>
      BY DEF Blocked
    <3>1. Told(Top(r).op, Top(r).got, "planes", Step(r).f)
      BY <2>1 DEF Test, LocalTests, OwnTests
    <3>2. QED
      BY <3>1, PlanesTold
  <2>3. QED
    BY <1>2, <2>1, <2>2, QuietOwns DEF Quiet
<1>4. CASE MapFields(r)
  <2> DEFINE s == IF rest.sel = {} THEN MapAllFields(At(r, "in")) ELSE rest.sel
             g == [rest EXCEPT !.sel = s]
  <2>1. /\ Doing(r, "mapFields") /\ UNCHANGED <<scenario, status, heap, results>>
        /\ stack' = Put(r, g)
    BY <1>1, <1>4 DEF MapFields
  <2>2. Past(Top(r), g, Tail(Top(r).todo)) /\ SameData(Top(r), g)
    BY <1>2, <2>1
  <2>3. QED
    BY <1>2, <2>1, <2>2, QuietOwns DEF Quiet
<1>5. CASE Bounding(r) \/ AddCounter(r) \/ Increment(r) \/ StatsComputed(r)
  <2>1. PICK what \in {"clear", "addBlocks", "build", "addCounter", "increment", "computed"} :
          /\ Doing(r, what) /\ UNCHANGED <<scenario, status, heap, results>>
          /\ stack' = Put(r, rest)
    BY <1>1, <1>5 DEF Bounding, Clear, AddBlocks, Build, AddCounter, Increment, StatsComputed
  <2>2. QED
    BY <1>2, <2>1, QuietOwns DEF Quiet
<1>6. QED
  BY <1>3, <1>4, <1>5

(* The rest of the steps, with registers and contours changed. *)
RegsTo(f, g, v, w) == Past(f, g, Tail(f.todo)) /\ g.reg = v /\ g.slices = w

LEMMA RestHas ==
  ASSUME WayInv, NEW r \in Ranks, NEW what, Doing(r, what)
  PROVE  RegsTo(Top(r), Rest(r), Top(r).reg, Top(r).slices)
<1> DEFINE f == Top(r)
           rest == Rest(r)
<1>1. Moved(f, rest, Tail(f.todo)) /\ Changed(f, rest)
  BY AtItsStep
<1> HIDE DEF f, rest
<1>2. Past(f, rest, Tail(f.todo))
  BY <1>1 DEF Moved
<1>3. SameData(f, rest)
  BY <1>1 DEF Changed
<1>4. RegsTo(f, rest, f.reg, f.slices)
  BY <1>2, <1>3 DEF RegsTo, SameData
<1>5. QED
  BY <1>4 DEF f, rest

LEMMA RegsMoved ==
  ASSUME WayInv, NEW r \in Ranks, NEW what, Doing(r, what),
         NEW v, NEW g, g = [Rest(r) EXCEPT !.reg = v]
  PROVE  RegsTo(Top(r), g, v, Top(r).slices)
<1> DEFINE f == Top(r)
           rest == Rest(r)
<1>1. Moved(f, rest, Tail(f.todo)) /\ Changed(f, rest) /\ g = [rest EXCEPT !.reg = v]
  BY AtItsStep
<1> HIDE DEF f, rest
<1>2. Past(f, g, Tail(f.todo))
  BY <1>1 DEF Moved
<1>3. g.reg = v /\ g.slices = f.slices
  BY <1>1 DEF Changed
<1>4. RegsTo(f, g, v, f.slices)
  BY <1>2, <1>3 DEF RegsTo
<1>5. QED
  BY <1>4 DEF f

LEMMA PastBoth ==
  ASSUME NEW f, NEW rest, NEW t, Moved(f, rest, t), NEW v, NEW w, NEW g,
         g = [rest EXCEPT !.reg = v, !.slices = w]
  PROVE  Past(f, g, t)
<1>1. Past(f, [rest EXCEPT !.reg = v, !.slices = w], t)
  BY DEF Moved
<1>2. QED
  BY <1>1

LEMMA BothMoved ==
  ASSUME WayInv, NEW r \in Ranks, NEW what, Doing(r, what),
         NEW v, NEW w, NEW g, g = [Rest(r) EXCEPT !.reg = v, !.slices = w]
  PROVE  RegsTo(Top(r), g, v, w)
<1> DEFINE f == Top(r)
           rest == Rest(r)
<1>1. /\ Moved(f, rest, Tail(f.todo)) /\ Changed(f, rest)
      /\ g = [rest EXCEPT !.reg = v, !.slices = w]
  BY AtItsStep
<1> HIDE DEF f, rest
<1>2. Past(f, g, Tail(f.todo))
  <2>1. Moved(f, rest, Tail(f.todo)) /\ g = [rest EXCEPT !.reg = v, !.slices = w]
    BY <1>1
  <2>2. QED
    BY <2>1, PastBoth
<1>3. g.reg = v /\ g.slices = w
  BY <1>1 DEF Changed
<1>4. RegsTo(f, g, v, w)
  BY <1>2, <1>3 DEF RegsTo
<1>5. QED
  BY <1>4 DEF f

(* Pointers are assigned, and a single contour is the output. *)
LEMMA AssignOwns ==
  ASSUME WayInv, OwnInv, NEW r \in Ranks, AssignPointer(r)
  PROVE  OwnInv' /\ HostsKeep
<1> DEFINE f == Top(r)
           H == heap[r]
           v == [f.reg EXCEPT ![Step(r).to] = f.reg[Step(r).from]]
           g == [Rest(r) EXCEPT !.reg = v]
<1>1. Doing(r, "assign") /\ UNCHANGED <<scenario, status, results>> /\ heap' = heap
  BY DEF AssignPointer
<1>2. /\ Past(f, g, Tail(f.todo)) /\ g.reg = v /\ g.slices = f.slices /\ Rest(r).reg = f.reg
      /\ f.todo # <<>> /\ Head(f.todo) = Step(r) /\ Head(f.todo).do = "assign"
      /\ stack[r] # <<>> /\ status[r] = "running"
  <2>1. /\ f.todo # <<>> /\ Head(f.todo) = Step(r) /\ Head(f.todo).do = "assign"
        /\ stack[r] # <<>> /\ status[r] = "running"
    BY <1>1, AtItsStep
  <2>2. RegsTo(f, Rest(r), f.reg, f.slices)
    BY <1>1, RestHas
  <2>3. RegsTo(f, g, v, f.slices)
    <3> HIDE DEF v
    <3>1. \A u : u = g => RegsTo(Top(r), u, v, Top(r).slices)
      BY <1>1, RegsMoved
    <3>2. QED
      BY <3>1
  <2> HIDE DEF f, g, v
  <2>4. QED
    BY <2>1, <2>2, <2>3 DEF RegsTo
<1>3. stack' = Put(r, g)
  <2>1. stack' = Put(r, [Rest(r) EXCEPT !.reg =
                          [Rest(r).reg EXCEPT ![Step(r).to] = f.reg[Step(r).from]]])
    BY DEF AssignPointer
  <2>2. QED
    BY <1>2, <2>1
<1>4. heap' = [heap EXCEPT ![r] = H]
  BY <1>1, HeapStays
<1>5. g.reg = [f.reg EXCEPT ![Head(f.todo).to] = f.reg[Head(f.todo).from]]
  BY <1>2
<1> HIDE DEF g, v
<1>6. \A b : StandsAt(f, b, H) => \E c : StepsTo(f, b, H, g, c, H)
  <2> HIDE DEF f, H
  <2>1. QED
    BY <1>2, <1>5, AssignSteps
<1>7. QED
  BY <1>1, <1>2, <1>3, <1>4, <1>6, TopGoesOn

LEMMA TakeOwns ==
  ASSUME WayInv, OwnInv, NEW r \in Ranks, TakeSlice(r)
  PROVE  OwnInv' /\ HostsKeep
<1> DEFINE f == Top(r)
           H == heap[r]
           v == [f.reg EXCEPT !["out"] = f.slices[1]]
           g == [Rest(r) EXCEPT !.reg = v, !.slices = <<>>]
<1>1. Doing(r, "take") /\ UNCHANGED <<scenario, status, results>> /\ heap' = heap
  BY DEF TakeSlice
<1>2. /\ Past(f, g, Tail(f.todo)) /\ g.reg = v /\ g.slices = <<>> /\ Rest(r).reg = f.reg
      /\ f.todo # <<>> /\ Head(f.todo) = Step(r) /\ Head(f.todo).do = "take"
      /\ stack[r] # <<>> /\ status[r] = "running"
  <2>1. /\ f.todo # <<>> /\ Head(f.todo) = Step(r) /\ Head(f.todo).do = "take"
        /\ stack[r] # <<>> /\ status[r] = "running"
    BY <1>1, AtItsStep
  <2>2. RegsTo(f, Rest(r), f.reg, f.slices)
    BY <1>1, RestHas
  <2>3. RegsTo(f, g, v, <<>>)
    <3> HIDE DEF v
    <3>1. \A u : u = g => RegsTo(Top(r), u, v, <<>>)
      BY <1>1, BothMoved
    <3>2. QED
      BY <3>1
  <2> HIDE DEF f, g, v
  <2>4. QED
    BY <2>1, <2>2, <2>3 DEF RegsTo
<1>3. stack' = Put(r, g)
  <2>1. stack' = Put(r, [Rest(r) EXCEPT !.reg = [Rest(r).reg EXCEPT !["out"] = f.slices[1]],
                                        !.slices = <<>>])
    BY DEF TakeSlice
  <2>2. QED
    BY <1>2, <2>1
<1>4. heap' = [heap EXCEPT ![r] = H]
  BY <1>1, HeapStays
<1>5. g.reg = [f.reg EXCEPT !["out"] = f.slices[1]]
  BY <1>2
<1> HIDE DEF g, v
<1>6. \A b : StandsAt(f, b, H) => \E c : StepsTo(f, b, H, g, c, H)
  <2> HIDE DEF f, H
  <2>1. QED
    BY <1>2, <1>5, TakeSteps
<1>7. QED
  BY <1>1, <1>2, <1>3, <1>4, <1>6, TopGoesOn

(* Data sets are deleted. *)
LEMMA DeleteOwns ==
  ASSUME WayInv, OwnInv, NEW r \in Ranks, DeleteDataSet(r)
  PROVE  OwnInv' /\ HostsKeep
<1> DEFINE f == Top(r)
           H == heap[r]
           v == [f.reg EXCEPT ![Step(r).reg] = 0]
           g == [Rest(r) EXCEPT !.reg = v]
           K == [H EXCEPT ![f.reg[Step(r).reg]] = Freed]
<1>1. Doing(r, "delete") /\ UNCHANGED <<scenario, status, results>>
  BY DEF DeleteDataSet
<1>2. /\ Past(f, g, Tail(f.todo)) /\ g.reg = v /\ g.slices = f.slices /\ Rest(r).reg = f.reg
      /\ f.todo # <<>> /\ Head(f.todo) = Step(r) /\ Head(f.todo).do = "delete"
      /\ stack[r] # <<>> /\ status[r] = "running"
  <2>1. /\ f.todo # <<>> /\ Head(f.todo) = Step(r) /\ Head(f.todo).do = "delete"
        /\ stack[r] # <<>> /\ status[r] = "running"
    BY <1>1, AtItsStep
  <2>2. RegsTo(f, Rest(r), f.reg, f.slices)
    BY <1>1, RestHas
  <2>3. RegsTo(f, g, v, f.slices)
    <3> HIDE DEF v
    <3>1. \A u : u = g => RegsTo(Top(r), u, v, Top(r).slices)
      BY <1>1, RegsMoved
    <3>2. QED
      BY <3>1
  <2> HIDE DEF f, g, v
  <2>4. QED
    BY <2>1, <2>2, <2>3 DEF RegsTo
<1>3. stack' = Put(r, g)
  <2>1. stack' = Put(r, [Rest(r) EXCEPT !.reg = [Rest(r).reg EXCEPT ![Step(r).reg] = 0]])
    BY DEF DeleteDataSet
  <2>2. QED
    BY <1>2, <2>1
<1>4. heap' = [heap EXCEPT ![r] = K]
  BY DEF DeleteDataSet
<1>5. /\ g.reg = [f.reg EXCEPT ![Head(f.todo).reg] = 0]
      /\ FreedAt(K, H, f.reg[Head(f.todo).reg])
  BY <1>2 DEF FreedAt
<1> HIDE DEF g, v, K
<1>6. \A b : StandsAt(f, b, H) => \E c : StepsTo(f, b, H, g, c, K)
  <2> HIDE DEF f, H
  <2>1. QED
    BY <1>2, <1>5, DeleteSteps
<1>7. QED
  BY <1>1, <1>2, <1>3, <1>4, <1>6, TopGoesOn

LEMMA RestoreOwns ==
  ASSUME WayInv, OwnInv, NEW r \in Ranks, RestoreInput(r)
  PROVE  OwnInv' /\ HostsKeep
<1> DEFINE f == Top(r)
           H == heap[r]
           v == [[f.reg EXCEPT !["in"] = f.reg["old"]] EXCEPT !["old"] = 0]
           g == [Rest(r) EXCEPT !.reg = v]
           K == [H EXCEPT ![f.reg["in"]] = Freed]
<1>1. Doing(r, "restore") /\ UNCHANGED <<scenario, status, results>>
  BY DEF RestoreInput
<1>2. /\ Past(f, g, Tail(f.todo)) /\ g.reg = v /\ g.slices = f.slices /\ Rest(r).reg = f.reg
      /\ f.todo # <<>> /\ Head(f.todo) = Step(r) /\ Head(f.todo).do = "restore"
      /\ stack[r] # <<>> /\ status[r] = "running" /\ IsFrame(Rest(r))
  <2>1. /\ f.todo # <<>> /\ Head(f.todo) = Step(r) /\ Head(f.todo).do = "restore"
        /\ stack[r] # <<>> /\ status[r] = "running"
    BY <1>1, AtItsStep
  <2>2. RegsTo(f, Rest(r), f.reg, f.slices)
    BY <1>1, RestHas
  <2>3. RegsTo(f, g, v, f.slices)
    <3> HIDE DEF v
    <3>1. \A u : u = g => RegsTo(Top(r), u, v, Top(r).slices)
      BY <1>1, RegsMoved
    <3>2. QED
      BY <3>1
  <2> HIDE DEF f, g, v
  <2>4. QED
    BY <2>1, <2>2, <2>3 DEF RegsTo, Past
<1>3. stack' = Put(r, g)
  <2>1. stack' = Put(r, Restored(Rest(r)))
    BY DEF RestoreInput
  <2> DEFINE rest == Rest(r)
             reg == rest.reg
  <2>2. IsFrame(rest) /\ rest.reg = f.reg
    BY <1>2
  <2> HIDE DEF rest
  <2>3. Restored(rest) = [rest EXCEPT !.reg = [rest.reg EXCEPT !.in = rest.reg.old, !.old = 0]]
    BY <2>2 DEF Restored, IsFrame
  <2>4. Restored(rest) = [rest EXCEPT !.reg = v]
    BY <2>2, <2>3
  <2>5. QED
    BY <2>1, <2>4 DEF rest
<1>4. heap' = [heap EXCEPT ![r] = K]
  BY DEF RestoreInput
<1>5. g.reg = [[f.reg EXCEPT !["in"] = f.reg["old"]] EXCEPT !["old"] = 0]
      /\ FreedAt(K, H, f.reg["in"])
  BY <1>2 DEF FreedAt
<1> HIDE DEF g, v, K
<1>6. \A b : StandsAt(f, b, H) => \E c : StepsTo(f, b, H, g, c, K)
  <2> HIDE DEF f, H
  <2>1. QED
    BY <1>2, <1>5, RestoreSteps
<1>7. QED
  BY <1>1, <1>2, <1>3, <1>4, <1>6, TopGoesOn

(* Data sets are made, of others or of the picture. *)
LEMMA RunOwns ==
  ASSUME WayInv, OwnInv, NEW r \in Ranks, RunOnDomains(r)
  PROVE  OwnInv' /\ HostsKeep
<1> DEFINE f == Top(r)
           H == heap[r]
           x == Step(r).to
           from == f.reg[Step(r).from]
           d == MapDomains(Step(r).work, f.sel, f.got, H[from])
           v == [f.reg EXCEPT ![x] = Len(H) + 1]
           g == [Rest(r) EXCEPT !.reg = v]
           K == Append(H, d)
<1>1. Doing(r, "map") /\ UNCHANGED <<scenario, status, results>>
  BY DEF RunOnDomains
<1>2. /\ Past(f, g, Tail(f.todo)) /\ g.reg = v /\ g.slices = f.slices /\ Rest(r).reg = f.reg
      /\ f.todo # <<>> /\ Head(f.todo) = Step(r) /\ Head(f.todo).do = "map"
      /\ stack[r] # <<>> /\ status[r] = "running"
  <2>1. /\ f.todo # <<>> /\ Head(f.todo) = Step(r) /\ Head(f.todo).do = "map"
        /\ stack[r] # <<>> /\ status[r] = "running"
    BY <1>1, AtItsStep
  <2>2. RegsTo(f, Rest(r), f.reg, f.slices)
    BY <1>1, RestHas
  <2>3. RegsTo(f, g, v, f.slices)
    <3> HIDE DEF v
    <3>1. \A u : u = g => RegsTo(Top(r), u, v, Top(r).slices)
      BY <1>1, RegsMoved
    <3>2. QED
      BY <3>1
  <2> HIDE DEF f, g, v
  <2>4. QED
    BY <2>1, <2>2, <2>3 DEF RegsTo
<1>3. stack' = Put(r, g)
  <2>1. stack' = Put(r, [Rest(r) EXCEPT !.reg = [Rest(r).reg EXCEPT ![x] = Len(H) + 1]])
    BY DEF RunOnDomains, Store, New
  <2>2. QED
    BY <1>2, <2>1
<1>4. heap' = [heap EXCEPT ![r] = K]
  BY DEF RunOnDomains, Store, At
<1>5. d.doms = d.doms /\ d.cycle \in {H[from].cycle, 0} /\ d = [doms |-> d.doms, cycle |-> d.cycle]
  <2> DEFINE ds == H[from]
             doms == FoldLeft(LAMBDA done, dom :
                       IF Skips(Step(r).work, dom) THEN done
                       ELSE AddDomain(done, Worked(Step(r).work, f.sel, f.got, dom), dom.id),
                     <<>>, ds.doms)
             cycle == IF Step(r).work.name \in Copies THEN ds.cycle ELSE NoData.cycle
  <2>1. d = [doms |-> doms, cycle |-> cycle]
    BY Zenon DEF MapDomains
  <2>2. NoData.cycle = 0
    BY DEF NoData
  <2>3. cycle \in {ds.cycle, 0}
    BY <2>2
  <2> HIDE DEF doms, cycle, d
  <2>4. QED
    BY <2>1, <2>3
<1>6. /\ Head(f.todo).from = Step(r).from
      /\ x = Head(f.todo).to /\ g.reg = [f.reg EXCEPT ![x] = Len(H) + 1]
  BY <1>2
<1> HIDE DEF g, v, d, x
<1>7. \A b : StandsAt(f, b, H) => \E c : StepsTo(f, b, H, g, c, K)
  <2> SUFFICES ASSUME NEW b, StandsAt(f, b, H)
               PROVE  \E c : StepsTo(f, b, H, g, c, K)
    OBVIOUS
  <2>1. from \in LiveIn(H) /\ IsHeap(H)
    <3>1. PICK t : Does(f.op, Head(f.todo), b.held, t)
      BY <1>2, HasAtStep
    <3>2. Step(r).from \in b.held.has
      BY <1>2, <1>6, <3>1, DoesMap
    <3>3. QED
      BY <1>2, <3>2, HasAtStep
  <2>2. H[from].cycle \in Nat
    BY <2>1 DEF IsHeap, IsDataSet
  <2>3. IsDataSet(d)
    BY <1>5, <2>2 DEF IsDataSet
  <2> HIDE DEF f, H
  <2>4. QED
    BY <1>2, <1>6, <2>3, MakeSteps
<1>8. QED
  BY <1>1, <1>2, <1>3, <1>4, <1>7, TopGoesOn

LEMMA PictureOwns ==
  ASSUME WayInv, OwnInv, NEW r \in Ranks, TakePicture(r)
  PROVE  OwnInv' /\ HostsKeep
<1> DEFINE f == Top(r)
           H == heap[r]
           v == [f.reg EXCEPT !["out"] = Len(H) + 1]
           g == [Rest(r) EXCEPT !.reg = v]
<1>1. Doing(r, "picture") /\ UNCHANGED <<scenario, status, results>>
  BY DEF TakePicture
<1>2. /\ Past(f, g, Tail(f.todo)) /\ g.reg = v /\ g.slices = f.slices /\ Rest(r).reg = f.reg
      /\ f.todo # <<>> /\ Head(f.todo) = Step(r) /\ Head(f.todo).do = "picture"
      /\ stack[r] # <<>> /\ status[r] = "running"
  <2>1. /\ f.todo # <<>> /\ Head(f.todo) = Step(r) /\ Head(f.todo).do = "picture"
        /\ stack[r] # <<>> /\ status[r] = "running"
    BY <1>1, AtItsStep
  <2>2. RegsTo(f, Rest(r), f.reg, f.slices)
    BY <1>1, RestHas
  <2>3. RegsTo(f, g, v, f.slices)
    <3> HIDE DEF v
    <3>1. \A u : u = g => RegsTo(Top(r), u, v, Top(r).slices)
      BY <1>1, RegsMoved
    <3>2. QED
      BY <3>1
  <2> HIDE DEF f, g, v
  <2>4. QED
    BY <2>1, <2>2, <2>3 DEF RegsTo
<1>3. PICK d : /\ IsDataSet(d) /\ heap' = [heap EXCEPT ![r] = Append(H, d)]
               /\ stack' = Put(r, [Rest(r) EXCEPT !.reg = [Rest(r).reg EXCEPT !["out"] = Len(H) + 1]])
  <2> DEFINE drawn == Drawn(At(r, "in"))
             picture == r = Rank0 /\ <<"image", "">> \in DOMAIN f.got /\ drawn # <<>>
                        /\ Scalars(Last(drawn)) # {}
             doms == AddDomain(NoData.doms, ToDataSet(f.got[<<"image", "">>], Scalars(Last(drawn))), 0)
             d == IF picture THEN [NoData EXCEPT !.doms = doms] ELSE NoData
  <2>1. /\ heap' = [heap EXCEPT ![r] = Append(H, d)]
        /\ stack' = Put(r, [Rest(r) EXCEPT !.reg = [Rest(r).reg EXCEPT !["out"] = Len(H) + 1]])
    BY Zenon DEF TakePicture, Store, New
  <2> HIDE DEF picture, doms
  <2>2. IsDataSet(d)
    BY NoDataIs
  <2> HIDE DEF d
  <2>3. QED
    BY <2>1, <2>2
<1>4. stack' = Put(r, g)
  BY <1>2, <1>3
<1>5. g.reg = [f.reg EXCEPT !["out"] = Len(H) + 1]
  BY <1>2
<1> HIDE DEF g, v
<1>6. \A b : StandsAt(f, b, H) => \E c : StepsTo(f, b, H, g, c, Append(H, d))
  <2> HIDE DEF f, H
  <2>1. QED
    BY <1>2, <1>3, <1>5, MakeSteps
<1>7. QED
  BY <1>1, <1>2, <1>3, <1>4, <1>6, TopGoesOn

(* Data sets are written to. *)
LEMMA OverwriteOwns ==
  ASSUME WayInv, OwnInv, NEW r \in Ranks, OverwriteDomains(r)
  PROVE  OwnInv' /\ HostsKeep
<1> DEFINE f == Top(r)
           H == heap[r]
           g == Rest(r)
           v == f.reg[Step(r).of]
           K == [H EXCEPT ![v] = [H[v] EXCEPT !.doms =
                                    Reworked(Step(r).work, f.sel, f.got, H[v].doms)]]
<1>1. /\ Doing(r, "overwrite") /\ UNCHANGED <<scenario, status, results>>
      /\ stack' = Put(r, g)
  BY DEF OverwriteDomains
<1>2. /\ Past(f, g, Tail(f.todo)) /\ g.reg = f.reg /\ g.slices = f.slices
      /\ f.todo # <<>> /\ Head(f.todo) = Step(r) /\ Head(f.todo).do = "overwrite"
      /\ stack[r] # <<>> /\ status[r] = "running"
  <2>1. /\ f.todo # <<>> /\ Head(f.todo) = Step(r) /\ Head(f.todo).do = "overwrite"
        /\ stack[r] # <<>> /\ status[r] = "running"
    BY <1>1, AtItsStep
  <2>2. RegsTo(f, g, f.reg, f.slices)
    BY <1>1, RestHas
  <2> HIDE DEF f, g
  <2>3. QED
    BY <2>1, <2>2 DEF RegsTo
<1>3. heap' = [heap EXCEPT ![r] = K]
  <2> DEFINE doms == H[v].doms
             done == [i \in DOMAIN doms |-> Worked(Step(r).work, f.sel, f.got, doms[i])]
  <2>1. heap' = [heap EXCEPT ![r] = [H EXCEPT ![v] = [H[v] EXCEPT !.doms = done]]]
    BY Zenon DEF OverwriteDomains
  <2>2. done = Reworked(Step(r).work, f.sel, f.got, H[v].doms)
    BY DEF Reworked
  <2> HIDE DEF done
  <2>3. QED
    BY <2>1, <2>2
<1>4. /\ v = f.reg[Head(f.todo).of]
      /\ K = [H EXCEPT ![v] = [H[v] EXCEPT !.doms =
                                 Reworked(Head(f.todo).work, f.sel, f.got, H[v].doms)]]
  BY <1>2
<1> HIDE DEF g, K, v
<1>5. \A b : StandsAt(f, b, H) => \E c : StepsTo(f, b, H, g, c, K)
  <2> HIDE DEF f, H
  <2>1. QED
    BY <1>2, <1>4, OverwriteSteps
<1>6. QED
  BY <1>1, <1>2, <1>3, <1>5, TopGoesOn

LEMMA MetadataOwns ==
  ASSUME WayInv, OwnInv, NEW r \in Ranks, PropagateMetadata(r)
  PROVE  OwnInv' /\ HostsKeep
<1> DEFINE f == Top(r)
           H == heap[r]
           g == Rest(r)
           v == f.reg["out"]
           K == [H EXCEPT ![v] = [H[v] EXCEPT !.cycle = H[f.reg["in"]].cycle]]
<1>1. /\ Doing(r, "metadata") /\ UNCHANGED <<scenario, status, results>>
      /\ stack' = Put(r, g)
  BY DEF PropagateMetadata
<1>2. /\ Past(f, g, Tail(f.todo)) /\ g.reg = f.reg /\ g.slices = f.slices
      /\ f.todo # <<>> /\ Head(f.todo) = Step(r) /\ Head(f.todo).do = "metadata"
      /\ stack[r] # <<>> /\ status[r] = "running"
  <2>1. /\ f.todo # <<>> /\ Head(f.todo) = Step(r) /\ Head(f.todo).do = "metadata"
        /\ stack[r] # <<>> /\ status[r] = "running"
    BY <1>1, AtItsStep
  <2>2. RegsTo(f, g, f.reg, f.slices)
    BY <1>1, RestHas
  <2> HIDE DEF f, g
  <2>3. QED
    BY <2>1, <2>2 DEF RegsTo
<1>3. heap' = [heap EXCEPT ![r] = K]
  BY DEF PropagateMetadata, At
<1>4. v = f.reg["out"] /\ K = [H EXCEPT ![v] = [H[v] EXCEPT !.cycle = H[f.reg["in"]].cycle]]
  OBVIOUS
<1> HIDE DEF g, K, v
<1>5. \A b : StandsAt(f, b, H) => \E c : StepsTo(f, b, H, g, c, K)
  <2> HIDE DEF f, H
  <2>1. QED
    BY <1>2, <1>4, MetadataSteps
<1>6. QED
  BY <1>1, <1>2, <1>3, <1>5, TopGoesOn

LEMMA MergeOwns ==
  ASSUME WayInv, OwnInv, NEW r \in Ranks, MergeSlices(r)
  PROVE  OwnInv' /\ HostsKeep
<1> DEFINE f == Top(r)
           H == heap[r]
           slices == f.slices
           sets == [i \in DOMAIN slices |-> H[slices[i]]]
           d == Merge(sets, "slice_field")
           D == {f.slices[i] : i \in 1 .. Len(f.slices)}
           L == [a \in DOMAIN H |-> IF a \in D THEN Freed ELSE H[a]]
           v == [f.reg EXCEPT !["out"] = Len(H) + 1]
           g == [Rest(r) EXCEPT !.reg = v, !.slices = <<>>]
           K == Append(L, d)
<1>1. Doing(r, "merge") /\ UNCHANGED <<scenario, status, results>>
  BY DEF MergeSlices
<1>2. /\ Past(f, g, Tail(f.todo)) /\ g.reg = v /\ g.slices = <<>> /\ Rest(r).reg = f.reg
      /\ f.todo # <<>> /\ Head(f.todo) = Step(r) /\ Head(f.todo).do = "merge"
      /\ stack[r] # <<>> /\ status[r] = "running"
  <2>1. /\ f.todo # <<>> /\ Head(f.todo) = Step(r) /\ Head(f.todo).do = "merge"
        /\ stack[r] # <<>> /\ status[r] = "running"
    BY <1>1, AtItsStep
  <2>2. RegsTo(f, Rest(r), f.reg, f.slices)
    BY <1>1, RestHas
  <2>3. RegsTo(f, g, v, <<>>)
    <3> HIDE DEF v
    <3>1. \A u : u = g => RegsTo(Top(r), u, v, <<>>)
      BY <1>1, BothMoved
    <3>2. QED
      BY <3>1
  <2> HIDE DEF f, g, v
  <2>4. QED
    BY <2>1, <2>2, <2>3 DEF RegsTo
<1>3. stack' = Put(r, g)
  <2>1. stack' = Put(r, [Rest(r) EXCEPT !.reg = [Rest(r).reg EXCEPT !["out"] = Len(H) + 1],
                                        !.slices = <<>>])
    BY DEF MergeSlices, New
  <2>2. QED
    BY <1>2, <2>1
<1>4. heap' = [heap EXCEPT ![r] = K]
  <2> DEFINE M == [a \in DOMAIN H |-> IF Contains(slices, a) THEN Freed ELSE H[a]]
  <2>1. heap' = [heap EXCEPT ![r] = Append(M, d)]
    BY Zenon DEF MergeSlices
  <2>2. \A a : Contains(slices, a) <=> a \in D
    BY DEF Contains
  <2> HIDE DEF D, d
  <2>3. M = L
    BY <2>2
  <2> HIDE DEF M, L
  <2>4. QED
    BY <2>1, <2>3
<1>5. IsDataSet(d)
  BY NoDataIs, Zenon DEF Merge
<1>6. Emptied(L, H, D)
  BY DEF Emptied
<1>7. g.reg = [f.reg EXCEPT !["out"] = Len(H) + 1] /\ K = Append(L, d)
  BY <1>2
<1> HIDE DEF g, v, K, L, d, sets, slices
<1>8. D = {f.slices[i] : i \in 1 .. Len(f.slices)}
  OBVIOUS
<1> HIDE DEF D
<1>9. \A b : StandsAt(f, b, H) => \E c : StepsTo(f, b, H, g, c, K)
  <2> HIDE DEF f, H
  <2>1. QED
    BY <1>2, <1>5, <1>6, <1>7, <1>8, MergeSteps
<1>10. QED
  BY <1>1, <1>2, <1>3, <1>4, <1>9, TopGoesOn

(* A test, *)
LEMMA BranchOwns ==
  ASSUME WayInv, OwnInv, NEW r \in Ranks, Branch(r)
  PROVE  OwnInv' /\ HostsKeep
<1> DEFINE f == Top(r)
           H == heap[r]
           step == Step(r)
           chosen == IF Told(f.op, f.got, step.test, step.f) THEN step.then ELSE step.else
           t == Then(chosen, Tail(f.todo))
           g == [Rest(r) EXCEPT !.todo = t]
<1>1. /\ Doing(r, "if") /\ UNCHANGED <<scenario, status, results>> /\ heap' = heap
      /\ stack' = Put(r, [Rest(r) EXCEPT !.todo =
                    Then(IF Test(r, step.test, step.f) THEN step.then ELSE step.else, Rest(r).todo)])
  BY DEF Branch, Then
<1>2. /\ f.todo # <<>> /\ Head(f.todo) = step /\ step.do = "if"
      /\ stack[r] # <<>> /\ status[r] = "running"
      /\ Moved(f, Rest(r), Tail(f.todo)) /\ Changed(f, Rest(r))
  BY <1>1, AtItsStep
<1>3. AtStep(Mine(r), "if") /\ f = Last(Mine(r).stack)
  BY <1>1, DoingIs, MineIs
<1>4. step.test \notin LocalTests
  <2> DEFINE m == Mine(r)
  <2> HIDE DEF f, step, m
  <2>1. AtStep(m, "if") /\ f = Last(m.stack) /\ step = Head(f.todo) /\ f.todo # <<>> /\ step.do = "if"
    BY <1>2, <1>3 DEF m
  <2>2. FrameOK(f)
    BY <2>1, HereIs DEF AtStep
  <2>3. Sound(f.op, step)
    BY <2>1, <2>2, SoundTail DEF FrameOK
  <2>4. QED
    BY <2>1, <2>3 DEF Sound, Branches
<1>5. Test(r, step.test, step.f) = Told(f.op, f.got, step.test, step.f)
  BY <1>4 DEF Test
<1> HIDE DEF f, step
<1>6. Rest(r).todo = Tail(f.todo)
  BY <1>2 DEF Moved, Past
<1>7. stack' = Put(r, g)
  BY <1>1, <1>5, <1>6
<1>8. Past(f, g, t)
  <2>1. Moved(f, Rest(r), Tail(f.todo))
    BY <1>2
  <2> HIDE DEF t
  <2>2. QED
    BY <2>1 DEF Moved
<1>9. SameData(f, g)
  <2>1. Changed(f, Rest(r))
    BY <1>2
  <2> HIDE DEF t
  <2>2. QED
    BY <2>1 DEF Changed
<1>10. heap' = [heap EXCEPT ![r] = H]
  BY <1>1, HeapStays
<1>11. chosen = IF Told(f.op, f.got, Head(f.todo).test, Head(f.todo).f)
                THEN Head(f.todo).then ELSE Head(f.todo).else
  BY <1>2
<1> HIDE DEF g, chosen
<1>12. \A b : StandsAt(f, b, H) => \E c : StepsTo(f, b, H, g, c, H)
  <2>1. Head(f.todo).do = "if" /\ g.slices = f.slices /\ g.reg = f.reg
    BY <1>2, <1>9 DEF SameData
  <2> HIDE DEF H
  <2>2. QED
    BY <1>2, <1>8, <1>11, <2>1, BranchSteps
<1>13. QED
  BY <1>1, <1>2, <1>7, <1>10, <1>12, TopGoesOn DEF f

(* the totals asked for, *)
LEMMA CalcOwns ==
  ASSUME WayInv, OwnInv, NEW r \in Ranks, calcStats(r)
  PROVE  OwnInv' /\ HostsKeep
<1> DEFINE f == Top(r)
           H == heap[r]
           names == DOMAIN stats[r].counters
           asks == IF stats[r].statsComputed THEN <<>> ELSE CounterSteps(names)
           t == Then(asks, Tail(f.todo))
           g == [Rest(r) EXCEPT !.todo = t]
<1>1. /\ Doing(r, "calcStats") /\ UNCHANGED <<scenario, status, results>> /\ heap' = heap
      /\ stack' = Put(r, [Rest(r) EXCEPT !.todo = Then(asks, Rest(r).todo)])
  <2>1. /\ Doing(r, "calcStats") /\ UNCHANGED <<scenario, status, results>> /\ heap' = heap
    BY DEF calcStats
  <2>2. stack' = Put(r, [Rest(r) EXCEPT !.todo = asks \o @])
    BY DEF calcStats, CounterSteps
  <2> HIDE DEF asks
  <2>3. QED
    BY <2>1, <2>2 DEF Then
<1>2. /\ f.todo # <<>> /\ Head(f.todo) = Step(r) /\ Head(f.todo).do = "calcStats"
      /\ stack[r] # <<>> /\ status[r] = "running"
      /\ Moved(f, Rest(r), Tail(f.todo)) /\ Changed(f, Rest(r))
  BY <1>1, AtItsStep
<1>3. IsFiniteSet(names)
  <2>1. RankOK(Mine(r)) /\ Mine(r).stats = stats[r]
    BY MineIs DEF WayInv
  <2>2. QED
    BY <2>1 DEF RankOK
<1>4. asks \in {<<>>, CounterSteps(names)}
  OBVIOUS
<1> HIDE DEF f, asks
<1>5. stack' = Put(r, g)
  <2>1. Rest(r).todo = Tail(f.todo)
    BY <1>2 DEF Moved, Past
  <2>2. QED
    BY <1>1, <2>1
<1>6. Past(f, g, t)
  <2>1. Moved(f, Rest(r), Tail(f.todo))
    BY <1>2
  <2> HIDE DEF t
  <2>2. QED
    BY <2>1 DEF Moved
<1>7. SameData(f, g)
  <2>1. Changed(f, Rest(r))
    BY <1>2
  <2> HIDE DEF t
  <2>2. QED
    BY <2>1 DEF Changed
<1>8. heap' = [heap EXCEPT ![r] = H]
  BY <1>1, HeapStays
<1> HIDE DEF g
<1>9. \A b : StandsAt(f, b, H) => \E c : StepsTo(f, b, H, g, c, H)
  <2>1. g.slices = f.slices /\ g.reg = f.reg
    BY <1>7 DEF SameData
  <2> HIDE DEF H, names
  <2>2. QED
    BY <1>2, <1>3, <1>4, <1>6, <2>1, CalcSteps
<1>10. QED
  BY <1>1, <1>2, <1>5, <1>8, <1>9, TopGoesOn DEF f

(* and an answer. *)
LEMMA AnswerOwns ==
  ASSUME WayInv, OwnInv, NEW r \in Ranks, ReturnFromCall(r)
  PROVE  OwnInv' /\ HostsKeep
<1> DEFINE f == Top(r)
           H == heap[r]
           step == Step(r)
           heard == C!Contributed(r)
           got == LearntFrom(f.got, step, heard)
           g == [Rest(r) EXCEPT !.got = got]
<1>1. Doing(r, "ask") /\ UNCHANGED <<scenario, status, results>> /\ heap' = heap
  BY DEF ReturnFromCall
<1>2. /\ f.todo # <<>> /\ Head(f.todo) = step /\ step.do = "ask"
      /\ stack[r] # <<>> /\ status[r] = "running"
      /\ Moved(f, Rest(r), Tail(f.todo)) /\ Changed(f, Rest(r))
  BY <1>1, AtItsStep
<1>3. IsFrame(g) /\ g.op = f.op /\ g.got = got /\ g.todo = Tail(f.todo)
  <2>1. Moved(f, Rest(r), Tail(f.todo))
    BY <1>2
  <2> HIDE DEF got, f
  <2>2. \A v : IsFrame([Rest(r) EXCEPT !.got = v]) /\ [Rest(r) EXCEPT !.got = v].op = f.op
               /\ [Rest(r) EXCEPT !.got = v].got = v /\ [Rest(r) EXCEPT !.got = v].todo = Tail(f.todo)
    BY <2>1 DEF Moved
  <2>3. QED
    BY <2>2
<1>4. SameData(f, g)
  <2>1. Changed(f, Rest(r))
    BY <1>2
  <2> HIDE DEF got, f
  <2>2. QED
    BY <2>1 DEF Changed
<1>5. stack' = Put(r, g)
  <2> DEFINE key == <<step.q, step.f>>
             answer == AnswerTo(step.q, heard, f.got)
  <2>1. stack' = Put(r, [Rest(r) EXCEPT
          !.got = [k \in DOMAIN Rest(r).got \cup {key} |-> IF k = key THEN answer ELSE Rest(r).got[k]]])
    BY DEF ReturnFromCall
  <2>2. Rest(r).got = f.got
    BY <1>2 DEF Moved, Past
  <2>3. got = [k \in DOMAIN f.got \cup {key} |-> IF k = key THEN answer ELSE f.got[k]]
    BY DEF LearntFrom
  <2> HIDE DEF key, answer, got
  <2>4. QED
    BY <2>1, <2>2, <2>3
<1>6. heap' = [heap EXCEPT ![r] = H]
  BY <1>1, HeapStays
<1>7. g.got = LearntFrom(f.got, Head(f.todo), heard)
  BY <1>2, <1>3
<1> HIDE DEF f, g, got, step, heard
<1>8. \A b : StandsAt(f, b, H) => \E c : StepsTo(f, b, H, g, c, H)
  <2>1. g.slices = f.slices /\ g.reg = f.reg /\ Head(f.todo).do = "ask"
    BY <1>2, <1>4 DEF SameData
  <2> HIDE DEF H
  <2>2. QED
    BY <1>2, <1>3, <1>7, <2>1, AnswerSteps
<1>9. QED
  BY <1>1, <1>2, <1>5, <1>6, <1>8, TopGoesOn DEF f

-----------------------------------------------------------------------------
(* Filters that start and return. *)

LEMMA HeapKept ==
  ASSUME WayInv, OwnInv, NEW r \in Ranks, scenario' = scenario, heap' = heap,
         NEW st, NEW frames, NEW done,
         status' = [status EXCEPT ![r] = st], stack' = [stack EXCEPT ![r] = frames],
         results' = [results EXCEPT ![r] = done],
         RankOwns(st, frames, heap[r], done, scenario.script)
  PROVE  OwnInv' /\ HostsKeep
<1>1. Functional
  BY DEF WayInv
<1>2. /\ status' = [status EXCEPT ![r] = status'[r]] /\ status'[r] = st
      /\ stack' = [stack EXCEPT ![r] = stack'[r]] /\ stack'[r] = frames
      /\ results' = [results EXCEPT ![r] = results'[r]] /\ results'[r] = done
  BY <1>1 DEF Functional
<1>3. heap' = [heap EXCEPT ![r] = heap'[r]] /\ heap'[r] = heap[r]
  BY DEF OwnInv
<1>4. RankOwns(status'[r], stack'[r], heap'[r], results'[r], scenario.script)
  BY <1>2, <1>3
<1>5. Keeping(NextOp(r).op, Held(results[r]), heap[r], heap'[r])
  BY <1>3, KeepingAll
<1>6. QED
  BY <1>1, <1>2, <1>3, <1>4, <1>5, OneOwns

(* A rank that only comes to a collective call, and one that stops. *)
LEMMA StillOwns ==
  ASSUME OwnInv, UNCHANGED <<scenario, status, stack, heap, results>>
  PROVE  OwnInv' /\ HostsKeep
<1>1. OwnInv'
  BY DEF OwnInv
<1>2. HostsKeep
  BY KeepingAll DEF HostsKeep
<1>3. QED
  BY <1>1, <1>2

LEMMA FailedOwns ==
  ASSUME WayInv, OwnInv, NEW r \in Ranks, NEW how \in Stopped, Fail(r, how)
  PROVE  OwnInv' /\ HostsKeep
<1> DEFINE none == <<>>
           done == results[r]
<1>1. RankOwns(status[r], stack[r], heap[r], done, scenario.script)
  BY DEF OwnInv
<1>2. RankOwns(how, none, heap[r], done, scenario.script)
  BY <1>1 DEF RankOwns
<1>3. /\ scenario' = scenario /\ heap' = heap
      /\ status' = [status EXCEPT ![r] = how] /\ stack' = [stack EXCEPT ![r] = none]
      /\ results' = [results EXCEPT ![r] = done]
  BY DEF Fail, WayInv, Functional
<1> HIDE DEF none, done
<1>4. QED
  BY <1>2, <1>3, HeapKept

LEMMA FinishOwns ==
  ASSUME WayInv, OwnInv, NEW r \in Ranks, Finish(r)
  PROVE  OwnInv' /\ HostsKeep
<1> DEFINE frames == stack[r]
           done == results[r]
<1>1. RankOwns(status[r], frames, heap[r], done, scenario.script) /\ status[r] = "running"
  BY DEF OwnInv, Finish
<1>2. RankOwns("done", frames, heap[r], done, scenario.script)
  BY <1>1 DEF RankOwns
<1>3. /\ scenario' = scenario /\ heap' = heap
      /\ status' = [status EXCEPT ![r] = "done"] /\ stack' = [stack EXCEPT ![r] = frames]
      /\ results' = [results EXCEPT ![r] = done]
  BY DEF Finish, WayInv, Functional
<1> HIDE DEF frames, done
<1>4. QED
  BY <1>2, <1>3, HeapKept

(* The frame of a filter that starts on a data set of B. *)
LEMMA StartingFrame ==
  ASSUME NEW op, WellFormedOp(op), NEW B, NEW in \in B, NEW f, f = Frame(op, in)
  PROVE  /\ Ledger(f, Book(Start, B)) /\ Whole(f, Book(Start, B)) = B /\ f.op = op
<1> DEFINE reg == [NoFrame EXCEPT !.in = in]
           none == <<>>
<1>1. IsFrame(f) /\ f.op = op /\ f.todo = Steps(op, scenario.logging) /\ f.got = <<>>
  BY FrameIsFresh DEF Fresh
<1>2. f.reg = reg /\ f.slices = none
  <2> DEFINE todo == Steps(op, scenario.logging)
             sel == op.map
  <2>1. f = [op |-> op, todo |-> todo, reg |-> reg, slices |-> none, sel |-> sel, got |-> none]
    BY DEF Frame
  <2> HIDE DEF todo, sel, reg, none
  <2>2. QED
    BY <2>1
<1>3. reg = [x \in Registers |-> reg[x]] /\ reg["in"] = in /\ reg["out"] = 0
  BY DEF NoFrame, Registers
<1>4. IsList(none) /\ Len(none) = 0
  BY NoList
<1>5. /\ Start.has = {"in"} /\ Start.own = {} /\ Start.slices = 0 /\ Start.cells = "nothing"
      /\ Start = Holding(Start.has, Start.own, Start.slices, Start.cells)
  BY HoldingIs DEF Start
<1> HIDE DEF reg, none
<1>6. OwnedOf(f.reg, f.slices, Start) = {}
  <2>1. 1 .. Len(none) = {}
    BY <1>4
  <2>2. QED
    BY <1>2, <1>5, <2>1 DEF OwnedOf
<1>7. Accounts(f.reg, f.slices, Start, B)
  BY <1>2, <1>3, <1>4, <1>5, <1>6 DEF Accounts, Registers
<1>8. Knows(op, f.got, "nothing")
  BY KnowsNothing
<1>9. Safe(op, f.todo, Start)
  BY <1>1, ProgramsRun
<1>10. Book(Start, B).held = Start /\ Book(Start, B).base = B
  BY BookIs
<1> HIDE DEF Start
<1>11. Ledger(f, Book(Start, B))
  BY <1>1, <1>5, <1>7, <1>8, <1>9, <1>10 DEF Ledger
<1>12. Whole(f, Book(Start, B)) = B
  BY <1>6, <1>10 DEF Whole
<1>13. QED
  BY <1>1, <1>11, <1>12

(* The host starts an operation. *)
LEMMA HostOpens ==
  ASSUME NEW st, NEW H, NEW done, NEW script, RankOwns(st, <<>>, H, done, script), st \notin Stopped,
         Len(done) < Len(script), NEW op, op = script[Len(done) + 1].op, WellFormedOp(op),
         NEW in \in Held(done)
  PROVE  RankOwns(st, <<Frame(op, in)>>, H, done, script)
<1> DEFINE host == Held(done)
           f == Frame(op, in)
           c == Book(Start, host)
           fs == <<f>>
           cs == <<c>>
<1>1. PICK books : Stands(<<>>, books, H, host)
  BY DEF RankOwns
<1>2. IsHeap(H) /\ LiveIn(H) = host
  BY <1>1 DEF Stands
<1>3. in \in host /\ f = Frame(op, in) /\ c = Book(Start, host)
  OBVIOUS
<1> HIDE DEF host, f
<1>4. Ledger(f, Book(Start, host)) /\ Whole(f, Book(Start, host)) = host /\ f.op = op
  BY <1>3, StartingFrame
<1>5. c.base = host
  BY BookIs
<1> HIDE DEF c
<1>6. Ledger(f, c) /\ Whole(f, c) = host
  BY <1>3, <1>4
<1>7. BooksOK(fs, cs, host)
  BY <1>5, <1>6, BooksOpened
<1>8. /\ IsList(fs) /\ Len(fs) = 1 /\ fs[1] = f
      /\ IsList(cs) /\ Len(cs) = 1 /\ cs[1] = c
  BY OneIsList
<1> HIDE DEF fs, cs
<1>9. fs # <<>> /\ Last(fs) = f /\ Last(cs) = c
  <2>1. Last(fs) = f /\ Last(cs) = c
    BY <1>8 DEF Last
  <2>2. fs # <<>>
    <3>1. Len(<<>>) # 1
      BY NoList
    <3>2. QED
      BY <1>8, <3>1, Zenon
  <2>3. QED
    BY <2>1, <2>2
<1>10. Stands(fs, cs, H, host)
  BY <1>2, <1>6, <1>7, <1>9 DEF Stands
<1>11. RankOwns(st, fs, H, done, script)
  BY <1>4, <1>8, <1>9, <1>10 DEF RankOwns, host
<1>12. QED
  BY <1>11 DEF fs, f

LEMMA BeginOwns ==
  ASSUME WayInv, OwnInv, NEW r \in Ranks, Begin(r)
  PROVE  OwnInv' /\ HostsKeep
<1> DEFINE done == results[r]
           script == scenario.script
           n == Len(done)
           op == script[n + 1].op
           in == IF script[n + 1].on = "host" THEN 1 ELSE Last(done).out
           frames == <<Frame(op, in)>>
<1>1. /\ RankOwns(status[r], stack[r], heap[r], done, script)
      /\ status[r] = "running" /\ stack[r] = <<>> /\ n < Len(script)
  BY DEF OwnInv, Begin
<1>2. IsList(done) /\ n \in Nat
  <2>1. RankOK(Mine(r)) /\ Mine(r).results = done
    BY MineIs DEF WayInv
  <2>2. IsList(done)
    BY <2>1 DEF RankOK
  <2>3. QED
    BY <2>2, ListIs
<1>3. /\ Len(script) \in Nat /\ DOMAIN script = 1 .. Len(script)
      /\ \A i \in DOMAIN script :
           /\ WellFormedOp(script[i].op)
           /\ \/ script[i].on = "host"
              \/ i > 1 /\ script[i - 1].op.name \notin Functions
  <2>1. script \in Seq(ToSet(script))
    BY ScenarioAssumption DEF WayInv
  <2>2. Len(script) \in Nat /\ DOMAIN script = 1 .. Len(script)
    BY <2>1, LenProperties
  <2>3. \A i \in DOMAIN script :
          /\ WellFormedOp(script[i].op)
          /\ \/ script[i].on = "host"
             \/ i > 1 /\ script[i - 1].op.name \notin Functions
    BY ScenarioAssumption DEF WayInv
  <2>4. QED
    BY <2>2, <2>3
<1>4. /\ scenario' = scenario /\ heap' = heap
      /\ status' = [status EXCEPT ![r] = status[r]] /\ stack' = [stack EXCEPT ![r] = frames]
      /\ results' = [results EXCEPT ![r] = done]
  BY DEF Begin, NextOp, WayInv, Functional
<1> HIDE DEF script, done
<1>5. n + 1 \in DOMAIN script /\ (n + 1) - 1 = n
  BY <1>1, <1>2, <1>3
<1>6. WellFormedOp(op)
  BY <1>3, <1>5
<1>7. in \in Held(done)
  <2>1. CASE script[n + 1].on = "host"
    BY <2>1 DEF Held
  <2>2. CASE script[n + 1].on # "host"
    <3>1. n + 1 > 1 /\ script[n].op.name \notin Functions
      BY <1>3, <1>5, <2>2
    <3>2. n \in 1 .. n /\ DOMAIN done = 1 .. n
      BY <1>2, <3>1, ListIs
    <3>3. done[n].out # 0
      BY <1>1, <3>1, <3>2 DEF RankOwns
    <3>4. Last(done) = done[n]
      BY DEF Last
    <3>5. QED
      BY <2>2, <3>2, <3>3, <3>4 DEF Held
  <2>3. QED
    BY <2>1, <2>2
<1> HIDE DEF op, in
<1>8. op = script[n + 1].op
  BY DEF op
<1>9. RankOwns(status[r], frames, heap[r], done, script)
  BY <1>1, <1>6, <1>7, <1>8, HostOpens
<1> HIDE DEF frames
<1>10. QED
  BY <1>4, <1>9, HeapKept DEF script

(* A filter calls another. *)
LEMMA CallStands ==
  ASSUME NEW st, NEW frames, NEW H, NEW done, NEW script,
         RankOwns(st, frames, H, done, script), st \notin Stopped, frames # <<>>,
         NEW f, f = Last(frames), f.todo # <<>>, Head(f.todo).do = "update",
         NEW in, in = f.reg[Head(f.todo).from]
  PROVE  RankOwns(st, Append(frames, Frame(Head(f.todo).op, in)), H, done, script)
<1> DEFINE host == Held(done)
           op == Head(f.todo).op
           g == Frame(op, in)
           fs == Append(frames, g)
<1>1. PICK books : Stands(frames, books, H, host)
  BY DEF RankOwns
<1> DEFINE b == Last(books)
           B == Whole(f, b)
           c == Book(Start, B)
           cs == Append(books, c)
<1>2. BooksOK(frames, books, host) /\ IsHeap(H) /\ LiveIn(H) = B
  BY <1>1 DEF Stands
<1>3. /\ Ledger(f, b) /\ IsList(frames) /\ IsList(books) /\ Len(frames) \in Nat \ {0}
      /\ Len(books) = Len(frames)
  <2>1. Ledger(Last(frames), Last(books)) /\ Len(frames) \in Nat \ {0}
    BY <1>2, TopOfBooks
  <2>2. IsList(frames) /\ IsList(books) /\ Len(books) = Len(frames)
    BY <1>2 DEF BooksOK
  <2>3. QED
    BY <2>1, <2>2
<1>4. StandsAt(f, b, H)
  BY <1>2, <1>3 DEF StandsAt
<1>5. Callable(op) /\ in \in B
  <2> HIDE DEF b
  <2>1. PICK t : Does(f.op, Head(f.todo), b.held, t)
    BY <1>4, HasAtStep
  <2>2. Head(f.todo).from \in b.held.has /\ Callable(Head(f.todo).op)
    BY <2>1, DoesUpdate
  <2>3. \A x \in b.held.has : f.reg[x] \in LiveIn(H)
    BY <1>4, HasAtStep
  <2>4. QED
    BY <1>2, <2>2, <2>3
<1>6. WellFormedOp(op) /\ g = Frame(op, in)
  BY <1>5 DEF Callable
<1> HIDE DEF g, op, B, b
<1>7. Ledger(g, Book(Start, B)) /\ Whole(g, Book(Start, B)) = B /\ g.op = op
  BY <1>5, <1>6, StartingFrame
<1>8. c.base = B
  BY BookIs
<1> HIDE DEF c
<1>9. Ledger(g, c) /\ Whole(g, c) = B /\ Callable(g.op)
  BY <1>5, <1>7 DEF c
<1>10. Awaiting(Last(frames)) /\ c.base = Whole(Last(frames), Last(books))
  BY <1>8 DEF Awaiting, B, b
<1>11. BooksOK(fs, cs, host)
  BY <1>2, <1>9, <1>10, BooksPushed
<1>12. /\ IsList(fs) /\ Len(fs) = Len(frames) + 1 /\ fs[Len(frames) + 1] = g /\ fs[1] = frames[1]
       /\ IsList(cs) /\ Len(cs) = Len(frames) + 1 /\ cs[Len(frames) + 1] = c
  <2>1. /\ IsList(fs) /\ Len(fs) = Len(frames) + 1 /\ fs[Len(frames) + 1] = g
        /\ \A i \in 1 .. Len(frames) : fs[i] = frames[i]
    BY <1>3, Appended
  <2>2. /\ IsList(cs) /\ Len(cs) = Len(books) + 1 /\ cs[Len(books) + 1] = c
    BY <1>3, Appended
  <2>3. 1 \in 1 .. Len(frames)
    BY <1>3
  <2>4. QED
    BY <1>3, <2>1, <2>2, <2>3
<1> HIDE DEF fs, cs
<1>13. Last(fs) = g /\ Last(cs) = c
  BY <1>12 DEF Last
<1>14. fs # <<>>
  <2>1. Len(fs) # 0
    BY <1>3, <1>12
  <2>2. QED
    BY <1>12, <2>1, ListIs
<1>15. Stands(fs, cs, H, host)
  BY <1>2, <1>9, <1>11, <1>13, <1>14 DEF Stands
<1>16. RankOwns(st, fs, H, done, script)
  BY <1>12, <1>15 DEF RankOwns, host
<1>17. QED
  BY <1>16 DEF fs, g, op

LEMMA CallOwns ==
  ASSUME WayInv, OwnInv, NEW r \in Ranks, CallUpdate(r)
  PROVE  OwnInv' /\ HostsKeep
<1> DEFINE f == Top(r)
           in == f.reg[Step(r).from]
           frames == Append(stack[r], Frame(Step(r).op, in))
<1>1. /\ Doing(r, "update") /\ scenario' = scenario /\ heap' = heap
      /\ status' = [status EXCEPT ![r] = status[r]] /\ stack' = [stack EXCEPT ![r] = frames]
      /\ results' = [results EXCEPT ![r] = results[r]]
  BY DEF CallUpdate, WayInv, Functional
<1>2. /\ f.todo # <<>> /\ Head(f.todo) = Step(r) /\ Step(r).do = "update"
      /\ stack[r] # <<>> /\ status[r] = "running"
  BY <1>1, AtItsStep
<1>3. RankOwns(status[r], stack[r], heap[r], results[r], scenario.script)
  BY DEF OwnInv
<1>4. f = Last(stack[r])
  BY DEF Top
<1>5. in = f.reg[Head(f.todo).from] /\ frames = Append(stack[r], Frame(Head(f.todo).op, in))
  BY <1>2
<1> HIDE DEF f, in
<1>6. RankOwns(status[r], Append(stack[r], Frame(Head(f.todo).op, in)), heap[r], results[r], scenario.script)
  BY <1>2, <1>3, <1>4, <1>5, CallStands
<1>7. RankOwns(status[r], frames, heap[r], results[r], scenario.script)
  BY <1>5, <1>6
<1> HIDE DEF frames
<1>8. QED
  BY <1>1, <1>7, HeapKept

(* What a filter that returns has. *)
LEMMA OverHas ==
  ASSUME NEW f, NEW b, NEW H, StandsAt(f, b, H), f.todo = <<>>
  PROVE  /\ f.op.name \notin Functions =>
              /\ LiveIn(H) = b.base \cup {f.reg["out"]} /\ f.reg["out"] \notin b.base
              /\ f.reg["out"] # 0
         /\ f.op.name \in Functions => LiveIn(H) = b.base /\ f.reg["out"] = 0
<1> DEFINE s == b.held
           v == f.reg["out"]
           slices == f.slices
<1>1. /\ Accounts(f.reg, slices, s, b.base) /\ Safe(f.op, f.todo, s)
      /\ IsHeap(H) /\ LiveIn(H) = b.base \cup OwnedOf(f.reg, slices, s)
  BY DEF StandsAt, Ledger, Whole
<1>2. Over(f.op, s)
  BY <1>1, SafeEnds
<1>3. /\ Len(slices) = s.slices /\ ("out" \notin s.has => v = 0)
      /\ OwnedOf(f.reg, slices, s) \cap b.base = {}
  BY <1>1 DEF Accounts
<1> HIDE DEF slices
<1>4. 1 .. Len(slices) = {}
  BY <1>2, <1>3 DEF Over
<1>5. OwnedOf(f.reg, slices, s) = {f.reg[x] : x \in s.own}
  BY <1>4 DEF OwnedOf
<1>6. CASE f.op.name \in Functions
  <2>1. s.own = {} /\ v = 0
    BY <1>2, <1>3, <1>6 DEF Over
  <2>2. OwnedOf(f.reg, slices, s) = {}
    BY <1>5, <2>1
  <2>3. QED
    BY <1>1, <1>6, <2>1, <2>2
<1>7. CASE f.op.name \notin Functions
  <2>1. s.own = {"out"}
    BY <1>2, <1>7 DEF Over
  <2>2. OwnedOf(f.reg, slices, s) = {v}
    BY <1>5, <2>1
  <2>3. v \in DOMAIN H
    BY <1>1, <2>2 DEF LiveIn
  <2>4. v # 0
    <3>1. Len(H) \in Nat /\ DOMAIN H = 1 .. Len(H)
      BY <1>1, ListIs DEF IsHeap
    <3>2. QED
      BY <2>3, <3>1
  <2>5. QED
    BY <1>1, <1>3, <1>7, <2>2, <2>4
<1>8. QED
  BY <1>6, <1>7

(* A filter gets the output v of the one it called, *)
Gets(f, g, v) ==
  IF Head(f.todo).to = "slices" THEN g.slices = Append(f.slices, v) /\ g.reg = f.reg
  ELSE g.slices = f.slices /\ g.reg = [f.reg EXCEPT ![Head(f.todo).to] = v]

LEMMA GetsIs ==
  ASSUME NEW f, NEW b, Ledger(f, b), Awaiting(f), NEW v, v \notin Whole(f, b),
         NEW g, Past(f, g, Tail(f.todo)), Gets(f, g, v)
  PROVE  \E c : /\ Ledger(g, c) /\ g.op = f.op /\ c.base = b.base
                /\ Whole(g, c) = Whole(f, b) \cup {v}
<1> DEFINE s == b.held
           to == Head(f.todo).to
           old == f.reg
           slices == f.slices
           base == b.base
<1>1. f.todo # <<>> /\ Head(f.todo).do = "update"
  BY DEF Awaiting
<1>2. /\ \E t : Does(f.op, Head(f.todo), s, t) /\ Safe(f.op, Tail(f.todo), t)
      /\ Accounts(old, slices, s, base)
      /\ Whole(f, b) = base \cup OwnedOf(old, slices, s)
  BY <1>1, StepOf
<1>3. PICK t : Does(f.op, Head(f.todo), s, t) /\ Safe(f.op, Tail(f.todo), t)
  BY <1>2
<1>4. \/ to \in Registers \ s.own /\ t = Made(s, to)
      \/ to = "slices" /\ t = Contoured(s)
  BY <1>1, <1>3, DoesUpdate
<1>5. v \notin base /\ v \notin OwnedOf(old, slices, s)
  BY <1>2
<1>6. old = [y \in Registers |-> old[y]]
  BY <1>2 DEF Accounts
<1>7. to = "slices" => g.slices = Append(slices, v) /\ g.reg = old
  BY DEF Gets
<1>8. to # "slices" => g.slices = slices /\ g.reg = [old EXCEPT ![to] = v]
  BY DEF Gets
<1>9. t.cells = s.cells
  BY <1>4, HoldingIs DEF Made, Contoured
<1> DEFINE new == g.reg
           more == g.slices
<1>10. /\ Accounts(new, more, t, base)
       /\ OwnedOf(new, more, t) = OwnedOf(old, slices, s) \cup {v}
  <2> HIDE DEF new, more, old, slices, base, s, to
  <2>1. CASE to \in Registers \ s.own /\ t = Made(s, to)
    <3>1. to # "slices"
      BY <2>1 DEF Registers
    <3>2. more = slices /\ new = [old EXCEPT ![to] = v]
      BY <1>8, <3>1 DEF new, more
    <3>3. Replaced(new, old, to, v)
      BY <1>6, <2>1, <3>2 DEF Replaced
    <3>4. Accounts(old, slices, s, base)
      BY <1>2
    <3>5. /\ Accounts(new, slices, t, base)
          /\ OwnedOf(new, slices, t) = OwnedOf(old, slices, s) \cup {v}
      BY <1>5, <2>1, <3>3, <3>4, AccountsMake
    <3>6. QED
      BY <3>2, <3>5
  <2>2. CASE to = "slices" /\ t = Contoured(s)
    <3>1. more = Append(slices, v) /\ new = old
      BY <1>7, <2>2 DEF new, more
    <3>2. Accounts(old, slices, s, base)
      BY <1>2
    <3>3. /\ Accounts(old, Append(slices, v), t, base)
          /\ OwnedOf(old, Append(slices, v), t) = OwnedOf(old, slices, s) \cup {v}
      BY <1>5, <2>2, <3>2, AccountsContour
    <3>4. QED
      BY <3>1, <3>3
  <2>3. QED
    BY <1>4, <2>1, <2>2
<1> DEFINE c == Book(t, b.base)
<1>11. /\ Ledger(g, c) /\ g.op = f.op /\ c.base = b.base
       /\ Whole(g, c) = b.base \cup OwnedOf(g.reg, g.slices, t)
  BY <1>3, <1>9, <1>10, LedgerOn
<1>12. Whole(g, c) = Whole(f, b) \cup {v}
  BY <1>2, <1>10, <1>11
<1> HIDE DEF c
<1>13. QED
  BY <1>11, <1>12

(* and goes on. *)
LEMMA OutputStands ==
  ASSUME NEW st, NEW frames, NEW H, NEW done, NEW script,
         RankOwns(st, frames, H, done, script), st \notin Stopped, frames # <<>>, Len(frames) > 1,
         Last(frames).todo = <<>>,
         NEW f, f = frames[Len(frames) - 1], NEW g, Past(f, g, Tail(f.todo)),
         Gets(f, g, Last(frames).reg["out"])
  PROVE  RankOwns(st, Append(Front(Front(frames)), g), H, done, script)
<1> DEFINE host == Held(done)
           v == Last(frames).reg["out"]
           fs == Front(frames)
           gs == Append(Front(fs), g)
           n == Len(frames)
<1>1. PICK books : Stands(frames, books, H, host)
  BY DEF RankOwns
<1> DEFINE e == Last(frames)
           d == Last(books)
           bs == Front(books)
           b == Last(bs)
<1>2. BooksOK(frames, books, host) /\ IsHeap(H) /\ LiveIn(H) = Whole(e, d)
  BY <1>1 DEF Stands
<1>3. Ledger(e, d) /\ Callable(e.op) /\ n \in Nat \ {0}
  <2>1. Len(frames) # 1
    BY <1>2, TopOfBooks
  <2>2. QED
    BY <1>2, <2>1, TopOfBooks
<1>4. StandsAt(e, d, H) /\ e.todo = <<>>
  BY <1>2, <1>3 DEF StandsAt
<1>5. /\ LiveIn(H) = d.base \cup {v} /\ v \notin d.base
  <2>1. e.op.name \notin Functions
    BY <1>3 DEF Callable
  <2> HIDE DEF d, e
  <2>2. /\ LiveIn(H) = d.base \cup {e.reg["out"]} /\ e.reg["out"] \notin d.base
    BY <1>4, <2>1, OverHas
  <2>3. QED
    BY <2>2 DEF e
<1>6. /\ BooksOK(fs, bs, host) /\ fs # <<>> /\ Last(fs) = f /\ Awaiting(f)
      /\ d.base = Whole(f, b)
  BY <1>2, BooksPopped
<1>7. Ledger(f, b)
  BY <1>6, TopOfBooks
<1> HIDE DEF fs, bs, d, e, host
<1>8. PICK c : /\ Ledger(g, c) /\ g.op = f.op /\ c.base = b.base
               /\ Whole(g, c) = Whole(f, b) \cup {v}
  <2>1. v \notin Whole(f, b) /\ Gets(f, g, v)
    BY <1>5, <1>6
  <2> HIDE DEF v, b
  <2>2. QED
    BY <1>6, <1>7, <2>1, GetsIs
<1> DEFINE cs == Append(Front(bs), c)
<1>9. BooksOK(gs, cs, host)
  <2>1. g.op = Last(fs).op /\ c.base = Last(bs).base
    BY <1>6, <1>8
  <2>2. QED
    BY <1>6, <1>8, <2>1, BooksSwapped
<1>10. IsList(frames) /\ IsList(fs) /\ IsList(bs) /\ bs # <<>>
  <2>1. IsList(frames)
    BY <1>2 DEF BooksOK
  <2>2. IsList(fs) /\ IsList(bs)
    BY <1>6 DEF BooksOK
  <2>3. bs # <<>>
    BY <1>6, TopOfBooks
  <2>4. QED
    BY <2>1, <2>2, <2>3
<1>11. /\ Len(fs) = n - 1 /\ \A i \in 1 .. n - 1 : fs[i] = frames[i]
  BY <1>10, LastReplaced DEF fs
<1>12. /\ IsList(gs) /\ Len(gs) = n - 1 /\ gs[n - 1] = g
       /\ \A i \in 1 .. (n - 1) - 1 : gs[i] = fs[i]
  <2>1. /\ IsList(gs) /\ Len(gs) = Len(fs) /\ gs[Len(fs)] = g
        /\ \A i \in 1 .. Len(fs) - 1 : gs[i] = fs[i]
    <3>1. IsList(fs) /\ fs # <<>> /\ EndsWith(gs, fs, g)
      BY <1>6, <1>10 DEF EndsWith
    <3> HIDE DEF gs
    <3>2. QED
      BY <3>1, WithLast
  <2> HIDE DEF gs, n
  <2>2. QED
    BY <1>11, <2>1
<1>13. Last(cs) = c
  <2>1. Len(cs) = Len(bs) /\ cs[Len(bs)] = c
    BY <1>10, LastReplaced
  <2> HIDE DEF cs
  <2>2. Last(cs) = cs[Len(cs)]
    BY DEF Last
  <2>3. QED
    BY <2>1, <2>2
<1> HIDE DEF gs, cs, v, b
<1>14. n > 1 /\ f = frames[n - 1]
  OBVIOUS
<1> HIDE DEF n
<1>15. gs # <<>> /\ Last(gs) = g
  <2>1. Last(gs) = g
    BY <1>12 DEF Last
  <2>2. Len(gs) # 0
    BY <1>3, <1>12, <1>14
  <2>3. QED
    BY <1>12, <2>1, <2>2, ListIs
<1>16. gs[1].op = frames[1].op
  <2>1. CASE n = 2
    <3>1. n - 1 = 1
      BY <2>1
    <3>2. QED
      BY <1>8, <1>12, <1>14, <3>1
  <2>2. CASE n # 2
    <3>1. 1 \in 1 .. (n - 1) - 1 /\ 1 \in 1 .. n - 1
      BY <1>3, <1>14, <2>2
    <3>2. QED
      BY <1>11, <1>12, <3>1
  <2>3. QED
    BY <2>1, <2>2
<1>17. Stands(gs, cs, H, host)
  <2>1. LiveIn(H) = Whole(g, c)
    BY <1>5, <1>6, <1>8
  <2>2. QED
    BY <1>2, <1>9, <1>13, <1>15, <2>1 DEF Stands
<1>18. RankOwns(st, gs, H, done, script)
  BY <1>15, <1>16, <1>17 DEF RankOwns, host
<1>19. QED
  BY <1>18 DEF gs, fs

LEMMA OutputOwns ==
  ASSUME WayInv, OwnInv, NEW r \in Ranks, ReturnToFilter(r)
  PROVE  OwnInv' /\ HostsKeep
<1> DEFINE frames == stack[r]
           f == frames[Len(frames) - 1]
           v == Last(frames).reg["out"]
           rest == [f EXCEPT !.todo = Tail(f.todo)]
           to == Head(f.todo).to
           slices == Append(rest.slices, v)
           reg == [rest.reg EXCEPT ![to] = v]
           g == IF to = "slices" THEN [rest EXCEPT !.slices = slices] ELSE [rest EXCEPT !.reg = reg]
<1>1. /\ status[r] = "running" /\ frames # <<>> /\ Last(frames).todo = <<>> /\ Len(frames) > 1
      /\ scenario' = scenario /\ heap' = heap
      /\ status' = [status EXCEPT ![r] = status[r]]
      /\ results' = [results EXCEPT ![r] = results[r]]
  BY DEF ReturnToFilter, Finished, Top, WayInv, Functional
<1>2. stack' = [stack EXCEPT ![r] = Append(Front(Front(frames)), g)]
  <2>1. stack' = [stack EXCEPT ![r] = Append(Front(Front(frames)),
           IF to = "slices" THEN [rest EXCEPT !.slices = Append(@, v)] ELSE [rest EXCEPT !.reg[to] = v])]
    BY Zenon DEF ReturnToFilter, Top
  <2>2. QED
    BY <2>1
<1>3. RankOwns(status[r], frames, heap[r], results[r], scenario.script)
  BY DEF OwnInv
<1>4. IsFrame(f)
  <2>1. RankOK(Mine(r)) /\ Mine(r).stack = frames
    BY MineIs DEF WayInv
  <2>2. FramesOK(frames) /\ IsList(frames)
    BY <2>1 DEF RankOK, FramesOK
  <2>3. Len(frames) - 1 \in 1 .. Len(frames)
    <3>1. Len(frames) \in Nat
      BY <2>2, ListIs
    <3>2. QED
      BY <1>1, <3>1
  <2>4. QED
    BY <2>2, <2>3 DEF FramesOK, FrameOK
<1>5. Moved(f, rest, Tail(f.todo)) /\ Changed(f, rest)
  BY <1>4, FrameOf, DataOf
<1>6. g = IF to = "slices" THEN [rest EXCEPT !.slices = slices] ELSE [rest EXCEPT !.reg = reg]
  OBVIOUS
<1> HIDE DEF g
<1>7. rest.reg = f.reg /\ rest.slices = f.slices
  BY <1>5 DEF Changed, SameData
<1>8. slices = Append(f.slices, v) /\ reg = [f.reg EXCEPT ![to] = v]
  BY <1>7
<1> HIDE DEF rest, slices, reg, v
<1>9. Past(f, g, Tail(f.todo))
  <2>1. Moved(f, rest, Tail(f.todo))
    BY <1>5
  <2> HIDE DEF f, to
  <2>2. \A x : Past(f, [rest EXCEPT !.reg = x], Tail(f.todo)) /\ Past(f, [rest EXCEPT !.slices = x], Tail(f.todo))
    BY <2>1 DEF Moved
  <2>3. QED
    BY <1>6, <2>2
<1>10. Gets(f, g, v)
  <2>1. Changed(f, rest)
    BY <1>5
  <2> HIDE DEF f
  <2>2. /\ [rest EXCEPT !.slices = slices].slices = slices /\ [rest EXCEPT !.slices = slices].reg = f.reg
        /\ [rest EXCEPT !.reg = reg].reg = reg /\ [rest EXCEPT !.reg = reg].slices = f.slices
    BY <2>1 DEF Changed
  <2>3. CASE to = "slices"
    <3>1. g = [rest EXCEPT !.slices = slices]
      BY <1>6, <2>3
    <3>2. g.slices = Append(f.slices, v) /\ g.reg = f.reg
      BY <1>8, <2>2, <3>1
    <3>3. QED
      BY <2>3, <3>2 DEF Gets
  <2>4. CASE to # "slices"
    <3>1. g = [rest EXCEPT !.reg = reg]
      BY <1>6, <2>4
    <3>2. g.slices = f.slices /\ g.reg = [f.reg EXCEPT ![to] = v]
      BY <1>8, <2>2, <3>1
    <3>3. QED
      BY <2>4, <3>2 DEF Gets
  <2>5. QED
    BY <2>3, <2>4
<1>11. f = frames[Len(frames) - 1] /\ v = Last(frames).reg["out"]
  BY DEF v
<1> HIDE DEF f, frames
<1> DEFINE gs == Append(Front(Front(frames)), g)
<1>12. RankOwns(status[r], gs, heap[r], results[r], scenario.script)
  BY <1>1, <1>3, <1>9, <1>10, <1>11, OutputStands
<1>13. stack' = [stack EXCEPT ![r] = gs]
  BY <1>2
<1> HIDE DEF gs
<1>14. QED
  BY <1>1, <1>12, <1>13, HeapKept

(* The host gets an output. *)
LEMMA HostHolds ==
  ASSUME NEW done, IsList(done), NEW x
  PROVE  Held(Append(done, x)) = Held(done) \cup ({x.out} \ {0})
<1> DEFINE n == Len(done)
           more == Append(done, x)
<1>1. /\ n \in Nat /\ DOMAIN done = 1 .. n
      /\ \A k \in 1 .. n : more[k] = done[k]
      /\ IsList(more) /\ Len(more) = n + 1 /\ more[n + 1] = x
  BY ListIs, Appended
<1>2. DOMAIN more = 1 .. n + 1
  BY <1>1, ListIs
<1>3. 1 .. n + 1 = (1 .. n) \cup {n + 1}
  BY <1>1
<1> HIDE DEF more, n
<1>4. {more[k].out : k \in DOMAIN more} = {done[k].out : k \in DOMAIN done} \cup {x.out}
  BY <1>1, <1>2, <1>3
<1>5. QED
  BY <1>4 DEF Held, more

LEMMA HostStands ==
  ASSUME NEW st, NEW frames, NEW H, NEW done, NEW script,
         RankOwns(st, frames, H, done, script), st \notin Stopped, frames # <<>>, Len(frames) = 1,
         Last(frames).todo = <<>>, IsList(done), Len(script) \in Nat,
         NEW x, x.out = Last(frames).reg["out"]
  PROVE  RankOwns(st, <<>>, H, Append(done, x), script)
<1> DEFINE host == Held(done)
           more == Append(done, x)
           f == Last(frames)
           v == f.reg["out"]
           n == Len(done)
           none == <<>>
<1>1. PICK books : Stands(frames, books, H, host)
  BY DEF RankOwns
<1> DEFINE b == Last(books)
<1>2. BooksOK(frames, books, host) /\ IsHeap(H) /\ LiveIn(H) = Whole(f, b)
  BY <1>1 DEF Stands
<1>3. Ledger(f, b) /\ b.base = host /\ f = frames[1]
  BY <1>2, TopOfBooks
<1>4. StandsAt(f, b, H)
  BY <1>2, <1>3 DEF StandsAt
<1>5. /\ f.op.name \notin Functions => LiveIn(H) = host \cup {v} /\ v # 0
      /\ f.op.name \in Functions => LiveIn(H) = host /\ v = 0
  <2> HIDE DEF b, host, f
  <2>1. f.todo = <<>>
    BY DEF f
  <2>2. QED
    BY <1>3, <1>4, <2>1, OverHas
<1>6. Held(more) = host \cup ({v} \ {0})
  BY HostHolds
<1> HIDE DEF b
<1>7. LiveIn(H) = Held(more)
  BY <1>5, <1>6
<1>8. /\ n \in Nat /\ Len(more) = n + 1 /\ more[n + 1] = x
      /\ \A k \in 1 .. n : more[k] = done[k]
  BY ListIs, Appended
<1>9. n < Len(script) /\ f.op = script[n + 1].op
  BY <1>3 DEF RankOwns
<1>10. x.out = v
  OBVIOUS
<1>11. \A k \in 1 .. n : script[k].op.name \notin Functions => done[k].out # 0
  BY DEF RankOwns
<1> HIDE DEF more, f, v, n, host
<1>12. Len(more) <= Len(script)
  BY <1>8, <1>9
<1>13. \A k \in 1 .. Len(more) : script[k].op.name \notin Functions => more[k].out # 0
  <2>1. \A k \in 1 .. Len(more) : k \in 1 .. n \/ k = n + 1
    BY <1>8
  <2>2. script[n + 1].op.name \notin Functions => more[n + 1].out # 0
    BY <1>5, <1>8, <1>9, <1>10
  <2>3. QED
    BY <1>8, <1>11, <2>1, <2>2
<1>14. Stands(none, none, H, Held(more))
  <2>1. BooksOK(none, none, Held(more))
    BY BooksClosed
  <2>2. none = <<>>
    OBVIOUS
  <2> HIDE DEF none
  <2>3. QED
    BY <1>2, <1>7, <2>1, <2>2 DEF Stands
<1>15. RankOwns(st, none, H, more, script)
  BY <1>2, <1>7, <1>12, <1>13, <1>14 DEF RankOwns
<1>16. QED
  BY <1>15 DEF more

LEMMA ResultOwns ==
  ASSUME WayInv, OwnInv, NEW r \in Ranks, ReturnToHost(r)
  PROVE  OwnInv' /\ HostsKeep
<1> DEFINE frames == stack[r]
           f == Top(r)
           x == [in |-> f.reg.in, out |-> f.reg.out, got |-> f.got]
           more == Append(results[r], x)
           none == <<>>
<1>1. /\ status[r] = "running" /\ frames # <<>> /\ Last(frames).todo = <<>> /\ Len(frames) = 1
      /\ scenario' = scenario /\ heap' = heap
      /\ status' = [status EXCEPT ![r] = status[r]]
      /\ results' = [results EXCEPT ![r] = more]
      /\ stack' = [stack EXCEPT ![r] = none]
  BY DEF ReturnToHost, Finished, Top, WayInv, Functional
<1>2. RankOwns(status[r], frames, heap[r], results[r], scenario.script)
  BY DEF OwnInv
<1>3. IsList(results[r])
  <2>1. RankOK(Mine(r)) /\ Mine(r).results = results[r]
    BY MineIs DEF WayInv
  <2>2. QED
    BY <2>1 DEF RankOK
<1>4. Len(scenario.script) \in Nat
  <2>1. scenario.script \in Seq(ToSet(scenario.script))
    BY ScenarioAssumption DEF WayInv
  <2>2. QED
    BY <2>1, LenProperties
<1>5. x.out = Last(frames).reg["out"]
  BY DEF Top
<1> HIDE DEF x, frames
<1>6. RankOwns(status[r], <<>>, heap[r], Append(results[r], x), scenario.script)
  BY <1>1, <1>2, <1>3, <1>4, <1>5, HostStands
<1> HIDE DEF more, none
<1>7. QED
  BY <1>1, <1>6, HeapKept DEF more, none

-----------------------------------------------------------------------------
(* At the start a rank has the host's data set. *)
LEMMA HostAlone ==
  ASSUME NEW d, IsDataSet(d), NEW script, Len(script) \in Nat
  PROVE  RankOwns("running", <<>>, <<d>>, <<>>, script)
<1> DEFINE none == <<>>
           H == <<d>>
<1>1. IsList(H) /\ Len(H) = 1 /\ H[1] = d
  BY OneIsList
<1>2. DOMAIN H = {1}
  <2>1. DOMAIN H = 1 .. 1
    BY <1>1, ListIs
  <2>2. QED
    BY <2>1
<1>3. d # Freed
  BY DataSetThere
<1>4. IsList(none) /\ Len(none) = 0 /\ DOMAIN none = {}
  <2>1. IsList(none) /\ Len(none) = 0
    BY NoList
  <2>2. DOMAIN none = 1 .. 0
    BY <2>1, ListIs
  <2>3. QED
    BY <2>1, <2>2
<1>5. BooksOK(none, none, Held(none))
  BY BooksClosed
<1>6. none = <<>>
  OBVIOUS
<1> HIDE DEF none, H
<1>7. LiveIn(H) = {1} /\ IsHeap(H)
  BY <1>1, <1>2, <1>3 DEF LiveIn, IsHeap
<1>8. Held(none) = {1}
  BY <1>4 DEF Held
<1>9. Stands(none, none, H, Held(none))
  BY <1>5, <1>6, <1>7, <1>8 DEF Stands
<1>10. Len(none) <= Len(script)
  BY <1>4
<1>11. \A k \in 1 .. Len(none) : script[k].op.name \notin Functions => none[k].out # 0
  BY <1>4
<1>12. Held(none) \subseteq LiveIn(H)
  BY <1>7, <1>8
<1>13. RankOwns("running", none, H, none, script)
  BY <1>6, <1>7, <1>9, <1>10, <1>11, <1>12 DEF RankOwns
<1>14. QED
  BY <1>13 DEF none, H

LEMMA StartsOwning == Init => OwnInv
<1> SUFFICES ASSUME Init PROVE OwnInv
  OBVIOUS
<1>1. /\ scenario \in Scenarios
      /\ status = [r \in Ranks |-> "running"] /\ stack = [r \in Ranks |-> <<>>]
      /\ heap = [r \in Ranks |-> <<scenario.data[r]>>] /\ results = [r \in Ranks |-> <<>>]
  BY DEF Init
<1>2. Len(scenario.script) \in Nat
  <2>1. scenario.script \in Seq(ToSet(scenario.script))
    BY <1>1, ScenarioAssumption
  <2>2. QED
    BY <2>1, LenProperties
<1>3. \A r \in Ranks : IsDataSet(scenario.data[r])
  BY <1>1, ScenarioAssumption DEF IsDataSet
<1>4. \A r \in Ranks : RankOwns("running", <<>>, <<scenario.data[r]>>, <<>>, scenario.script)
  BY <1>2, <1>3, HostAlone
<1>5. \A r \in Ranks : RankOwns(status[r], stack[r], heap[r], results[r], scenario.script)
  BY <1>1, <1>4
<1>6. heap = [r \in Ranks |-> heap[r]]
  BY <1>1
<1>7. QED
  BY <1>5, <1>6 DEF OwnInv

(* Every step keeps the invariant, and the host's data. *)
LEMMA StaysOwned == WayInv /\ OwnInv /\ [Next]_vars => OwnInv' /\ HostsKeep
<1> SUFFICES ASSUME WayInv, OwnInv, [Next]_vars PROVE OwnInv' /\ HostsKeep
  OBVIOUS
<1>1. ASSUME NEW r \in Ranks, Work(r) PROVE OwnInv' /\ HostsKeep
  <2>1. CASE RunOnDomains(r) \/ OverwriteDomains(r) \/ PropagateMetadata(r) \/ TakePicture(r)
    BY <2>1, RunOwns, OverwriteOwns, MetadataOwns, PictureOwns
  <2>2. CASE AssignPointer(r) \/ DeleteDataSet(r) \/ RestoreInput(r)
    BY <2>2, AssignOwns, DeleteOwns, RestoreOwns
  <2>3. CASE MergeSlices(r) \/ TakeSlice(r) \/ MapFields(r)
    BY <2>3, MergeOwns, TakeOwns, QuietActionsOwn
  <2>4. CASE DomainThrows(r)
    <3>1. Fail(r, "thrown") /\ "thrown" \in Stopped
      BY <2>4 DEF DomainThrows
    <3>2. QED
      BY <3>1, FailedOwns
  <2>5. QED
    BY <1>1, <2>1, <2>2, <2>3, <2>4 DEF Work
<1>2. ASSUME NEW r \in Ranks, Control(r) PROVE OwnInv' /\ HostsKeep
  <2>1. CASE Begin(r) \/ CallUpdate(r) \/ ReturnToFilter(r) \/ ReturnToHost(r) \/ Finish(r)
    BY <2>1, BeginOwns, CallOwns, OutputOwns, ResultOwns, FinishOwns
  <2>2. CASE EnterCall(r)
    <3>1. UNCHANGED <<scenario, status, stack, heap, results>>
      BY <2>2 DEF EnterCall
    <3>2. QED
      BY <3>1, StillOwns
  <2>3. CASE ReturnFromCall(r) \/ Branch(r) \/ CheckHolds(r)
    BY <2>3, AnswerOwns, BranchOwns, QuietActionsOwn
  <2>4. CASE CheckFails(r)
    <3>1. PICK how \in Stopped : Fail(r, how)
      BY <2>4 DEF CheckFails
    <3>2. QED
      BY <3>1, FailedOwns
  <2>5. QED
    BY <1>2, <2>1, <2>2, <2>3, <2>4 DEF Control
<1>3. ASSUME NEW r \in Ranks, Bounding(r) PROVE OwnInv' /\ HostsKeep
  BY <1>3, QuietActionsOwn
<1>4. ASSUME NEW r \in Ranks, Counting(r) PROVE OwnInv' /\ HostsKeep
  BY <1>4, QuietActionsOwn, CalcOwns DEF Counting
<1>5. CASE Terminated \/ UNCHANGED vars
  <2>1. UNCHANGED <<scenario, status, stack, heap, results>>
    BY <1>5 DEF Terminated, vars
  <2>2. QED
    BY <2>1, StillOwns
<1>6. QED
  BY <1>1, <1>2, <1>3, <1>4, <1>5 DEF Next

-----------------------------------------------------------------------------
(* What the invariant says of a rank. *)
LEMMA OwnedIs ==
  /\ \A r : Owned(r) = Held(results[r]) /\ Live(r) = LiveIn(heap[r])
BY DEF Owned, Outputs, Held, Live, LiveIn

(* Of the frames under way. *)
LEMMA InputsThere ==
  ASSUME NEW frames, NEW books, NEW H, NEW host, Stands(frames, books, H, host),
         NEW i \in 1 .. Len(frames)
  PROVE  frames[i].reg.in \in LiveIn(H)
<1> DEFINE f == frames[i]
           b == books[i]
           v == f.reg["in"]
<1>1. frames # <<>>
  <2>1. IsList(frames) /\ Len(frames) # 0
    BY DEF Stands, BooksOK
  <2>2. QED
    BY <2>1, ListIs
<1>2. Ledger(f, b) /\ Whole(f, b) \subseteq LiveIn(H)
  <2>1. BooksOK(frames, books, host) /\ LiveIn(H) = Whole(Last(frames), Last(books))
    BY <1>1 DEF Stands
  <2>2. Whole(f, b) \subseteq Whole(Last(frames), Last(books))
    BY <1>1, <2>1, TopOfBooks
  <2>3. Ledger(f, b)
    BY <2>1 DEF BooksOK
  <2>4. QED
    BY <2>1, <2>2, <2>3
<1> HIDE DEF f, b
<1>3. Accounts(f.reg, f.slices, b.held, b.base)
  BY <1>2 DEF Ledger
<1>4. "in" \in b.held.has /\ \A x \in b.held.has \ b.held.own : f.reg[x] \in b.base
  BY <1>3 DEF Accounts
<1>5. v \in Whole(f, b)
  <2>1. CASE "in" \in b.held.own
    BY <2>1 DEF Whole, OwnedOf
  <2>2. CASE "in" \notin b.held.own
    BY <1>4, <2>2 DEF Whole
  <2>3. QED
    BY <2>1, <2>2
<1>6. QED
  BY <1>2, <1>5 DEF f

LEMMA OwnsAll == WayInv /\ OwnInv => NoDangling
<1> SUFFICES ASSUME WayInv, OwnInv, NEW r \in Ranks
             PROVE  /\ Owned(r) \subseteq Live(r)
                    /\ \A i \in DOMAIN stack[r] : stack[r][i].reg.in \in Live(r)
  BY DEF NoDangling
<1> DEFINE frames == stack[r]
           H == heap[r]
<1>1. RankOwns(status[r], frames, H, results[r], scenario.script)
  BY DEF OwnInv
<1>2. Owned(r) = Held(results[r]) /\ Live(r) = LiveIn(H)
  BY OwnedIs
<1>3. Owned(r) \subseteq Live(r)
  BY <1>1, <1>2 DEF RankOwns
<1>4. IsList(frames) /\ (status[r] # "running" => frames = <<>>)
  <2>1. RankOK(Mine(r)) /\ Mine(r).stack = frames /\ Mine(r).status = status[r]
    BY MineIs DEF WayInv
  <2>2. QED
    BY <2>1 DEF RankOK, FramesOK
<1>5. DOMAIN frames = 1 .. Len(frames)
  BY <1>4, ListIs
<1>6. ASSUME NEW i \in DOMAIN frames PROVE frames[i].reg.in \in LiveIn(H)
  <2>1. frames # <<>>
    <3>1. i \in 1 .. Len(frames) /\ Len(frames) \in Nat
      BY <1>4, <1>5, <1>6, ListIs
    <3>2. Len(frames) # 0
      BY <3>1
    <3>3. QED
      BY <1>4, <3>2, ListIs
  <2>2. status[r] \notin Stopped
    BY <1>4, <2>1
  <2>3. PICK books : Stands(frames, books, H, Held(results[r]))
    BY <1>1, <2>2 DEF RankOwns
  <2> HIDE DEF frames, H
  <2>4. QED
    BY <1>5, <2>3, InputsThere
<1>7. QED
  BY <1>2, <1>3, <1>6

LEMMA OwnsNoMore == OwnInv => NothingLeaks
<1> SUFFICES ASSUME OwnInv, NEW r \in Ranks, stack[r] = <<>>, status[r] \notin Stopped
             PROVE  Live(r) = Owned(r)
  BY DEF NothingLeaks
<1> DEFINE frames == stack[r]
           H == heap[r]
<1>1. RankOwns(status[r], frames, H, results[r], scenario.script)
  BY DEF OwnInv
<1>2. Owned(r) = Held(results[r]) /\ Live(r) = LiveIn(H)
  BY OwnedIs
<1>3. PICK books : Stands(frames, books, H, Held(results[r]))
  BY <1>1 DEF RankOwns
<1>4. LiveIn(H) = Held(results[r])
  BY <1>3 DEF Stands
<1>5. QED
  BY <1>2, <1>4

(* No filter, however its calls to other filters nest, works on a data set   *)
(* that is deleted, and no data set the host holds is deleted: the pointers  *)
(* of PreExecute, DoExecute and PostExecute, and the inputs that Recenter    *)
(* and GhostStripper replace, point to what is there.                        *)
THEOREM NothingDangles == Spec => []NoDangling
<1>1. Spec => [](WayInv /\ OwnInv)
  BY StartsOnWay, StaysOnWay, StartsOwning, StaysOwned, PTL DEF Spec
<1>2. QED
  BY <1>1, OwnsAll, PTL

(* Between two operations a rank has the host's data and the outputs it gave *)
(* to the host, and nothing else: each temporary data set, contour or copy   *)
(* that a filter makes on any of its ways to its end is deleted once.        *)
THEOREM NothingEverLeaks == Spec => []NothingLeaks
<1>1. Spec => [](WayInv /\ OwnInv)
  BY StartsOnWay, StaysOnWay, StartsOwning, StaysOwned, PTL DEF Spec
<1>2. WayInv /\ OwnInv => NothingLeaks
  BY OwnsNoMore
<1>3. QED
  BY <1>1, <1>2, PTL

(* What the host holds stays as it is through every step of every filter on  *)
(* it, but for the field that HistSampling adds to its input.                *)
THEOREM InputStays == Spec => InputKept
<1>1. Spec => [](WayInv /\ OwnInv)
  BY StartsOnWay, StaysOnWay, StartsOwning, StaysOwned, PTL DEF Spec
<1>2. WayInv /\ OwnInv /\ [Next]_vars =>
        [\A r \in Ranks : \A a \in Owned(r) :
           \/ heap'[r][a] = heap[r][a]
           \/ /\ NextOp(r).op.name = "HistSampling" /\ NextOp(r).op.ghost = ""
              /\ WithoutSample(heap'[r][a].doms) = WithoutSample(heap[r][a].doms)
              /\ heap'[r][a].cycle = heap[r][a].cycle]_vars
  <2>1. WayInv /\ OwnInv /\ [Next]_vars => HostsKeep
    BY StaysOwned
  <2>2. QED
    BY <2>1, OwnedIs, Zenon DEF HostsKeep, Keeping, Samples
<1>3. QED
  BY <1>1, <1>2, PTL DEF Spec, InputKept

-----------------------------------------------------------------------------
(* The samples of HistSampling. *)

(* What was done last is in the script. *)
LEMMA LastIsAsked ==
  ASSUME WayInv, OwnInv, NEW r \in Filters({"HistSampling"})
  PROVE  /\ LastOp(r).num \in Nat /\ LastOp(r).den \in Nat \ {0}
         /\ LastOp(r).num <= LastOp(r).den /\ LastOp(r).bins \in Nat \ {0}
<1> DEFINE script == scenario.script
           k == Len(results[r])
<1>1. r \in Ranks /\ results[r] # <<>> /\ LastOp(r) = script[k].op /\ LastOp(r).name = "HistSampling"
  BY DEF Filters, Done, LastOp, OpOf
<1>2. k \in Nat /\ k # 0
  <2>1. RankOK(Mine(r)) /\ Mine(r).results = results[r]
    BY <1>1, MineIs DEF WayInv
  <2>2. IsList(results[r])
    BY <2>1 DEF RankOK
  <2>3. QED
    BY <1>1, <2>2, ListIs
<1>3. k <= Len(script)
  BY <1>1 DEF OwnInv, RankOwns
<1>4. Len(script) \in Nat /\ DOMAIN script = 1 .. Len(script)
  <2>1. script \in Seq(ToSet(script))
    BY ScenarioAssumption DEF WayInv
  <2>2. QED
    BY <2>1, LenProperties
<1>5. \A i \in DOMAIN script : SharesAllowed(script[i].op)
  BY ScenarioAssumption DEF WayInv
<1> HIDE DEF script, k
<1>6. SharesAllowed(script[k].op)
  BY <1>2, <1>3, <1>4, <1>5
<1>7. QED
  BY <1>1, <1>6 DEF SharesAllowed

(* HistSampling keeps the share of the values it was asked to keep, evenly   *)
(* over the bins as far as they go, whatever data was counted and however    *)
(* often it is called: given that the counts of the bins are natural numbers *)
(* (which TypeOK has TLC check), the quotas are as SampleShared says.        *)
THEOREM SamplesAlwaysShared == Spec /\ []BinsCounted => []SampleShared
<1>1. Spec => [](WayInv /\ OwnInv)
  BY StartsOnWay, StaysOnWay, StartsOwning, StaysOwned, PTL DEF Spec
<1>2. WayInv /\ OwnInv /\ BinsCounted => SampleShared
  <2> SUFFICES ASSUME WayInv, OwnInv, BinsCounted, NEW r \in Filters({"HistSampling"})
               PROVE  LET op == LastOp(r)
                          counts == GotBy(r)[<<"bins", op.f>>]
                          unit == Denominator(op.den, op.bins)
                          quota == calculate_pdf(totalCount(counts), counts, op.num, op.den)
                      IN  /\ totalCount(quota) * op.den = totalCount(counts) * op.num * unit
                          /\ \A a, b \in DOMAIN counts :
                               /\ quota[a] <= counts[a] * unit
                               /\ quota[a] < quota[b] => quota[a] = counts[a] * unit
    BY DEF SampleShared
  <2> DEFINE n == LastOp(r).bins
             num == LastOp(r).num
             den == LastOp(r).den
             counts == GotBy(r)[<<"bins", LastOp(r).f>>]
  <2>1. n \in Nat /\ num \in Nat /\ den \in Nat \ {0} /\ num <= den
    BY LastIsAsked
  <2>2. counts \in [1 .. n -> Nat]
    BY DEF BinsCounted
  <2>3. WellShared(counts, num, den, n)
    <3> HIDE DEF n, num, den, counts
    <3>1. QED
      BY <2>1, <2>2, SharesAddUp
  <2>4. DOMAIN counts = 1 .. n
    BY <2>2
  <2>5. QED
    BY <2>3, <2>4 DEF WellShared
<1>3. QED
  BY <1>1, <1>2, PTL

=============================================================================
