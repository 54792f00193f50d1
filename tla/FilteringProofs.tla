-------------------------- MODULE FilteringProofs ---------------------------
(***************************************************************************)
(* Theorems about Filtering, for any number of ranks, any data and any     *)
(* script of operations: the ranks make the same collective calls, and     *)
(* none gets past where one throws.                                        *)
(*                                                                         *)
(* The argument: what a rank does next is decided by its place, that       *)
(* is by the filters under way, what they have left to do and the answers  *)
(* that all ranks got alike, and by nothing else the rank knows.  There is *)
(* one sequence of places, the way; each rank that has not thrown stands   *)
(* on it, and each call was made from the place on it that has its number. *)
(* The answers of TotalVal differ, but nothing in it depends on them.      *)
(* A check of what all know fails at the place where it stands, so on all  *)
(* ranks or on none; a rank that throws for its own domains has stopped    *)
(* somewhere on the way.                                                   *)
(***************************************************************************)
EXTENDS FilteringProperties, ListLemmas, TLAPS

USE DEF Stopped

-----------------------------------------------------------------------------
(* Sequences written out. *)

LEMMA Two ==
  ASSUME NEW a, NEW b
  PROVE  <<a, b>> = <<a>> \o <<b>>
<1>1. <<a>> \in Seq({a, b}) /\ <<b>> \in Seq({a, b}) /\ <<a, b>> \in Seq({a, b})
  OBVIOUS
<1>2. Len(<<a>>) = 1 /\ Len(<<b>>) = 1 /\ Len(<<a, b>>) = 2
  OBVIOUS
<1>3. (<<a>> \o <<b>>)[1] = a /\ (<<a>> \o <<b>>)[2] = b
  BY <1>1, <1>2, ConcatProperties
<1>4. Len(<<a>> \o <<b>>) = 2 /\ <<a>> \o <<b>> \in Seq({a, b})
  BY <1>1, <1>2, ConcatProperties
<1>5. \A i \in 1 .. 2 : <<a, b>>[i] = (<<a>> \o <<b>>)[i]
  <2>1. \A i \in 1 .. 2 : i = 1 \/ i = 2
    OBVIOUS
  <2>2. <<a, b>>[1] = a /\ <<a, b>>[2] = b
    OBVIOUS
  <2>3. QED
    BY <1>3, <2>1, <2>2
<1>6. QED
  BY <1>1, <1>2, <1>4, <1>5, SeqEqual

LEMMA Three ==
  ASSUME NEW a, NEW b, NEW c
  PROVE  <<a, b, c>> = <<a>> \o <<b, c>>
OBVIOUS

LEMMA Four ==
  ASSUME NEW a, NEW b, NEW c, NEW d
  PROVE  <<a, b, c, d>> = <<a>> \o <<b, c, d>>
OBVIOUS

LEMMA Five ==
  ASSUME NEW a, NEW b, NEW c, NEW d, NEW e
  PROVE  <<a, b, c, d, e>> = <<a>> \o <<b, c, d, e>>
OBVIOUS

LEMMA Seven ==
  ASSUME NEW a, NEW b, NEW c, NEW d, NEW e, NEW f, NEW g
  PROVE  <<a, b, c, d, e, f, g>> = <<a, b>> \o <<c, d, e, f, g>>
OBVIOUS
-----------------------------------------------------------------------------
(* Programs: which way a filter goes is decided by what all ranks know.      *)

(* A step that is no branch, does not throw on account of the rank's own    *)
(* fields, and starts operations of vtk-h only.                              *)
Plain(step) ==
  /\ step.do # "if"
  /\ step.do = "check" => step.test # "has"
  /\ step.do = "update" => WellFormedOp(step.op)

PlainList(prog) == IsList(prog) /\ \A i \in 1 .. Len(prog) : Plain(prog[i])

Branches(op, step) ==
  /\ op.name # "TotalVal"
  /\ step.test \notin LocalTests
  /\ PlainList(step.then) /\ PlainList(step.else)

Sound(op, step) ==
  /\ step.do = "if" => Branches(op, step)
  /\ step.do = "check" => step.test # "has" /\ op.name # "TotalVal"
  /\ step.do = "update" => WellFormedOp(step.op)

SoundList(op, prog) == IsList(prog) /\ \A i \in 1 .. Len(prog) : Sound(op, prog[i])

LEMMA PlainIsSound ==
  ASSUME NEW op, op.name # "TotalVal", NEW prog, PlainList(prog)
  PROVE  SoundList(op, prog)
BY DEF PlainList, SoundList, Plain, Sound

(* Sound pieces joined are sound, and so is what is left of a sound piece. *)
LEMMA SoundJoined ==
  ASSUME NEW op, NEW p, NEW q, SoundList(op, p), SoundList(op, q)
  PROVE  SoundList(op, p \o q)
<1>1. /\ IsList(p \o q) /\ Len(p \o q) = Len(p) + Len(q)
      /\ \A i \in 1 .. Len(p) + Len(q) :
           (p \o q)[i] = IF i <= Len(p) THEN p[i] ELSE q[i - Len(p)]
  BY Joined2 DEF SoundList
<1>2. Len(p) \in Nat /\ Len(q) \in Nat
  BY ListIs DEF SoundList
<1> SUFFICES ASSUME NEW i \in 1 .. Len(p) + Len(q)
             PROVE  Sound(op, (p \o q)[i])
  BY <1>1 DEF SoundList
<1>3. CASE i <= Len(p)
  <2>1. i \in 1 .. Len(p) /\ (p \o q)[i] = p[i]
    BY <1>1, <1>2, <1>3
  <2>2. QED
    BY <2>1 DEF SoundList
<1>4. CASE ~(i <= Len(p))
  <2>1. i - Len(p) \in 1 .. Len(q) /\ (p \o q)[i] = q[i - Len(p)]
    BY <1>1, <1>2, <1>4
  <2>2. QED
    BY <2>1 DEF SoundList
<1>5. QED
  BY <1>3, <1>4

LEMMA SoundTail ==
  ASSUME NEW op, NEW prog, SoundList(op, prog), prog # <<>>
  PROVE  SoundList(op, Tail(prog)) /\ Sound(op, Head(prog))
<1>1. /\ Len(prog) \in Nat \ {0} /\ Head(prog) = prog[1]
      /\ IsList(Tail(prog)) /\ Len(Tail(prog)) = Len(prog) - 1
      /\ \A i \in 1 .. Len(prog) - 1 : Tail(prog)[i] = prog[i + 1]
  BY HeadTail DEF SoundList
<1>2. \A i \in 1 .. Len(prog) - 1 : i + 1 \in 1 .. Len(prog)
  BY <1>1
<1>3. QED
  BY <1>1, <1>2 DEF SoundList

LEMMA SoundNone == \A op : SoundList(op, <<>>)
BY NoList DEF SoundList

LEMMA PlainNone == PlainList(<<>>)
BY NoList DEF PlainList

LEMMA PlainOne ==
  ASSUME NEW a, Plain(a)
  PROVE  PlainList(<<a>>)
BY OneIsList DEF PlainList

(* The same for steps without branches. *)
LEMMA PlainJoined ==
  ASSUME NEW p, NEW q, PlainList(p), PlainList(q)
  PROVE  PlainList(p \o q)
<1>1. /\ IsList(p \o q) /\ Len(p \o q) = Len(p) + Len(q)
      /\ \A i \in 1 .. Len(p) + Len(q) :
           (p \o q)[i] = IF i <= Len(p) THEN p[i] ELSE q[i - Len(p)]
  BY Joined2 DEF PlainList
<1>2. Len(p) \in Nat /\ Len(q) \in Nat
  BY ListIs DEF PlainList
<1> SUFFICES ASSUME NEW i \in 1 .. Len(p) + Len(q)
             PROVE  Plain((p \o q)[i])
  BY <1>1 DEF PlainList
<1>3. CASE i <= Len(p)
  <2>1. i \in 1 .. Len(p) /\ (p \o q)[i] = p[i]
    BY <1>1, <1>2, <1>3
  <2>2. QED
    BY <2>1 DEF PlainList
<1>4. CASE ~(i <= Len(p))
  <2>1. i - Len(p) \in 1 .. Len(q) /\ (p \o q)[i] = q[i - Len(p)]
    BY <1>1, <1>2, <1>4
  <2>2. QED
    BY <2>1 DEF PlainList
<1>5. QED
  BY <1>3, <1>4

LEMMA PlainTwo ==
  ASSUME NEW a, NEW b, Plain(a), Plain(b)
  PROVE  PlainList(<<a, b>>)
BY Two, PlainOne, PlainJoined

LEMMA PlainThree ==
  ASSUME NEW a, NEW b, NEW c, Plain(a), Plain(b), Plain(c)
  PROVE  PlainList(<<a, b, c>>)
BY Three, PlainOne, PlainTwo, PlainJoined

LEMMA PlainFive ==
  ASSUME NEW a, NEW b, NEW c, NEW d, NEW e, Plain(a), Plain(b), Plain(c), Plain(d), Plain(e)
  PROVE  PlainList(<<a, b, c, d, e>>)
<1>1. PlainList(<<b>> \o <<c, d, e>>)
  BY PlainOne, PlainThree, PlainJoined
<1>2. PlainList(<<b, c, d, e>>)
  BY <1>1, Four
<1>3. PlainList(<<a>> \o <<b, c, d, e>>)
  BY <1>2, PlainOne, PlainJoined
<1>4. QED
  BY <1>3, Five

LEMMA PlainSeven ==
  ASSUME NEW a, NEW b, NEW c, NEW d, NEW e, NEW f, NEW g,
         Plain(a), Plain(b), Plain(c), Plain(d), Plain(e), Plain(f), Plain(g)
  PROVE  PlainList(<<a, b, c, d, e, f, g>>)
<1>1. PlainList(<<a, b>>) /\ PlainList(<<c, d, e, f, g>>)
  BY PlainTwo, PlainFive
<1>2. PlainList(<<a, b>> \o <<c, d, e, f, g>>)
  BY <1>1, PlainJoined
<1> DEFINE t == <<a, b, c, d, e, f, g>>
           u == <<a, b>> \o <<c, d, e, f, g>>
<1>3. t = u
  BY Seven
<1>4. PlainList(u)
  BY <1>2
<1> HIDE DEF t, u
<1>5. PlainList(t)
  BY <1>3, <1>4
<1>6. QED
  BY <1>5 DEF t

LEMMA SoundOne ==
  ASSUME NEW op, NEW a, Sound(op, a)
  PROVE  SoundList(op, <<a>>)
BY OneIsList DEF SoundList

LEMMA SoundFlat ==
  ASSUME NEW op, NEW lists, IsList(lists),
         \A i \in 1 .. Len(lists) : SoundList(op, lists[i])
  PROVE  SoundList(op, FlattenSeq(lists))
<1> DEFINE n == Len(lists)
<1>1. n \in Nat
  BY ListIs
<1>2. CASE n = 0
  <2>1. lists = <<>>
    BY <1>2, ListIs
  <2>2. FlattenSeq(lists) = lists
    BY <1>2 DEF FlattenSeq
  <2>3. QED
    BY <2>1, <2>2, SoundNone
<1>3. CASE n # 0
  <2>1. PICK h : Joins(h, lists, n)
    BY <1>1, JoinsExist
  <2>2. FlattenSeq(lists) = h[n]
    BY <1>1, <1>3, <2>1, FlattenIs
  <2> DEFINE T == {k \in Nat : k \in 1 .. n => SoundList(op, h[k])}
  <2>3. 0 \in T
    OBVIOUS
  <2>4. ASSUME NEW k \in Nat, k \in T PROVE k + 1 \in T
    <3> SUFFICES ASSUME k + 1 \in 1 .. n PROVE SoundList(op, h[k + 1])
      OBVIOUS
    <3>1. h[k + 1] = IF k + 1 = 1 THEN lists[k + 1] ELSE h[(k + 1) - 1] \o lists[k + 1]
      BY <2>1 DEF Joins
    <3>2. SoundList(op, lists[k + 1])
      OBVIOUS
    <3>3. CASE k = 0
      BY <3>1, <3>2, <3>3
    <3>4. CASE k # 0
      <4>1. k \in 1 .. n /\ k + 1 # 1 /\ (k + 1) - 1 = k
        BY <1>1, <3>4
      <4>2. SoundList(op, h[k])
        BY <2>4, <4>1
      <4>3. h[k + 1] = h[k] \o lists[k + 1]
        BY <3>1, <4>1
      <4>4. QED
        BY <3>2, <4>2, <4>3, SoundJoined
    <3>5. QED
      BY <3>3, <3>4
  <2>5. Nat \subseteq T
    <3> HIDE DEF T
    <3>1. QED
      BY <2>3, <2>4, NatInductionSet
  <2>6. n \in T
    BY <1>1, <2>5
  <2>7. QED
    BY <1>1, <1>3, <2>2, <2>6
<1>4. QED
  BY <1>2, <1>3

-----------------------------------------------------------------------------
(* The programs of the filters. *)

LEMMA PlainAsk == \A q, of, f : Plain(Ask(q, of, f))
BY DEF Plain, Ask

LEMMA PlainCheck == \A test, f : test # "has" => Plain(Check(test, f))
BY DEF Plain, Check

LEMMA PlainOwn == \A test, of, f : test # "has" => Plain(CheckOwn(test, of, f))
BY DEF Plain, CheckOwn

LEMMA PlainMap == \A work, from, to : Plain(Map(work, from, to))
BY DEF Plain, Map

LEMMA PlainOverwrite == \A work, of : Plain(Overwrite(work, of))
BY DEF Plain, Overwrite

LEMMA PlainUpdate == \A op, from, to : WellFormedOp(op) => Plain(Update(op, from, to))
BY DEF Plain, Update

LEMMA PlainDelete == \A reg : Plain(Delete(reg))
BY DEF Plain, Delete

LEMMA PlainAssign == \A to, from : Plain(Assign(to, from))
BY DEF Plain, Assign

LEMMA PlainDo == \A step : step \notin {"if", "check", "update"} => Plain(Do(step))
BY DEF Plain, Do

(* A step of its own that neither branches nor checks is sound anywhere. *)
LEMMA QuietSound ==
  ASSUME NEW op, NEW step, step \notin {"if", "check", "update"}
  PROVE  SoundList(op, <<Do(step)>>)
<1>1. Sound(op, Do(step))
  BY DEF Sound, Do
<1>2. SoundList(op, <<Do(step)>>)
  BY <1>1, OneIsList DEF SoundList
<1>3. QED
  BY <1>2

LEMMA SoundIf ==
  ASSUME NEW op, NEW test, NEW f, NEW then, NEW else, op.name # "TotalVal",
         test \notin LocalTests, PlainList(then), PlainList(else)
  PROVE  SoundList(op, <<If(test, f, then, else)>>)
<1>1. Sound(op, If(test, f, then, else))
  BY DEF Sound, If, Branches
<1>2. QED
  BY <1>1, SoundOne

(* Operations that filters start take no list of fields or planes. *)
LEMMA OpWellFormed ==
  ASSUME NEW op, "name" \in DOMAIN op, op.name \in FilterNames \ {"CompositeVector", "Slice"}
  PROVE  WellFormedOp(op)
BY DEF WellFormedOp, FilterNames, CountingOps

(* Each piece a program is put together from, and each program. *)
LEMMA FieldSound ==
  \A op, f : op.name # "TotalVal" => SoundList(op, CheckForRequiredField(f))
BY PlainAsk, PlainCheck, PlainTwo, PlainIsSound DEF CheckForRequiredField

LEMMA AssociationSound ==
  ASSUME NEW op, NEW of, NEW f, op.name # "TotalVal"
  PROVE  SoundList(op, GetFieldAssociation(of, f))
<1> DEFINE then == <<Ask("assoc", of, f), Check("assoc", f)>>
<1>1. SoundList(op, <<Ask("exists", of, f)>>)
  BY PlainAsk, PlainOne, PlainIsSound
<1>2. PlainList(then)
  BY PlainAsk, PlainCheck, PlainTwo
<1> HIDE DEF then
<1>3. "exists" \notin LocalTests
  BY DEF LocalTests, OwnTests
<1>4. SoundList(op, <<If("exists", f, then, <<>>)>>)
  BY <1>2, <1>3, SoundIf, PlainNone
<1>5. SoundList(op, <<Ask("exists", of, f)>> \o <<If("exists", f, then, <<>>)>>)
  BY <1>1, <1>4, SoundJoined
<1>6. QED
  BY <1>5, Two DEF GetFieldAssociation, then

LEMMA RangeSound ==
  ASSUME NEW op, NEW of, NEW f, op.name # "TotalVal"
  PROVE  SoundList(op, GetGlobalRange(of, f))
<1> DEFINE then == <<Ask("rangeLo", of, f), Ask("rangeHi", of, f)>>
           ifs == <<If("ranged", f, then, <<>>)>>
<1>1. PlainList(then)
  BY PlainAsk, PlainTwo
<1> HIDE DEF then
<1>2. "ranged" \notin LocalTests
  BY DEF LocalTests, OwnTests
<1>3. SoundList(op, ifs)
  BY <1>1, <1>2, SoundIf, PlainNone
<1> DEFINE own == <<CheckOwn("alike", of, f)>>
           ask == <<Ask("rangeComps", of, f)>>
           check == <<Check("range", f)>>
           two == <<Check("range", f), If("ranged", f, then, <<>>)>>
           three == <<Ask("rangeComps", of, f), Check("range", f), If("ranged", f, then, <<>>)>>
<1>4. SoundList(op, own) /\ SoundList(op, ask) /\ SoundList(op, check)
  BY PlainAsk, PlainCheck, PlainOwn, PlainOne, PlainIsSound
<1>5. two = check \o ifs
  BY Two
<1>6. three = ask \o two
  BY Three
<1>7. GetGlobalRange(of, f) = own \o three
  BY Four DEF GetGlobalRange, then
<1> HIDE DEF own, ask, check, ifs, two, three
<1>8. SoundList(op, two)
  BY <1>3, <1>4, <1>5, SoundJoined
<1>9. SoundList(op, three)
  BY <1>4, <1>6, <1>8, SoundJoined
<1>10. QED
  BY <1>4, <1>7, <1>9, SoundJoined

LEMMA PointMeshSound ==
  ASSUME NEW op, NEW of, op.name # "TotalVal"
  PROVE  SoundList(op, IsPointMesh(of))
<1> DEFINE else == <<Ask("points", of, "")>>
<1>1. SoundList(op, <<Ask("empty", of, "")>>)
  BY PlainAsk, PlainOne, PlainIsSound
<1>2. PlainList(else)
  BY PlainAsk, PlainOne
<1> HIDE DEF else
<1>3. "empty" \notin LocalTests
  BY DEF LocalTests, OwnTests
<1>4. SoundList(op, <<If("empty", "", <<>>, else)>>)
  BY <1>2, <1>3, SoundIf, PlainNone
<1>5. SoundList(op, <<Ask("empty", of, "")>> \o <<If("empty", "", <<>>, else)>>)
  BY <1>1, <1>4, SoundJoined
<1>6. QED
  BY <1>5, Two DEF IsPointMesh, else

LEMMA ToPointsSound ==
  ASSUME NEW op, NEW f, op.name # "TotalVal"
  PROVE  SoundList(op, ToPoints(f))
<1> DEFINE sub == [name |-> "Recenter", f |-> f, map |-> {}, assoc |-> "points"]
           then == <<Update(sub, "in", "in")>>
<1>1. WellFormedOp(sub)
  <2>1. /\ "name" \in DOMAIN sub /\ sub.name = "Recenter"
        /\ "Recenter" \in FilterNames \ {"CompositeVector", "Slice"}
    BY DEF FilterNames
  <2> HIDE DEF sub
  <2>2. QED
    BY <2>1, OpWellFormed
<1> HIDE DEF sub
<1>2. PlainList(then)
  BY <1>1, PlainUpdate, PlainOne
<1> HIDE DEF then
<1>3. "cells" \notin LocalTests
  BY DEF LocalTests, OwnTests
<1>4. SoundList(op, <<If("cells", f, then, <<>>)>>)
  BY <1>2, <1>3, SoundIf, PlainNone
<1>5. SoundList(op, <<Assign("old", "in")>>)
  BY PlainAssign, PlainOne, PlainIsSound
<1>6. SoundList(op, (<<Assign("old", "in")>> \o GetFieldAssociation("in", f)) \o
                    <<If("cells", f, then, <<>>)>>)
  BY <1>4, <1>5, SoundJoined, AssociationSound
<1>7. QED
  BY <1>6 DEF ToPoints, then, sub

LEMMA RecenteredSound ==
  ASSUME NEW op, NEW f, op.name # "TotalVal"
  PROVE  SoundList(op, DeleteRecentered(f))
<1>1. PlainList(<<Do("restore")>>)
  BY PlainDo, PlainOne
<1>2. "cells" \notin LocalTests
  BY DEF LocalTests, OwnTests
<1>3. QED
  BY <1>1, <1>2, SoundIf, PlainNone DEF DeleteRecentered

LEMMA CleanGridOfPlain == \A from : Plain(CleanGridOf(from))
<1> DEFINE sub == [name |-> "CleanGrid", f |-> "", map |-> {}]
<1>1. WellFormedOp(sub)
  <2>1. /\ "name" \in DOMAIN sub /\ sub.name = "CleanGrid"
        /\ "CleanGrid" \in FilterNames \ {"CompositeVector", "Slice"}
    BY DEF FilterNames
  <2> HIDE DEF sub
  <2>2. QED
    BY <2>1, OpWellFormed
<1> HIDE DEF sub
<1>2. \A from : Plain(Update(sub, from, "out"))
  BY <1>1, PlainUpdate
<1>3. QED
  BY <1>2 DEF CleanGridOf, sub

-----------------------------------------------------------------------------

LEMMA MapSound ==
  \A op, work, from, to : op.name # "TotalVal" => SoundList(op, <<Map(work, from, to)>>)
BY PlainMap, PlainOne, PlainIsSound

(* Programs that only ask for the field and then work on the domains. *)
LEMMA PlainProgramsSound ==
  ASSUME NEW op, op.name # "TotalVal"
  PROVE  /\ SoundList(op, CleanGrid(op)) /\ SoundList(op, NoOp(op))
         /\ SoundList(op, PointTransform(op)) /\ SoundList(op, Triangulate(op))
         /\ SoundList(op, Tetrahedralize(op)) /\ SoundList(op, Recenter(op))
         /\ SoundList(op, Lagrangian(op)) /\ SoundList(op, VectorMagnitude(op))
         /\ SoundList(op, CellAverage(op)) /\ SoundList(op, PointAverage(op))
         /\ SoundList(op, GhostStripper(op)) /\ SoundList(op, VectorComponent(op))
<1> DEFINE here == <<Map(op, "in", "out")>>
           field == CheckForRequiredField(op.f)
<1>1. SoundList(op, here) /\ SoundList(op, field)
  BY MapSound, FieldSound
<1>2. SoundList(op, <<Check("named", ""), Map(op, "in", "out")>>)
  BY PlainCheck, PlainMap, PlainTwo, PlainIsSound
<1>3. SoundList(op, <<Check("ordered", "")>>)
  BY PlainCheck, PlainOne, PlainIsSound
<1>4. SoundList(op, <<Ask("comps", "in", op.f), Check("component", op.f), Check("named", ""),
                      Map(op, "in", "out")>>)
  <2>1. PlainList(<<Check("component", op.f), Check("named", ""), Map(op, "in", "out")>>)
    BY PlainCheck, PlainMap, PlainThree
  <2>2. PlainList(<<Ask("comps", "in", op.f)>> \o
                  <<Check("component", op.f), Check("named", ""), Map(op, "in", "out")>>)
    BY <2>1, PlainAsk, PlainOne, PlainJoined
  <2>3. QED
    BY <2>2, Four, PlainIsSound
<1>5. SoundList(op, field \o here)
  BY <1>1, SoundJoined
<1>6. SoundList(op, field \o <<Check("named", ""), Map(op, "in", "out")>>)
  BY <1>1, <1>2, SoundJoined
<1>7. SoundList(op, (<<Check("ordered", "")>> \o field) \o here)
  BY <1>1, <1>3, SoundJoined
<1>8. SoundList(op, field \o <<Ask("comps", "in", op.f), Check("component", op.f),
                                Check("named", ""), Map(op, "in", "out")>>)
  BY <1>1, <1>4, SoundJoined
<1>9. /\ SoundList(op, CleanGrid(op)) /\ SoundList(op, PointTransform(op))
      /\ SoundList(op, Triangulate(op)) /\ SoundList(op, Tetrahedralize(op))
  BY <1>1 DEF CleanGrid, PointTransform, Triangulate, Tetrahedralize
<1>10. /\ SoundList(op, NoOp(op)) /\ SoundList(op, Recenter(op))
       /\ SoundList(op, Lagrangian(op)) /\ SoundList(op, VectorMagnitude(op))
  BY <1>5 DEF NoOp, Recenter, Lagrangian, VectorMagnitude
<1>11. SoundList(op, CellAverage(op)) /\ SoundList(op, PointAverage(op))
  BY <1>6 DEF CellAverage, PointAverage
<1>12. SoundList(op, GhostStripper(op)) /\ SoundList(op, VectorComponent(op))
  BY <1>7, <1>8 DEF GhostStripper, VectorComponent
<1> HIDE DEF here, field
<1>13. QED
  BY <1>9, <1>10, <1>11, <1>12

LEMMA CompositeVectorSound ==
  ASSUME NEW op, op.name # "TotalVal", op.fields \in Seq(STRING)
  PROVE  SoundList(op, CompositeVector(op))
<1> DEFINE n == Len(op.fields)
           fields == FlattenSeq([i \in 1 .. n |-> CheckForRequiredField(op.fields[i])])
           comps == FlattenSeq([i \in 1 .. n |-> <<Ask("comps", "in", op.fields[i])>>])
           assocs == FlattenSeq([i \in 1 .. n |-> GetFieldAssociation("in", op.fields[i])])
           last == <<Check("sameAssoc", ""), Check("named", ""), Map(op, "in", "out")>>
<1>1. n \in Nat /\ DOMAIN op.fields = 1 .. n
  OBVIOUS
<1>2. ASSUME NEW lists, lists = [i \in 1 .. n |-> lists[i]],
             \A i \in 1 .. n : SoundList(op, lists[i])
      PROVE  SoundList(op, FlattenSeq(lists))
  <2> HIDE DEF n
  <2>1. IsList(lists) /\ Len(lists) = n
    BY <1>1, <1>2, ListOf
  <2>2. QED
    BY <1>2, <2>1, SoundFlat
<1>3. SoundList(op, fields)
  BY <1>2, FieldSound
<1>4. SoundList(op, comps)
  BY <1>2, PlainAsk, PlainOne, PlainIsSound
<1>5. SoundList(op, assocs)
  BY <1>2, AssociationSound
<1>6. SoundList(op, last) /\ SoundList(op, <<Check("scalars", "")>>)
  BY PlainCheck, PlainMap, PlainOne, PlainThree, PlainIsSound
<1>7. CompositeVector(op) = (((fields \o comps) \o <<Check("scalars", "")>>) \o assocs) \o last
  BY <1>1 DEF CompositeVector
<1> HIDE DEF n, fields, comps, assocs, last
<1>8. QED
  BY <1>3, <1>4, <1>5, <1>6, <1>7, SoundJoined

LEMMA LogSound ==
  ASSUME NEW op, op.name # "TotalVal"
  PROVE  SoundList(op, Log(op))
<1> DEFINE last == <<Check("positive", op.f), Map(op, "in", "out")>>
<1>1. SoundList(op, last)
  BY PlainCheck, PlainMap, PlainTwo, PlainIsSound
<1> HIDE DEF last
<1>2. SoundList(op, (CheckForRequiredField(op.f) \o GetGlobalRange("in", op.f)) \o last)
  BY <1>1, FieldSound, RangeSound, SoundJoined
<1>3. QED
  BY <1>2 DEF Log, last

LEMMA ParticleMergingSound ==
  ASSUME NEW op, op.name # "TotalVal"
  PROVE  SoundList(op, ParticleMerging(op))
<1> DEFINE last == <<Check("pointMesh", ""), Map(op, "in", "out")>>
<1>1. SoundList(op, last)
  BY PlainCheck, PlainMap, PlainTwo, PlainIsSound
<1> HIDE DEF last
<1>2. SoundList(op, (CheckForRequiredField(op.f) \o IsPointMesh("in")) \o last)
  BY <1>1, FieldSound, PointMeshSound, SoundJoined
<1>3. QED
  BY <1>2 DEF ParticleMerging, last

LEMMA ThresholdSound ==
  ASSUME NEW op, op.name # "TotalVal"
  PROVE  SoundList(op, Threshold(op))
<1> DEFINE last == <<Map(op, "in", "temp"), CleanGridOf("temp"), Delete("temp")>>
<1>1. SoundList(op, last)
  BY PlainMap, CleanGridOfPlain, PlainDelete, PlainThree, PlainIsSound
<1> HIDE DEF last
<1>2. SoundList(op, CheckForRequiredField(op.f) \o last)
  BY <1>1, FieldSound, SoundJoined
<1>3. QED
  BY <1>2 DEF Threshold, last

LEMMA OnPointsSound ==
  ASSUME NEW op, op.name # "TotalVal"
  PROVE  SoundList(op, ClipField(op)) /\ SoundList(op, Gradient(op))
<1> DEFINE here == <<Map(op, "in", "out")>>
<1>1. SoundList(op, here)
  BY MapSound
<1> HIDE DEF here
<1>2. SoundList(op, ((CheckForRequiredField(op.f) \o ToPoints(op.f)) \o here) \o
                    DeleteRecentered(op.f))
  BY <1>1, FieldSound, ToPointsSound, RecenteredSound, SoundJoined
<1>3. QED
  BY <1>2 DEF ClipField, Gradient, here

LEMMA ClipAtPlain ==
  \A f, value, invert, from, to : Plain(Update(ClipAt(f, value, invert), from, to))
<1> SUFFICES ASSUME NEW f, NEW value, NEW invert, NEW from, NEW to
             PROVE  Plain(Update(ClipAt(f, value, invert), from, to))
  OBVIOUS
<1> DEFINE sub == ClipAt(f, value, invert)
<1>1. /\ "name" \in DOMAIN sub /\ sub.name = "ClipField"
      /\ "ClipField" \in FilterNames \ {"CompositeVector", "Slice"}
  BY DEF ClipAt, FilterNames
<1> HIDE DEF sub
<1>2. WellFormedOp(sub)
  BY <1>1, OpWellFormed
<1>3. Plain(Update(sub, from, to))
  BY <1>2, PlainUpdate
<1>4. QED
  BY <1>3 DEF sub

LEMMA IsoVolumeSound ==
  ASSUME NEW op, op.name # "TotalVal"
  PROVE  SoundList(op, IsoVolume(op))
<1> DEFINE last == <<Update(ClipAt(op.f, op.hi, TRUE), "in", "temp"),
                     Update(ClipAt(op.f, op.lo, FALSE), "temp", "other"),
                     Delete("temp"), CleanGridOf("other"), Delete("other")>>
<1>1. SoundList(op, last)
  BY ClipAtPlain, CleanGridOfPlain, PlainDelete, PlainFive, PlainIsSound
<1> HIDE DEF last
<1>2. SoundList(op, CheckForRequiredField(op.f) \o last)
  BY <1>1, FieldSound, SoundJoined
<1>3. QED
  BY <1>2 DEF IsoVolume, last

LEMMA ClipSound ==
  ASSUME NEW op, op.name # "TotalVal"
  PROVE  SoundList(op, Clip(op))
<1> DEFINE iso == [name |-> "IsoVolume", f |-> "mclip_field", map |-> {},
                   lo |-> IF op.invert THEN -Inf ELSE 0,
                   hi |-> IF op.invert THEN 0 ELSE Inf]
           marked == [op EXCEPT !.name = "mclip_field"]
           copy == [op EXCEPT !.name = "copy"]
           multi == <<Map(marked, "in", "temp"), Update(iso, "temp", "other"), Delete("temp"),
                      Map(copy, "other", "temp"), Delete("other")>>
           single == <<Map(op, "in", "temp")>>
           clip == (IF Len(op.planes) > 1 THEN multi ELSE single) \o
                   <<CleanGridOf("temp"), Delete("temp")>>
           none == <<Map(copy, "in", "out")>>
<1>1. WellFormedOp(iso)
  <2>1. /\ "name" \in DOMAIN iso /\ iso.name = "IsoVolume"
        /\ "IsoVolume" \in FilterNames \ {"CompositeVector", "Slice"}
    BY DEF FilterNames
  <2> HIDE DEF iso
  <2>2. QED
    BY <2>1, OpWellFormed
<1>2. Clip(op) = <<Ask("domains", "in", ""), If("domains", "", clip, none)>>
  BY DEF Clip
<1> HIDE DEF iso, marked, copy
<1>3. PlainList(multi)
  BY <1>1, PlainMap, PlainUpdate, PlainDelete, PlainFive
<1>4. PlainList(single) /\ PlainList(none)
  BY PlainMap, PlainOne
<1>5. PlainList(<<CleanGridOf("temp"), Delete("temp")>>)
  BY CleanGridOfPlain, PlainDelete, PlainTwo
<1> HIDE DEF multi, single, none
<1>6. PlainList(clip)
  BY <1>3, <1>4, <1>5, PlainJoined
<1>7. "domains" \notin LocalTests
  BY DEF LocalTests, OwnTests
<1> HIDE DEF clip
<1>8. SoundList(op, <<If("domains", "", clip, none)>>)
  BY <1>4, <1>6, <1>7, SoundIf
<1>9. SoundList(op, <<Ask("domains", "in", "")>>)
  BY PlainAsk, PlainOne, PlainIsSound
<1>10. SoundList(op, <<Ask("domains", "in", "")>> \o <<If("domains", "", clip, none)>>)
  BY <1>8, <1>9, SoundJoined
<1>11. QED
  BY <1>2, <1>10, Two

LEMMA MarchingCubesSound ==
  ASSUME NEW op, op.name # "TotalVal"
  PROVE  SoundList(op, MarchingCubes(op))
<1> DEFINE range == IF op.levels # -1 THEN GetGlobalRange("in", op.f) ELSE <<>>
           here == <<Map(op, "in", "temp"), CleanGridOf("temp")>>
           isos == <<Check("isos", op.f)>>
           last == <<Delete("temp")>>
<1>1. SoundList(op, range)
  BY RangeSound, SoundNone
<1>2. SoundList(op, here) /\ SoundList(op, isos) /\ SoundList(op, last)
  BY PlainMap, CleanGridOfPlain, PlainCheck, PlainDelete, PlainOne, PlainTwo, PlainIsSound
<1> HIDE DEF range, here, isos, last
<1>3. SoundList(op, ((((CheckForRequiredField(op.f) \o range) \o isos) \o ToPoints(op.f)) \o
                     here) \o DeleteRecentered(op.f))
  BY <1>1, <1>2, FieldSound, ToPointsSound, RecenteredSound, SoundJoined
<1>4. SoundList(op, (((((CheckForRequiredField(op.f) \o range) \o isos) \o ToPoints(op.f)) \o
                      here) \o DeleteRecentered(op.f)) \o last)
  BY <1>2, <1>3, SoundJoined
<1>5. QED
  BY <1>4 DEF MarchingCubes, range, here, isos, last

LEMMA SliceSound ==
  ASSUME NEW op, op.name # "TotalVal", op.planes \in Seq(Int)
  PROVE  SoundList(op, Slice(op))
<1> DEFINE n == Len(op.planes)
           cut(s) == <<Map(SliceField(op, s), "in", "temp"),
                       Update(SliceContour, "temp", "slices"), Delete("temp")>>
           cuts == [s \in 1 .. n |-> cut(s)]
           flat == FlattenSeq(cuts)
           first == <<Check("planes", "")>>
           last == <<Do(IF Len(op.planes) > 1 THEN "merge" ELSE "take")>>
<1>1. n \in Nat /\ DOMAIN op.planes = 1 .. n
  OBVIOUS
<1>2. WellFormedOp(SliceContour)
  <2>1. /\ "name" \in DOMAIN SliceContour /\ SliceContour.name = "MarchingCubes"
        /\ "MarchingCubes" \in FilterNames \ {"CompositeVector", "Slice"}
    BY DEF SliceContour, FilterNames
  <2>2. QED
    BY <2>1, OpWellFormed
<1>3. \A s \in 1 .. n : SoundList(op, cut(s))
  BY <1>2, PlainMap, PlainUpdate, PlainDelete, PlainThree, PlainIsSound
<1>4. Slice(op) = (first \o flat) \o last
  BY <1>1 DEF Slice
<1>5. SoundList(op, first) /\ SoundList(op, last)
  BY PlainCheck, PlainDo, PlainOne, PlainIsSound
<1> HIDE DEF n, cut, first, last
<1>6. IsList(cuts) /\ Len(cuts) = n
  <2>1. cuts = [s \in 1 .. n |-> cuts[s]]
    OBVIOUS
  <2> HIDE DEF cuts
  <2>2. QED
    BY <1>1, <2>1, ListOf
<1>7. \A s \in 1 .. Len(cuts) : SoundList(op, cuts[s])
  BY <1>3, <1>6
<1> HIDE DEF cuts
<1>8. SoundList(op, flat)
  BY <1>6, <1>7, SoundFlat
<1> HIDE DEF flat
<1>9. QED
  BY <1>4, <1>5, <1>8, SoundJoined

LEMMA HistogramSound ==
  ASSUME NEW of, NEW op, op.name # "TotalVal"
  PROVE  SoundList(op, Histogram(of, op))
<1> DEFINE first == <<Ask("domains", of, ""), Check("domains", ""),
                      Ask("exists", of, op.f), Check("exists", op.f)>>
           scalar == <<Check("scalar", op.f)>>
           range == IF op.range.lo <= op.range.hi THEN <<>>
                    ELSE GetGlobalRange(of, op.f) \o scalar
           last == <<CheckOwn("castable", of, op.f), Ask("bins", of, op.f)>>
<1>1. SoundList(op, first)
  <2>1. PlainList(<<Check("domains", ""), Ask("exists", of, op.f), Check("exists", op.f)>>)
    BY PlainAsk, PlainCheck, PlainThree
  <2>2. PlainList(<<Ask("domains", of, "")>> \o
                  <<Check("domains", ""), Ask("exists", of, op.f), Check("exists", op.f)>>)
    BY <2>1, PlainAsk, PlainOne, PlainJoined
  <2>3. QED
    BY <2>2, Four, PlainIsSound
<1>2. SoundList(op, scalar) /\ SoundList(op, last)
  BY PlainAsk, PlainCheck, PlainOwn, PlainOne, PlainTwo, PlainIsSound
<1> HIDE DEF first, scalar, last
<1>3. SoundList(op, range)
  BY <1>2, RangeSound, SoundNone, SoundJoined
<1> HIDE DEF range
<1>4. SoundList(op, (first \o range) \o last)
  BY <1>1, <1>2, <1>3, SoundJoined
<1>5. QED
  BY <1>4 DEF Histogram, first, scalar, range, last

LEMMA StatisticsSound ==
  ASSUME NEW op, op.name # "TotalVal"
  PROVE  SoundList(op, Statistics(op))
<1> DEFINE asks == [i \in 1 .. 5 |-> Ask(<<"count", "sum", "sum2", "sum3", "sum4">>[i], "in", op.f)]
<1>1. \A i \in 1 .. 5 : Sound(op, asks[i])
  BY DEF Sound, Ask
<1>2. SoundList(op, asks)
  <2>1. asks = [i \in 1 .. 5 |-> asks[i]]
    OBVIOUS
  <2> HIDE DEF asks
  <2>2. IsList(asks) /\ Len(asks) = 5
    BY <2>1, ListOf
  <2>3. QED
    BY <1>1, <2>2 DEF SoundList
<1> HIDE DEF asks
<1> DEFINE first == <<CheckOwn("castable", "in", op.f)>>
<1>3. SoundList(op, (CheckForRequiredField(op.f) \o first) \o asks)
  <2>1. SoundList(op, first)
    BY PlainOwn, PlainOne, PlainIsSound
  <2> HIDE DEF first
  <2>2. QED
    BY <1>2, <2>1, FieldSound, SoundJoined
<1>4. QED
  BY <1>3 DEF Statistics, asks, first

LEMMA HistSamplingSound ==
  ASSUME NEW op, op.name # "TotalVal"
  PROVE  SoundList(op, HistSampling(op))
<1> DEFINE strip == [name |-> "GhostStripper", f |-> op.ghost, map |-> {}, lo |-> 0, hi |-> 0]
           keep == [name |-> "Threshold", f |-> "valSampled", map |-> {}, lo |-> 1, hi |-> 1]
           mark == [op EXCEPT !.name = "valSampled"]
           first == IF op.ghost = "" THEN <<Assign("temp", "in")>>
                    ELSE <<Update(strip, "in", "temp")>>
           here == <<Overwrite(mark, "temp"), Update(keep, "temp", "out")>>
           last == IF op.ghost = "" THEN <<>> ELSE <<Delete("temp")>>
<1>1. WellFormedOp(strip) /\ WellFormedOp(keep)
  <2>1. /\ "name" \in DOMAIN strip /\ strip.name = "GhostStripper"
        /\ "name" \in DOMAIN keep /\ keep.name = "Threshold"
        /\ {"GhostStripper", "Threshold"} \subseteq FilterNames \ {"CompositeVector", "Slice"}
    BY DEF FilterNames
  <2> HIDE DEF strip, keep
  <2>2. QED
    BY <2>1, OpWellFormed
<1>2. HistSampling(op) =
        ((((CheckForRequiredField(op.f) \o first) \o Histogram("temp", op)) \o
          GetFieldAssociation("temp", op.f)) \o here) \o last
  BY DEF HistSampling
<1> HIDE DEF strip, keep, mark
<1>3. SoundList(op, first)
  BY <1>1, PlainAssign, PlainUpdate, PlainOne, PlainIsSound
<1>4. SoundList(op, here)
  BY <1>1, PlainOverwrite, PlainUpdate, PlainTwo, PlainIsSound
<1>5. SoundList(op, last)
  BY PlainDelete, PlainOne, PlainIsSound, SoundNone
<1> HIDE DEF first, here, last
<1>6. SoundList(op, ((CheckForRequiredField(op.f) \o first) \o Histogram("temp", op)) \o
                    GetFieldAssociation("temp", op.f))
  BY <1>3, FieldSound, HistogramSound, AssociationSound, SoundJoined
<1>7. QED
  BY <1>2, <1>4, <1>5, <1>6, SoundJoined

LEMMA BoundsMapSound ==
  ASSUME NEW op, op.name # "TotalVal"
  PROVE  SoundList(op, BoundsMap(op))
<1>1. PlainList(<<Do("clear"), CheckOwn("unique", "in", ""), Do("addBlocks"), Ask("blocks", "in", ""),
                  Ask("boxes", "in", ""), Ask("ids", "in", ""), Do("build")>>)
  BY PlainDo, PlainOwn, PlainAsk, PlainSeven
<1>2. QED
  BY <1>1, PlainIsSound DEF BoundsMap

LEMMA ScalarRendererSound ==
  ASSUME NEW op, op.name # "TotalVal"
  PROVE  SoundList(op, ScalarRenderer(op))
<1> DEFINE then == <<Ask("bounds", "in", ""), Ask("max_p", "in", ""), Ask("min_p", "in", ""),
                     Check("payload", ""), Ask("image", "in", "")>>
           ifs == <<If("won", "", then, <<>>)>>
           last == <<Do("picture"), Do("metadata")>>
           rest == <<If("won", "", then, <<>>), Do("picture"), Do("metadata")>>
<1>1. PlainList(then)
  BY PlainAsk, PlainCheck, PlainFive
<1>2. ScalarRenderer(op) = <<Ask("vote", "in", "")>> \o (ifs \o last)
  <2>1. ifs \o last = rest
    BY Three
  <2>2. <<Ask("vote", "in", "")>> \o rest = ScalarRenderer(op)
    BY Four DEF ScalarRenderer
  <2>3. QED
    BY <2>1, <2>2
<1>3. "won" \notin LocalTests
  BY DEF LocalTests, OwnTests
<1>4. SoundList(op, last) /\ SoundList(op, <<Ask("vote", "in", "")>>)
  BY PlainAsk, PlainDo, PlainOne, PlainTwo, PlainIsSound
<1> HIDE DEF then, last
<1>5. SoundList(op, ifs)
  BY <1>1, <1>3, SoundIf, PlainNone
<1> HIDE DEF ifs
<1>6. QED
  BY <1>2, <1>4, <1>5, SoundJoined

LEMMA CountSound ==
  \A op : (op.name # "TotalVal" => SoundList(op, Count(op))) /\ SoundList(op, TotalVal(op))
<1> SUFFICES ASSUME NEW op
             PROVE  /\ op.name # "TotalVal" => SoundList(op, Count(op))
                    /\ SoundList(op, TotalVal(op))
  OBVIOUS
<1>1. ASSUME op.name # "TotalVal"
      PROVE  /\ SoundList(op, <<Check("new", ""), Do("addCounter")>>)
             /\ SoundList(op, <<Check("counted", ""), Do("increment")>>)
  BY <1>1, PlainCheck, PlainDo, PlainTwo, PlainIsSound
<1>2. SoundList(op, <<Do("calcStats")>>)
  BY QuietSound
<1>3. QED
  BY <1>1, <1>2 DEF Count, TotalVal

LEMMA QuerySound ==
  ASSUME NEW op, op.name # "TotalVal"
  PROVE  SoundList(op, Query(op))
<1>1. SoundList(op, <<Ask(op.q, "in", op.f)>>)
  BY PlainAsk, PlainOne, PlainIsSound
<1>2. QED
  BY <1>1, RangeSound, AssociationSound, PointMeshSound DEF Query

(* Each operation of vtk-h. *)
LEMMA ProgramSound ==
  ASSUME NEW op, WellFormedOp(op)
  PROVE  SoundList(op, Program(op))
<1>1. CASE op.name \in {"CleanGrid", "NoOp", "PointTransform", "Triangulate", "Tetrahedralize",
                        "Recenter", "Lagrangian", "VectorMagnitude", "CellAverage",
                        "PointAverage", "GhostStripper", "VectorComponent"}
  <2>1. Program(op) \in {CleanGrid(op), NoOp(op), PointTransform(op), Triangulate(op),
                         Tetrahedralize(op), Recenter(op), Lagrangian(op), VectorMagnitude(op),
                         CellAverage(op), PointAverage(op), GhostStripper(op),
                         VectorComponent(op)}
    BY <1>1 DEF Program
  <2>2. QED
    BY <1>1, <2>1, PlainProgramsSound
<1>2. CASE op.name \in {"CompositeVector", "Slice"}
  <2>1. CASE op.name = "CompositeVector"
    <3>1. op.fields \in Seq(STRING)
      BY <2>1 DEF WellFormedOp
    <3>2. Program(op) = CompositeVector(op)
      BY <2>1 DEF Program
    <3>3. QED
      BY <2>1, <3>1, <3>2, CompositeVectorSound
  <2>2. CASE op.name = "Slice"
    <3>1. op.planes \in Seq(Int)
      BY <2>2 DEF WellFormedOp
    <3>2. Program(op) = Slice(op)
      BY <2>2 DEF Program
    <3>3. QED
      BY <2>2, <3>1, <3>2, SliceSound
  <2>3. QED
    BY <1>2, <2>1, <2>2
<1>3. CASE op.name \in {"Log", "ParticleMerging", "Threshold", "ClipField", "Gradient",
                        "IsoVolume", "Clip", "MarchingCubes", "HistSampling"}
  <2>1. Program(op) \in {Log(op), ParticleMerging(op), Threshold(op), ClipField(op),
                         Gradient(op), IsoVolume(op), Clip(op), MarchingCubes(op),
                         HistSampling(op)}
    BY <1>3 DEF Program
  <2>2. op.name # "TotalVal"
    BY <1>3
  <2>3. QED
    BY <2>1, <2>2, LogSound, ParticleMergingSound, ThresholdSound, OnPointsSound,
       IsoVolumeSound, ClipSound, MarchingCubesSound, HistSamplingSound
<1>4. CASE op.name \in {"Histogram", "Statistics", "BoundsMap", "Query", "ScalarRenderer"}
  <2>1. Program(op) \in {Histogram("in", op), Statistics(op), BoundsMap(op), Query(op),
                         ScalarRenderer(op)}
    BY <1>4 DEF Program
  <2>2. op.name # "TotalVal"
    BY <1>4
  <2>3. QED
    BY <2>1, <2>2, HistogramSound, StatisticsSound, BoundsMapSound, QuerySound,
       ScalarRendererSound
<1>5. CASE op.name \in {"AddCounter", "Increment", "TotalVal"}
  <2>1. Program(op) = IF op.name = "TotalVal" THEN TotalVal(op) ELSE Count(op)
    BY <1>5 DEF Program
  <2>2. QED
    BY <2>1, CountSound
<1>6. QED
  BY <1>1, <1>2, <1>3, <1>4, <1>5 DEF WellFormedOp, FilterNames, Functions, CountingOps

(* The program of every operation of vtk-h is sound: what it branches on is *)
(* known to all ranks, but in TotalVal, which does not branch.              *)
LEMMA StepsSound ==
  ASSUME NEW op, WellFormedOp(op), NEW logging
  PROVE  SoundList(op, Steps(op, logging))
<1>1. CASE op.name \in Functions \cup {"ScalarRenderer"}
  BY <1>1, ProgramSound DEF Steps
<1>2. CASE op.name \notin Functions \cup {"ScalarRenderer"}
  <2> DEFINE Logged(of) == IF logging THEN <<Ask("structured", of, "")>> ELSE <<>>
  <2>0. op.name # "TotalVal"
    BY <1>2 DEF Functions, CountingOps
  <2>1. \A of : SoundList(op, Logged(of))
    BY <2>0, PlainAsk, PlainOne, PlainIsSound, SoundNone
  <2>2. SoundList(op, <<Do("mapFields")>>) /\ SoundList(op, <<Do("metadata")>>)
    BY QuietSound
  <2>3. FilterUpdate(op, logging) =
          (((Logged("in") \o <<Do("mapFields")>>) \o Program(op)) \o <<Do("metadata")>>) \o
          Logged("out")
    BY DEF FilterUpdate
  <2> HIDE DEF Logged
  <2>4. SoundList(op, ((Logged("in") \o <<Do("mapFields")>>) \o Program(op)) \o
                      <<Do("metadata")>>)
    BY <2>1, <2>2, ProgramSound, SoundJoined
  <2>5. SoundList(op, FilterUpdate(op, logging))
    BY <2>1, <2>3, <2>4, SoundJoined
  <2>6. QED
    BY <1>2, <2>5 DEF Steps
<1>3. QED
  BY <1>1, <1>2

-----------------------------------------------------------------------------
(* The way of all ranks.  A place is what decides what a rank does next, of  *)
(* itself and by what it learns in collective calls: how many of these have  *)
(* returned and how many operations are done, the filters under way, the     *)
(* names of the counters.  In TotalVal, where the answers differ, none of    *)
(* them decides anything.                                                    *)

Place(made, done, frames, names, computed, ended) ==
  [made |-> made, done |-> done, frames |-> frames, names |-> names,
   computed |-> computed, ended |-> ended]

View(op, todo, got) == [op |-> op, todo |-> todo, got |-> got]

StartPlace == Place(0, 0, <<>>, {}, FALSE, FALSE)

Asking(c) ==
  /\ c.frames # <<>>
  /\ Last(c.frames).todo # <<>>
  /\ Head(Last(c.frames).todo).do = "ask"

Cost(c) == IF Asking(c) THEN 1 ELSE 0

AskSite(c) ==
  <<Last(c.frames).op.name, Head(Last(c.frames).todo).q, Head(Last(c.frames).todo).f>>

(* The call returns when all ranks have made it. *)
Awaits(c) == Asking(c) /\ Last(c.frames).op.name # "TotalVal"

(* What the ranks contribute to their j-th call. *)
Heard(cs, j) == [s \in Ranks |-> cs[s][j].value]

Then(first, rest) == first \o rest

CounterSteps(names) ==
  [i \in DOMAIN SetToSeq(names) |-> Ask("counter", "in", SetToSeq(names)[i])] \o
  <<Do("computed")>>

WithTop(c, op, todo, got) ==
  Place(c.made, c.done, Append(Front(c.frames), View(op, todo, got)),
        c.names, c.computed, c.ended)

LearntFrom(got, step, heard) ==
  [k \in DOMAIN got \cup {<<step.q, step.f>>} |->
     IF k = <<step.q, step.f>> THEN AnswerTo(step.q, heard, got) ELSE got[k]]

(* The step that the innermost filter comes to. *)
Stepped(sc, heard, c) ==
  LET top == Last(c.frames)
      step == Head(top.todo)
      rest == Tail(top.todo)
  IN CASE step.do = "ask" ->
            Place(c.made + 1, c.done,
                  Append(Front(c.frames),
                         View(top.op, rest,
                              IF top.op.name = "TotalVal" THEN top.got
                              ELSE LearntFrom(top.got, step, heard))),
                  c.names, c.computed, c.ended)
       [] step.do = "if" ->
            WithTop(c, top.op, Then(IF Told(top.op, top.got, step.test, step.f)
                                    THEN step.then ELSE step.else, rest), top.got)
       [] step.do = "calcStats" ->
            WithTop(c, top.op, Then(IF c.computed THEN <<>> ELSE CounterSteps(c.names), rest),
                    top.got)
       [] step.do = "update" ->
            Place(c.made, c.done,
                  Append(c.frames, View(step.op, Steps(step.op, sc.logging), <<>>)),
                  c.names, c.computed, c.ended)
       [] step.do = "addCounter" ->
            Place(c.made, c.done, Append(Front(c.frames), View(top.op, rest, top.got)),
                  c.names \cup {top.op.counter}, c.computed, c.ended)
       [] step.do = "computed" ->
            Place(c.made, c.done, Append(Front(c.frames), View(top.op, rest, top.got)),
                  c.names, TRUE, c.ended)
       [] OTHER -> WithTop(c, top.op, rest, top.got)

(* The filter returns to the one that called it, or to the host. *)
Popped(c) ==
  LET caller == c.frames[Len(c.frames) - 1]
  IN IF Len(c.frames) > 1
     THEN Place(c.made, c.done,
                Append(Front(Front(c.frames)), View(caller.op, Tail(caller.todo), caller.got)),
                c.names, c.computed, c.ended)
     ELSE Place(c.made, c.done + 1, <<>>, c.names, c.computed, c.ended)

(* The host starts the next operation, or ends. *)
Started(sc, c) ==
  LET op == sc.script[c.done + 1].op
  IN IF c.done < Len(sc.script)
     THEN Place(c.made, c.done, <<View(op, Steps(op, sc.logging), <<>>)>>,
                c.names, c.computed, c.ended)
     ELSE Place(c.made, c.done, <<>>, c.names, c.computed, TRUE)

Turn(sc, heard, c) ==
  IF c.frames = <<>> THEN Started(sc, c)
  ELSE IF Last(c.frames).todo = <<>> THEN Popped(c)
  ELSE Stepped(sc, heard, c)

Follows(sc, cs, c, d) ==
  /\ ~c.ended
  /\ d = Turn(sc, IF Awaits(c) THEN Heard(cs, c.made + 1) ELSE <<>>, c)
  /\ Awaits(c) => \A s \in Ranks : c.made + 1 <= Len(cs[s])

(* Each rank of ps stands on the way, each call was made from it. *)
OnPath(path, sc, cs, ps) ==
  /\ IsList(path)
  /\ \A r \in DOMAIN ps : \E i \in 1 .. Len(path) : path[i] = ps[r]
  /\ \A i \in 1 .. Len(path) - 1 : Follows(sc, cs, path[i], path[i + 1])
  /\ \A k \in 1 .. Len(path) :
       /\ path[k].made \in Nat
       /\ \A i \in 1 .. k - 1 : path[i].made + Cost(path[i]) <= path[k].made
  /\ \A s \in Ranks : \A j \in 1 .. Len(cs[s]) : \E i \in 1 .. Len(path) :
       Asking(path[i]) /\ path[i].made + 1 = j /\ AskSite(path[i]) = cs[s][j].site

(* A step counts one more call if it is a call. *)
LEMMA TurnCounts ==
  ASSUME NEW sc, NEW heard, NEW c, c.made \in Nat
  PROVE  Turn(sc, heard, c).made = c.made + Cost(c)
<1> USE DEF Place, Cost, Asking
<1>1. CASE c.frames = <<>>
  BY <1>1 DEF Turn, Started
<1>2. CASE c.frames # <<>> /\ Last(c.frames).todo = <<>>
  BY <1>2 DEF Turn, Popped
<1>3. CASE c.frames # <<>> /\ Last(c.frames).todo # <<>>
  <2>1. Turn(sc, heard, c) = Stepped(sc, heard, c)
    BY <1>3 DEF Turn
  <2>2. CASE Head(Last(c.frames).todo).do = "ask"
    BY <1>3, <2>1, <2>2 DEF Stepped
  <2>3. CASE Head(Last(c.frames).todo).do # "ask"
    BY <1>3, <2>1, <2>3 DEF Stepped, WithTop
  <2>4. QED
    BY <2>2, <2>3
<1>4. QED
  BY <1>1, <1>2, <1>3

(* The way begins where all ranks begin. *)
LEMMA PathStart ==
  ASSUME NEW sc, NEW cs, NEW ps, \A s \in Ranks : cs[s] = <<>>,
         \A r \in DOMAIN ps : ps[r] = StartPlace
  PROVE  OnPath(<<StartPlace>>, sc, cs, ps)
<1> DEFINE path == <<StartPlace>>
<1>1. IsList(path) /\ Len(path) = 1 /\ path[1] = StartPlace
  BY OneIsList
<1>2. StartPlace.made = 0
  BY DEF StartPlace, Place
<1> HIDE DEF path
<1>3. \A s \in Ranks : Len(cs[s]) = 0
  BY NoList
<1>4. OnPath(path, sc, cs, ps)
  BY <1>1, <1>2, <1>3 DEF OnPath
<1>5. QED
  BY <1>4 DEF path

(* A rank that goes on either follows the others, or leads the way. *)
LEMMA Advance ==
  ASSUME NEW path, NEW sc, NEW cs, NEW ps, OnPath(path, sc, cs, ps),
         NEW r \in DOMAIN ps, NEW new, Follows(sc, cs, ps[r], new)
  PROVE  \/ OnPath(path, sc, cs, [ps EXCEPT ![r] = new])
         \/ /\ ps[r] = path[Len(path)]
            /\ OnPath(Append(path, new), sc, cs, [ps EXCEPT ![r] = new])
<1> DEFINE qs == [ps EXCEPT ![r] = new]
<1>1. DOMAIN qs = DOMAIN ps /\ qs[r] = new /\ \A s \in DOMAIN ps : s # r => qs[s] = ps[s]
  OBVIOUS
<1> HIDE DEF qs
<1>2. Len(path) \in Nat
  BY ListIs DEF OnPath
<1>3. PICK i \in 1 .. Len(path) : path[i] = ps[r]
  BY DEF OnPath
<1>4. CASE i # Len(path)
  <2>1. i \in 1 .. Len(path) - 1 /\ i + 1 \in 1 .. Len(path)
    BY <1>2, <1>4
  <2>2. Follows(sc, cs, path[i], path[i + 1])
    BY <2>1 DEF OnPath
  <2>3. path[i + 1] = new
    BY <1>3, <2>2 DEF Follows
  <2>4. \A s \in DOMAIN qs : \E k \in 1 .. Len(path) : path[k] = qs[s]
    <3> SUFFICES ASSUME NEW s \in DOMAIN qs
                 PROVE  \E k \in 1 .. Len(path) : path[k] = qs[s]
      OBVIOUS
    <3>1. CASE s = r
      BY <1>1, <2>1, <2>3, <3>1
    <3>2. CASE s # r
      BY <1>1, <3>2 DEF OnPath
    <3>3. QED
      BY <3>1, <3>2
  <2>5. OnPath(path, sc, cs, qs)
    BY <2>4 DEF OnPath
  <2>6. QED
    BY <2>5 DEF qs
<1>5. CASE i = Len(path)
  <2> DEFINE n == Len(path)
             p == Append(path, new)
  <2>1. /\ IsList(p) /\ Len(p) = n + 1
        /\ \A k \in 1 .. n : p[k] = path[k]
        /\ p[n + 1] = new
    BY Appended DEF OnPath
  <2>2. n \in Nat \ {0} /\ path[n] = ps[r]
    BY <1>2, <1>3, <1>5
  <2>3. \A k \in 1 .. n : path[k].made \in Nat
    BY DEF OnPath
  <2>4. new.made = path[n].made + Cost(path[n])
    BY <2>2, <2>3, TurnCounts DEF Follows
  <2>5. \A k \in 1 .. n : path[k].made + Cost(path[k]) <= new.made
    <3> SUFFICES ASSUME NEW k \in 1 .. n
                 PROVE  path[k].made + Cost(path[k]) <= new.made
      OBVIOUS
    <3>1. CASE k = n
      <4>1. Cost(path[n]) \in Nat
        BY DEF Cost
      <4>2. QED
        BY <2>2, <2>3, <2>4, <3>1, <4>1
    <3>2. CASE k # n
      <4>1. k \in 1 .. n - 1
        BY <2>2, <3>2
      <4>2. path[k].made + Cost(path[k]) <= path[n].made
        BY <2>2, <4>1 DEF OnPath
      <4>3. \A c : Cost(c) \in Nat
        BY DEF Cost
      <4>4. QED
        BY <2>2, <2>3, <2>4, <4>2, <4>3
    <3>3. QED
      BY <3>1, <3>2
  <2>6. new.made \in Nat
    BY <2>2, <2>3, <2>4 DEF Cost
  <2> HIDE DEF p
  <2>7. \A s \in DOMAIN qs : \E k \in 1 .. n + 1 : p[k] = qs[s]
    <3> SUFFICES ASSUME NEW s \in DOMAIN qs
                 PROVE  \E k \in 1 .. n + 1 : p[k] = qs[s]
      OBVIOUS
    <3>1. CASE s = r
      <4>1. n + 1 \in 1 .. n + 1
        BY <2>2
      <4>2. QED
        BY <1>1, <2>1, <3>1, <4>1
    <3>2. CASE s # r
      <4>1. PICK k \in 1 .. n : path[k] = ps[s]
        BY <1>1 DEF OnPath
      <4>2. k \in 1 .. n + 1 /\ p[k] = ps[s]
        BY <2>1, <2>2, <4>1
      <4>3. QED
        BY <1>1, <3>2, <4>2
    <3>3. QED
      BY <3>1, <3>2
  <2>8. \A k \in 1 .. n : Follows(sc, cs, p[k], p[k + 1])
    <3> SUFFICES ASSUME NEW k \in 1 .. n
                 PROVE  Follows(sc, cs, p[k], p[k + 1])
      OBVIOUS
    <3>1. CASE k = n
      BY <2>1, <2>2, <3>1
    <3>2. CASE k # n
      <4>1. k \in 1 .. n - 1 /\ k + 1 \in 1 .. n
        BY <2>2, <3>2
      <4>2. Follows(sc, cs, path[k], path[k + 1])
        BY <4>1 DEF OnPath
      <4>3. QED
        BY <2>1, <4>1, <4>2
    <3>3. QED
      BY <3>1, <3>2
  <2>9. ASSUME NEW k \in 1 .. n + 1
        PROVE  /\ p[k].made \in Nat
               /\ \A a \in 1 .. k - 1 : p[a].made + Cost(p[a]) <= p[k].made
    <3>1. \A a \in 1 .. k - 1 : a \in 1 .. n /\ p[a] = path[a]
      BY <2>1, <2>2
    <3>2. CASE k = n + 1
      BY <2>1, <2>5, <2>6, <3>1, <3>2
    <3>3. CASE k # n + 1
      <4>1. k \in 1 .. n /\ p[k] = path[k]
        BY <2>1, <2>2, <3>3
      <4>2. \A a \in 1 .. k - 1 : path[a].made + Cost(path[a]) <= path[k].made
        BY <4>1 DEF OnPath
      <4>3. QED
        BY <2>3, <3>1, <4>1, <4>2
    <3>4. QED
      BY <3>2, <3>3
  <2>10. ASSUME NEW s \in Ranks, NEW j \in 1 .. Len(cs[s])
         PROVE  \E k \in 1 .. n + 1 :
                  Asking(p[k]) /\ p[k].made + 1 = j /\ AskSite(p[k]) = cs[s][j].site
    <3>1. PICK k \in 1 .. n :
            Asking(path[k]) /\ path[k].made + 1 = j /\ AskSite(path[k]) = cs[s][j].site
      BY DEF OnPath
    <3>2. k \in 1 .. n + 1 /\ p[k] = path[k]
      BY <2>1, <2>2
    <3>3. QED
      BY <3>1, <3>2
  <2>11. Len(p) - 1 = n
    BY <2>1, <2>2
  <2> HIDE DEF n
  <2>12. OnPath(p, sc, cs, qs)
    BY <2>1, <2>7, <2>8, <2>9, <2>10, <2>11 DEF OnPath
  <2>13. QED
    BY <1>3, <1>5, <2>12 DEF qs, p
<1>6. QED
  BY <1>4, <1>5

(* A rank enters the call it has come to. *)
LEMMA EnterOnPath ==
  ASSUME NEW path, NEW sc, NEW cs, NEW ps, OnPath(path, sc, cs, ps),
         cs = [s \in Ranks |-> cs[s]], \A s \in Ranks : IsList(cs[s]),
         NEW r \in Ranks, r \in DOMAIN ps, Asking(ps[r]), Len(cs[r]) = ps[r].made,
         NEW value
  PROVE  OnPath(path, sc,
           [cs EXCEPT ![r] = Append(@, [site |-> AskSite(ps[r]), value |-> value])], ps)
<1> DEFINE call == [site |-> AskSite(ps[r]), value |-> value]
           ds == [cs EXCEPT ![r] = Append(@, call)]
<1>1. call.site = AskSite(ps[r])
  OBVIOUS
<1> HIDE DEF call
<1>2. /\ Len(cs[r]) \in Nat /\ Len(ds[r]) = Len(cs[r]) + 1
      /\ \A j \in 1 .. Len(cs[r]) : ds[r][j] = cs[r][j]
      /\ ds[r][Len(cs[r]) + 1] = call
  BY Appended, ListIs
<1>3. \A s \in Ranks : s # r => ds[s] = cs[s]
  OBVIOUS
<1> HIDE DEF ds
<1>4. \A s \in Ranks : /\ Len(cs[s]) \in Nat /\ Len(cs[s]) <= Len(ds[s]) /\ Len(ds[s]) \in Nat
                       /\ \A j \in 1 .. Len(cs[s]) : ds[s][j] = cs[s][j]
  <2> SUFFICES ASSUME NEW s \in Ranks
               PROVE  /\ Len(cs[s]) \in Nat /\ Len(cs[s]) <= Len(ds[s]) /\ Len(ds[s]) \in Nat
                      /\ \A j \in 1 .. Len(cs[s]) : ds[s][j] = cs[s][j]
    OBVIOUS
  <2>1. Len(cs[s]) \in Nat
    BY ListIs
  <2>2. QED
    BY <1>2, <1>3, <2>1
<1>5. Len(path) \in Nat
  BY ListIs DEF OnPath
<1>6. ASSUME NEW i \in 1 .. Len(path) - 1
      PROVE  Follows(sc, ds, path[i], path[i + 1])
  <2>1. Follows(sc, cs, path[i], path[i + 1])
    BY DEF OnPath
  <2>2. CASE ~Awaits(path[i])
    BY <2>1, <2>2 DEF Follows
  <2>3. CASE Awaits(path[i])
    <3> DEFINE j == path[i].made + 1
    <3>1. path[i].made \in Nat
      BY <1>5 DEF OnPath
    <3>2. \A s \in Ranks : j \in 1 .. Len(cs[s])
      BY <1>4, <2>1, <2>3, <3>1 DEF Follows
    <3>3. \A s \in Ranks : ds[s][j] = cs[s][j] /\ j <= Len(ds[s])
      <4>1. j \in Nat
        BY <3>1
      <4> HIDE DEF j
      <4>2. QED
        BY <1>4, <3>2, <4>1
    <3> HIDE DEF j
    <3>4. Heard(ds, j) = Heard(cs, j)
      BY <3>3 DEF Heard
    <3>5. QED
      BY <2>1, <2>3, <3>3, <3>4 DEF Follows, j
  <2>4. QED
    BY <2>2, <2>3
<1>7. ASSUME NEW s \in Ranks, NEW j \in 1 .. Len(ds[s])
      PROVE  \E i \in 1 .. Len(path) :
               Asking(path[i]) /\ path[i].made + 1 = j /\ AskSite(path[i]) = ds[s][j].site
  <2>1. CASE j \in 1 .. Len(cs[s])
    <3>1. PICK i \in 1 .. Len(path) :
            Asking(path[i]) /\ path[i].made + 1 = j /\ AskSite(path[i]) = cs[s][j].site
      BY <2>1 DEF OnPath
    <3>2. ds[s][j] = cs[s][j]
      BY <1>4, <2>1
    <3>3. QED
      BY <3>1, <3>2
  <2>2. CASE j \notin 1 .. Len(cs[s])
    <3>1. s = r /\ j = Len(cs[r]) + 1
      BY <1>2, <1>3, <2>2
    <3>2. PICK i \in 1 .. Len(path) : path[i] = ps[r]
      BY DEF OnPath
    <3>3. QED
      BY <1>1, <1>2, <3>1, <3>2
  <2>3. QED
    BY <2>1, <2>2
<1>8. OnPath(path, sc, ds, ps)
  BY <1>6, <1>7 DEF OnPath
<1>9. QED
  BY <1>8 DEF ds, call

(* A rank that has thrown leaves the others as they are. *)
LEMMA FewerOnPath ==
  ASSUME NEW path, NEW sc, NEW cs, NEW ps, OnPath(path, sc, cs, ps), NEW qs,
         DOMAIN qs \subseteq DOMAIN ps, \A s \in DOMAIN qs : qs[s] = ps[s]
  PROVE  OnPath(path, sc, cs, qs)
BY DEF OnPath

(* Calls at one number come from one place, and so from one site. *)
LEMMA PathMatches ==
  ASSUME NEW path, NEW sc, NEW cs, NEW ps, OnPath(path, sc, cs, ps),
         NEW r \in Ranks, NEW s \in Ranks, NEW j,
         j \in 1 .. Len(cs[r]), j \in 1 .. Len(cs[s])
  PROVE  cs[r][j].site = cs[s][j].site
<1>1. PICK i \in 1 .. Len(path) :
        Asking(path[i]) /\ path[i].made + 1 = j /\ AskSite(path[i]) = cs[r][j].site
  BY DEF OnPath
<1>2. PICK k \in 1 .. Len(path) :
        Asking(path[k]) /\ path[k].made + 1 = j /\ AskSite(path[k]) = cs[s][j].site
  BY DEF OnPath
<1>3. path[i].made \in Nat /\ path[k].made \in Nat /\ path[i].made = path[k].made
  <2>1. path[i].made \in Nat /\ path[k].made \in Nat
    BY DEF OnPath
  <2>2. QED
    BY <1>1, <1>2, <2>1
<1>4. Cost(path[i]) = 1 /\ Cost(path[k]) = 1
  BY <1>1, <1>2 DEF Cost
<1>5. Len(path) \in Nat
  BY ListIs DEF OnPath
<1>6. ~(i < k)
  <2>1. i < k => i \in 1 .. k - 1
    BY <1>5
  <2>2. i < k => path[i].made + Cost(path[i]) <= path[k].made
    BY <2>1 DEF OnPath
  <2>3. QED
    BY <1>3, <1>4, <2>2
<1>7. ~(k < i)
  <2>1. k < i => k \in 1 .. i - 1
    BY <1>5
  <2>2. k < i => path[k].made + Cost(path[k]) <= path[i].made
    BY <2>1 DEF OnPath
  <2>3. QED
    BY <1>3, <1>4, <2>2
<1>8. i = k
  BY <1>6, <1>7
<1>9. QED
  BY <1>1, <1>2, <1>8

(* Nobody is ahead of a rank that is through. *)
LEMMA PathEnds ==
  ASSUME NEW path, NEW sc, NEW cs, NEW ps, OnPath(path, sc, cs, ps),
         NEW r \in DOMAIN ps, ps[r].ended, ps[r].frames = <<>>,
         NEW s \in Ranks, IsList(cs[s])
  PROVE  Len(cs[s]) <= ps[r].made
<1>1. PICK i \in 1 .. Len(path) : path[i] = ps[r]
  BY DEF OnPath
<1>2. Len(path) \in Nat /\ Len(cs[s]) \in Nat
  BY ListIs DEF OnPath
<1>3. i = Len(path)
  <2>1. i # Len(path) => i \in 1 .. Len(path) - 1
    BY <1>2
  <2>2. i # Len(path) => ~path[i].ended
    BY <2>1 DEF OnPath, Follows
  <2>3. QED
    BY <1>1, <2>2
<1>4. path[i].made \in Nat
  BY DEF OnPath
<1>5. CASE Len(cs[s]) = 0
  BY <1>1, <1>4, <1>5
<1>6. CASE Len(cs[s]) # 0
  <2>1. Len(cs[s]) \in 1 .. Len(cs[s])
    BY <1>2, <1>6
  <2>2. PICK k \in 1 .. Len(path) : Asking(path[k]) /\ path[k].made + 1 = Len(cs[s])
    BY <2>1 DEF OnPath
  <2>3. k # i
    BY <1>1, <2>2 DEF Asking
  <2>4. k \in 1 .. i - 1
    BY <1>2, <1>3, <2>3
  <2>5. path[k].made + Cost(path[k]) <= path[i].made
    BY <2>4 DEF OnPath
  <2>6. Cost(path[k]) = 1
    BY <2>2 DEF Cost
  <2>7. QED
    BY <1>1, <2>2, <2>5, <2>6
<1>7. QED
  BY <1>5, <1>6

-----------------------------------------------------------------------------
(* What a rank has of its own, and where it stands with it. *)

Rank(st, frames, done, counted, made, inside) ==
  [status |-> st, stack |-> frames, results |-> done, stats |-> counted,
   calls |-> made, inCall |-> inside]

IsFrame(f) ==
  /\ DOMAIN f = {"op", "todo", "reg", "slices", "sel", "got"}
  /\ f = [x \in DOMAIN f |-> f[x]]

FrameOK(f) == IsFrame(f) /\ SoundList(f.op, f.todo)

FramesOK(frames) ==
  /\ IsList(frames)
  /\ \A i \in 1 .. Len(frames) :
       FrameOK(frames[i]) /\ (i < Len(frames) => frames[i].todo # <<>>)

ViewOf(f) == View(f.op, f.todo, IF f.op.name = "TotalVal" THEN <<>> ELSE f.got)

ViewsOf(frames) == [i \in 1 .. Len(frames) |-> ViewOf(frames[i])]

PlaceOf(m) ==
  Place(IF m.inCall THEN Len(m.calls) - 1 ELSE Len(m.calls), Len(m.results),
        ViewsOf(m.stack), DOMAIN m.stats.counters, m.stats.statsComputed,
        m.status = "done")

RankOK(m) ==
  /\ FramesOK(m.stack) /\ IsList(m.results) /\ IsList(m.calls)
  /\ m.inCall \in BOOLEAN
  /\ m.stats = [counters |-> m.stats.counters, totals |-> m.stats.totals,
                statsComputed |-> m.stats.statsComputed]
  /\ IsFiniteSet(DOMAIN m.stats.counters)
  /\ m.status # "running" => m.stack = <<>>
  /\ m.inCall => m.calls # <<>> /\ Asking(PlaceOf(m))

(* The views are those of the frames, one by one. *)
LEMMA ViewsAre ==
  ASSUME NEW frames, IsList(frames)
  PROVE  /\ IsList(ViewsOf(frames)) /\ Len(ViewsOf(frames)) = Len(frames)
         /\ \A i \in 1 .. Len(frames) : ViewsOf(frames)[i] = ViewOf(frames[i])
         /\ ViewsOf(frames) = <<>> <=> frames = <<>>
<1> DEFINE v == ViewsOf(frames)
<1>1. Len(frames) \in Nat
  BY ListIs
<1>2. v = [i \in 1 .. Len(frames) |-> v[i]] /\ \A i \in 1 .. Len(frames) : v[i] = ViewOf(frames[i])
  BY DEF ViewsOf
<1> HIDE DEF v
<1>3. IsList(v) /\ Len(v) = Len(frames)
  BY <1>1, <1>2, ListOf
<1>4. v = <<>> <=> frames = <<>>
  BY <1>3, ListIs
<1>5. QED
  BY <1>2, <1>3, <1>4 DEF v

LEMMA TopView ==
  ASSUME NEW frames, IsList(frames), frames # <<>>
  PROVE  /\ Last(ViewsOf(frames)) = ViewOf(Last(frames))
         /\ Last(frames) = frames[Len(frames)]
         /\ Len(frames) \in Nat \ {0}
<1>1. Len(frames) \in Nat \ {0}
  BY ListIs
<1>2. Len(ViewsOf(frames)) = Len(frames) /\ ViewsOf(frames)[Len(frames)] = ViewOf(frames[Len(frames)])
  BY <1>1, ViewsAre
<1>3. QED
  BY <1>1, <1>2 DEF Last

(* Replacing, pushing and popping a frame does so with its view. *)
LEMMA ViewsReplaced ==
  ASSUME NEW frames, IsList(frames), frames # <<>>, NEW f
  PROVE  ViewsOf(Append(Front(frames), f)) = Append(Front(ViewsOf(frames)), ViewOf(f))
<1> DEFINE new == Append(Front(frames), f)
           old == ViewsOf(frames)
           views == Append(Front(old), ViewOf(f))
           n == Len(frames)
<1>1. /\ n \in Nat \ {0} /\ IsList(new) /\ Len(new) = n
      /\ \A i \in 1 .. n - 1 : new[i] = frames[i]
      /\ new[n] = f
  BY LastReplaced
<1>2. /\ IsList(old) /\ Len(old) = n /\ old # <<>>
      /\ \A i \in 1 .. n : old[i] = ViewOf(frames[i])
  BY ViewsAre
<1> HIDE DEF old, new
<1>3. /\ IsList(views) /\ Len(views) = n
      /\ \A i \in 1 .. n - 1 : views[i] = old[i]
      /\ views[n] = ViewOf(f)
  BY <1>2, LastReplaced
<1>4. /\ IsList(ViewsOf(new)) /\ Len(ViewsOf(new)) = n
      /\ \A i \in 1 .. n : ViewsOf(new)[i] = ViewOf(new[i])
  BY <1>1, ViewsAre
<1> HIDE DEF views, n
<1>5. \A i \in 1 .. n : ViewsOf(new)[i] = views[i]
  <2> SUFFICES ASSUME NEW i \in 1 .. n PROVE ViewsOf(new)[i] = views[i]
    OBVIOUS
  <2>1. CASE i = n
    BY <1>1, <1>3, <1>4, <2>1
  <2>2. CASE i # n
    <3>1. i \in 1 .. n - 1
      BY <1>1, <2>2
    <3>2. QED
      BY <1>1, <1>2, <1>3, <1>4, <3>1
  <2>3. QED
    BY <2>1, <2>2
<1>6. ViewsOf(new) = views
  BY <1>3, <1>4, <1>5, ListEqual
<1>7. QED
  BY <1>6 DEF new, old, views

LEMMA ViewsPushed ==
  ASSUME NEW frames, IsList(frames), NEW f
  PROVE  ViewsOf(Append(frames, f)) = Append(ViewsOf(frames), ViewOf(f))
<1> DEFINE new == Append(frames, f)
           old == ViewsOf(frames)
           views == Append(old, ViewOf(f))
           n == Len(frames)
<1>1. /\ n \in Nat /\ IsList(new) /\ Len(new) = n + 1
      /\ \A i \in 1 .. n : new[i] = frames[i]
      /\ new[n + 1] = f
  BY Appended, ListIs
<1>2. /\ IsList(old) /\ Len(old) = n
      /\ \A i \in 1 .. n : old[i] = ViewOf(frames[i])
  BY ViewsAre
<1> HIDE DEF old, new
<1>3. /\ IsList(views) /\ Len(views) = n + 1
      /\ \A i \in 1 .. n : views[i] = old[i]
      /\ views[n + 1] = ViewOf(f)
  BY <1>2, Appended
<1>4. /\ IsList(ViewsOf(new)) /\ Len(ViewsOf(new)) = n + 1
      /\ \A i \in 1 .. n + 1 : ViewsOf(new)[i] = ViewOf(new[i])
  BY <1>1, ViewsAre
<1> HIDE DEF views, n
<1>5. \A i \in 1 .. n + 1 : ViewsOf(new)[i] = views[i]
  <2> SUFFICES ASSUME NEW i \in 1 .. n + 1 PROVE ViewsOf(new)[i] = views[i]
    OBVIOUS
  <2>1. CASE i = n + 1
    BY <1>1, <1>3, <1>4, <2>1
  <2>2. CASE i # n + 1
    <3>1. i \in 1 .. n
      BY <1>1, <2>2
    <3>2. QED
      BY <1>1, <1>2, <1>3, <1>4, <3>1
  <2>3. QED
    BY <2>1, <2>2
<1>6. ViewsOf(new) = views
  BY <1>3, <1>4, <1>5, ListEqual
<1>7. QED
  BY <1>6 DEF new, old, views

LEMMA ViewsFront ==
  ASSUME NEW frames, IsList(frames), frames # <<>>
  PROVE  ViewsOf(Front(frames)) = Front(ViewsOf(frames))
<1> DEFINE new == Front(frames)
           old == ViewsOf(frames)
           views == Front(old)
           n == Len(frames)
<1>1. /\ n \in Nat \ {0} /\ IsList(new) /\ Len(new) = n - 1
      /\ \A i \in 1 .. n - 1 : new[i] = frames[i]
  BY LastReplaced
<1>2. /\ IsList(old) /\ Len(old) = n /\ old # <<>>
      /\ \A i \in 1 .. n : old[i] = ViewOf(frames[i])
  BY ViewsAre
<1> HIDE DEF old, new
<1>3. /\ IsList(views) /\ Len(views) = n - 1
      /\ \A i \in 1 .. n - 1 : views[i] = old[i]
  BY <1>2, LastReplaced
<1>4. /\ IsList(ViewsOf(new)) /\ Len(ViewsOf(new)) = n - 1
      /\ \A i \in 1 .. n - 1 : ViewsOf(new)[i] = ViewOf(new[i])
  BY <1>1, ViewsAre
<1> HIDE DEF views, n
<1>5. \A i \in 1 .. n - 1 : ViewsOf(new)[i] = views[i]
  <2> SUFFICES ASSUME NEW i \in 1 .. n - 1 PROVE ViewsOf(new)[i] = views[i]
    OBVIOUS
  <2>1. i \in 1 .. n
    BY <1>1
  <2>2. QED
    BY <1>1, <1>2, <1>3, <1>4, <2>1
<1>6. ViewsOf(new) = views
  BY <1>3, <1>4, <1>5, ListEqual
<1>7. QED
  BY <1>6 DEF new, old, views

(* The same for what holds of all frames. *)
LEMMA FramesReplaced ==
  ASSUME NEW frames, FramesOK(frames), frames # <<>>, NEW f, FrameOK(f)
  PROVE  FramesOK(Append(Front(frames), f)) /\ Append(Front(frames), f) # <<>>
         /\ Last(Append(Front(frames), f)) = f
<1> DEFINE new == Append(Front(frames), f)
           n == Len(frames)
<1>0. IsList(frames)
  BY DEF FramesOK
<1>1. /\ n \in Nat \ {0} /\ IsList(new) /\ Len(new) = n
      /\ \A i \in 1 .. n - 1 : new[i] = frames[i]
      /\ new[n] = f
  BY <1>0, LastReplaced
<1> HIDE DEF new
<1>2. \A i \in 1 .. n : FrameOK(new[i]) /\ (i < n => new[i].todo # <<>>)
  <2> SUFFICES ASSUME NEW i \in 1 .. n
               PROVE  FrameOK(new[i]) /\ (i < n => new[i].todo # <<>>)
    OBVIOUS
  <2>1. CASE i = n
    BY <1>1, <2>1
  <2>2. CASE i # n
    <3>1. i \in 1 .. n - 1
      BY <1>1, <2>2
    <3>2. QED
      BY <1>1, <3>1 DEF FramesOK
  <2>3. QED
    BY <2>1, <2>2
<1>3. new # <<>> /\ Last(new) = f
  BY <1>1, ListIs DEF Last
<1>4. FramesOK(new)
  BY <1>1, <1>2 DEF FramesOK
<1>5. QED
  BY <1>3, <1>4 DEF new

LEMMA FramesPushed ==
  ASSUME NEW frames, FramesOK(frames), frames # <<>> => Last(frames).todo # <<>>,
         NEW f, FrameOK(f)
  PROVE  FramesOK(Append(frames, f))
<1> DEFINE new == Append(frames, f)
           n == Len(frames)
<1>1. /\ n \in Nat /\ IsList(new) /\ Len(new) = n + 1
      /\ \A i \in 1 .. n : new[i] = frames[i]
      /\ new[n + 1] = f
  BY Appended, ListIs DEF FramesOK
<1> HIDE DEF new
<1>2. \A i \in 1 .. n + 1 : FrameOK(new[i]) /\ (i < n + 1 => new[i].todo # <<>>)
  <2> SUFFICES ASSUME NEW i \in 1 .. n + 1
               PROVE  FrameOK(new[i]) /\ (i < n + 1 => new[i].todo # <<>>)
    OBVIOUS
  <2>1. CASE i = n + 1
    BY <1>1, <2>1
  <2>2. CASE i # n + 1
    <3>1. i \in 1 .. n /\ new[i] = frames[i]
      BY <1>1, <2>2
    <3>2. FrameOK(new[i]) /\ (i < n => new[i].todo # <<>>)
      BY <3>1 DEF FramesOK
    <3>3. i = n => frames # <<>> /\ Last(frames) = new[i]
      BY <1>1, <3>1, ListIs DEF FramesOK, Last
    <3>4. QED
      BY <1>1, <3>1, <3>2, <3>3
  <2>3. QED
    BY <2>1, <2>2
<1>3. FramesOK(new)
  BY <1>1, <1>2 DEF FramesOK
<1>4. QED
  BY <1>3 DEF new

LEMMA FramesPopped ==
  ASSUME NEW frames, FramesOK(frames), frames # <<>>
  PROVE  /\ FramesOK(Front(frames)) /\ Len(frames) \in Nat
         /\ Len(Front(frames)) = Len(frames) - 1
         /\ Len(frames) > 1 =>
              /\ Front(frames) # <<>>
              /\ Last(Front(frames)) = frames[Len(frames) - 1]
              /\ FrameOK(frames[Len(frames) - 1])
              /\ frames[Len(frames) - 1].todo # <<>>
<1> DEFINE new == Front(frames)
           n == Len(frames)
<1>1. /\ n \in Nat \ {0} /\ IsList(new) /\ Len(new) = n - 1
      /\ \A i \in 1 .. n - 1 : new[i] = frames[i]
  BY LastReplaced DEF FramesOK
<1> HIDE DEF new
<1>2. \A i \in 1 .. n - 1 : FrameOK(frames[i]) /\ frames[i].todo # <<>>
  <2>1. \A i \in 1 .. n - 1 : i \in 1 .. n /\ i < n
    BY <1>1
  <2>2. QED
    BY <2>1 DEF FramesOK
<1>3. FramesOK(new)
  BY <1>1, <1>2 DEF FramesOK
<1>4. n > 1 => n - 1 \in 1 .. n - 1 /\ new # <<>>
  BY <1>1, ListIs
<1>5. n > 1 => Last(new) = frames[n - 1]
  BY <1>1, <1>4 DEF Last
<1>6. QED
  BY <1>1, <1>2, <1>3, <1>4, <1>5 DEF new

-----------------------------------------------------------------------------
(* Each step of a rank is the next on the way. *)

(* At a step of the innermost filter. *)
AtStep(m, what) ==
  /\ RankOK(m) /\ m.status = "running" /\ m.stack # <<>>
  /\ Last(m.stack).todo # <<>> /\ Head(Last(m.stack).todo).do = what

(* The same, but for its filters and counters. *)
Kept(m, n) ==
  /\ n.status = m.status /\ n.results = m.results /\ n.calls = m.calls /\ n.inCall = m.inCall
  /\ n.stats = [counters |-> n.stats.counters, totals |-> n.stats.totals,
                statsComputed |-> n.stats.statsComputed]
  /\ IsFiniteSet(DOMAIN n.stats.counters)

(* The place of a rank that is at a step. *)
LEMMA HereIs ==
  ASSUME NEW m, NEW what, AtStep(m, what)
  PROVE  /\ PlaceOf(m).frames = ViewsOf(m.stack) /\ ViewsOf(m.stack) # <<>>
         /\ Last(ViewsOf(m.stack)) = ViewOf(Last(m.stack))
         /\ ~PlaceOf(m).ended
         /\ Asking(PlaceOf(m)) <=> what = "ask"
         /\ m.inCall => what = "ask"
         /\ FrameOK(Last(m.stack))
<1>1. IsList(m.stack) /\ m.stack # <<>> /\ FramesOK(m.stack)
  BY DEF AtStep, RankOK, FramesOK
<1>2. /\ Last(ViewsOf(m.stack)) = ViewOf(Last(m.stack)) /\ ViewsOf(m.stack) # <<>>
      /\ Last(m.stack) = m.stack[Len(m.stack)] /\ Len(m.stack) \in Nat \ {0}
  BY <1>1, TopView, ViewsAre
<1>3. PlaceOf(m).frames = ViewsOf(m.stack) /\ (PlaceOf(m).ended <=> m.status = "done")
  BY DEF PlaceOf, Place
<1>4. ViewOf(Last(m.stack)).todo = Last(m.stack).todo
  BY DEF ViewOf, View
<1>5. Asking(PlaceOf(m)) <=> what = "ask"
  BY <1>2, <1>3, <1>4 DEF Asking, AtStep
<1>6. ~PlaceOf(m).ended /\ (m.inCall => what = "ask")
  BY <1>3, <1>5 DEF AtStep, RankOK
<1>7. FrameOK(Last(m.stack))
  BY <1>1, <1>2 DEF FramesOK
<1>8. QED
  BY <1>2, <1>3, <1>5, <1>6, <1>7

(* A step with which only the innermost filter changes. *)
LEMMA TopMoved ==
  ASSUME NEW m, NEW what, AtStep(m, what), what # "ask", NEW n, Kept(m, n),
         NEW f, FrameOK(f), n.stack = Append(Front(m.stack), f)
  PROVE  /\ RankOK(n)
         /\ PlaceOf(n) = Place(PlaceOf(m).made, PlaceOf(m).done,
                               Append(Front(ViewsOf(m.stack)), ViewOf(f)),
                               DOMAIN n.stats.counters, n.stats.statsComputed, FALSE)
<1>1. ~m.inCall /\ m.inCall \in BOOLEAN /\ n.inCall = m.inCall
  BY HereIs DEF AtStep, RankOK, Kept
<1>2. FramesOK(n.stack)
  BY FramesReplaced DEF AtStep, RankOK
<1>3. RankOK(n)
  BY <1>1, <1>2 DEF AtStep, RankOK, Kept
<1>4. ViewsOf(n.stack) = Append(Front(ViewsOf(m.stack)), ViewOf(f))
  BY ViewsReplaced DEF AtStep, RankOK, FramesOK
<1>5. PlaceOf(m).made = Len(m.calls) /\ PlaceOf(m).done = Len(m.results)
  BY <1>1 DEF PlaceOf, Place
<1>6. PlaceOf(n) = Place(Len(m.calls), Len(m.results), ViewsOf(n.stack),
                         DOMAIN n.stats.counters, n.stats.statsComputed, FALSE)
  BY <1>1 DEF PlaceOf, Kept, AtStep
<1>7. QED
  BY <1>3, <1>4, <1>5, <1>6

(* The turn at a step, in terms of the rank's own frame. *)
LEMMA TurnHere ==
  ASSUME NEW m, NEW what, AtStep(m, what), NEW sc, NEW heard
  PROVE  Turn(sc, heard, PlaceOf(m)) = Stepped(sc, heard, PlaceOf(m))
<1>1. /\ PlaceOf(m).frames # <<>>
      /\ Last(PlaceOf(m).frames).todo = Last(m.stack).todo
  <2>1. PlaceOf(m).frames # <<>> /\ Last(PlaceOf(m).frames) = ViewOf(Last(m.stack))
    BY HereIs
  <2>2. QED
    BY <2>1 DEF ViewOf, View
<1>2. QED
  BY <1>1 DEF Turn, AtStep

(* Where the step is no call, the step taken follows. *)
LEMMA NotAsking ==
  ASSUME NEW m, NEW what, AtStep(m, what), what # "ask", NEW sc, NEW cs, NEW n,
         PlaceOf(n) = Stepped(sc, <<>>, PlaceOf(m))
  PROVE  Follows(sc, cs, PlaceOf(m), PlaceOf(n))
<1>1. ~PlaceOf(m).ended /\ ~Awaits(PlaceOf(m))
  BY HereIs DEF Awaits
<1>2. QED
  BY <1>1, TurnHere DEF Follows

Deciding == {"ask", "if", "calcStats", "update", "addCounter", "computed"}

(* What happens to the data does not matter. *)
LEMMA Dropped ==
  ASSUME NEW m, NEW what, AtStep(m, what), what \notin Deciding, NEW n, Kept(m, n),
         DOMAIN n.stats.counters = DOMAIN m.stats.counters,
         n.stats.statsComputed = m.stats.statsComputed,
         NEW f, IsFrame(f), f.op = Last(m.stack).op, f.todo = Tail(Last(m.stack).todo),
         f.got = Last(m.stack).got, n.stack = Append(Front(m.stack), f), NEW sc, NEW cs
  PROVE  RankOK(n) /\ Follows(sc, cs, PlaceOf(m), PlaceOf(n))
<1> DEFINE top == Last(m.stack)
<1>1. FrameOK(top) /\ top.todo # <<>> /\ Head(top.todo).do = what
  BY HereIs DEF AtStep
<1>2. FrameOK(f)
  BY <1>1, SoundTail DEF FrameOK
<1>3. what # "ask"
  BY DEF Deciding
<1>4. /\ RankOK(n)
      /\ PlaceOf(n) = Place(PlaceOf(m).made, PlaceOf(m).done,
                            Append(Front(ViewsOf(m.stack)), ViewOf(f)),
                            DOMAIN n.stats.counters, n.stats.statsComputed, FALSE)
  BY <1>2, <1>3, TopMoved
<1>5. ViewOf(f) = View(top.op, Tail(top.todo), ViewOf(top).got)
  BY DEF ViewOf, View
<1>6. /\ PlaceOf(m).frames = ViewsOf(m.stack) /\ Last(ViewsOf(m.stack)) = ViewOf(top)
      /\ PlaceOf(m).names = DOMAIN m.stats.counters
      /\ PlaceOf(m).computed = m.stats.statsComputed /\ PlaceOf(m).ended = FALSE
  BY HereIs DEF PlaceOf, Place, AtStep
<1>7. ViewOf(top).op = top.op /\ ViewOf(top).todo = top.todo
  BY DEF ViewOf, View
<1> HIDE DEF top
<1>8. Stepped(sc, <<>>, PlaceOf(m)) =
        WithTop(PlaceOf(m), top.op, Tail(top.todo), ViewOf(top).got)
  BY <1>1, <1>6, <1>7 DEF Stepped, Deciding
<1>9. PlaceOf(n) = Stepped(sc, <<>>, PlaceOf(m))
  BY <1>4, <1>5, <1>6, <1>8 DEF WithTop
<1>10. QED
  BY <1>3, <1>4, <1>9, NotAsking

(* A branch goes the way that the answers tell. *)
LEMMA Branched ==
  ASSUME NEW m, AtStep(m, "if"), NEW n, Kept(m, n), n.stats = m.stats, NEW f, NEW top,
         top = Last(m.stack), NEW step, step = Head(top.todo), NEW branch,
         branch = IF Told(top.op, top.got, step.test, step.f) THEN step.then ELSE step.else,
         IsFrame(f), f.op = top.op, f.got = top.got, f.todo = Then(branch, Tail(top.todo)),
         n.stack = Append(Front(m.stack), f), NEW sc, NEW cs
  PROVE  RankOK(n) /\ Follows(sc, cs, PlaceOf(m), PlaceOf(n))
<1>1. FrameOK(top) /\ top.todo # <<>> /\ step = Head(top.todo) /\ step.do = "if"
  BY HereIs DEF AtStep
<1>2. SoundList(top.op, Tail(top.todo)) /\ Sound(top.op, step)
  BY <1>1, SoundTail DEF FrameOK
<1>3. Branches(top.op, step)
  BY <1>1, <1>2 DEF Sound
<1>4. SoundList(top.op, branch)
  BY <1>3, PlainIsSound DEF Branches
<1>6. FrameOK(f)
  BY <1>2, <1>4, SoundJoined DEF FrameOK, Then
<1>7. /\ RankOK(n)
      /\ PlaceOf(n) = Place(PlaceOf(m).made, PlaceOf(m).done,
                            Append(Front(ViewsOf(m.stack)), ViewOf(f)),
                            DOMAIN n.stats.counters, n.stats.statsComputed, FALSE)
  BY <1>6, TopMoved
<1>8. /\ ViewOf(f) = View(top.op, Then(branch, Tail(top.todo)), top.got)
      /\ ViewOf(top) = View(top.op, top.todo, top.got)
  BY <1>3 DEF ViewOf, Branches
<1>9. /\ PlaceOf(m).frames = ViewsOf(m.stack) /\ Last(ViewsOf(m.stack)) = ViewOf(top)
      /\ PlaceOf(m).names = DOMAIN m.stats.counters
      /\ PlaceOf(m).computed = m.stats.statsComputed /\ PlaceOf(m).ended = FALSE
  BY HereIs DEF PlaceOf, Place, AtStep
<1>10. ViewOf(top).op = top.op /\ ViewOf(top).todo = top.todo /\ ViewOf(top).got = top.got
  BY <1>8 DEF View
<1>11. Stepped(sc, <<>>, PlaceOf(m)) =
         WithTop(PlaceOf(m), top.op, Then(branch, Tail(top.todo)), top.got)
  BY <1>1, <1>9, <1>10 DEF Stepped
<1>12. PlaceOf(n) = Stepped(sc, <<>>, PlaceOf(m))
  BY <1>7, <1>8, <1>9, <1>11 DEF WithTop
<1>13. QED
  BY <1>7, <1>12, NotAsking

(* What calcStats puts before the rest of the program is sound. *)
LEMMA SoundThen ==
  ASSUME NEW op, NEW p, NEW q, SoundList(op, p), SoundList(op, q)
  PROVE  SoundList(op, Then(p, q))
BY SoundJoined DEF Then

LEMMA CounterStepsSound ==
  ASSUME NEW op, NEW names, IsFiniteSet(names)
  PROVE  SoundList(op, CounterSteps(names))
<1> DEFINE n == Cardinality(names)
           s == SetToSeq(names)
           asks == [i \in DOMAIN s |-> Ask("counter", "in", s[i])]
<1>1. n \in Nat /\ ExistsBijection(1 .. n, names)
  BY FS_CardinalityType
<1>2. \E f \in [1 .. n -> names] : IsInjective(f)
  BY <1>1 DEF ExistsBijection, Bijection, Injection
<1>3. s \in [1 .. n -> names]
  BY <1>2 DEF SetToSeq
<1> HIDE DEF n, s
<1>4. asks = [i \in 1 .. n |-> asks[i]]
  BY <1>3
<1>5. \A i \in 1 .. n : Sound(op, asks[i])
  BY <1>3 DEF Sound, Ask
<1> HIDE DEF asks
<1>6. IsList(asks) /\ Len(asks) = n
  BY <1>1, <1>4, ListOf
<1>7. SoundList(op, asks)
  BY <1>5, <1>6 DEF SoundList
<1>8. SoundList(op, <<Do("computed")>>)
  BY QuietSound
<1>9. QED
  BY <1>7, <1>8, SoundJoined DEF CounterSteps, asks, s

(* calcStats asks for each counter; the names decide for which. *)
LEMMA Totalled ==
  ASSUME NEW m, AtStep(m, "calcStats"), NEW n, Kept(m, n), n.stats = m.stats, NEW f, NEW top,
         top = Last(m.stack), NEW asks,
         asks = IF m.stats.statsComputed THEN <<>> ELSE CounterSteps(DOMAIN m.stats.counters),
         IsFrame(f), f.op = top.op, f.got = top.got, f.todo = Then(asks, Tail(top.todo)),
         n.stack = Append(Front(m.stack), f), NEW sc, NEW cs
  PROVE  RankOK(n) /\ Follows(sc, cs, PlaceOf(m), PlaceOf(n))
<1>1. FrameOK(top) /\ top.todo # <<>> /\ Head(top.todo).do = "calcStats"
  BY HereIs DEF AtStep
<1>2. SoundList(top.op, Tail(top.todo))
  BY <1>1, SoundTail DEF FrameOK
<1>3. FrameOK(f)
  <2>1. SoundList(top.op, asks)
    BY SoundNone, CounterStepsSound DEF AtStep, RankOK
  <2>2. QED
    BY <1>2, <2>1, SoundThen DEF FrameOK
<1>4. /\ RankOK(n)
      /\ PlaceOf(n) = Place(PlaceOf(m).made, PlaceOf(m).done,
                            Append(Front(ViewsOf(m.stack)), ViewOf(f)),
                            DOMAIN n.stats.counters, n.stats.statsComputed, FALSE)
  BY <1>3, TopMoved
<1>5. ViewOf(f) = View(top.op, Then(asks, Tail(top.todo)), ViewOf(top).got)
  BY DEF ViewOf, View
<1>6. /\ PlaceOf(m).frames = ViewsOf(m.stack) /\ Last(ViewsOf(m.stack)) = ViewOf(top)
      /\ PlaceOf(m).names = DOMAIN m.stats.counters
      /\ PlaceOf(m).computed = m.stats.statsComputed /\ PlaceOf(m).ended = FALSE
  BY HereIs DEF PlaceOf, Place, AtStep
<1>7. ViewOf(top).op = top.op /\ ViewOf(top).todo = top.todo
  BY DEF ViewOf, View
<1>8. Stepped(sc, <<>>, PlaceOf(m)) =
        WithTop(PlaceOf(m), top.op, Then(asks, Tail(top.todo)), ViewOf(top).got)
  BY <1>1, <1>6, <1>7 DEF Stepped
<1>9. PlaceOf(n) = Stepped(sc, <<>>, PlaceOf(m))
  BY <1>4, <1>5, <1>6, <1>8 DEF WithTop
<1>10. QED
  BY <1>4, <1>9, NotAsking

(* A counter added, or the totals there: the names follow. *)
LEMMA Counted ==
  ASSUME NEW m, NEW what \in {"addCounter", "computed"}, AtStep(m, what), NEW n, Kept(m, n),
         NEW f, NEW top, top = Last(m.stack),
         DOMAIN n.stats.counters = DOMAIN m.stats.counters \cup
           (IF what = "addCounter" THEN {top.op.counter} ELSE {}),
         n.stats.statsComputed = IF what = "computed" THEN TRUE ELSE m.stats.statsComputed,
         IsFrame(f), f.op = top.op, f.got = top.got, f.todo = Tail(top.todo),
         n.stack = Append(Front(m.stack), f), NEW sc, NEW cs
  PROVE  RankOK(n) /\ Follows(sc, cs, PlaceOf(m), PlaceOf(n))
<1>1. FrameOK(top) /\ top.todo # <<>> /\ Head(top.todo).do = what
  BY HereIs DEF AtStep
<1>2. FrameOK(f)
  BY <1>1, SoundTail DEF FrameOK
<1>3. /\ RankOK(n)
      /\ PlaceOf(n) = Place(PlaceOf(m).made, PlaceOf(m).done,
                            Append(Front(ViewsOf(m.stack)), ViewOf(f)),
                            DOMAIN n.stats.counters, n.stats.statsComputed, FALSE)
  BY <1>2, TopMoved
<1>4. ViewOf(f) = View(top.op, Tail(top.todo), ViewOf(top).got)
  BY DEF ViewOf, View
<1>5. /\ PlaceOf(m).frames = ViewsOf(m.stack) /\ Last(ViewsOf(m.stack)) = ViewOf(top)
      /\ PlaceOf(m).names = DOMAIN m.stats.counters
      /\ PlaceOf(m).computed = m.stats.statsComputed /\ PlaceOf(m).ended = FALSE
  BY HereIs DEF PlaceOf, Place, AtStep
<1>6. ViewOf(top).op = top.op /\ ViewOf(top).todo = top.todo
  BY DEF ViewOf, View
<1>7. CASE what = "addCounter"
  <2>1. Stepped(sc, <<>>, PlaceOf(m)) =
          Place(PlaceOf(m).made, PlaceOf(m).done,
                Append(Front(ViewsOf(m.stack)), View(top.op, Tail(top.todo), ViewOf(top).got)),
                DOMAIN m.stats.counters \cup {top.op.counter}, m.stats.statsComputed, FALSE)
    <3> DEFINE c == PlaceOf(m)
    <3>1. Head(Last(c.frames).todo).do = "addCounter"
      BY <1>1, <1>5, <1>6, <1>7
    <3> HIDE DEF c
    <3>2. Stepped(sc, <<>>, c) =
            Place(c.made, c.done,
                  Append(Front(c.frames), View(Last(c.frames).op, Tail(Last(c.frames).todo),
                                               Last(c.frames).got)),
                  c.names \cup {Last(c.frames).op.counter}, c.computed, c.ended)
      BY <3>1 DEF Stepped
    <3>3. QED
      BY <1>5, <1>6, <3>2 DEF c
  <2>2. PlaceOf(n) = Stepped(sc, <<>>, PlaceOf(m))
    BY <1>3, <1>4, <1>7, <2>1
  <2>3. QED
    BY <1>3, <1>7, <2>2, NotAsking
<1>8. CASE what = "computed"
  <2>1. Stepped(sc, <<>>, PlaceOf(m)) =
          Place(PlaceOf(m).made, PlaceOf(m).done,
                Append(Front(ViewsOf(m.stack)), View(top.op, Tail(top.todo), ViewOf(top).got)),
                DOMAIN m.stats.counters, TRUE, FALSE)
    BY <1>1, <1>5, <1>6, <1>8 DEF Stepped
  <2>2. PlaceOf(n) = Stepped(sc, <<>>, PlaceOf(m))
    BY <1>3, <1>4, <1>8, <2>1
  <2>3. QED
    BY <1>3, <1>8, <2>2, NotAsking
<1>9. QED
  BY <1>7, <1>8

(* The frame of a filter that starts. *)
Fresh(f, op, sc) ==
  IsFrame(f) /\ f.op = op /\ f.todo = Steps(op, sc.logging) /\ f.got = <<>>

(* A filter that starts is seen with its program and no answers. *)
LEMMA FreshView ==
  ASSUME NEW f, NEW op, NEW sc, Fresh(f, op, sc), WellFormedOp(op)
  PROVE  FrameOK(f) /\ ViewOf(f) = View(op, Steps(op, sc.logging), <<>>)
<1>1. SoundList(op, Steps(op, sc.logging))
  BY StepsSound
<1>2. QED
  BY <1>1 DEF Fresh, FrameOK, ViewOf

(* A filter calls another: its program comes first. *)
LEMMA Called ==
  ASSUME NEW m, AtStep(m, "update"), NEW n, Kept(m, n), n.stats = m.stats, NEW f, NEW step,
         step = Head(Last(m.stack).todo), NEW sc, Fresh(f, step.op, sc),
         n.stack = Append(m.stack, f), NEW cs
  PROVE  RankOK(n) /\ Follows(sc, cs, PlaceOf(m), PlaceOf(n))
<1> DEFINE top == Last(m.stack)
<1>1. FrameOK(top) /\ top.todo # <<>> /\ step = Head(top.todo) /\ step.do = "update"
  BY HereIs DEF AtStep
<1>2. WellFormedOp(step.op)
  BY <1>1, SoundTail DEF FrameOK, Sound
<1>3. FrameOK(f) /\ ViewOf(f) = View(step.op, Steps(step.op, sc.logging), <<>>)
  BY <1>2, FreshView
<1>4. FramesOK(n.stack)
  BY <1>1, <1>3, FramesPushed DEF AtStep, RankOK
<1>5. ~m.inCall /\ m.inCall \in BOOLEAN
  BY HereIs DEF AtStep, RankOK
<1>6. RankOK(n)
  BY <1>4, <1>5 DEF AtStep, RankOK, Kept
<1>7. ViewsOf(n.stack) = Append(ViewsOf(m.stack), ViewOf(f))
  BY ViewsPushed DEF AtStep, RankOK, FramesOK
<1>8. PlaceOf(n) = Place(Len(m.calls), Len(m.results), ViewsOf(n.stack),
                         DOMAIN m.stats.counters, m.stats.statsComputed, FALSE)
  BY <1>5 DEF PlaceOf, Kept, AtStep
<1>9. /\ PlaceOf(m).frames = ViewsOf(m.stack) /\ Last(ViewsOf(m.stack)) = ViewOf(top)
      /\ PlaceOf(m).names = DOMAIN m.stats.counters
      /\ PlaceOf(m).computed = m.stats.statsComputed /\ PlaceOf(m).ended = FALSE
      /\ PlaceOf(m).made = Len(m.calls) /\ PlaceOf(m).done = Len(m.results)
  BY <1>5, HereIs DEF PlaceOf, Place, AtStep
<1>10. ViewOf(top).todo = top.todo
  BY DEF ViewOf, View
<1> HIDE DEF top
<1>11. Stepped(sc, <<>>, PlaceOf(m)) =
         Place(Len(m.calls), Len(m.results),
               Append(ViewsOf(m.stack), View(step.op, Steps(step.op, sc.logging), <<>>)),
               DOMAIN m.stats.counters, m.stats.statsComputed, FALSE)
  BY <1>1, <1>9, <1>10 DEF Stepped
<1>12. PlaceOf(n) = Stepped(sc, <<>>, PlaceOf(m))
  BY <1>3, <1>7, <1>8, <1>11
<1>13. QED
  BY <1>6, <1>12, NotAsking

(* The innermost filter is through. *)
AtEnd(m) ==
  RankOK(m) /\ m.status = "running" /\ m.stack # <<>> /\ Last(m.stack).todo = <<>>

(* The place of a rank whose innermost filter is through. *)
LEMMA EndIs ==
  ASSUME NEW m, AtEnd(m)
  PROVE  /\ FramesOK(m.stack) /\ IsList(m.stack) /\ m.stack # <<>>
         /\ PlaceOf(m) = Place(Len(m.calls), Len(m.results), ViewsOf(m.stack),
                               DOMAIN m.stats.counters, m.stats.statsComputed, FALSE)
         /\ m.inCall = FALSE
         /\ \A sc, cs, d : d = Popped(PlaceOf(m)) => Follows(sc, cs, PlaceOf(m), d)
<1>1. FramesOK(m.stack) /\ IsList(m.stack) /\ m.stack # <<>>
  BY DEF AtEnd, RankOK, FramesOK
<1>2. ViewsOf(m.stack) # <<>> /\ Last(ViewsOf(m.stack)) = ViewOf(Last(m.stack))
  BY <1>1, TopView, ViewsAre
<1>3. ViewOf(Last(m.stack)).todo = <<>>
  BY DEF ViewOf, View, AtEnd
<1>4. PlaceOf(m).frames = ViewsOf(m.stack) /\ (PlaceOf(m).ended <=> m.status = "done")
  BY DEF PlaceOf, Place
<1>5. ~Asking(PlaceOf(m)) /\ ~Awaits(PlaceOf(m)) /\ ~PlaceOf(m).ended
  BY <1>2, <1>3, <1>4 DEF Asking, Awaits, AtEnd
<1>6. m.inCall = FALSE
  BY <1>5 DEF AtEnd, RankOK
<1>7. PlaceOf(m) = Place(Len(m.calls), Len(m.results), ViewsOf(m.stack),
                         DOMAIN m.stats.counters, m.stats.statsComputed, FALSE)
  BY <1>6 DEF PlaceOf, AtEnd
<1>8. \A sc, heard : Turn(sc, heard, PlaceOf(m)) = Popped(PlaceOf(m))
  BY <1>2, <1>3, <1>4 DEF Turn
<1>9. \A sc, cs, d : d = Popped(PlaceOf(m)) => Follows(sc, cs, PlaceOf(m), d)
  BY <1>5, <1>8 DEF Follows
<1>10. QED
  BY <1>1, <1>6, <1>7, <1>9

(* The filter that called goes on with its next step. *)
LEMMA GotBack ==
  ASSUME NEW m, AtEnd(m), Len(m.stack) > 1, NEW n, Kept(m, n), n.stats = m.stats,
         NEW caller, caller = m.stack[Len(m.stack) - 1],
         NEW f, IsFrame(f), f.op = caller.op, f.got = caller.got, f.todo = Tail(caller.todo),
         n.stack = Append(Front(Front(m.stack)), f), NEW sc, NEW cs
  PROVE  RankOK(n) /\ Follows(sc, cs, PlaceOf(m), PlaceOf(n))
<1> DEFINE outer == Front(m.stack)
<1>1. FramesOK(m.stack) /\ IsList(m.stack) /\ m.stack # <<>> /\ m.inCall = FALSE
  BY EndIs
<1>2. /\ FramesOK(outer) /\ outer # <<>> /\ Len(m.stack) \in Nat
      /\ Last(outer) = caller /\ FrameOK(caller) /\ caller.todo # <<>>
  BY <1>1, FramesPopped
<1>3. ViewsOf(outer) = Front(ViewsOf(m.stack))
  BY <1>1, ViewsFront
<1> HIDE DEF outer
<1>4. FrameOK(f)
  BY <1>2, SoundTail DEF FrameOK
<1>5. n.stack = Append(Front(outer), f)
  BY DEF outer
<1>6. FramesOK(n.stack)
  BY <1>2, <1>4, <1>5, FramesReplaced
<1>7. RankOK(n)
  BY <1>1, <1>6 DEF AtEnd, RankOK, Kept
<1>8. ViewsOf(n.stack) = Append(Front(ViewsOf(outer)), ViewOf(f))
  BY <1>2, <1>5, ViewsReplaced DEF FramesOK
<1>9. PlaceOf(n) = Place(Len(m.calls), Len(m.results), ViewsOf(n.stack),
                         DOMAIN m.stats.counters, m.stats.statsComputed, FALSE)
  BY <1>1 DEF PlaceOf, Kept, AtEnd
<1>10. ViewOf(f) = View(ViewOf(caller).op, Tail(ViewOf(caller).todo), ViewOf(caller).got)
  BY DEF ViewOf, View
<1>11. /\ Len(ViewsOf(m.stack)) = Len(m.stack)
       /\ ViewsOf(m.stack)[Len(m.stack) - 1] = ViewOf(caller)
  <2>1. Len(m.stack) - 1 \in 1 .. Len(m.stack)
    BY <1>2
  <2>2. QED
    BY <1>1, <2>1, ViewsAre
<1>12. /\ PlaceOf(m).made = Len(m.calls) /\ PlaceOf(m).done = Len(m.results)
       /\ PlaceOf(m).frames = ViewsOf(m.stack) /\ PlaceOf(m).names = DOMAIN m.stats.counters
       /\ PlaceOf(m).computed = m.stats.statsComputed /\ PlaceOf(m).ended = FALSE
  <2>1. PlaceOf(m) = Place(Len(m.calls), Len(m.results), ViewsOf(m.stack),
                           DOMAIN m.stats.counters, m.stats.statsComputed, FALSE)
    BY EndIs
  <2>2. QED
    BY <2>1 DEF Place
<1>13. Popped(PlaceOf(m)) =
         Place(Len(m.calls), Len(m.results), Append(Front(Front(ViewsOf(m.stack))), ViewOf(f)),
               DOMAIN m.stats.counters, m.stats.statsComputed, FALSE)
  BY <1>10, <1>11, <1>12 DEF Popped
<1>14. PlaceOf(n) = Popped(PlaceOf(m))
  BY <1>3, <1>8, <1>9, <1>13
<1>15. QED
  BY <1>7, <1>14, EndIs

(* The host gets the result, and one more operation is done. *)
LEMMA HostGetsResult ==
  ASSUME NEW m, AtEnd(m), Len(m.stack) = 1, NEW n, NEW result,
         n = Rank(m.status, <<>>, Append(m.results, result), m.stats, m.calls, m.inCall),
         NEW sc, NEW cs
  PROVE  RankOK(n) /\ Follows(sc, cs, PlaceOf(m), PlaceOf(n))
<1>1. m.inCall = FALSE
  BY EndIs
<1>2. /\ IsList(Append(m.results, result))
      /\ Len(Append(m.results, result)) = Len(m.results) + 1
  BY Appended DEF AtEnd, RankOK
<1>3. FramesOK(<<>>) /\ ViewsOf(<<>>) = <<>>
  BY NoList, ViewsAre DEF FramesOK
<1>4. /\ n.status = m.status /\ n.stack = <<>> /\ n.results = Append(m.results, result)
      /\ n.stats = m.stats /\ n.calls = m.calls /\ n.inCall = m.inCall
  BY DEF Rank
<1>5. RankOK(n)
  BY <1>1, <1>2, <1>3, <1>4 DEF AtEnd, RankOK
<1>6. PlaceOf(n) = Place(Len(m.calls), Len(m.results) + 1, <<>>,
                         DOMAIN m.stats.counters, m.stats.statsComputed, FALSE)
  BY <1>1, <1>2, <1>3, <1>4 DEF PlaceOf, AtEnd
<1>7. Len(ViewsOf(m.stack)) = 1
  BY EndIs, ViewsAre
<1>8. /\ PlaceOf(m).made = Len(m.calls) /\ PlaceOf(m).done = Len(m.results)
      /\ PlaceOf(m).frames = ViewsOf(m.stack) /\ PlaceOf(m).names = DOMAIN m.stats.counters
      /\ PlaceOf(m).computed = m.stats.statsComputed /\ PlaceOf(m).ended = FALSE
  <2>1. PlaceOf(m) = Place(Len(m.calls), Len(m.results), ViewsOf(m.stack),
                          DOMAIN m.stats.counters, m.stats.statsComputed, FALSE)
    BY EndIs
  <2>2. QED
    BY <2>1 DEF Place
<1>9. PlaceOf(n) = Popped(PlaceOf(m))
  <2>1. ~(Len(PlaceOf(m).frames) > 1)
    <3>1. PlaceOf(m).frames = ViewsOf(m.stack)
      BY <1>8
    <3>2. ~(1 > 1)
      OBVIOUS
    <3>3. QED
      BY <1>7, <3>1, <3>2, Zenon
  <2>2. Popped(PlaceOf(m)) = Place(PlaceOf(m).made, PlaceOf(m).done + 1, <<>>,
                                   PlaceOf(m).names, PlaceOf(m).computed, PlaceOf(m).ended)
    BY <2>1, Zenon DEF Popped
  <2>3. QED
    BY <1>6, <1>8, <2>2
<1>10. QED
  BY <1>5, <1>9, EndIs

(* The host has the rank. *)
AtHost(m) == RankOK(m) /\ m.status = "running" /\ m.stack = <<>>

(* The place of a rank between two operations. *)
LEMMA HostIs ==
  ASSUME NEW m, AtHost(m)
  PROVE  /\ PlaceOf(m) = Place(Len(m.calls), Len(m.results), <<>>,
                               DOMAIN m.stats.counters, m.stats.statsComputed, FALSE)
         /\ m.inCall = FALSE
         /\ \A sc, cs, d : d = Started(sc, PlaceOf(m)) => Follows(sc, cs, PlaceOf(m), d)
<1>1. ViewsOf(m.stack) = <<>>
  BY NoList, ViewsAre DEF AtHost
<1>2. PlaceOf(m).frames = <<>> /\ (PlaceOf(m).ended <=> m.status = "done")
  BY <1>1 DEF PlaceOf, Place
<1>3. ~Asking(PlaceOf(m)) /\ ~Awaits(PlaceOf(m)) /\ ~PlaceOf(m).ended
  BY <1>2 DEF Asking, Awaits, AtHost
<1>4. m.inCall = FALSE
  BY <1>3 DEF AtHost, RankOK
<1>5. PlaceOf(m) = Place(Len(m.calls), Len(m.results), <<>>,
                         DOMAIN m.stats.counters, m.stats.statsComputed, FALSE)
  BY <1>1, <1>4 DEF PlaceOf, AtHost
<1>6. \A sc, heard : Turn(sc, heard, PlaceOf(m)) = Started(sc, PlaceOf(m))
  BY <1>2 DEF Turn
<1>7. \A sc, cs, d : d = Started(sc, PlaceOf(m)) => Follows(sc, cs, PlaceOf(m), d)
  BY <1>3, <1>6 DEF Follows
<1>8. QED
  BY <1>4, <1>5, <1>7

(* The host starts the next operation of the script. *)
LEMMA HostBegins ==
  ASSUME NEW m, AtHost(m), NEW n, Kept(m, n), n.stats = m.stats, NEW sc,
         Len(m.results) < Len(sc.script), NEW op, op = sc.script[Len(m.results) + 1].op,
         WellFormedOp(op), NEW f, Fresh(f, op, sc), n.stack = <<f>>, NEW cs
  PROVE  RankOK(n) /\ Follows(sc, cs, PlaceOf(m), PlaceOf(n))
<1>1. FrameOK(f) /\ ViewOf(f) = View(op, Steps(op, sc.logging), <<>>)
  BY FreshView
<1>2. IsList(<<f>>) /\ Len(<<f>>) = 1 /\ <<f>>[1] = f
  BY OneIsList
<1>3. FramesOK(<<f>>)
  <2>1. \A i \in 1 .. 1 : i = 1 /\ ~(i < 1)
    OBVIOUS
  <2>2. QED
    BY <1>1, <1>2, <2>1 DEF FramesOK
<1>4. ViewsOf(<<f>>) = <<View(op, Steps(op, sc.logging), <<>>)>>
  <2> DEFINE v == View(op, Steps(op, sc.logging), <<>>)
             s == <<f>>
             t == <<v>>
  <2>1. IsList(ViewsOf(s)) /\ Len(ViewsOf(s)) = 1 /\ ViewsOf(s)[1] = v
    BY <1>1, <1>2, ViewsAre
  <2>2. IsList(t) /\ Len(t) = 1 /\ t[1] = v
    BY OneIsList
  <2> HIDE DEF s, t, v
  <2>3. \A i \in 1 .. 1 : ViewsOf(s)[i] = t[i]
    BY <2>1, <2>2
  <2>4. ViewsOf(s) = t
    BY <2>1, <2>2, <2>3, ListEqual
  <2>5. QED
    BY <2>4 DEF s, t, v
<1>5. m.inCall = FALSE
  BY HostIs
<1>6. RankOK(n)
  BY <1>3, <1>5 DEF AtHost, RankOK, Kept
<1>7. PlaceOf(n) = Place(Len(m.calls), Len(m.results), <<View(op, Steps(op, sc.logging), <<>>)>>,
                         DOMAIN m.stats.counters, m.stats.statsComputed, FALSE)
  BY <1>4, <1>5 DEF PlaceOf, Kept, AtHost
<1>8. PlaceOf(m) = Place(Len(m.calls), Len(m.results), <<>>,
                         DOMAIN m.stats.counters, m.stats.statsComputed, FALSE)
  BY HostIs
<1>9. PlaceOf(n) = Started(sc, PlaceOf(m))
  BY <1>7, <1>8 DEF Started, Place
<1>10. QED
  BY <1>6, <1>9, HostIs

(* The script is through. *)
LEMMA HostEnds ==
  ASSUME NEW m, AtHost(m), NEW sc, Len(m.results) = Len(sc.script), Len(sc.script) \in Nat,
         NEW n, n = Rank("done", m.stack, m.results, m.stats, m.calls, m.inCall), NEW cs
  PROVE  RankOK(n) /\ Follows(sc, cs, PlaceOf(m), PlaceOf(n))
<1>1. m.inCall = FALSE /\ m.stack = <<>>
  BY HostIs DEF AtHost
<1>2. /\ n.status = "done" /\ n.stack = m.stack /\ n.results = m.results
      /\ n.stats = m.stats /\ n.calls = m.calls /\ n.inCall = m.inCall
  BY DEF Rank
<1>3. RankOK(n)
  BY <1>1, <1>2 DEF AtHost, RankOK
<1>4. ViewsOf(n.stack) = <<>>
  BY <1>1, <1>2, NoList, ViewsAre
<1>5. PlaceOf(n) = Place(Len(m.calls), Len(m.results), <<>>,
                         DOMAIN m.stats.counters, m.stats.statsComputed, TRUE)
  BY <1>1, <1>2, <1>4 DEF PlaceOf
<1>6. PlaceOf(m) = Place(Len(m.calls), Len(m.results), <<>>,
                         DOMAIN m.stats.counters, m.stats.statsComputed, FALSE)
  BY HostIs
<1>7. PlaceOf(n) = Started(sc, PlaceOf(m))
  BY <1>5, <1>6 DEF Started, Place
<1>8. QED
  BY <1>3, <1>7, HostIs

(* A rank that is in the call it has come to stands where it stood. *)
LEMMA Entered ==
  ASSUME NEW m, AtStep(m, "ask"), m.inCall = FALSE, NEW call, NEW n,
         n = Rank(m.status, m.stack, m.results, m.stats, Append(m.calls, call), TRUE)
  PROVE  /\ RankOK(n) /\ PlaceOf(n) = PlaceOf(m)
         /\ Asking(PlaceOf(m)) /\ PlaceOf(m).made = Len(m.calls)
<1>1. /\ n.status = m.status /\ n.stack = m.stack /\ n.results = m.results
      /\ n.stats = m.stats /\ n.calls = Append(m.calls, call) /\ n.inCall = TRUE
  BY DEF Rank
<1>2. /\ IsList(n.calls) /\ Len(n.calls) = Len(m.calls) + 1 /\ Len(m.calls) \in Nat
  <2>1. IsList(m.calls)
    BY DEF AtStep, RankOK
  <2>2. IsList(Append(m.calls, call)) /\ Len(Append(m.calls, call)) = Len(m.calls) + 1
    BY <2>1, Appended
  <2>3. QED
    BY <1>1, <2>1, <2>2, ListIs
<1>0. \A a, b : b \in Nat /\ a = b + 1 => a # 0 /\ a - 1 = b
  OBVIOUS
<1>3. n.calls # <<>>
  <2>1. Len(n.calls) # 0
    BY <1>0, <1>2, Zenon
  <2>2. QED
    BY <1>2, <2>1, ListIs
<1>4. Len(n.calls) - 1 = Len(m.calls)
  BY <1>0, <1>2, Zenon
<1>5. PlaceOf(n) = PlaceOf(m)
  BY <1>1, <1>4 DEF PlaceOf
<1>6. Asking(PlaceOf(m))
  BY HereIs
<1>7. RankOK(n)
  BY <1>1, <1>2, <1>3, <1>5, <1>6 DEF AtStep, RankOK
<1>8. PlaceOf(m).made = Len(m.calls)
  BY DEF PlaceOf, Place
<1>9. QED
  BY <1>5, <1>6, <1>7, <1>8

(* A rank that leaves its call has the answer, if it may decide anything. *)
LEMMA Answered ==
  ASSUME NEW m, AtStep(m, "ask"), m.inCall = TRUE, NEW f, NEW top, top = Last(m.stack),
         NEW n, n = Rank(m.status, Append(Front(m.stack), f), m.results, m.stats, m.calls, FALSE),
         IsFrame(f), f.op = top.op, f.todo = Tail(top.todo),
         NEW heard, f.got = LearntFrom(top.got, Head(top.todo), heard), NEW sc, NEW cs,
         top.op.name # "TotalVal" =>
           /\ heard = Heard(cs, Len(m.calls))
           /\ \A s \in Ranks : Len(m.calls) <= Len(cs[s])
  PROVE  RankOK(n) /\ Follows(sc, cs, PlaceOf(m), PlaceOf(n))
<1>1. FrameOK(top) /\ top.todo # <<>> /\ Head(top.todo).do = "ask"
  BY HereIs DEF AtStep
<1>2. FrameOK(f)
  BY <1>1, SoundTail DEF FrameOK
<1>3. /\ n.status = m.status /\ n.stack = Append(Front(m.stack), f) /\ n.results = m.results
      /\ n.stats = m.stats /\ n.calls = m.calls /\ n.inCall = FALSE
  BY DEF Rank
<1>4. FramesOK(n.stack)
  BY <1>2, <1>3, FramesReplaced DEF AtStep, RankOK
<1>5. RankOK(n)
  BY <1>3, <1>4 DEF AtStep, RankOK
<1>6. ViewsOf(n.stack) = Append(Front(ViewsOf(m.stack)), ViewOf(f))
  BY <1>3, ViewsReplaced DEF AtStep, RankOK, FramesOK
<1>7. PlaceOf(n) = Place(Len(m.calls), Len(m.results), Append(Front(ViewsOf(m.stack)), ViewOf(f)),
                         DOMAIN m.stats.counters, m.stats.statsComputed, FALSE)
  BY <1>3, <1>6 DEF PlaceOf, AtStep
<1>8. Len(m.calls) \in Nat \ {0}
  BY ListIs DEF AtStep, RankOK
<1>9. /\ PlaceOf(m).frames = ViewsOf(m.stack) /\ Last(ViewsOf(m.stack)) = ViewOf(top)
      /\ ViewsOf(m.stack) # <<>>
      /\ PlaceOf(m).names = DOMAIN m.stats.counters
      /\ PlaceOf(m).computed = m.stats.statsComputed /\ PlaceOf(m).ended = FALSE
      /\ PlaceOf(m).made = Len(m.calls) - 1 /\ PlaceOf(m).done = Len(m.results)
  BY HereIs DEF PlaceOf, Place, AtStep
<1>10. /\ ViewOf(top).op = top.op /\ ViewOf(top).todo = top.todo
       /\ top.op.name # "TotalVal" => ViewOf(top).got = top.got
       /\ top.op.name = "TotalVal" => ViewOf(top).got = <<>>
  BY DEF ViewOf, View
<1>11. ViewOf(f) = View(top.op, Tail(top.todo),
                        IF top.op.name = "TotalVal" THEN <<>>
                        ELSE LearntFrom(top.got, Head(top.todo), heard))
  BY DEF ViewOf
<1>12. (Len(m.calls) - 1) + 1 = Len(m.calls)
  BY <1>8
<1>13. \A h : Turn(sc, h, PlaceOf(m)) = Stepped(sc, h, PlaceOf(m))
  BY TurnHere
<1>14. Asking(PlaceOf(m)) /\ ~PlaceOf(m).ended
  BY HereIs
<1>15. CASE top.op.name = "TotalVal"
  <2>1. ~Awaits(PlaceOf(m))
    BY <1>9, <1>10, <1>15 DEF Awaits
  <2>2. Stepped(sc, <<>>, PlaceOf(m)) =
          Place(Len(m.calls), Len(m.results),
                Append(Front(ViewsOf(m.stack)), View(top.op, Tail(top.todo), <<>>)),
                DOMAIN m.stats.counters, m.stats.statsComputed, FALSE)
    BY <1>1, <1>9, <1>10, <1>12, <1>15 DEF Stepped
  <2>3. PlaceOf(n) = Turn(sc, <<>>, PlaceOf(m))
    BY <1>7, <1>11, <1>13, <1>15, <2>2
  <2>4. QED
    BY <1>5, <1>14, <2>1, <2>3 DEF Follows
<1>16. CASE top.op.name # "TotalVal"
  <2>1. Awaits(PlaceOf(m))
    BY <1>9, <1>10, <1>14, <1>16 DEF Awaits
  <2>2. Stepped(sc, heard, PlaceOf(m)) =
          Place(Len(m.calls), Len(m.results),
                Append(Front(ViewsOf(m.stack)),
                       View(top.op, Tail(top.todo), LearntFrom(top.got, Head(top.todo), heard))),
                DOMAIN m.stats.counters, m.stats.statsComputed, FALSE)
    BY <1>1, <1>9, <1>10, <1>12, <1>16 DEF Stepped
  <2>3. PlaceOf(n) = Turn(sc, heard, PlaceOf(m))
    BY <1>7, <1>11, <1>13, <1>16, <2>2
  <2>4. PlaceOf(m).made + 1 = Len(m.calls)
    BY <1>9, <1>12
  <2>5. heard = Heard(cs, PlaceOf(m).made + 1) /\ \A s \in Ranks : PlaceOf(m).made + 1 <= Len(cs[s])
    BY <1>16, <2>4
  <2>6. QED
    BY <1>5, <1>14, <2>1, <2>3, <2>5 DEF Follows
<1>17. QED
  BY <1>15, <1>16

(* A rank whose Update has thrown. *)
LEMMA Thrown ==
  ASSUME NEW m, NEW what, AtStep(m, what), what # "ask", NEW n,
         NEW how \in Stopped, n = Rank(how, <<>>, m.results, m.stats, m.calls, m.inCall)
  PROVE  RankOK(n)
<1>1. m.inCall = FALSE
  BY HereIs DEF AtStep, RankOK
<1>2. /\ n.status = how /\ n.stack = <<>> /\ n.results = m.results
      /\ n.stats = m.stats /\ n.calls = m.calls /\ n.inCall = m.inCall
  BY DEF Rank
<1>3. FramesOK(<<>>)
  BY NoList DEF FramesOK
<1>4. QED
  BY <1>1, <1>2, <1>3 DEF AtStep, RankOK

-----------------------------------------------------------------------------
(* The inductive invariant of the filtering ranks. *)

Mine(r) == Rank(status[r], stack[r], results[r], stats[r], calls[r], inCall[r])

Functional ==
  /\ status = [r \in Ranks |-> status[r]]
  /\ stack = [r \in Ranks |-> stack[r]]
  /\ results = [r \in Ranks |-> results[r]]
  /\ stats = [r \in Ranks |-> stats[r]]
  /\ calls = [r \in Ranks |-> calls[r]]
  /\ inCall = [r \in Ranks |-> inCall[r]]

Standing == [r \in {s \in Ranks : status[s] \notin Stopped} |-> PlaceOf(Mine(r))]

WayInv ==
  /\ scenario \in Scenarios
  /\ Functional
  /\ \A r \in Ranks : RankOK(Mine(r))
  /\ \E path : OnPath(path, scenario, calls, Standing)

(* A step of rank r. *)
OnlyOf(r) ==
  /\ scenario' = scenario
  /\ status' = [status EXCEPT ![r] = status'[r]]
  /\ stack' = [stack EXCEPT ![r] = stack'[r]]
  /\ results' = [results EXCEPT ![r] = results'[r]]
  /\ stats' = [stats EXCEPT ![r] = stats'[r]]
  /\ calls' = [calls EXCEPT ![r] = calls'[r]]
  /\ inCall' = [inCall EXCEPT ![r] = inCall'[r]]

(* What a rank has of its own, before and after a step. *)
LEMMA MineIs ==
  ASSUME NEW r
  PROVE  /\ Mine(r).status = status[r] /\ Mine(r).stack = stack[r]
         /\ Mine(r).results = results[r] /\ Mine(r).stats = stats[r]
         /\ Mine(r).calls = calls[r] /\ Mine(r).inCall = inCall[r]
         /\ Mine(r)'.status = status'[r] /\ Mine(r)'.stack = stack'[r]
         /\ Mine(r)'.results = results'[r] /\ Mine(r)'.stats = stats'[r]
         /\ Mine(r)'.calls = calls'[r] /\ Mine(r)'.inCall = inCall'[r]
         /\ Mine(r)' = Rank(status'[r], stack'[r], results'[r], stats'[r], calls'[r], inCall'[r])
BY DEF Mine, Rank

(* A step of one rank leaves the others as they are. *)
LEMMA OthersStay ==
  ASSUME Functional, NEW r \in Ranks, OnlyOf(r)
  PROVE  Functional' /\ \A s \in Ranks : s # r => Mine(s)' = Mine(s) /\ status'[s] = status[s]
<1>1. Functional'
  BY DEF Functional, OnlyOf
<1>2. ASSUME NEW s \in Ranks, s # r
      PROVE  Mine(s)' = Mine(s) /\ status'[s] = status[s]
  <2>1. /\ status'[s] = status[s] /\ stack'[s] = stack[s] /\ results'[s] = results[s]
        /\ stats'[s] = stats[s] /\ calls'[s] = calls[s] /\ inCall'[s] = inCall[s]
    BY <1>2 DEF Functional, OnlyOf
  <2>2. QED
    BY <2>1 DEF Mine
<1>3. QED
  BY <1>1, <1>2

(* A rank that is not failed goes on to the next place. *)
Walks(r) ==
  /\ OnlyOf(r) /\ calls' = calls /\ status[r] \notin Stopped /\ status'[r] \notin Stopped
  /\ RankOK(Mine(r)')
  /\ Follows(scenario, calls, PlaceOf(Mine(r)), PlaceOf(Mine(r)'))

LEMMA OnItsWay ==
  ASSUME NEW r, OnlyOf(r), calls' = calls, status[r] \notin Stopped, status'[r] \notin Stopped,
         NEW m, m = Mine(r), NEW n, n = Mine(r)', RankOK(n),
         Follows(scenario, calls, PlaceOf(m), PlaceOf(n))
  PROVE  Walks(r)
BY DEF Walks

(* It stays on the way of all ranks, or is the first to take a step of it. *)
LEMMA WalkOnPath ==
  ASSUME WayInv, NEW r \in Ranks, Walks(r),
         NEW path, OnPath(path, scenario, calls, Standing)
  PROVE  /\ Functional' /\ \A s \in Ranks : RankOK(Mine(s)')
         /\ r \in DOMAIN Standing /\ Standing[r] = PlaceOf(Mine(r))
         /\ \/ OnPath(path, scenario', calls', Standing')
            \/ /\ Standing[r] = path[Len(path)]
               /\ OnPath(Append(path, PlaceOf(Mine(r)')), scenario', calls', Standing')
<1> DEFINE m == Mine(r)
           n == Mine(r)'
<1>0. /\ OnlyOf(r) /\ calls' = calls /\ status[r] \notin Stopped /\ status'[r] \notin Stopped
      /\ RankOK(n) /\ Follows(scenario, calls, PlaceOf(m), PlaceOf(n))
  BY DEF Walks
<1>1. Functional' /\ \A s \in Ranks : s # r => Mine(s)' = Mine(s) /\ status'[s] = status[s]
  BY <1>0, OthersStay DEF WayInv
<1>2. \A s \in Ranks : RankOK(Mine(s)')
  BY <1>0, <1>1 DEF WayInv
<1> DEFINE ps == Standing
           qs == Standing'
<1>3. r \in DOMAIN ps /\ ps[r] = PlaceOf(m)
  BY <1>0 DEF Standing
<1>4. qs = [ps EXCEPT ![r] = PlaceOf(n)]
  <2>1. {s \in Ranks : status'[s] \notin Stopped} = {s \in Ranks : status[s] \notin Stopped}
    BY <1>0, <1>1
  <2>2. qs = [s \in {t \in Ranks : status'[t] \notin Stopped} |-> PlaceOf(Mine(s)')]
    BY DEF Standing
  <2>3. ps = [s \in {t \in Ranks : status[t] \notin Stopped} |-> PlaceOf(Mine(s))]
    BY DEF Standing
  <2>4. \A s \in DOMAIN ps : qs[s] = IF s = r THEN PlaceOf(n) ELSE ps[s]
    BY <1>1, <2>1, <2>2, <2>3
  <2> HIDE DEF ps, qs
  <2>5. QED
    BY <2>1, <2>2, <2>3, <2>4
<1> DEFINE new == PlaceOf(n)
           sc == scenario
           cs == calls
<1>5. OnPath(path, sc, cs, ps)
  OBVIOUS
<1>6. Follows(sc, cs, ps[r], new)
  BY <1>0, <1>3
<1>7. qs = [ps EXCEPT ![r] = new]
  BY <1>4
<1>8. sc = scenario' /\ cs = calls'
  BY <1>0 DEF OnlyOf
<1> HIDE DEF new, sc, cs, ps, qs
<1>9. \/ OnPath(path, sc, cs, qs)
      \/ ps[r] = path[Len(path)] /\ OnPath(Append(path, new), sc, cs, qs)
  <2>1. \/ OnPath(path, sc, cs, [ps EXCEPT ![r] = new])
        \/ /\ ps[r] = path[Len(path)]
           /\ OnPath(Append(path, new), sc, cs, [ps EXCEPT ![r] = new])
    BY <1>3, <1>5, <1>6, Advance
  <2>2. QED
    BY <1>7, <2>1
<1>10. QED
  BY <1>1, <1>2, <1>3, <1>8, <1>9 DEF new, ps, qs

LEMMA WalkKeepsWay ==
  ASSUME WayInv, NEW r \in Ranks, Walks(r)
  PROVE  WayInv'
<1>1. PICK path : OnPath(path, scenario, calls, Standing)
  BY DEF WayInv
<1>2. /\ Functional' /\ \A s \in Ranks : RankOK(Mine(s)')
      /\ \E p : OnPath(p, scenario', calls', Standing')
  BY <1>1, WalkOnPath
<1>3. scenario' \in Scenarios
  BY DEF Walks, OnlyOf, WayInv
<1>4. QED
  BY <1>2, <1>3 DEF WayInv

-----------------------------------------------------------------------------
(* Each action is a step on the way. *)

(* A rank that is at a step of a program, in terms of its own state. *)
LEMMA DoingIs ==
  ASSUME WayInv, NEW r \in Ranks, NEW what, Doing(r, what)
  PROVE  /\ AtStep(Mine(r), what) /\ IsFrame(Top(r)) /\ Top(r).todo # <<>>
         /\ status[r] = "running" /\ Top(r) = Last(stack[r]) /\ Step(r) = Head(Top(r).todo)
<1>1. RankOK(Mine(r)) /\ Mine(r).stack = stack[r] /\ Mine(r).status = status[r]
  BY MineIs DEF WayInv
<1>2. AtStep(Mine(r), what)
  BY <1>1 DEF AtStep, Doing, Step, Top
<1>3. FrameOK(Last(stack[r]))
  <2> DEFINE m == Mine(r)
  <2>1. AtStep(m, what) /\ m.stack = stack[r]
    BY <1>1, <1>2
  <2> HIDE DEF m
  <2>2. FrameOK(Last(m.stack))
    BY <2>1, HereIs
  <2>3. QED
    BY <2>1, <2>2
<1>4. QED
  BY <1>2, <1>3 DEF FrameOK, Top, Step, Doing

(* A frame that has gone on, with t left to do. *)
Past(f, g, t) ==
  IsFrame(g) /\ g.op = f.op /\ g.got = f.got /\ g.todo = t

(* The rank goes on with the data, or the numbers of its counters, changed. *)
Drops(r, f) ==
  /\ Past(Top(r), f, Tail(Top(r).todo))
  /\ stack' = Put(r, f)
  /\ UNCHANGED <<scenario, status, results, calls, inCall>>

(* A step whose work decides nothing keeps the invariant. *)
LEMMA DropsOnWay ==
  ASSUME WayInv, NEW r \in Ranks, NEW what, Doing(r, what), what \notin Deciding,
         NEW f, Drops(r, f), stats' = [stats EXCEPT ![r] = stats'[r]],
         stats'[r] = [counters |-> stats'[r].counters, totals |-> stats[r].totals,
                      statsComputed |-> stats[r].statsComputed],
         DOMAIN stats'[r].counters = DOMAIN stats[r].counters
  PROVE  Walks(r)
<1>1. Functional
  BY DEF WayInv
<1>2. OnlyOf(r) /\ stack'[r] = Append(Front(stack[r]), f)
  BY <1>1 DEF Functional, OnlyOf, Drops, Put
<1>3. /\ AtStep(Mine(r), what) /\ status[r] = "running" /\ Top(r) = Last(stack[r])
  BY DoingIs
<1> DEFINE m == Mine(r)
           n == Mine(r)'
           sc == scenario
           cs == calls
<1>4. /\ m.status = status[r] /\ m.stack = stack[r] /\ m.results = results[r]
      /\ m.stats = stats[r] /\ m.calls = calls[r] /\ m.inCall = inCall[r]
      /\ n.status = status'[r] /\ n.stack = stack'[r] /\ n.results = results'[r]
      /\ n.stats = stats'[r] /\ n.calls = calls'[r] /\ n.inCall = inCall'[r]
  BY MineIs
<1>5. AtStep(m, what)
  BY <1>3
<1> HIDE DEF m, n, sc, cs
<1>6. IsFiniteSet(DOMAIN m.stats.counters)
  BY <1>5 DEF AtStep, RankOK
<1>7. /\ n.status = m.status /\ n.results = m.results /\ n.calls = m.calls
      /\ n.inCall = m.inCall
  BY <1>4 DEF Drops
<1>8. /\ n.stats = [counters |-> n.stats.counters, totals |-> n.stats.totals,
                    statsComputed |-> n.stats.statsComputed]
      /\ n.stats.statsComputed = m.stats.statsComputed
      /\ DOMAIN n.stats.counters = DOMAIN m.stats.counters
  BY <1>4
<1>9. Kept(m, n)
  BY <1>6, <1>7, <1>8 DEF Kept
<1>10. /\ f.op = Last(m.stack).op /\ f.todo = Tail(Last(m.stack).todo)
       /\ f.got = Last(m.stack).got /\ IsFrame(f)
       /\ n.stack = Append(Front(m.stack), f)
  BY <1>2, <1>3, <1>4 DEF Drops, Past
<1>11. RankOK(n) /\ Follows(sc, cs, PlaceOf(m), PlaceOf(n))
  BY <1>5, <1>8, <1>9, <1>10, Dropped
<1>12. calls' = calls /\ status[r] \notin Stopped /\ status'[r] \notin Stopped
  BY <1>3 DEF Drops
<1>13. m = Mine(r) /\ n = Mine(r)' /\ sc = scenario /\ cs = calls
  BY DEF m, n, sc, cs
<1>14. QED
  BY <1>2, <1>11, <1>12, <1>13, OnItsWay

(* The frame f with t left to do is g; with its data changed it is past the  *)
(* step as well.                                                            *)
Moved(f, g, t) ==
  /\ Past(f, g, t) /\ g.reg = f.reg
  /\ \A v : Past(f, [g EXCEPT !.reg = v], t)
  /\ \A v : Past(f, [g EXCEPT !.sel = v], t)
  /\ \A v, w : Past(f, [g EXCEPT !.reg = v, !.slices = w], t)
  /\ \A v : Past(f, [g EXCEPT !.slices = v], t)
  /\ \A v : Past(f, [g EXCEPT !.todo = v], v)
  /\ \A v : IsFrame([g EXCEPT !.got = v]) /\ [g EXCEPT !.got = v].op = f.op
            /\ [g EXCEPT !.got = v].got = v /\ [g EXCEPT !.got = v].todo = t

(* With its data changed, a frame is past the step. *)
LEMMA FrameOf ==
  ASSUME NEW f, IsFrame(f), NEW t
  PROVE  Moved(f, [f EXCEPT !.todo = t], t)
<1> DEFINE g == [f EXCEPT !.todo = t]
           D == DOMAIN f
<1>1. D = {"op", "todo", "reg", "slices", "sel", "got"} /\ f = [x \in D |-> f[x]]
  BY DEF IsFrame
<1> HIDE DEF D
<1>2. g = [x \in D |-> IF x = "todo" THEN t ELSE f[x]]
  BY <1>1
<1> HIDE DEF g
<1> USE <1>1, <1>2 DEF IsFrame, Past
<1>3. Past(f, g, t) /\ g.reg = f.reg
  OBVIOUS
<1>4. \A v : Past(f, [g EXCEPT !.reg = v], t)
  OBVIOUS
<1>5. \A v : Past(f, [g EXCEPT !.sel = v], t)
  OBVIOUS
<1>6. \A v : Past(f, [g EXCEPT !.slices = v], t)
  OBVIOUS
<1>7. \A v, w : Past(f, [g EXCEPT !.reg = v, !.slices = w], t)
  OBVIOUS
<1>8. \A v : Past(f, [g EXCEPT !.todo = v], v)
  OBVIOUS
<1>9. \A v : IsFrame([g EXCEPT !.got = v]) /\ [g EXCEPT !.got = v].op = f.op
             /\ [g EXCEPT !.got = v].got = v /\ [g EXCEPT !.got = v].todo = t
  OBVIOUS
<1>10. QED
  BY <1>3, <1>4, <1>5, <1>6, <1>7, <1>8, <1>9 DEF Moved, g

(* The rest of what a filter has to do. *)
LEMMA RestIs ==
  ASSUME WayInv, NEW r \in Ranks, NEW what, Doing(r, what)
  PROVE  Moved(Top(r), Rest(r), Tail(Top(r).todo))
BY DoingIs, FrameOf DEF Rest

(* The counters of a rank are a record of the three members. *)
LEMMA StatsOf ==
  ASSUME WayInv, NEW r \in Ranks
  PROVE  stats[r] = [counters |-> stats[r].counters, totals |-> stats[r].totals,
                     statsComputed |-> stats[r].statsComputed]
<1>1. RankOK(Mine(r)) /\ Mine(r).stats = stats[r]
  BY MineIs DEF WayInv
<1>2. QED
  BY <1>1 DEF RankOK

(* The same for a step that leaves the counters alone. *)
LEMMA WorkOnWay ==
  ASSUME WayInv, NEW r \in Ranks, NEW what, Doing(r, what), what \notin Deciding,
         NEW f, Drops(r, f), stats' = stats
  PROVE  Walks(r)
<1>1. stats' = [stats EXCEPT ![r] = stats'[r]]
  BY DEF WayInv, Functional
<1>2. QED
  BY <1>1, StatsOf, DropsOnWay

(* Work on data sets, for whatever the data are. *)
LEMMA WorkWalks ==
  ASSUME WayInv, NEW r \in Ranks, Work(r), ~DomainThrows(r)
  PROVE  Walks(r)
<1> DEFINE rest == Rest(r)
<1>1. rest = Rest(r)
  OBVIOUS
<1> HIDE DEF rest
<1>2. ASSUME NEW what, Doing(r, what)
      PROVE  /\ Past(Top(r), rest, Tail(Top(r).todo))
             /\ \A v : Past(Top(r), [rest EXCEPT !.reg = v], Tail(Top(r).todo))
             /\ \A v : Past(Top(r), [rest EXCEPT !.sel = v], Tail(Top(r).todo))
             /\ \A v, w : Past(Top(r), [rest EXCEPT !.reg = v, !.slices = w], Tail(Top(r).todo))
             /\ rest.reg = Top(r).reg
  BY <1>1, <1>2, RestIs DEF Moved
<1>3. CASE RunOnDomains(r)
  <2>1. Doing(r, "map") /\ UNCHANGED <<scenario, status, results, calls, inCall, stats>>
    BY <1>1, <1>3 DEF RunOnDomains
  <2>2. stack' = Put(r, [rest EXCEPT !.reg[Step(r).to] = New(r)])
    BY <1>1, <1>3 DEF RunOnDomains, Store
  <2>3. Drops(r, [rest EXCEPT !.reg[Step(r).to] = New(r)])
    BY <1>2, <2>1, <2>2 DEF Drops
  <2>4. QED
    BY <2>1, <2>3, WorkOnWay DEF Deciding
<1>4. CASE OverwriteDomains(r)
  <2>1. /\ Doing(r, "overwrite") /\ UNCHANGED <<scenario, status, results, calls, inCall, stats>>
        /\ stack' = Put(r, rest)
    BY <1>1, <1>4 DEF OverwriteDomains
  <2>2. Drops(r, rest)
    BY <1>2, <2>1 DEF Drops
  <2>3. QED
    BY <2>1, <2>2, WorkOnWay DEF Deciding
<1>5. CASE AssignPointer(r)
  <2>1. /\ Doing(r, "assign") /\ UNCHANGED <<scenario, status, results, calls, inCall, stats>>
        /\ stack' = Put(r, [rest EXCEPT !.reg[Step(r).to] = Top(r).reg[Step(r).from]])
    BY <1>1, <1>5 DEF AssignPointer
  <2>2. Drops(r, [rest EXCEPT !.reg[Step(r).to] = Top(r).reg[Step(r).from]])
    BY <1>2, <2>1 DEF Drops
  <2>3. QED
    BY <2>1, <2>2, WorkOnWay DEF Deciding
<1>6. CASE DeleteDataSet(r)
  <2>1. /\ Doing(r, "delete") /\ UNCHANGED <<scenario, status, results, calls, inCall, stats>>
        /\ stack' = Put(r, [rest EXCEPT !.reg[Step(r).reg] = 0])
    BY <1>1, <1>6 DEF DeleteDataSet
  <2>2. Drops(r, [rest EXCEPT !.reg[Step(r).reg] = 0])
    BY <1>2, <2>1 DEF Drops
  <2>3. QED
    BY <2>1, <2>2, WorkOnWay DEF Deciding
<1>7. CASE RestoreInput(r)
  <2>1. /\ Doing(r, "restore") /\ UNCHANGED <<scenario, status, results, calls, inCall, stats>>
        /\ stack' = Put(r, Restored(rest))
    BY <1>1, <1>7 DEF RestoreInput
  <2>2. Restored(rest) = [rest EXCEPT !.reg = [rest.reg EXCEPT !.in = rest.reg.old, !.old = 0]]
    BY <1>2, <2>1 DEF Restored, Past, IsFrame
  <2>3. Drops(r, Restored(rest))
    BY <1>2, <2>1, <2>2 DEF Drops
  <2>4. QED
    BY <2>1, <2>3, WorkOnWay DEF Deciding
<1>8. CASE MergeSlices(r)
  <2>1. /\ Doing(r, "merge") /\ UNCHANGED <<scenario, status, results, calls, inCall, stats>>
        /\ stack' = Put(r, [rest EXCEPT !.reg.out = New(r), !.slices = <<>>])
    BY <1>1, <1>8 DEF MergeSlices
  <2>2. Drops(r, [rest EXCEPT !.reg.out = New(r), !.slices = <<>>])
    BY <1>2, <2>1 DEF Drops
  <2>3. QED
    BY <2>1, <2>2, WorkOnWay DEF Deciding
<1>9. CASE TakeSlice(r)
  <2>1. /\ Doing(r, "take") /\ UNCHANGED <<scenario, status, results, calls, inCall, stats>>
        /\ stack' = Put(r, [rest EXCEPT !.reg.out = Top(r).slices[1], !.slices = <<>>])
    BY <1>1, <1>9 DEF TakeSlice
  <2>2. Drops(r, [rest EXCEPT !.reg.out = Top(r).slices[1], !.slices = <<>>])
    BY <1>2, <2>1 DEF Drops
  <2>3. QED
    BY <2>1, <2>2, WorkOnWay DEF Deciding
<1>10. CASE MapFields(r)
  <2> DEFINE s == IF rest.sel = {} THEN MapAllFields(At(r, "in")) ELSE rest.sel
  <2>1. /\ Doing(r, "mapFields") /\ UNCHANGED <<scenario, status, results, calls, inCall, stats>>
        /\ stack' = Put(r, [rest EXCEPT !.sel = s])
    BY <1>1, <1>10 DEF MapFields
  <2>2. Drops(r, [rest EXCEPT !.sel = s])
    BY <1>2, <2>1 DEF Drops
  <2>3. QED
    BY <2>1, <2>2, WorkOnWay DEF Deciding
<1>11. CASE PropagateMetadata(r)
  <2>1. /\ Doing(r, "metadata") /\ UNCHANGED <<scenario, status, results, calls, inCall, stats>>
        /\ stack' = Put(r, rest)
    BY <1>1, <1>11 DEF PropagateMetadata
  <2>2. Drops(r, rest)
    BY <1>2, <2>1 DEF Drops
  <2>3. QED
    BY <2>1, <2>2, WorkOnWay DEF Deciding
<1>12. CASE TakePicture(r)
  <2>1. /\ Doing(r, "picture") /\ UNCHANGED <<scenario, status, results, calls, inCall, stats>>
        /\ stack' = Put(r, [rest EXCEPT !.reg["out"] = New(r)])
    BY <1>1, <1>12 DEF TakePicture, Store
  <2>2. Drops(r, [rest EXCEPT !.reg["out"] = New(r)])
    BY <1>2, <2>1 DEF Drops
  <2>3. QED
    BY <2>1, <2>2, WorkOnWay DEF Deciding
<1>13. QED
  BY <1>3, <1>4, <1>5, <1>6, <1>7, <1>8, <1>9, <1>10, <1>11, <1>12 DEF Work

(* BoundsMap, Increment and a check that holds. *)
LEMMA BoundingWalks ==
  ASSUME WayInv, NEW r \in Ranks, Bounding(r) \/ Increment(r) \/ CheckHolds(r)
  PROVE  Walks(r)
<1> DEFINE rest == Rest(r)
<1>1. ASSUME NEW what, Doing(r, what), stack' = Put(r, rest),
             UNCHANGED <<scenario, status, results, calls, inCall>>
      PROVE  Drops(r, rest)
  BY <1>1, RestIs DEF Drops, Moved
<1>2. CASE Bounding(r) \/ CheckHolds(r)
  <2>1. \E what : /\ Doing(r, what) /\ what \notin Deciding
                  /\ stack' = Put(r, rest)
                  /\ UNCHANGED <<scenario, status, results, calls, inCall, stats>>
    BY <1>2 DEF Bounding, Clear, AddBlocks, Build, CheckHolds, Deciding
  <2>2. QED
    BY <1>1, <2>1, WorkOnWay
<1>3. CASE Increment(r)
  <2>1. Doing(r, "increment") /\ Drops(r, rest)
    BY <1>1, <1>3 DEF Increment
  <2> DEFINE counted == [stats[r].counters EXCEPT ![Top(r).op.counter] =
                          @ + NumberOfCells(At(r, "in"))]
  <2>2. stats' = [stats EXCEPT ![r] = [stats[r] EXCEPT !.counters = counted]]
    BY <1>3 DEF Increment
  <2>3. DOMAIN counted = DOMAIN stats[r].counters
    OBVIOUS
  <2> HIDE DEF counted
  <2>4. stats'[r] = [stats[r] EXCEPT !.counters = counted]
    BY <2>2 DEF WayInv, Functional
  <2>5. stats'[r] = [counters |-> counted, totals |-> stats[r].totals,
                     statsComputed |-> stats[r].statsComputed]
    BY <2>4, StatsOf
  <2>6. stats' = [stats EXCEPT ![r] = stats'[r]]
    BY <2>2, <2>4
  <2>7. stats'[r].counters = counted
    BY <2>5
  <2>8. QED
    BY <2>1, <2>3, <2>5, <2>6, <2>7, DropsOnWay DEF Deciding
<1>4. QED
  BY <1>2, <1>3

(* What the lemmas on a rank's own steps need of a step of rank r. *)
LEMMA HereAndNext ==
  ASSUME WayInv, NEW r \in Ranks, NEW what, Doing(r, what),
         NEW m, m = Mine(r), NEW n, n = Mine(r)',
         UNCHANGED <<scenario, status, results, calls, inCall>>,
         stack' = [stack EXCEPT ![r] = stack'[r]]
  PROVE  /\ AtStep(m, what) /\ Last(m.stack) = Top(r)
         /\ m.stats = stats[r] /\ m.stack = stack[r] /\ m.results = results[r]
         /\ n.stats = stats'[r] /\ n.stack = stack'[r]
         /\ stats' = stats => Kept(m, n) /\ n.stats = m.stats /\ OnlyOf(r)
         /\ /\ stats' = [stats EXCEPT ![r] = stats'[r]]
            /\ stats'[r] = [counters |-> stats'[r].counters, totals |-> stats'[r].totals,
                            statsComputed |-> stats'[r].statsComputed]
            /\ IsFiniteSet(DOMAIN stats'[r].counters)
            => Kept(m, n) /\ OnlyOf(r)
         /\ status[r] \notin Stopped /\ status'[r] \notin Stopped /\ calls' = calls
<1>1. /\ m.status = status[r] /\ m.stack = stack[r] /\ m.results = results[r]
      /\ m.stats = stats[r] /\ m.calls = calls[r] /\ m.inCall = inCall[r]
      /\ n.status = status'[r] /\ n.stack = stack'[r] /\ n.results = results'[r]
      /\ n.stats = stats'[r] /\ n.calls = calls'[r] /\ n.inCall = inCall'[r]
  BY MineIs
<1>2. AtStep(m, what) /\ status[r] = "running" /\ Top(r) = Last(stack[r])
  BY DoingIs
<1>3. Functional
  BY DEF WayInv
<1>4. stats' = [stats EXCEPT ![r] = stats'[r]] => OnlyOf(r)
  BY <1>3 DEF OnlyOf, Functional
<1>5. /\ n.status = m.status /\ n.results = m.results /\ n.calls = m.calls
      /\ n.inCall = m.inCall
  BY <1>1
<1>6. /\ m.stats = [counters |-> m.stats.counters, totals |-> m.stats.totals,
                    statsComputed |-> m.stats.statsComputed]
      /\ IsFiniteSet(DOMAIN m.stats.counters)
  BY <1>2 DEF AtStep, RankOK
<1>7. stats' = stats => Kept(m, n) /\ n.stats = m.stats
  <2>1. stats' = stats => n.stats = m.stats
    BY <1>1
  <2>2. QED
    BY <1>5, <1>6, <2>1 DEF Kept
<1>8. /\ stats'[r] = [counters |-> stats'[r].counters, totals |-> stats'[r].totals,
                      statsComputed |-> stats'[r].statsComputed]
      /\ IsFiniteSet(DOMAIN stats'[r].counters)
      => Kept(m, n)
  <2>1. n.stats = stats'[r]
    BY <1>1
  <2>2. QED
    BY <1>5, <2>1 DEF Kept
<1>9. stats' = stats => OnlyOf(r)
  BY <1>3, <1>4 DEF Functional
<1>10. status[r] \notin Stopped /\ status'[r] \notin Stopped /\ calls' = calls
  BY <1>2
<1>11. QED
  BY <1>1, <1>2, <1>4, <1>7, <1>8, <1>9, <1>10

(* A branch: all ranks take the same. *)
LEMMA BranchWalks ==
  ASSUME WayInv, NEW r \in Ranks, Branch(r)
  PROVE  Walks(r)
<1> DEFINE m == Mine(r)
           n == Mine(r)'
           sc == scenario
           cs == calls
           top == Top(r)
           step == Step(r)
           chosen == IF Told(top.op, top.got, step.test, step.f) THEN step.then ELSE step.else
           f == [Rest(r) EXCEPT !.todo = Then(chosen, Tail(top.todo))]
<1>1. Doing(r, "if") /\ UNCHANGED <<scenario, status, results, calls, inCall, stats>>
  BY DEF Branch
<1>2. AtStep(m, "if") /\ IsFrame(top) /\ step = Head(top.todo) /\ top = Last(m.stack)
  BY <1>1, DoingIs, MineIs
<1>3. Moved(top, Rest(r), Tail(top.todo))
  BY <1>1, RestIs
<1>4. Past(top, f, Then(chosen, Tail(top.todo)))
  BY <1>3 DEF Moved
<1>5. step.test \notin LocalTests
  <2> HIDE DEF m, top, step
  <2>1. FrameOK(top) /\ top.todo # <<>> /\ step.do = "if"
    BY <1>2, HereIs DEF AtStep
  <2>2. Sound(top.op, step)
    BY <1>2, <2>1, SoundTail DEF FrameOK
  <2>3. QED
    BY <2>1, <2>2 DEF Sound, Branches
<1>6. stack' = Put(r, f)
  <2>1. Test(r, step.test, step.f) = Told(top.op, top.got, step.test, step.f)
    BY <1>5 DEF Test
  <2>2. stack' = Put(r, [Rest(r) EXCEPT !.todo =
                    (IF Test(r, step.test, step.f) THEN step.then ELSE step.else) \o Rest(r).todo])
    BY DEF Branch
  <2>3. Rest(r).todo = Tail(top.todo)
    BY <1>3 DEF Moved, Past
  <2>4. QED
    BY <2>1, <2>2, <2>3 DEF Then
<1> HIDE DEF f, chosen, step, top
<1>7. stack' = [stack EXCEPT ![r] = stack'[r]] /\ stack'[r] = Append(Front(stack[r]), f)
  BY <1>6 DEF Put, WayInv, Functional
<1> HIDE DEF m, n, sc, cs
<1>8. m = Mine(r) /\ n = Mine(r)' /\ sc = scenario /\ cs = calls
  BY DEF m, n, sc, cs
<1>9. /\ n.stack = stack'[r] /\ m.stack = stack[r] /\ n.stats = m.stats /\ Kept(m, n) /\ OnlyOf(r)
      /\ status[r] \notin Stopped /\ status'[r] \notin Stopped /\ calls' = calls
  BY <1>1, <1>7, <1>8, HereAndNext
<1>10. n.stack = Append(Front(m.stack), f)
  BY <1>7, <1>9
<1>11. RankOK(n) /\ Follows(sc, cs, PlaceOf(m), PlaceOf(n))
  BY <1>2, <1>4, <1>9, <1>10, Branched DEF Past, chosen
<1>12. QED
  BY <1>8, <1>9, <1>11, OnItsWay

(* The counters. *)
LEMMA CountingWalks ==
  ASSUME WayInv, NEW r \in Ranks, calcStats(r) \/ AddCounter(r) \/ StatsComputed(r)
  PROVE  Walks(r)
<1> DEFINE m == Mine(r)
           n == Mine(r)'
           sc == scenario
           cs == calls
           top == Top(r)
           rest == Rest(r)
<1>1. ASSUME NEW what, Doing(r, what)
      PROVE  /\ AtStep(m, what) /\ top = Last(m.stack)
             /\ Moved(top, rest, Tail(top.todo))
  BY <1>1, DoingIs, MineIs, RestIs
<1>2. ASSUME NEW f, stack' = Put(r, f)
      PROVE  stack' = [stack EXCEPT ![r] = stack'[r]] /\ stack'[r] = Append(Front(stack[r]), f)
  BY <1>2 DEF Put, WayInv, Functional
<1>3. stats[r] = [counters |-> stats[r].counters, totals |-> stats[r].totals,
                  statsComputed |-> stats[r].statsComputed]
  BY StatsOf
<1>4. m = Mine(r) /\ n = Mine(r)' /\ sc = scenario /\ cs = calls /\ top = Top(r) /\ rest = Rest(r)
  OBVIOUS
<1> HIDE DEF m, n, sc, cs, top, rest
<1>5. CASE calcStats(r)
  <2> DEFINE asks == IF m.stats.statsComputed THEN <<>> ELSE CounterSteps(DOMAIN m.stats.counters)
             f == [rest EXCEPT !.todo = Then(asks, Tail(top.todo))]
  <2>1. Doing(r, "calcStats") /\ UNCHANGED <<scenario, status, results, calls, inCall, stats>>
    BY <1>5 DEF calcStats
  <2>2. m.stats = stats[r]
    BY <1>4, MineIs
  <2>3. Past(top, f, Then(asks, Tail(top.todo))) /\ rest.todo = Tail(top.todo)
    <3>1. Moved(top, rest, Tail(top.todo))
      BY <1>1, <2>1
    <3>2. Past(top, f, Then(asks, Tail(top.todo)))
      BY <3>1 DEF Moved
    <3>3. rest.todo = Tail(top.todo)
      BY <3>1 DEF Moved, Past
    <3>4. QED
      BY <3>2, <3>3
  <2>4. stack' = Put(r, [Rest(r) EXCEPT !.todo = Then(asks, Rest(r).todo)])
    <3> DEFINE own == IF stats[r].statsComputed THEN <<>>
                      ELSE CounterSteps(DOMAIN stats[r].counters)
    <3>1. stack' = Put(r, [Rest(r) EXCEPT !.todo = own \o @])
      BY <1>5 DEF calcStats, CounterSteps
    <3>2. own = asks
      BY <2>2
    <3> HIDE DEF own, asks
    <3>3. QED
      BY <3>1, <3>2 DEF Then
  <2>5. stack' = Put(r, f)
    BY <1>4, <2>3, <2>4
  <2> HIDE DEF f, asks
  <2>6. stack' = [stack EXCEPT ![r] = stack'[r]] /\ stack'[r] = Append(Front(stack[r]), f)
    BY <1>2, <2>5
  <2>7. /\ n.stack = stack'[r] /\ m.stack = stack[r] /\ n.stats = m.stats /\ Kept(m, n) /\ OnlyOf(r)
        /\ status[r] \notin Stopped /\ status'[r] \notin Stopped /\ calls' = calls
    BY <1>4, <2>1, <2>6, HereAndNext
  <2>8. n.stack = Append(Front(m.stack), f) /\ AtStep(m, "calcStats") /\ top = Last(m.stack)
    BY <1>1, <2>1, <2>6, <2>7
  <2>9. RankOK(n) /\ Follows(sc, cs, PlaceOf(m), PlaceOf(n))
    BY <2>3, <2>7, <2>8, Totalled DEF Past, asks
  <2>10. QED
    BY <1>4, <2>7, <2>9, OnItsWay
<1>6. CASE AddCounter(r)
  <2> DEFINE names == DOMAIN stats[r].counters \cup {top.op.counter}
             counters == [x \in names |-> IF x = top.op.counter THEN 0 ELSE stats[r].counters[x]]
  <2>1. /\ Doing(r, "addCounter") /\ UNCHANGED <<scenario, status, results, calls, inCall>>
        /\ stack' = Put(r, rest)
    BY <1>4, <1>6 DEF AddCounter
  <2>2. stats' = [stats EXCEPT ![r] = [stats[r] EXCEPT !.counters = counters]]
    BY <1>4, <1>6 DEF AddCounter
  <2>3. DOMAIN counters = names
    OBVIOUS
  <2>4. stack' = [stack EXCEPT ![r] = stack'[r]] /\ stack'[r] = Append(Front(stack[r]), rest)
    BY <1>2, <2>1
  <2>5. AtStep(m, "addCounter") /\ top = Last(m.stack) /\ Past(top, rest, Tail(top.todo))
        /\ m.stats = stats[r] /\ n.stats = stats'[r]
    BY <1>1, <1>4, <2>1, MineIs DEF Moved
  <2>6. IsFiniteSet(names)
    BY <2>5, FS_AddElement DEF AtStep, RankOK
  <2> HIDE DEF counters
  <2>7. stats'[r] = [counters |-> counters, totals |-> stats[r].totals,
                     statsComputed |-> stats[r].statsComputed]
    BY <1>3, <2>2 DEF WayInv, Functional
  <2>8. stats' = [stats EXCEPT ![r] = stats'[r]]
    BY <1>3, <2>2, <2>7
  <2>9. stats'[r].counters = counters /\ stats'[r].statsComputed = stats[r].statsComputed
        /\ stats'[r].totals = stats[r].totals
    BY <2>7
  <2>10. stats'[r] = [counters |-> stats'[r].counters, totals |-> stats'[r].totals,
                      statsComputed |-> stats'[r].statsComputed]
    BY <2>7, <2>9
  <2>11. /\ n.stack = stack'[r] /\ m.stack = stack[r] /\ Kept(m, n) /\ OnlyOf(r)
         /\ status[r] \notin Stopped /\ status'[r] \notin Stopped /\ calls' = calls
    BY <1>4, <2>1, <2>3, <2>4, <2>6, <2>8, <2>9, <2>10, HereAndNext
  <2>12. /\ DOMAIN n.stats.counters = DOMAIN m.stats.counters \cup {top.op.counter}
         /\ n.stats.statsComputed = m.stats.statsComputed
    BY <2>3, <2>5, <2>9
  <2>13. n.stack = Append(Front(m.stack), rest)
    BY <2>4, <2>11
  <2>14. RankOK(n) /\ Follows(sc, cs, PlaceOf(m), PlaceOf(n))
    <3> DEFINE what == "addCounter"
    <3>1. what \in {"addCounter", "computed"} /\ AtStep(m, what)
      BY <2>5
    <3>2. /\ DOMAIN n.stats.counters = DOMAIN m.stats.counters \cup
               (IF what = "addCounter" THEN {top.op.counter} ELSE {})
          /\ n.stats.statsComputed = IF what = "computed" THEN TRUE ELSE m.stats.statsComputed
      BY <2>12
    <3> HIDE DEF what
    <3>3. QED
      BY <2>5, <2>11, <2>13, <3>1, <3>2, Counted DEF Past
  <2>15. QED
    BY <1>4, <2>11, <2>14, OnItsWay
<1>7. CASE StatsComputed(r)
  <2>1. /\ Doing(r, "computed") /\ UNCHANGED <<scenario, status, results, calls, inCall>>
        /\ stack' = Put(r, rest)
    BY <1>4, <1>7 DEF StatsComputed
  <2> DEFINE totals == IF r # Rank0 THEN stats[r].totals
                       ELSE [x \in DOMAIN stats[r].counters |-> Top(r).got[<<"counter", x>>]]
  <2>2. stats' = [stats EXCEPT ![r] = [stats[r] EXCEPT !.statsComputed = TRUE, !.totals = totals]]
    BY <1>3, <1>7 DEF StatsComputed, WayInv, Functional
  <2>3. stack' = [stack EXCEPT ![r] = stack'[r]] /\ stack'[r] = Append(Front(stack[r]), rest)
    BY <1>2, <2>1
  <2>4. AtStep(m, "computed") /\ top = Last(m.stack) /\ Past(top, rest, Tail(top.todo))
        /\ m.stats = stats[r] /\ n.stats = stats'[r]
    BY <1>1, <1>4, <2>1, MineIs DEF Moved
  <2>5. IsFiniteSet(DOMAIN stats[r].counters)
    BY <2>4 DEF AtStep, RankOK
  <2> HIDE DEF totals
  <2>6. stats'[r] = [counters |-> stats[r].counters, totals |-> totals, statsComputed |-> TRUE]
    BY <1>3, <2>2 DEF WayInv, Functional
  <2>7. stats' = [stats EXCEPT ![r] = stats'[r]]
    BY <1>3, <2>2, <2>6
  <2>8. stats'[r].counters = stats[r].counters /\ stats'[r].statsComputed = TRUE
        /\ stats'[r].totals = totals
    BY <2>6
  <2>9. stats'[r] = [counters |-> stats'[r].counters, totals |-> stats'[r].totals,
                     statsComputed |-> stats'[r].statsComputed]
    BY <2>6, <2>8
  <2>10. /\ n.stack = stack'[r] /\ m.stack = stack[r] /\ Kept(m, n) /\ OnlyOf(r)
         /\ status[r] \notin Stopped /\ status'[r] \notin Stopped /\ calls' = calls
    BY <1>4, <2>1, <2>3, <2>5, <2>7, <2>8, <2>9, HereAndNext
  <2>11. n.stack = Append(Front(m.stack), rest)
    BY <2>3, <2>10
  <2>12. RankOK(n) /\ Follows(sc, cs, PlaceOf(m), PlaceOf(n))
    <3> DEFINE what == "computed"
    <3>1. what \in {"addCounter", "computed"} /\ AtStep(m, what)
      BY <2>4
    <3>2. /\ DOMAIN n.stats.counters = DOMAIN m.stats.counters \cup
               (IF what = "addCounter" THEN {top.op.counter} ELSE {})
          /\ n.stats.statsComputed = IF what = "computed" THEN TRUE ELSE m.stats.statsComputed
      BY <2>4, <2>8
    <3> HIDE DEF what
    <3>3. QED
      BY <2>4, <2>10, <2>11, <3>1, <3>2, Counted DEF Past
  <2>13. QED
    BY <1>4, <2>10, <2>12, OnItsWay
<1>8. QED
  BY <1>5, <1>6, <1>7

(* Frame makes a filter that has done nothing yet. *)
LEMMA FrameIsFresh ==
  ASSUME NEW op, NEW in
  PROVE  Fresh(Frame(op, in), op, scenario)
<1> DEFINE todo == Steps(op, scenario.logging)
           reg == [NoFrame EXCEPT !.in = in]
           sel == op.map
           none == <<>>
           f == [op |-> op, todo |-> todo, reg |-> reg, slices |-> none, sel |-> sel, got |-> none]
<1>1. Frame(op, in) = f
  BY DEF Frame
<1> HIDE DEF todo, reg, sel, none
<1>2. IsFrame(f) /\ f.op = op /\ f.todo = todo /\ f.got = none
  BY DEF IsFrame
<1>3. QED
  BY <1>1, <1>2 DEF Fresh, todo, none

(* A filter's Update from another filter. *)
LEMMA CallWalks ==
  ASSUME WayInv, NEW r \in Ranks, CallUpdate(r)
  PROVE  Walks(r)
<1> DEFINE m == Mine(r)
           n == Mine(r)'
           sc == scenario
           cs == calls
           step == Step(r)
           f == Frame(step.op, Top(r).reg[step.from])
<1>1. Doing(r, "update") /\ UNCHANGED <<scenario, status, results, calls, inCall, stats>>
  BY DEF CallUpdate
<1>2. stack' = [stack EXCEPT ![r] = Append(@, f)]
  BY DEF CallUpdate
<1>3. Fresh(f, step.op, sc)
  BY FrameIsFresh
<1>4. AtStep(m, "update") /\ step = Head(Last(m.stack).todo)
  BY <1>1, DoingIs, MineIs
<1> HIDE DEF f, step
<1>5. stack' = [stack EXCEPT ![r] = stack'[r]] /\ stack'[r] = Append(stack[r], f)
  BY <1>2 DEF WayInv, Functional
<1> HIDE DEF m, n, sc, cs
<1>6. m = Mine(r) /\ n = Mine(r)' /\ sc = scenario /\ cs = calls
  BY DEF m, n, sc, cs
<1>7. /\ n.stack = stack'[r] /\ m.stack = stack[r] /\ n.stats = m.stats /\ Kept(m, n) /\ OnlyOf(r)
      /\ status[r] \notin Stopped /\ status'[r] \notin Stopped /\ calls' = calls
  BY <1>1, <1>5, <1>6, HereAndNext
<1>8. n.stack = Append(m.stack, f)
  BY <1>5, <1>7
<1>9. RankOK(n) /\ Follows(sc, cs, PlaceOf(m), PlaceOf(n))
  BY <1>3, <1>4, <1>7, <1>8, Called
<1>10. QED
  BY <1>6, <1>7, <1>9, OnItsWay

(* A filter returns, to another or to the host. *)
LEMMA OutputWalks ==
  ASSUME WayInv, NEW r \in Ranks, ReturnToFilter(r) \/ ReturnToHost(r)
  PROVE  Walks(r)
<1> DEFINE m == Mine(r)
           n == Mine(r)'
           sc == scenario
           cs == calls
<1>1. /\ status[r] = "running" /\ stack[r] # <<>> /\ Last(stack[r]).todo = <<>>
      /\ UNCHANGED <<scenario, status, calls, inCall, stats>>
  BY DEF ReturnToFilter, ReturnToHost, Finished, Top
<1>2. Functional /\ RankOK(m)
  BY DEF WayInv
<1>3. /\ m.status = status[r] /\ m.stack = stack[r] /\ m.results = results[r]
      /\ m.stats = stats[r] /\ m.calls = calls[r] /\ m.inCall = inCall[r]
      /\ n.status = status'[r] /\ n.stack = stack'[r] /\ n.results = results'[r]
      /\ n.stats = stats'[r] /\ n.calls = calls'[r] /\ n.inCall = inCall'[r]
      /\ n = Rank(status'[r], stack'[r], results'[r], stats'[r], calls'[r], inCall'[r])
  BY MineIs
<1>4. m = Mine(r) /\ n = Mine(r)' /\ sc = scenario /\ cs = calls
  OBVIOUS
<1> HIDE DEF m, n, sc, cs
<1>5. AtEnd(m)
  BY <1>1, <1>2, <1>3 DEF AtEnd
<1>6. status[r] \notin Stopped /\ status'[r] \notin Stopped /\ calls' = calls
  BY <1>1
<1>7. CASE ReturnToFilter(r)
  <2> DEFINE caller == stack[r][Len(stack[r]) - 1]
             done == [caller EXCEPT !.todo = Tail(caller.todo)]
             to == Head(caller.todo).to
             f == IF to = "slices" THEN [done EXCEPT !.slices = Append(@, Top(r).reg.out)]
                  ELSE [done EXCEPT !.reg[to] = Top(r).reg.out]
  <2>1. Len(stack[r]) > 1 /\ results' = results
        /\ stack' = [stack EXCEPT ![r] = Append(Front(Front(@)), f)]
    BY <1>7 DEF ReturnToFilter
  <2>2. IsFrame(caller)
    <3>1. FramesOK(stack[r]) /\ Len(stack[r]) - 1 \in 1 .. Len(stack[r])
      <4>1. FramesOK(stack[r]) /\ Len(stack[r]) \in Nat
        BY <1>2, <1>3, ListIs DEF RankOK, FramesOK
      <4>2. QED
        BY <2>1, <4>1
    <3>2. QED
      BY <3>1 DEF FramesOK, FrameOK
  <2>3. Past(caller, f, Tail(caller.todo))
    <3>1. Moved(caller, done, Tail(caller.todo))
      BY <2>2, FrameOf
    <3> HIDE DEF done, caller
    <3>2. CASE to = "slices"
      BY <3>1, <3>2 DEF Moved
    <3>3. CASE to # "slices"
      BY <3>1, <3>3 DEF Moved
    <3>4. QED
      BY <3>2, <3>3
  <2>4. caller = m.stack[Len(m.stack) - 1] /\ Len(m.stack) > 1
    BY <1>3, <2>1
  <2> HIDE DEF f, caller
  <2>5. stack' = [stack EXCEPT ![r] = stack'[r]] /\ stack'[r] = Append(Front(Front(stack[r])), f)
    BY <1>2, <2>1 DEF Functional
  <2>6. n.stack = Append(Front(Front(m.stack)), f) /\ n.stats = m.stats
    BY <1>1, <1>3, <2>5
  <2>7. OnlyOf(r)
    BY <1>1, <1>2, <2>1, <2>5 DEF OnlyOf, Functional
  <2>8. Kept(m, n)
    <3>1. /\ n.status = m.status /\ n.results = m.results /\ n.calls = m.calls
          /\ n.inCall = m.inCall
      BY <1>1, <1>3, <2>1
    <3>2. QED
      BY <1>2, <2>6, <3>1 DEF Kept, RankOK
  <2>9. RankOK(n) /\ Follows(sc, cs, PlaceOf(m), PlaceOf(n))
    BY <1>5, <2>3, <2>4, <2>6, <2>8, GotBack DEF Past
  <2>10. QED
    BY <1>4, <1>6, <2>7, <2>9, OnItsWay
<1>8. CASE ReturnToHost(r)
  <2> DEFINE result == [in |-> Top(r).reg.in, out |-> Top(r).reg.out, got |-> Top(r).got]
  <2>1. /\ Len(stack[r]) = 1 /\ stack' = [stack EXCEPT ![r] = <<>>]
        /\ results' = [results EXCEPT ![r] = Append(@, result)]
    BY <1>8 DEF ReturnToHost
  <2> HIDE DEF result
  <2>2. OnlyOf(r) /\ stack'[r] = <<>> /\ results'[r] = Append(results[r], result)
    BY <1>1, <1>2, <2>1 DEF OnlyOf, Functional
  <2>3. n = Rank(m.status, <<>>, Append(m.results, result), m.stats, m.calls, m.inCall)
    BY <1>1, <1>3, <2>2
  <2>4. Len(m.stack) = 1
    BY <1>3, <2>1
  <2>5. RankOK(n) /\ Follows(sc, cs, PlaceOf(m), PlaceOf(n))
    BY <1>5, <2>3, <2>4, HostGetsResult
  <2>6. QED
    BY <1>4, <1>6, <2>2, <2>5, OnItsWay
<1>9. QED
  BY <1>7, <1>8

(* The host goes on with its script. *)
LEMMA HostWalks ==
  ASSUME WayInv, NEW r \in Ranks, Begin(r) \/ Finish(r)
  PROVE  Walks(r)
<1> DEFINE m == Mine(r)
           n == Mine(r)'
           sc == scenario
           cs == calls
<1>1. /\ status[r] = "running" /\ stack[r] = <<>>
      /\ UNCHANGED <<scenario, results, calls, inCall, stats>>
  BY DEF Begin, Finish
<1>2. Functional /\ RankOK(m)
  BY DEF WayInv
<1>3. /\ m.status = status[r] /\ m.stack = stack[r] /\ m.results = results[r]
      /\ m.stats = stats[r] /\ m.calls = calls[r] /\ m.inCall = inCall[r]
      /\ n.status = status'[r] /\ n.stack = stack'[r] /\ n.results = results'[r]
      /\ n.stats = stats'[r] /\ n.calls = calls'[r] /\ n.inCall = inCall'[r]
      /\ n = Rank(status'[r], stack'[r], results'[r], stats'[r], calls'[r], inCall'[r])
  BY MineIs
<1>4. m = Mine(r) /\ n = Mine(r)' /\ sc = scenario /\ cs = calls
  OBVIOUS
<1> HIDE DEF m, n, sc, cs
<1>5. AtHost(m)
  BY <1>1, <1>2, <1>3 DEF AtHost
<1>6. /\ sc.script \in Seq(ToSet(sc.script))
      /\ \A i \in DOMAIN sc.script : WellFormedOp(sc.script[i].op)
  BY <1>4, ScenarioAssumption DEF WayInv
<1>7. Len(sc.script) \in Nat /\ DOMAIN sc.script = 1 .. Len(sc.script)
      /\ Len(m.results) \in Nat
  <2>1. IsList(sc.script) /\ IsList(m.results)
    BY <1>2, <1>6 DEF IsList, RankOK
  <2>2. QED
    BY <2>1, ListIs
<1>8. CASE Begin(r)
  <2> DEFINE op == NextOp(r).op
             in == IF NextOp(r).on = "host" THEN 1 ELSE Last(results[r]).out
             f == Frame(op, in)
  <2>1. /\ Len(results[r]) < Len(scenario.script) /\ status' = status
        /\ stack' = [stack EXCEPT ![r] = <<f>>]
    BY <1>8 DEF Begin
  <2>2. Fresh(f, op, sc)
    BY <1>4, FrameIsFresh
  <2>3. op = sc.script[Len(m.results) + 1].op /\ Len(m.results) < Len(sc.script)
    BY <1>3, <1>4, <2>1 DEF NextOp
  <2>4. WellFormedOp(op)
    <3>1. Len(m.results) + 1 \in 1 .. Len(sc.script)
      BY <1>7, <2>3
    <3>2. QED
      BY <1>6, <1>7, <2>3, <3>1
  <2> HIDE DEF f, op
  <2>5. OnlyOf(r) /\ stack'[r] = <<f>>
    BY <1>1, <1>2, <2>1 DEF OnlyOf, Functional
  <2>6. n.stack = <<f>> /\ n.stats = m.stats
    BY <1>1, <1>3, <2>5
  <2>7. Kept(m, n)
    <3>1. /\ n.status = m.status /\ n.results = m.results /\ n.calls = m.calls
          /\ n.inCall = m.inCall
      BY <1>1, <1>3, <2>1
    <3>2. QED
      BY <1>2, <2>6, <3>1 DEF Kept, RankOK
  <2>8. RankOK(n) /\ Follows(sc, cs, PlaceOf(m), PlaceOf(n))
    BY <1>5, <2>2, <2>3, <2>4, <2>6, <2>7, HostBegins
  <2>9. status[r] \notin Stopped /\ status'[r] \notin Stopped /\ calls' = calls
    BY <1>1, <2>1
  <2>10. QED
    BY <1>4, <2>5, <2>8, <2>9, OnItsWay
<1>9. CASE Finish(r)
  <2>1. /\ Len(results[r]) = Len(scenario.script) /\ stack' = stack
        /\ status' = [status EXCEPT ![r] = "done"]
    BY <1>9 DEF Finish
  <2>2. OnlyOf(r) /\ status'[r] = "done"
    BY <1>1, <1>2, <2>1 DEF OnlyOf, Functional
  <2>3. n = Rank("done", m.stack, m.results, m.stats, m.calls, m.inCall)
    BY <1>1, <1>3, <2>1, <2>2
  <2>4. Len(m.results) = Len(sc.script)
    BY <1>3, <1>4, <2>1
  <2>5. RankOK(n) /\ Follows(sc, cs, PlaceOf(m), PlaceOf(n))
    BY <1>5, <1>7, <2>3, <2>4, HostEnds
  <2>6. status[r] \notin Stopped /\ status'[r] \notin Stopped /\ calls' = calls
    BY <1>1, <2>2
  <2>7. QED
    BY <1>4, <2>2, <2>5, <2>6, OnItsWay
<1>10. QED
  BY <1>8, <1>9

(* A rank makes the call it has come to. *)
LEMMA EnterKeepsWay ==
  ASSUME WayInv, NEW r \in Ranks, EnterCall(r)
  PROVE  /\ WayInv'
         /\ OnlyOf(r) /\ status[r] \notin Stopped
         /\ \A path : OnPath(path, scenario, calls, Standing) =>
                     OnPath(path, scenario', calls', Standing')
<1> DEFINE m == Mine(r)
           n == Mine(r)'
           sc == scenario
           cs == calls
           value == Contribution(r)
           call == [site |-> Site(r), value |-> value]
<1>1. /\ Doing(r, "ask") /\ UNCHANGED <<scenario, status, stack, results, stats>>
      /\ ~inCall[r] /\ calls' = [calls EXCEPT ![r] = Append(@, call)]
      /\ inCall' = [inCall EXCEPT ![r] = TRUE]
  BY DEF EnterCall, C!Enter
<1>2. Functional /\ RankOK(m)
  BY DEF WayInv
<1>3. /\ m.status = status[r] /\ m.stack = stack[r] /\ m.results = results[r]
      /\ m.stats = stats[r] /\ m.calls = calls[r] /\ m.inCall = inCall[r]
      /\ n = Rank(status'[r], stack'[r], results'[r], stats'[r], calls'[r], inCall'[r])
  BY MineIs
<1>4. AtStep(m, "ask") /\ status[r] = "running"
      /\ Top(r) = Last(m.stack) /\ Step(r) = Head(Last(m.stack).todo)
  BY <1>1, <1>3, DoingIs
<1> HIDE DEF value
<1>5. /\ OnlyOf(r)
      /\ Functional' /\ \A s \in Ranks : s # r => Mine(s)' = Mine(s) /\ status'[s] = status[s]
  <2>1. OnlyOf(r)
    BY <1>1, <1>2 DEF OnlyOf, Functional
  <2>2. QED
    BY <1>2, <2>1, OthersStay
<1>6. Site(r) = AskSite(PlaceOf(m)) /\ call = [site |-> AskSite(PlaceOf(m)), value |-> value]
  <2> HIDE DEF m
  <2>1. Last(PlaceOf(m).frames) = ViewOf(Last(m.stack))
    BY <1>4, HereIs
  <2>2. ViewOf(Last(m.stack)).op = Last(m.stack).op /\ ViewOf(Last(m.stack)).todo = Last(m.stack).todo
    BY DEF ViewOf, View
  <2>3. QED
    BY <1>4, <2>1, <2>2 DEF Site, AskSite
<1>7. m = Mine(r) /\ n = Mine(r)' /\ sc = scenario /\ cs = calls
  OBVIOUS
<1> HIDE DEF call, m, n, sc, cs
<1>8. n = Rank(m.status, m.stack, m.results, m.stats, Append(m.calls, call), TRUE)
  <2>1. calls'[r] = Append(calls[r], call) /\ inCall'[r] = TRUE
    BY <1>1, <1>2 DEF Functional
  <2>2. QED
    BY <1>1, <1>3, <2>1
<1>9. m.inCall = FALSE
  BY <1>1, <1>2, <1>3 DEF RankOK
<1>10. /\ RankOK(n) /\ PlaceOf(n) = PlaceOf(m)
       /\ Asking(PlaceOf(m)) /\ PlaceOf(m).made = Len(m.calls)
  BY <1>4, <1>8, <1>9, Entered
<1>11. \A s \in Ranks : RankOK(Mine(s)')
  BY <1>5, <1>7, <1>10 DEF WayInv
<1>12. Standing' = Standing
  <2>1. status' = status /\ \A s \in Ranks : PlaceOf(Mine(s)') = PlaceOf(Mine(s))
    BY <1>1, <1>5, <1>7, <1>10
  <2> DEFINE on == {t \in Ranks : status[t] \notin Stopped}
  <2>2. Standing' = [s \in on |-> PlaceOf(Mine(s)')]
    BY <2>1 DEF Standing
  <2>3. Standing = [s \in on |-> PlaceOf(Mine(s))]
    BY DEF Standing
  <2>4. \A s \in on : PlaceOf(Mine(s)') = PlaceOf(Mine(s))
    BY <2>1
  <2> HIDE DEF on
  <2>5. QED
    BY <2>2, <2>3, <2>4
<1> DEFINE ps == Standing
<1>13. r \in DOMAIN ps /\ ps[r] = PlaceOf(m)
  BY <1>4, <1>7 DEF Standing
<1> HIDE DEF ps
<1>15. \A s \in Ranks : IsList(cs[s])
  <2> SUFFICES ASSUME NEW s \in Ranks PROVE IsList(cs[s])
    OBVIOUS
  <2>1. RankOK(Mine(s)) /\ Mine(s).calls = calls[s]
    BY MineIs DEF WayInv
  <2>2. QED
    BY <1>7, <2>1 DEF RankOK
<1>16. ASSUME NEW path, OnPath(path, scenario, calls, ps)
       PROVE  OnPath(path, scenario', calls', Standing')
  <2>1. OnPath(path, sc, cs, ps) /\ cs = [s \in Ranks |-> cs[s]]
    BY <1>2, <1>7, <1>16 DEF Functional
  <2>2. Asking(ps[r]) /\ Len(cs[r]) = ps[r].made
    BY <1>3, <1>7, <1>10, <1>13
  <2>3. OnPath(path, sc, [cs EXCEPT ![r] = Append(@, [site |-> AskSite(ps[r]), value |-> value])], ps)
    BY <1>13, <1>15, <2>1, <2>2, EnterOnPath
  <2>4. OnPath(path, sc, [cs EXCEPT ![r] = Append(@, call)], ps)
    BY <1>6, <1>13, <2>3
  <2>5. QED
    BY <1>1, <1>7, <1>12, <2>4 DEF ps
<1>17. \E path : OnPath(path, scenario', calls', Standing')
  BY <1>16 DEF WayInv, ps
<1>18. WayInv'
  BY <1>1, <1>5, <1>11, <1>17 DEF WayInv
<1>19. QED
  BY <1>4, <1>5, <1>16, <1>18 DEF ps

(* A rank returns from a call: with the answer all have, or to TotalVal. *)
LEMMA AnswerWalks ==
  ASSUME WayInv, NEW r \in Ranks, ReturnFromCall(r)
  PROVE  Walks(r)
<1> DEFINE m == Mine(r)
           n == Mine(r)'
           sc == scenario
           cs == calls
           top == Top(r)
           step == Step(r)
           heard == C!Contributed(r)
           got == LearntFrom(top.got, step, heard)
           f == [Rest(r) EXCEPT !.got = got]
<1>1. /\ Doing(r, "ask") /\ UNCHANGED <<scenario, status, results, stats, calls>>
      /\ inCall[r] /\ inCall' = [inCall EXCEPT ![r] = FALSE]
      /\ \A s \in C!Awaited(r, Site(r)) : C!Joined(s, r)
  BY DEF ReturnFromCall, C!Return
<1>2. Functional /\ RankOK(m)
  BY DEF WayInv
<1>3. /\ m.status = status[r] /\ m.stack = stack[r] /\ m.results = results[r]
      /\ m.stats = stats[r] /\ m.calls = calls[r] /\ m.inCall = inCall[r]
      /\ n = Rank(status'[r], stack'[r], results'[r], stats'[r], calls'[r], inCall'[r])
  BY MineIs
<1>4. /\ AtStep(m, "ask") /\ status[r] = "running"
      /\ top = Last(m.stack) /\ step = Head(top.todo)
      /\ Moved(top, Rest(r), Tail(top.todo))
  BY <1>1, <1>3, DoingIs, RestIs
<1>5. IsFrame(f) /\ f.op = top.op /\ f.got = got /\ f.todo = Tail(top.todo)
  <2>1. \A v : IsFrame([Rest(r) EXCEPT !.got = v]) /\ [Rest(r) EXCEPT !.got = v].op = top.op
               /\ [Rest(r) EXCEPT !.got = v].got = v /\ [Rest(r) EXCEPT !.got = v].todo = Tail(top.todo)
    BY <1>4 DEF Moved
  <2> HIDE DEF got, top
  <2>2. QED
    BY <2>1
<1>6. stack' = Put(r, f)
  <2> DEFINE key == <<step.q, step.f>>
             answer == AnswerTo(step.q, heard, top.got)
  <2>1. stack' = Put(r, [Rest(r) EXCEPT
          !.got = [k \in DOMAIN Rest(r).got \cup {key} |-> IF k = key THEN answer ELSE Rest(r).got[k]]])
    BY DEF ReturnFromCall
  <2>2. Rest(r).got = top.got
    BY <1>4 DEF Moved, Past
  <2>3. got = [k \in DOMAIN top.got \cup {key} |-> IF k = key THEN answer ELSE top.got[k]]
    BY DEF LearntFrom
  <2> HIDE DEF key, answer, got
  <2>4. QED
    BY <2>1, <2>2, <2>3
<1>7. m = Mine(r) /\ n = Mine(r)' /\ sc = scenario /\ cs = calls
  OBVIOUS
<1> HIDE DEF f, m, n, sc, cs
<1>8. OnlyOf(r) /\ stack'[r] = Append(Front(stack[r]), f) /\ inCall'[r] = FALSE
  <2>1. stack' = [stack EXCEPT ![r] = Append(Front(@), f)]
    BY <1>6 DEF Put
  <2>2. QED
    BY <1>1, <1>2, <2>1 DEF OnlyOf, Functional
<1>9. n = Rank(m.status, Append(Front(m.stack), f), m.results, m.stats, m.calls, FALSE)
  BY <1>1, <1>3, <1>8
<1>10. top.op.name # "TotalVal" =>
         /\ heard = Heard(cs, Len(m.calls))
         /\ \A s \in Ranks : Len(m.calls) <= Len(cs[s])
  <2> SUFFICES ASSUME top.op.name # "TotalVal"
               PROVE  /\ heard = Heard(cs, Len(m.calls))
                      /\ \A s \in Ranks : Len(m.calls) <= Len(cs[s])
    OBVIOUS
  <2>1. \A x : Site(r) # <<"TotalVal", "counter", x>>
    BY DEF Site
  <2>2. Site(r) \notin {<<"TotalVal", "counter", x>> : x \in Counters}
    BY <2>1
  <2>3. C!Awaited(r, Site(r)) = Ranks
    BY <2>2 DEF C!Awaited
  <2>4. \A s \in Ranks : C!Joined(s, r)
    BY <1>1, <2>3
  <2>5. heard = [s \in Ranks |-> calls[s][Len(calls[r])].value]
    BY <2>4 DEF C!Contributed
  <2>6. heard = Heard(cs, Len(m.calls))
    BY <1>3, <1>7, <2>5 DEF Heard
  <2>7. ASSUME NEW s \in Ranks
        PROVE  Len(m.calls) <= Len(cs[s])
    <3>1. Len(calls[s]) >= Len(calls[r])
      BY <2>4 DEF C!Joined
    <3>2. Len(calls[s]) \in Nat /\ Len(calls[r]) \in Nat
      <4>1. RankOK(Mine(s)) /\ Mine(s).calls = calls[s] /\ Mine(r).calls = calls[r] /\ RankOK(Mine(r))
        BY MineIs DEF WayInv
      <4>2. QED
        BY <4>1, ListIs DEF RankOK
    <3>3. QED
      BY <1>3, <1>7, <3>1, <3>2
  <2>8. QED
    BY <2>6, <2>7
<1> HIDE DEF top, step, heard
<1>11. m.inCall = TRUE
  BY <1>1, <1>2, <1>3 DEF RankOK
<1>12. f.got = LearntFrom(top.got, Head(top.todo), heard)
  BY <1>4, <1>5
<1> HIDE DEF got
<1>13. RankOK(n) /\ Follows(sc, cs, PlaceOf(m), PlaceOf(n))
  BY <1>4, <1>5, <1>9, <1>10, <1>11, <1>12, Answered
<1>14. status[r] \notin Stopped /\ status'[r] \notin Stopped /\ calls' = calls
  BY <1>1, <1>4
<1>15. QED
  BY <1>7, <1>8, <1>13, <1>14, OnItsWay

(* A rank throws, and is not on the way any more. *)
LEMMA ThrowKeepsWay ==
  ASSUME WayInv, NEW r \in Ranks, CheckFails(r) \/ DomainThrows(r)
  PROVE  /\ WayInv'
         /\ OnlyOf(r)
         /\ \A path : OnPath(path, scenario, calls, Standing) =>
                     OnPath(path, scenario', calls', Standing')
<1> DEFINE m == Mine(r)
           n == Mine(r)'
<1>1. PICK what \in {"check", "map"}, how \in Stopped : Doing(r, what) /\ Fail(r, how)
  BY DEF CheckFails, DomainThrows
<1>2. /\ UNCHANGED <<scenario, results, stats, calls, inCall>>
      /\ status' = [status EXCEPT ![r] = how] /\ stack' = [stack EXCEPT ![r] = <<>>]
  BY <1>1 DEF Fail
<1>3. Functional
  BY DEF WayInv
<1>4. OnlyOf(r) /\ status'[r] = how /\ stack'[r] = <<>>
  BY <1>2, <1>3 DEF OnlyOf, Functional
<1>5. Functional' /\ \A s \in Ranks : s # r => Mine(s)' = Mine(s) /\ status'[s] = status[s]
  BY <1>3, <1>4, OthersStay
<1>6. AtStep(m, what) /\ what # "ask"
  BY <1>1, DoingIs
<1>7. n = Rank(how, <<>>, m.results, m.stats, m.calls, m.inCall)
  BY <1>2, <1>4, MineIs
<1>8. m = Mine(r) /\ n = Mine(r)'
  OBVIOUS
<1> HIDE DEF m, n
<1>9. RankOK(n)
  BY <1>6, <1>7, Thrown
<1>10. \A s \in Ranks : RankOK(Mine(s)')
  BY <1>5, <1>8, <1>9 DEF WayInv
<1> DEFINE ps == Standing
           qs == Standing'
<1>11. DOMAIN qs \subseteq DOMAIN ps /\ \A s \in DOMAIN qs : qs[s] = ps[s]
  <2>1. qs = [s \in {t \in Ranks : status'[t] \notin Stopped} |-> PlaceOf(Mine(s)')]
    BY DEF Standing
  <2>2. ps = [s \in {t \in Ranks : status[t] \notin Stopped} |-> PlaceOf(Mine(s))]
    BY DEF Standing
  <2> HIDE DEF ps, qs
  <2>3. \A s \in Ranks : status'[s] \notin Stopped =>
          status[s] \notin Stopped /\ PlaceOf(Mine(s)') = PlaceOf(Mine(s))
    BY <1>4, <1>5
  <2>4. QED
    BY <2>1, <2>2, <2>3
<1> HIDE DEF ps, qs
<1>12. ASSUME NEW path, OnPath(path, scenario, calls, ps)
       PROVE  OnPath(path, scenario', calls', Standing')
  <2>1. OnPath(path, scenario, calls, qs)
    BY <1>11, <1>12, FewerOnPath
  <2>2. QED
    BY <1>2, <2>1 DEF qs
<1>13. \E path : OnPath(path, scenario', calls', Standing')
  BY <1>12 DEF WayInv, ps
<1>14. WayInv'
  BY <1>2, <1>5, <1>10, <1>13 DEF WayInv
<1>15. QED
  BY <1>4, <1>12, <1>14 DEF ps

(* The invariant holds at the start, *)
LEMMA StartsOnWay == Init => WayInv /\ OnPath(<<StartPlace>>, scenario, calls, Standing)
<1> SUFFICES ASSUME Init
             PROVE  WayInv /\ OnPath(<<StartPlace>>, scenario, calls, Standing)
  OBVIOUS
<1>1. /\ scenario \in Scenarios
      /\ status = [r \in Ranks |-> "running"] /\ stack = [r \in Ranks |-> <<>>]
      /\ results = [r \in Ranks |-> <<>>] /\ stats = [r \in Ranks |-> NoStats]
      /\ calls = [r \in Ranks |-> <<>>] /\ inCall = [r \in Ranks |-> FALSE]
  BY DEF Init, C!CollectivesInit
<1>2. Functional
  BY <1>1 DEF Functional
<1> DEFINE m == Rank("running", <<>>, <<>>, NoStats, <<>>, FALSE)
<1>3. \A r \in Ranks : Mine(r) = m
  BY <1>1 DEF Mine
<1>4. /\ m.status = "running" /\ m.stack = <<>> /\ m.results = <<>> /\ m.stats = NoStats
      /\ m.calls = <<>> /\ m.inCall = FALSE
  BY DEF Rank
<1> HIDE DEF m
<1>5. DOMAIN NoStats.counters = {} /\ NoStats.statsComputed = FALSE
      /\ NoStats = [counters |-> NoStats.counters, totals |-> NoStats.totals,
                    statsComputed |-> NoStats.statsComputed]
  BY DEF NoStats
<1>6. FramesOK(<<>>) /\ ViewsOf(<<>>) = <<>> /\ IsList(<<>>) /\ Len(<<>>) = 0
  BY NoList, ViewsAre DEF FramesOK
<1>7. RankOK(m)
  BY <1>4, <1>5, <1>6, FS_EmptySet DEF RankOK
<1>8. PlaceOf(m) = StartPlace
  BY <1>4, <1>5, <1>6 DEF PlaceOf, StartPlace
<1>9. \A r \in DOMAIN Standing : Standing[r] = StartPlace
  BY <1>3, <1>8 DEF Standing
<1> DEFINE sc == scenario
           cs == calls
           ps == Standing
<1>10. (\A s \in Ranks : cs[s] = <<>>) /\ \A r \in DOMAIN ps : ps[r] = StartPlace
  BY <1>1, <1>9
<1> HIDE DEF sc, cs, ps
<1>11. OnPath(<<StartPlace>>, sc, cs, ps)
  BY <1>10, PathStart
<1>12. QED
  BY <1>1, <1>2, <1>3, <1>7, <1>11 DEF WayInv, sc, cs, ps

(* every step keeps it, *)
LEMMA StaysOnWay == WayInv /\ [Next]_vars => WayInv'
<1> SUFFICES ASSUME WayInv, [Next]_vars PROVE WayInv'
  OBVIOUS
<1>1. ASSUME NEW r \in Ranks, Work(r) PROVE WayInv'
  BY <1>1, WorkWalks, WalkKeepsWay, ThrowKeepsWay
<1>2. ASSUME NEW r \in Ranks, Control(r) PROVE WayInv'
  BY <1>2, HostWalks, CallWalks, OutputWalks, EnterKeepsWay, AnswerWalks,
     BranchWalks, BoundingWalks, WalkKeepsWay, ThrowKeepsWay DEF Control
<1>3. ASSUME NEW r \in Ranks, Bounding(r) PROVE WayInv'
  BY <1>3, BoundingWalks, WalkKeepsWay
<1>4. ASSUME NEW r \in Ranks, Counting(r) PROVE WayInv'
  BY <1>4, BoundingWalks, CountingWalks, WalkKeepsWay DEF Counting
<1>5. CASE Terminated \/ UNCHANGED vars
  <2>1. UNCHANGED vars
    BY <1>5 DEF Terminated
  <2>2. UNCHANGED <<scenario, status, stack, results, stats, calls, inCall>>
    BY <2>1 DEF vars
  <2>3. Functional' /\ (\A r : Mine(r)' = Mine(r))
    BY <2>2 DEF WayInv, Functional, Mine
  <2>4. Standing' = Standing
    BY <2>2, <2>3 DEF Standing
  <2>5. QED
    BY <2>2, <2>3, <2>4 DEF WayInv
<1>6. QED
  BY <1>1, <1>2, <1>3, <1>4, <1>5 DEF Next

(* and it says that calls match. *)
LEMMA WayMatches == WayInv => CollectivesMatch
<1> SUFFICES ASSUME WayInv PROVE CollectivesMatch
  OBVIOUS
<1> DEFINE sc == scenario
           cs == calls
           ps == Standing
<1>1. PICK path : OnPath(path, sc, cs, ps)
  BY DEF WayInv
<1>2. \A s \in Ranks : IsList(cs[s]) /\ DOMAIN cs[s] = 1 .. Len(cs[s])
  <2> SUFFICES ASSUME NEW s \in Ranks PROVE IsList(cs[s]) /\ DOMAIN cs[s] = 1 .. Len(cs[s])
    OBVIOUS
  <2>1. RankOK(Mine(s)) /\ Mine(s).calls = calls[s]
    BY MineIs DEF WayInv
  <2>2. QED
    BY <2>1, ListIs DEF RankOK
<1>3. ASSUME NEW r \in Ranks, status[r] = "done"
      PROVE  r \in DOMAIN ps /\ ps[r].ended /\ ps[r].frames = <<>> /\ ps[r].made = Len(cs[r])
  <2> DEFINE m == Mine(r)
  <2>1. RankOK(m) /\ m.status = "done" /\ m.calls = cs[r]
    BY <1>3, MineIs DEF WayInv
  <2>2. r \in DOMAIN ps /\ ps[r] = PlaceOf(m)
    BY <1>3 DEF Standing
  <2> HIDE DEF m, ps, cs
  <2>3. m.stack = <<>>
    BY <2>1 DEF RankOK
  <2>4. PlaceOf(m).ended /\ PlaceOf(m).frames = <<>>
    <3>1. ViewsOf(m.stack) = <<>>
      BY <2>3, NoList, ViewsAre
    <3>2. QED
      BY <2>1, <3>1 DEF PlaceOf, Place
  <2>5. m.inCall = FALSE
    BY <2>1, <2>4 DEF RankOK, Asking
  <2>6. PlaceOf(m).made = Len(m.calls)
    BY <2>5 DEF PlaceOf, Place
  <2>7. QED
    BY <2>1, <2>2, <2>4, <2>6
<1> HIDE DEF sc, ps, cs
<1>4. \A r, s \in Ranks : \A j \in DOMAIN cs[r] \cap DOMAIN cs[s] : cs[r][j].site = cs[s][j].site
  BY <1>1, <1>2, PathMatches
<1>5. \A r, s \in Ranks : status[r] = "done" => Len(cs[s]) <= Len(cs[r])
  <2> SUFFICES ASSUME NEW r \in Ranks, NEW s \in Ranks, status[r] = "done"
               PROVE  Len(cs[s]) <= Len(cs[r])
    OBVIOUS
  <2>1. r \in DOMAIN ps /\ ps[r].ended /\ ps[r].frames = <<>> /\ ps[r].made = Len(cs[r])
    BY <1>3
  <2>2. Len(cs[s]) <= ps[r].made
    BY <1>1, <1>2, <2>1, PathEnds
  <2>3. QED
    BY <2>1, <2>2
<1>6. QED
  BY <1>4, <1>5 DEF CollectivesMatch, C!CallsMatch, cs

(* The ranks make the same collective calls in the same order, and none that*)
(* is through has missed one, whatever the domains and fields of each rank  *)
(* and whichever script of operations they run: GetGlobalRange,             *)
(* GetFieldAssociation and the other queries make their calls on ranks      *)
(* without data too, and nothing a rank knows alone decides about a call.   *)
THEOREM CollectivesAlwaysMatch == Spec => []CollectivesMatch
<1>1. Spec => []WayInv
  BY StartsOnWay, StaysOnWay, PTL DEF Spec
<1>2. QED
  BY <1>1, WayMatches, PTL

-----------------------------------------------------------------------------
(* Errors.  A rank fails at a check of what all ranks know, so that all fail *)
(* at one place, the end of the way, or none does.  For what is on its own   *)
(* domains it may throw alone: then it has stopped somewhere on the way.     *)

(* The step all ranks fail at. *)
FailingStep(c, top, step) ==
  /\ step.do = "check"
  /\ \/ step.test = "new" /\ top.op.counter \in c.names
     \/ step.test = "counted" /\ top.op.counter \notin c.names
     \/ step.test \notin LocalTests /\ ~Told(top.op, top.got, step.test, step.f)

Failing(c) ==
  /\ c.frames # <<>> /\ Last(c.frames).todo # <<>>
  /\ FailingStep(c, Last(c.frames), Head(Last(c.frames).todo))

(* Nobody has gone past a place where all fail. *)
Passable(path) ==
  \A k \in 1 .. Len(path) :
    /\ path[k].done \in Nat
    /\ \A i \in 1 .. k - 1 : path[i].done <= path[k].done /\ ~Failing(path[i])

(* A rank that has failed has done what is done up to the end of the way, *)
StoppedAt(c, r) ==
  Failing(c) /\ Len(results[r]) = c.done /\ Len(calls[r]) = c.made

(* and one that has thrown, what is done up to some place on it. *)
LeftTheWay(path, r) == \E i \in 1 .. Len(path) : path[i].done = Len(results[r])

(* What the end of the way is to those who have stopped. *)
StoppedOn(path) ==
  \A r \in Ranks : /\ status[r] = "failed" => StoppedAt(path[Len(path)], r)
                   /\ status[r] = "thrown" => LeftTheWay(path, r)

ErrorInv ==
  \E path : /\ OnPath(path, scenario, calls, Standing)
            /\ path # <<>> /\ Passable(path) /\ StoppedOn(path)

LEMMA TurnDoes ==
  ASSUME NEW sc, NEW heard, NEW c, c.done \in Nat
  PROVE  Turn(sc, heard, c).done \in {c.done, c.done + 1}
<1> USE DEF Place
<1>1. CASE c.frames = <<>>
  BY <1>1 DEF Turn, Started
<1>2. CASE c.frames # <<>> /\ Last(c.frames).todo = <<>>
  BY <1>2 DEF Turn, Popped
<1>3. CASE c.frames # <<>> /\ Last(c.frames).todo # <<>>
  BY <1>3 DEF Turn, Stepped, WithTop
<1>4. QED
  BY <1>1, <1>2, <1>3

LEMMA PassableGrows ==
  ASSUME NEW path, IsList(path), path # <<>>, Passable(path),
         ~Failing(path[Len(path)]), NEW new, new.done \in Nat,
         path[Len(path)].done <= new.done
  PROVE  Passable(Append(path, new)) /\ Append(path, new) # <<>>
<1> DEFINE n == Len(path)
           p == Append(path, new)
<1>1. /\ IsList(p) /\ Len(p) = n + 1
      /\ \A k \in 1 .. n : p[k] = path[k]
      /\ p[n + 1] = new
  BY Appended
<1>2. n \in Nat \ {0}
  BY ListIs
<1>3. ~Failing(path[n]) /\ path[n].done <= new.done
  OBVIOUS
<1> HIDE DEF p, n
<1>4. \A k \in 1 .. n : /\ path[k].done \in Nat
                        /\ \A i \in 1 .. k - 1 : path[i].done <= path[k].done /\ ~Failing(path[i])
  BY DEF Passable, n
<1>5. ASSUME NEW i \in 1 .. n
      PROVE  path[i].done <= new.done /\ ~Failing(path[i])
  <2>1. CASE i = n
    BY <1>3, <2>1
  <2>2. CASE i # n
    <3>1. i \in 1 .. n - 1 /\ n \in 1 .. n
      BY <1>2, <2>2
    <3>2. path[i].done <= path[n].done /\ ~Failing(path[i])
      BY <1>4, <3>1
    <3>3. path[i].done \in Nat /\ path[n].done \in Nat
      BY <1>4, <3>1
    <3>4. QED
      BY <1>3, <3>2, <3>3
  <2>3. QED
    BY <2>1, <2>2
<1>6. ASSUME NEW k \in 1 .. n + 1
      PROVE  /\ p[k].done \in Nat
             /\ \A i \in 1 .. k - 1 : p[i].done <= p[k].done /\ ~Failing(p[i])
  <2>1. \A i \in 1 .. k - 1 : i \in 1 .. n /\ p[i] = path[i]
    BY <1>1, <1>2
  <2>2. CASE k = n + 1
    BY <1>1, <1>5, <2>1, <2>2
  <2>3. CASE k # n + 1
    <3>1. k \in 1 .. n /\ p[k] = path[k]
      BY <1>1, <1>2, <2>3
    <3>2. QED
      BY <1>4, <2>1, <3>1
  <2>4. QED
    BY <2>2, <2>3
<1>7. p # <<>>
  BY <1>1, <1>2, ListIs
<1>8. Passable(p)
  BY <1>1, <1>6 DEF Passable
<1>9. QED
  BY <1>7, <1>8 DEF p

(* What a place shows of a rank with a filter under way. *)
LEMMA PlaceShows ==
  ASSUME WayInv, NEW r \in Ranks
  PROVE  LET c == PlaceOf(Mine(r))
         IN /\ c.frames = <<>> <=> stack[r] = <<>>
            /\ c.names = DOMAIN stats[r].counters
            /\ c.done = Len(results[r]) /\ (c.ended <=> status[r] = "done")
            /\ ~Asking(c) => c.made = Len(calls[r])
            /\ status[r] # "running" => stack[r] = <<>>
            /\ stack[r] # <<>> =>
                 /\ Last(c.frames).todo = Top(r).todo /\ Last(c.frames).op = Top(r).op
                 /\ Top(r).op.name # "TotalVal" => Last(c.frames).got = Top(r).got
                 /\ Top(r).todo # <<>> => Sound(Top(r).op, Step(r))
<1> DEFINE m == Mine(r)
           c == PlaceOf(m)
<1>1. /\ m.status = status[r] /\ m.stack = stack[r] /\ m.results = results[r]
      /\ m.stats = stats[r] /\ m.calls = calls[r] /\ m.inCall = inCall[r] /\ RankOK(m)
  BY MineIs DEF WayInv
<1> HIDE DEF m
<1>2. /\ c.frames = ViewsOf(m.stack) /\ c.names = DOMAIN m.stats.counters
      /\ c.done = Len(m.results) /\ (c.ended <=> m.status = "done")
      /\ c.made = IF m.inCall THEN Len(m.calls) - 1 ELSE Len(m.calls)
  BY DEF PlaceOf, Place
<1>3. IsList(m.stack) /\ FramesOK(m.stack) /\ m.inCall \in BOOLEAN
      /\ (m.inCall => Asking(c)) /\ (m.status # "running" => m.stack = <<>>)
  BY <1>1 DEF RankOK, FramesOK
<1> HIDE DEF c
<1>4. c.frames = <<>> <=> m.stack = <<>>
  BY <1>2, <1>3, ViewsAre
<1>5. ASSUME m.stack # <<>>
      PROVE  /\ Last(c.frames).todo = Last(m.stack).todo /\ Last(c.frames).op = Last(m.stack).op
             /\ Last(m.stack).op.name # "TotalVal" => Last(c.frames).got = Last(m.stack).got
             /\ Last(m.stack).todo # <<>> => Sound(Last(m.stack).op, Head(Last(m.stack).todo))
  <2>1. /\ Last(c.frames) = ViewOf(Last(m.stack))
        /\ Last(m.stack) = m.stack[Len(m.stack)] /\ Len(m.stack) \in Nat \ {0}
    BY <1>2, <1>3, <1>5, TopView
  <2>2. FrameOK(Last(m.stack))
    BY <1>3, <2>1 DEF FramesOK
  <2>3. Last(m.stack).todo # <<>> => Sound(Last(m.stack).op, Head(Last(m.stack).todo))
    BY <2>2, SoundTail DEF FrameOK
  <2>4. QED
    BY <2>1, <2>3 DEF ViewOf, View
<1>6. QED
  BY <1>1, <1>2, <1>3, <1>4, <1>5 DEF c, m, Top, Step

(* What a check of what all know asks for. *)
KnownToAll(r) == Doing(r, "check") /\ Step(r).test \notin OwnTests

(* A rank fails where all fail, *)
LEMMA FailsThere ==
  ASSUME WayInv, NEW r \in Ranks, KnownToAll(r), CheckFails(r)
  PROVE  StoppedAt(PlaceOf(Mine(r)), r)
<1> DEFINE c == PlaceOf(Mine(r))
           top == Last(c.frames)
<1>1. Doing(r, "check") /\ ~Test(r, Step(r).test, Step(r).f) /\ Step(r).test \notin OwnTests
  BY DEF CheckFails, KnownToAll
<1>2. stack[r] # <<>> /\ Top(r).todo # <<>> /\ Step(r).do = "check"
      /\ Step(r) = Head(Top(r).todo)
  BY <1>1 DEF Doing, Top, Step
<1>3. /\ c.frames # <<>> /\ c.names = DOMAIN stats[r].counters /\ c.done = Len(results[r])
      /\ ~Asking(c) => c.made = Len(calls[r])
      /\ top.todo = Top(r).todo /\ top.op = Top(r).op
      /\ Top(r).op.name # "TotalVal" => top.got = Top(r).got
      /\ Sound(Top(r).op, Step(r))
  BY <1>2, PlaceShows
<1> HIDE DEF c, top
<1>4. ~Asking(c)
  BY <1>2, <1>3 DEF Asking, top
<1>5. Step(r).test # "has" /\ Top(r).op.name # "TotalVal" /\ top.got = Top(r).got
  BY <1>2, <1>3 DEF Sound
<1>6. FailingStep(c, top, Step(r))
  <2>1. CASE Step(r).test \in {"new", "counted"}
    <3>1. ~FoundHere(r, Step(r).test, Step(r).f)
      BY <1>1, <2>1 DEF Test, LocalTests
    <3>2. QED
      BY <1>2, <1>3, <2>1, <3>1 DEF FailingStep, FoundHere, OwnTests
  <2>2. CASE Step(r).test \notin LocalTests
    <3>1. ~Told(Top(r).op, Top(r).got, Step(r).test, Step(r).f)
      BY <1>1, <2>2 DEF Test
    <3>2. QED
      BY <1>2, <1>3, <1>5, <2>2, <3>1 DEF FailingStep
  <2>3. QED
    BY <1>1, <1>5, <2>1, <2>2 DEF LocalTests
<1>7. Failing(c)
  BY <1>2, <1>3, <1>6 DEF Failing, top
<1>8. QED
  BY <1>3, <1>4, <1>7 DEF StoppedAt, c

(* and does nothing else there. *)
LEMMA StuckThere ==
  ASSUME WayInv, NEW r \in Ranks, Failing(PlaceOf(Mine(r)))
  PROVE  /\ stack[r] # <<>> /\ Top(r).todo # <<>> /\ Step(r).do = "check"
         /\ Step(r).test \notin OwnTests /\ ~CheckHolds(r)
<1> DEFINE c == PlaceOf(Mine(r))
           top == Last(c.frames)
           step == Head(top.todo)
<1>1. c.frames # <<>> /\ top.todo # <<>> /\ FailingStep(c, top, step)
  BY DEF Failing
<1>2. stack[r] # <<>>
  BY <1>1, PlaceShows
<1>3. /\ c.names = DOMAIN stats[r].counters
      /\ top.todo = Top(r).todo /\ top.op = Top(r).op
      /\ Top(r).op.name # "TotalVal" => top.got = Top(r).got
      /\ Top(r).todo # <<>> => Sound(Top(r).op, Step(r))
  BY <1>2, PlaceShows
<1>4. step = Step(r) /\ Top(r).todo # <<>>
  BY <1>1, <1>3 DEF Step
<1> HIDE DEF c, top, step
<1>5. Step(r).do = "check" /\ Step(r).test \notin OwnTests
  BY <1>1, <1>4 DEF FailingStep, LocalTests, OwnTests
<1>6. ~CheckHolds(r)
  <2> SUFFICES ASSUME CheckHolds(r) PROVE FALSE
    OBVIOUS
  <2>1. Test(r, Step(r).test, Step(r).f)
    BY DEF CheckHolds
  <2>2. Top(r).op.name # "TotalVal" /\ top.got = Top(r).got
    BY <1>3, <1>4, <1>5 DEF Sound
  <2>3. CASE Step(r).test \in {"new", "counted"}
    <3>1. FoundHere(r, Step(r).test, Step(r).f)
      BY <2>1, <2>3 DEF Test, LocalTests
    <3>2. QED
      BY <1>1, <1>3, <1>4, <2>3, <3>1 DEF FailingStep, FoundHere, LocalTests, OwnTests
  <2>4. CASE Step(r).test \notin {"new", "counted"}
    <3>1. Step(r).test \notin LocalTests
      BY <1>1, <1>4, <2>4 DEF FailingStep
    <3>2. Told(Top(r).op, Top(r).got, Step(r).test, Step(r).f)
      BY <2>1, <3>1 DEF Test
    <3>3. ~Told(top.op, top.got, Step(r).test, Step(r).f)
      BY <1>1, <1>4, <2>4 DEF FailingStep
    <3>4. QED
      BY <1>3, <2>2, <3>2, <3>3
  <2>5. QED
    BY <2>3, <2>4
<1>7. QED
  BY <1>2, <1>4, <1>5, <1>6

(* What a step of one rank leaves of another that has thrown. *)
LEMMA StoppedStays ==
  ASSUME WayInv, NEW r \in Ranks, OnlyOf(r), NEW c, NEW s \in Ranks, s # r
  PROVE  /\ status'[s] = status[s] /\ results'[s] = results[s]
         /\ StoppedAt(c, s) => StoppedAt(c, s)'
<1>1. Mine(s)' = Mine(s) /\ status'[s] = status[s]
  BY OthersStay DEF WayInv
<1>2. /\ Mine(s).results = results[s] /\ Mine(s).calls = calls[s]
      /\ Mine(s)'.results = results'[s] /\ Mine(s)'.calls = calls'[s]
  BY MineIs
<1>3. results'[s] = results[s] /\ calls'[s] = calls[s]
  BY <1>1, <1>2
<1>4. QED
  BY <1>1, <1>3 DEF StoppedAt

(* At the start nobody has thrown. *)
LEMMA ErrorStart ==
  ASSUME Init
  PROVE  ErrorInv
<1> DEFINE path == <<StartPlace>>
<1>1. /\ OnPath(path, scenario, calls, Standing)
      /\ Len(path) = 1 /\ path[1] = StartPlace /\ IsList(path)
  BY StartsOnWay, OneIsList
<1>2. StartPlace.done = 0
  BY DEF StartPlace, Place
<1>3. \A r \in Ranks : status[r] \notin Stopped
  BY DEF Init
<1> HIDE DEF path
<1>4. path # <<>>
  BY <1>1, ListIs
<1>5. Passable(path)
  BY <1>1, <1>2 DEF Passable
<1>6. QED
  BY <1>1, <1>3, <1>4, <1>5 DEF ErrorInv, StoppedOn

(* What one rank does leaves the others where they stopped. *)
LEMMA OthersStopped ==
  ASSUME WayInv, NEW r \in Ranks, OnlyOf(r), NEW path, StoppedOn(path), NEW s \in Ranks, s # r
  PROVE  /\ status'[s] = "failed" => StoppedAt(path[Len(path)], s)'
         /\ status'[s] = "thrown" => LeftTheWay(path, s)'
<1>1. status'[s] = status[s] /\ results'[s] = results[s]
      /\ (StoppedAt(path[Len(path)], s) => StoppedAt(path[Len(path)], s)')
  BY StoppedStays
<1>2. QED
  BY <1>1 DEF StoppedOn, LeftTheWay

(* A rank that goes on passes no place where all fail; and if it leads the   *)
(* way nobody has failed.                                                    *)
LEMMA WalkKeepsErrors ==
  ASSUME WayInv, ErrorInv, NEW r \in Ranks, Walks(r),
         ~Failing(PlaceOf(Mine(r)))
  PROVE  ErrorInv'
<1>1. PICK path : /\ OnPath(path, scenario, calls, Standing)
                  /\ path # <<>> /\ Passable(path) /\ StoppedOn(path)
  BY DEF ErrorInv
<1> DEFINE new == PlaceOf(Mine(r)')
           here == PlaceOf(Mine(r))
           last == path[Len(path)]
<1>2. /\ r \in DOMAIN Standing /\ Standing[r] = here
      /\ \/ OnPath(path, scenario', calls', Standing')
         \/ /\ Standing[r] = last
            /\ OnPath(Append(path, new), scenario', calls', Standing')
  BY <1>1, WalkOnPath
<1>3. OnlyOf(r) /\ status'[r] \notin Stopped
      /\ \E heard : new = Turn(scenario, heard, here)
  BY DEF Walks, Follows
<1>4. StoppedOn(path)'
  <2>1. \A s \in Ranks :
          s # r => /\ status'[s] = "failed" => StoppedAt(path[Len(path)], s)'
                   /\ status'[s] = "thrown" => LeftTheWay(path, s)'
    BY <1>1, <1>3, OthersStopped
  <2>2. QED
    BY <1>3, <2>1 DEF StoppedOn
<1>5. CASE OnPath(path, scenario', calls', Standing')
  BY <1>1, <1>4, <1>5 DEF ErrorInv
<1>6. CASE Standing[r] = last /\ OnPath(Append(path, new), scenario', calls', Standing')
  <2>1. last = here
    BY <1>2, <1>6
  <2>2. ~Failing(last)
    BY <2>1
  <2>3. \A s \in Ranks : status'[s] # "failed"
    BY <1>4, <2>2 DEF StoppedOn, StoppedAt
  <2>4. IsList(path)
    BY <1>1 DEF OnPath
  <2>5. Len(path) \in 1 .. Len(path)
    BY <1>1, <2>4, ListIs
  <2>6. last.done \in Nat
    BY <1>1, <2>5 DEF Passable
  <2>7. new.done \in {last.done, last.done + 1}
    BY <1>3, <2>1, <2>6, TurnDoes
  <2>8. \A s \in Ranks : status'[s] = "thrown" => LeftTheWay(path, s)'
    BY <1>4 DEF StoppedOn
  <2> HIDE DEF new, last, here
  <2>9. new.done \in Nat /\ last.done <= new.done
    BY <2>6, <2>7
  <2>10. PICK longer : longer = Append(path, new)
    OBVIOUS
  <2>11. Passable(longer) /\ longer # <<>>
    BY <1>1, <2>2, <2>4, <2>9, <2>10, PassableGrows DEF last
  <2>12. ASSUME NEW s \in Ranks, status'[s] = "thrown"
         PROVE  LeftTheWay(longer, s)'
    <3>1. Len(longer) = Len(path) + 1 /\ Len(path) \in Nat
          /\ \A k \in 1 .. Len(path) : longer[k] = path[k]
      BY <2>4, <2>10, Appended, ListIs
    <3>2. PICK i \in 1 .. Len(path) : path[i].done = Len(results'[s])
      BY <2>8, <2>12 DEF LeftTheWay
    <3>3. i \in 1 .. Len(longer)
      BY <3>1
    <3>4. QED
      BY <3>1, <3>2, <3>3 DEF LeftTheWay
  <2>13. StoppedOn(longer)'
    BY <2>3, <2>12 DEF StoppedOn
  <2>14. OnPath(longer, scenario', calls', Standing')
    BY <1>6, <2>10
  <2>15. QED
    BY <2>11, <2>13, <2>14 DEF ErrorInv
<1>7. QED
  BY <1>2, <1>5, <1>6

(* A call changes no place. *)
LEMMA EnterKeepsErrors ==
  ASSUME WayInv, ErrorInv, NEW r \in Ranks, EnterCall(r)
  PROVE  ErrorInv'
<1>1. PICK path : /\ OnPath(path, scenario, calls, Standing)
                  /\ path # <<>> /\ Passable(path) /\ StoppedOn(path)
  BY DEF ErrorInv
<1>2. /\ OnPath(path, scenario', calls', Standing')
      /\ OnlyOf(r) /\ status[r] \notin Stopped /\ status' = status
  BY <1>1, EnterKeepsWay DEF EnterCall
<1>3. StoppedOn(path)'
  <2>1. \A s \in Ranks :
          s # r => /\ status'[s] = "failed" => StoppedAt(path[Len(path)], s)'
                   /\ status'[s] = "thrown" => LeftTheWay(path, s)'
    BY <1>1, <1>2, OthersStopped
  <2>2. QED
    BY <1>2, <2>1 DEF StoppedOn
<1>4. QED
  BY <1>1, <1>2, <1>3 DEF ErrorInv

(* A rank that fails is at the end of the way. *)
LEMMA FailKeepsErrors ==
  ASSUME WayInv, ErrorInv, NEW r \in Ranks, KnownToAll(r), CheckFails(r)
  PROVE  ErrorInv'
<1>1. PICK path : /\ OnPath(path, scenario, calls, Standing)
                  /\ path # <<>> /\ Passable(path) /\ StoppedOn(path)
  BY DEF ErrorInv
<1>2. OnPath(path, scenario', calls', Standing') /\ OnlyOf(r)
  BY <1>1, ThrowKeepsWay
<1>3. StoppedAt(PlaceOf(Mine(r)), r)
  BY FailsThere
<1>4. r \in DOMAIN Standing /\ Standing[r] = PlaceOf(Mine(r))
  BY DEF CheckFails, Doing, Standing
<1>5. PICK i \in 1 .. Len(path) : path[i] = PlaceOf(Mine(r))
  BY <1>1, <1>4 DEF OnPath
<1>6. i = Len(path)
  <2>1. Len(path) \in Nat
    BY <1>1, ListIs DEF OnPath
  <2>2. i # Len(path) => Len(path) \in 1 .. Len(path) /\ i \in 1 .. Len(path) - 1
    BY <2>1
  <2>3. i # Len(path) => ~Failing(path[i])
    BY <1>1, <2>2 DEF Passable
  <2>4. QED
    BY <1>3, <1>5, <2>3 DEF StoppedAt
<1>7. StoppedAt(path[Len(path)], r)' /\ status'[r] = "failed"
  <2>1. results' = results /\ calls' = calls
    BY DEF CheckFails, Fail
  <2>2. StoppedAt(path[Len(path)], r)
    BY <1>3, <1>5, <1>6
  <2>3. status' = [status EXCEPT ![r] = "failed"] /\ r \in DOMAIN status
    BY DEF CheckFails, Fail, KnownToAll, WayInv, Functional
  <2>4. QED
    BY <2>1, <2>2, <2>3 DEF StoppedAt
<1>8. \A s \in Ranks :
        s # r => /\ status'[s] = "failed" => StoppedAt(path[Len(path)], s)'
                 /\ status'[s] = "thrown" => LeftTheWay(path, s)'
  BY <1>1, <1>2, OthersStopped
<1>9. StoppedOn(path)'
  BY <1>7, <1>8 DEF StoppedOn
<1>10. QED
  BY <1>1, <1>2, <1>9 DEF ErrorInv

(* A rank that throws for its own domains is on the way. *)
LEMMA ThrowKeepsErrors ==
  ASSUME WayInv, ErrorInv, NEW r \in Ranks,
         DomainThrows(r) \/ (CheckFails(r) /\ ~KnownToAll(r))
  PROVE  ErrorInv'
<1>1. PICK path : /\ OnPath(path, scenario, calls, Standing)
                  /\ path # <<>> /\ Passable(path) /\ StoppedOn(path)
  BY DEF ErrorInv
<1>2. OnPath(path, scenario', calls', Standing') /\ OnlyOf(r)
  BY <1>1, ThrowKeepsWay
<1>3. r \in DOMAIN Standing /\ Standing[r] = PlaceOf(Mine(r))
  BY DEF CheckFails, DomainThrows, Doing, Standing
<1>4. PICK i \in 1 .. Len(path) : path[i] = PlaceOf(Mine(r))
  BY <1>1, <1>3 DEF OnPath
<1>5. path[i].done = Len(results[r])
  BY <1>4, PlaceShows
<1>6. LeftTheWay(path, r)' /\ status'[r] = "thrown"
  <2>1. results' = results
    BY DEF CheckFails, DomainThrows, Fail
  <2>2. status' = [status EXCEPT ![r] = "thrown"] /\ r \in DOMAIN status
    BY DEF CheckFails, DomainThrows, Fail, KnownToAll, WayInv, Functional
  <2>3. QED
    BY <1>5, <2>1, <2>2 DEF LeftTheWay
<1>7. \A s \in Ranks :
        s # r => /\ status'[s] = "failed" => StoppedAt(path[Len(path)], s)'
                 /\ status'[s] = "thrown" => LeftTheWay(path, s)'
  BY <1>1, <1>2, OthersStopped
<1>8. StoppedOn(path)'
  BY <1>6, <1>7 DEF StoppedOn
<1>9. QED
  BY <1>1, <1>2, <1>8 DEF ErrorInv

(* Every step keeps it, *)
LEMMA ErrorsStay ==
  ASSUME WayInv, ErrorInv, [Next]_vars
  PROVE  ErrorInv'
<1>1. ASSUME NEW r \in Ranks, Failing(PlaceOf(Mine(r))),
             Work(r) \/ Control(r) \/ Bounding(r) \/ Counting(r)
      PROVE  CheckFails(r)
  <2>1. /\ stack[r] # <<>> /\ Top(r).todo # <<>> /\ Step(r).do = "check"
        /\ ~CheckHolds(r)
    BY <1>1, StuckThere
  <2>2. \A what : Doing(r, what) => what = "check"
    BY <2>1 DEF Doing
  <2>3. Bounding(r) \/ Counting(r) => FALSE
    <3>1. Clear(r) => Doing(r, "clear")
      BY DEF Clear
    <3>2. AddBlocks(r) => Doing(r, "addBlocks")
      BY DEF AddBlocks
    <3>3. Build(r) => Doing(r, "build")
      BY DEF Build
    <3>4. AddCounter(r) => Doing(r, "addCounter")
      BY DEF AddCounter
    <3>5. Increment(r) => Doing(r, "increment")
      BY DEF Increment
    <3>6. calcStats(r) => Doing(r, "calcStats")
      BY DEF calcStats
    <3>7. StatsComputed(r) => Doing(r, "computed")
      BY DEF StatsComputed
    <3>8. QED
      BY <2>2, <3>1, <3>2, <3>3, <3>4, <3>5, <3>6, <3>7 DEF Bounding, Counting
  <2>4. Work(r) => FALSE
    <3>1. OverwriteDomains(r) => Doing(r, "overwrite")
      BY DEF OverwriteDomains
    <3>2. AssignPointer(r) => Doing(r, "assign")
      BY DEF AssignPointer
    <3>3. DeleteDataSet(r) => Doing(r, "delete")
      BY DEF DeleteDataSet
    <3>4. RestoreInput(r) => Doing(r, "restore")
      BY DEF RestoreInput
    <3>5. MergeSlices(r) => Doing(r, "merge")
      BY DEF MergeSlices
    <3>6. TakeSlice(r) => Doing(r, "take")
      BY DEF TakeSlice
    <3>7. MapFields(r) => Doing(r, "mapFields")
      BY DEF MapFields
    <3>8. PropagateMetadata(r) => Doing(r, "metadata")
      BY DEF PropagateMetadata
    <3>9. TakePicture(r) => Doing(r, "picture")
      BY DEF TakePicture
    <3>10. RunOnDomains(r) \/ DomainThrows(r) => Doing(r, "map")
      BY DEF RunOnDomains, DomainThrows
    <3>11. QED
      BY <2>2, <3>1, <3>2, <3>3, <3>4, <3>5, <3>6, <3>7, <3>8, <3>9, <3>10 DEF Work
  <2>5. Control(r) => CheckFails(r)
    BY <2>1, <2>2 DEF Control, Begin, CallUpdate, ReturnToFilter, ReturnToHost, Finished, Finish,
       EnterCall, ReturnFromCall, Branch
  <2>6. QED
    BY <1>1, <2>3, <2>4, <2>5
<1>2. ASSUME NEW r \in Ranks, Work(r) \/ Control(r) \/ Bounding(r) \/ Counting(r)
      PROVE  ErrorInv'
  <2>1. CASE CheckFails(r) \/ DomainThrows(r)
    BY <2>1, FailKeepsErrors, ThrowKeepsErrors
  <2>2. CASE EnterCall(r)
    BY <2>2, EnterKeepsErrors
  <2>3. CASE ~(CheckFails(r) \/ DomainThrows(r)) /\ ~EnterCall(r)
    <3>1. ~Failing(PlaceOf(Mine(r)))
      BY <1>1, <1>2, <2>3
    <3>2. Walks(r)
      <4>1. Work(r) => Walks(r)
        BY <2>3, WorkWalks
      <4>2. Control(r) => Walks(r)
        BY <2>3, HostWalks, CallWalks, OutputWalks, AnswerWalks, BranchWalks, BoundingWalks
           DEF Control
      <4>3. Bounding(r) => Walks(r)
        BY BoundingWalks
      <4>4. Counting(r) => Walks(r)
        BY BoundingWalks, CountingWalks DEF Counting
      <4>5. QED
        BY <1>2, <4>1, <4>2, <4>3, <4>4
    <3>3. QED
      BY <3>1, <3>2, WalkKeepsErrors
  <2>4. QED
    BY <2>1, <2>2, <2>3
<1>3. CASE Terminated \/ UNCHANGED vars
  <2>1. UNCHANGED <<scenario, status, stack, results, stats, calls, inCall>>
    BY <1>3 DEF Terminated, vars
  <2>2. \A r : Mine(r)' = Mine(r)
    BY <2>1 DEF Mine
  <2>3. Standing' = Standing
    BY <2>1, <2>2 DEF Standing
  <2>4. \A path : StoppedOn(path) => StoppedOn(path)'
    BY <2>1 DEF StoppedOn, StoppedAt, LeftTheWay
  <2>5. QED
    BY <2>1, <2>3, <2>4 DEF ErrorInv
<1>4. QED
  BY <1>2, <1>3 DEF Next

(* and it says that nobody gets past where one has failed. *)
LEMMA StoppedAgree ==
  ASSUME WayInv, ErrorInv
  PROVE  ErrorsAgree
<1>1. PICK path : /\ OnPath(path, scenario, calls, Standing)
                  /\ path # <<>> /\ Passable(path) /\ StoppedOn(path)
  BY DEF ErrorInv
<1> DEFINE n == Len(path)
           last == path[n]
<1>2. n \in Nat \ {0} /\ n \in 1 .. n
  BY <1>1, ListIs DEF OnPath
<1> SUFFICES ASSUME NEW r \in Ranks, NEW s \in Ranks, status[r] = "failed"
             PROVE  /\ status[s] # "done"
                    /\ Len(results[s]) <= Len(results[r])
                    /\ Len(calls[s]) <= Len(calls[r])
  BY DEF ErrorsAgree
<1>3. Failing(last) /\ Len(results[r]) = last.done /\ Len(calls[r]) = last.made
  BY <1>1 DEF StoppedOn, StoppedAt
<1>4. last.frames # <<>> /\ ~Asking(last)
  BY <1>3 DEF Failing, FailingStep, Asking
<1>5. last.done \in Nat /\ last.made \in Nat
  BY <1>1, <1>2 DEF Passable, OnPath
<1> HIDE DEF n, last
<1>6. status[s] # "done" /\ Len(results[s]) <= last.done
  <2>1. CASE status[s] = "failed"
    <3>1. Len(results[s]) = last.done
      BY <1>1, <2>1 DEF StoppedOn, StoppedAt, n, last
    <3>2. QED
      BY <1>5, <2>1, <3>1
  <2>2. CASE status[s] = "thrown"
    <3>1. PICK i \in 1 .. n : path[i].done = Len(results[s])
      BY <1>1, <2>2 DEF StoppedOn, LeftTheWay, n
    <3>2. CASE i = n
      BY <1>5, <2>2, <3>1, <3>2 DEF last
    <3>3. CASE i # n
      <4>1. i \in 1 .. n - 1
        BY <1>2, <3>3
      <4>2. path[i].done <= last.done
        BY <1>1, <1>2, <4>1 DEF Passable, last, n
      <4>3. QED
        BY <2>2, <3>1, <4>2
    <3>4. QED
      BY <3>2, <3>3
  <2>3. CASE status[s] \notin Stopped
    <3>1. s \in DOMAIN Standing /\ Standing[s] = PlaceOf(Mine(s))
      BY <2>3 DEF Standing
    <3>2. PICK i \in 1 .. n : path[i] = PlaceOf(Mine(s))
      BY <1>1, <3>1 DEF OnPath, n
    <3>3. /\ path[i].done = Len(results[s]) /\ (path[i].ended <=> status[s] = "done")
          /\ path[i].frames = <<>> <=> stack[s] = <<>>
          /\ status[s] # "running" => stack[s] = <<>>
      BY <3>2, PlaceShows
    <3>4. CASE i = n
      BY <1>4, <1>5, <3>3, <3>4 DEF last
    <3>5. CASE i # n
      <4>1. i \in 1 .. n - 1
        BY <1>2, <3>5
      <4>2. path[i].done <= last.done
        BY <1>1, <1>2, <4>1 DEF Passable, last, n
      <4>3. ~path[i].ended
        BY <1>1, <4>1 DEF OnPath, Follows, n
      <4>4. QED
        BY <3>3, <4>2, <4>3
    <3>6. QED
      BY <3>4, <3>5
  <2>4. QED
    BY <2>1, <2>2, <2>3
<1>7. Len(calls[s]) <= last.made
  <2>1. IsList(calls[s]) /\ Len(calls[s]) \in Nat
    <3>1. RankOK(Mine(s)) /\ Mine(s).calls = calls[s]
      BY MineIs DEF WayInv
    <3>2. QED
      BY <3>1, ListIs DEF RankOK
  <2>2. CASE Len(calls[s]) = 0
    BY <1>5, <2>2
  <2>3. CASE Len(calls[s]) # 0
    <3>1. Len(calls[s]) \in 1 .. Len(calls[s])
      BY <2>1, <2>3
    <3>2. PICK k \in 1 .. n : Asking(path[k]) /\ path[k].made + 1 = Len(calls[s])
      BY <1>1, <3>1 DEF OnPath, n
    <3>3. k # n
      BY <1>4, <3>2 DEF last
    <3>4. k \in 1 .. n - 1
      BY <1>2, <3>3
    <3>5. path[k].made + Cost(path[k]) <= last.made
      BY <1>1, <1>2, <3>4 DEF OnPath, n, last
    <3>6. Cost(path[k]) = 1
      BY <3>2 DEF Cost
    <3>7. QED
      BY <3>2, <3>5, <3>6
  <2>4. QED
    BY <2>2, <2>3
<1>8. QED
  BY <1>3, <1>6, <1>7

(* Errors agree, whatever the data: a field that is missing or of the wrong  *)
(* kind, a counter that is there already, fails on all ranks in the same     *)
(* operation, and none has made a call that a rank that has failed did not.  *)
(* This holds as well when other ranks have thrown for what is on their own  *)
(* domains (as in GetRange), which they may do alone.                        *)
THEOREM ErrorsAlwaysAgree == Spec => []ErrorsAgree
<1>1. Spec => []WayInv
  BY StartsOnWay, StaysOnWay, PTL DEF Spec
<1>2. Init => ErrorInv
  BY ErrorStart
<1>3. WayInv /\ ErrorInv /\ [Next]_vars => ErrorInv'
  BY ErrorsStay
<1>4. WayInv /\ ErrorInv => ErrorsAgree
  BY StoppedAgree
<1>5. QED
  BY <1>1, <1>2, <1>3, <1>4, PTL DEF Spec

-----------------------------------------------------------------------------
(* The sample of HistSampling: sums, factorials, and the bins by count.      *)

(* h[k] is the sum of the first k numbers. *)
SumsUp(h, s, n) ==
  /\ h \in [0 .. n -> Int] /\ h[0] = 0
  /\ \A k \in 1 .. n : h[k] = h[k - 1] + s[k]

LEMMA TotalChoice ==
  ASSUME NEW s
  PROVE  totalCount(s) =
           (CHOOSE g : g = [t \in SUBSET DOMAIN s |->
                              IF t = {} THEN 0 ELSE g[t \ {Max(t)}] + s[Max(t)]])[DOMAIN s]
BY DEF totalCount, FoldLeft, MapThenFoldSet

LEMMA TotalIs ==
  ASSUME NEW n \in Nat, NEW s \in [1 .. n -> Int]
  PROVE  \E h : SumsUp(h, s, n) /\ totalCount(s) = h[n]
<1> DEFINE step == [p \in Int \X (1 .. n) |-> p[1] + s[p[2]]]
           D == SUBSET (1 .. n)
           Eq(g) == g = [t \in D |-> IF t = {} THEN 0 ELSE g[t \ {Max(t)}] + s[Max(t)]]
           c == CHOOSE g : Eq(g)
           h == [k \in 0 .. n |-> c[1 .. k]]
<1>1. step \in [Int \X (1 .. n) -> Int]
  OBVIOUS
<1>2. PICK F \in [D -> Int] : FoldsTo(F, n, 0, step)
  <2> HIDE DEF step
  <2>1. 0 \in Int
    OBVIOUS
  <2>2. QED
    BY <1>1, <2>1, FoldExists
<1>3. \A t \in D : t # {} => Max(t) \in 1 .. n /\ t \ {Max(t)} \in D
  BY LastPlace
<1>4. \A t \in D : F[t] = IF t = {} THEN 0 ELSE F[t \ {Max(t)}] + s[Max(t)]
  <2> SUFFICES ASSUME NEW t \in D
               PROVE  F[t] = IF t = {} THEN 0 ELSE F[t \ {Max(t)}] + s[Max(t)]
    OBVIOUS
  <2>1. F[t] = IF t = {} THEN 0 ELSE step[<<F[t \ {Max(t)}], Max(t)>>]
    BY <1>2 DEF FoldsTo
  <2>2. CASE t = {}
    BY <2>1, <2>2
  <2>3. CASE t # {}
    BY <1>2, <1>3, <2>1, <2>3
  <2>4. QED
    BY <2>2, <2>3
<1>5. Eq(F)
  BY <1>2, <1>4
<1>6. Eq(c)
  <2> HIDE DEF Eq
  <2>1. QED
    BY <1>5
<1>7. totalCount(s) = c[1 .. n]
  <2>1. DOMAIN s = 1 .. n
    OBVIOUS
  <2>2. QED
    BY <2>1, TotalChoice
<1> HIDE DEF c
<1>8. c[1 .. 0] = 0 /\ \A k \in 1 .. n : c[1 .. k] = c[1 .. (k - 1)] + s[k]
  <2>1. c[{}] = 0 /\ 1 .. 0 = {}
    BY <1>6
  <2>2. ASSUME NEW k \in 1 .. n
        PROVE  c[1 .. k] = c[1 .. (k - 1)] + s[k]
    <3>1. 1 .. k \in D /\ 1 .. k # {} /\ Max(1 .. k) = k /\ (1 .. k) \ {Max(1 .. k)} = 1 .. (k - 1)
      BY FirstPlaces
    <3>2. QED
      BY <1>6, <3>1
  <2>3. QED
    BY <2>1, <2>2
<1>9. \A k \in 0 .. n : h[k] = c[1 .. k]
  OBVIOUS
<1> HIDE DEF h
<1>10. h[0] = 0 /\ \A k \in 1 .. n : h[k] = h[k - 1] + s[k]
  BY <1>8, <1>9
<1>11. \A k \in 0 .. n : h[k] \in Int
  <2> DEFINE T == {k \in Nat : k \in 0 .. n => h[k] \in Int}
  <2>1. 0 \in T
    BY <1>10
  <2>2. \A k \in Nat : k \in T => k + 1 \in T
    <3> SUFFICES ASSUME NEW k \in Nat, k \in T, k + 1 \in 0 .. n PROVE h[k + 1] \in Int
      OBVIOUS
    <3>1. h[k] \in Int /\ k + 1 \in 1 .. n /\ (k + 1) - 1 = k
      OBVIOUS
    <3>2. QED
      BY <1>10, <3>1
  <2> HIDE DEF T
  <2>3. Nat \subseteq T
    BY <2>1, <2>2, NatInductionSet
  <2>4. QED
    BY <2>3 DEF T
<1>12. h \in [0 .. n -> Int]
  BY <1>11 DEF h
<1>14. totalCount(s) = h[n]
  BY <1>7, <1>9
<1>13. QED
  BY <1>10, <1>12, <1>14 DEF SumsUp

LEMMA SumNat ==
  ASSUME NEW n \in Nat, NEW s \in [1 .. n -> Nat]
  PROVE  totalCount(s) \in Nat
<1>1. s \in [1 .. n -> Int]
  OBVIOUS
<1>2. PICK h : SumsUp(h, s, n) /\ totalCount(s) = h[n]
  BY <1>1, TotalIs
<1> DEFINE T == {k \in Nat : k \in 0 .. n => h[k] \in Nat}
<1>3. 0 \in T
  BY <1>2 DEF SumsUp
<1>4. \A k \in Nat : k \in T => k + 1 \in T
  <2> SUFFICES ASSUME NEW k \in Nat, k \in T, k + 1 \in 0 .. n PROVE h[k + 1] \in Nat
    OBVIOUS
  <2>1. h[k] \in Nat /\ k + 1 \in 1 .. n /\ (k + 1) - 1 = k
    OBVIOUS
  <2>2. h[k + 1] = h[(k + 1) - 1] + s[k + 1]
    BY <1>2, <2>1 DEF SumsUp
  <2>3. s[k + 1] \in Nat
    BY <2>1
  <2>4. QED
    BY <2>1, <2>2, <2>3
<1> HIDE DEF T
<1>5. Nat \subseteq T
  BY <1>3, <1>4, NatInductionSet
<1>6. n \in T /\ n \in 0 .. n
  BY <1>5
<1>7. QED
  BY <1>2, <1>6 DEF T

(* One number changed changes the sum by as much. *)
LEMMA SumChanged ==
  ASSUME NEW n \in Nat, NEW s \in [1 .. n -> Int], NEW t \in [1 .. n -> Int],
         NEW b \in 1 .. n, \A i \in 1 .. n : i # b => t[i] = s[i]
  PROVE  totalCount(t) = totalCount(s) - s[b] + t[b]
<1>1. PICK h : SumsUp(h, s, n) /\ totalCount(s) = h[n]
  BY TotalIs
<1>2. PICK g : SumsUp(g, t, n) /\ totalCount(t) = g[n]
  BY TotalIs
<1> DEFINE T == {k \in Nat : k \in 0 .. n =>
                   g[k] = IF k < b THEN h[k] ELSE h[k] - s[b] + t[b]}
<1>3. 0 \in T
  BY <1>1, <1>2 DEF SumsUp
<1>4. \A k \in Nat : k \in T => k + 1 \in T
  <2> SUFFICES ASSUME NEW k \in Nat, k \in T, k + 1 \in 0 .. n
               PROVE  g[k + 1] = IF k + 1 < b THEN h[k + 1] ELSE h[k + 1] - s[b] + t[b]
    OBVIOUS
  <2>1. /\ k \in 0 .. n /\ k + 1 \in 1 .. n /\ (k + 1) - 1 = k
        /\ g[k] = IF k < b THEN h[k] ELSE h[k] - s[b] + t[b]
    OBVIOUS
  <2>2. h[k + 1] = h[(k + 1) - 1] + s[k + 1] /\ g[k + 1] = g[(k + 1) - 1] + t[k + 1]
    BY <1>1, <1>2, <2>1 DEF SumsUp
  <2>3. h[k] \in Int /\ s[k + 1] \in Int /\ t[k + 1] \in Int /\ s[b] \in Int /\ t[b] \in Int
    BY <1>1, <2>1 DEF SumsUp
  <2>4. QED
    BY <2>1, <2>2, <2>3
<1> HIDE DEF T
<1>5. Nat \subseteq T
  BY <1>3, <1>4, NatInductionSet
<1>6. n \in T /\ n \in 0 .. n /\ ~(n < b)
  BY <1>5
<1>7. QED
  BY <1>1, <1>2, <1>6 DEF T

LEMMA SumTimes ==
  ASSUME NEW n \in Nat, NEW s \in [1 .. n -> Int], NEW u \in Int, NEW t \in [1 .. n -> Int],
         \A i \in 1 .. n : t[i] = s[i] * u
  PROVE  totalCount(t) = totalCount(s) * u
<1>1. PICK h : SumsUp(h, s, n) /\ totalCount(s) = h[n]
  BY TotalIs
<1>2. PICK g : SumsUp(g, t, n) /\ totalCount(t) = g[n]
  BY TotalIs
<1> DEFINE T == {k \in Nat : k \in 0 .. n => g[k] = h[k] * u}
<1>3. 0 \in T
  <2>1. h[0] = 0 /\ g[0] = 0 /\ 0 * u = 0
    BY <1>1, <1>2 DEF SumsUp
  <2>2. QED
    BY <2>1
<1>4. \A k \in Nat : k \in T => k + 1 \in T
  <2> SUFFICES ASSUME NEW k \in Nat, k \in T, k + 1 \in 0 .. n
               PROVE  g[k + 1] = h[k + 1] * u
    OBVIOUS
  <2>1. /\ k \in 0 .. n /\ k + 1 \in 1 .. n /\ (k + 1) - 1 = k
        /\ g[k] = h[k] * u
    OBVIOUS
  <2>2. h[k + 1] = h[(k + 1) - 1] + s[k + 1] /\ g[k + 1] = g[(k + 1) - 1] + t[k + 1]
    BY <1>1, <1>2, <2>1 DEF SumsUp
  <2>3. h[k] \in Int /\ s[k + 1] \in Int /\ t[k + 1] = s[k + 1] * u
    BY <1>1, <2>1 DEF SumsUp
  <2>4. \A x, y \in Int : x * u + y * u = (x + y) * u
    OBVIOUS
  <2>5. g[k + 1] = h[k] * u + s[k + 1] * u /\ h[k + 1] = h[k] + s[k + 1]
    BY <2>1, <2>2, <2>3
  <2>6. QED
    BY <2>3, <2>4, <2>5
<1> HIDE DEF T
<1>5. Nat \subseteq T
  BY <1>3, <1>4, NatInductionSet
<1>6. n \in T /\ n \in 0 .. n
  BY <1>5
<1>7. QED
  BY <1>1, <1>2, <1>6 DEF T

LEMMA SumZero ==
  ASSUME NEW n \in Nat, NEW s \in [1 .. n -> Int], \A i \in 1 .. n : s[i] = 0
  PROVE  totalCount(s) = 0
<1>1. \A i \in 1 .. n : s[i] = s[i] * 0
  OBVIOUS
<1>2. totalCount(s) = totalCount(s) * 0
  <2>1. 0 \in Int
    OBVIOUS
  <2>2. QED
    BY <1>1, <2>1, SumTimes
<1>3. totalCount(s) \in Int
  <2>1. s \in [1 .. n -> Nat]
    OBVIOUS
  <2>2. QED
    BY <2>1, SumNat
<1>4. QED
  BY <1>2, <1>3

-----------------------------------------------------------------------------
(* Factorials. *)

Factorials(f, n) ==
  /\ f \in [0 .. n -> Nat \ {0}] /\ f[0] = 1
  /\ \A k \in 1 .. n : f[k] = f[k - 1] * k

LEMMA ProductChoice ==
  ASSUME NEW den, NEW bins
  PROVE  LET s == [k \in 1 .. bins |-> k]
         IN Denominator(den, bins) =
           den * ((CHOOSE g : g = [t \in SUBSET DOMAIN s |->
                              IF t = {} THEN 1 ELSE g[t \ {Max(t)}] * s[Max(t)]])[DOMAIN s])
BY DEF Denominator, FoldLeft, MapThenFoldSet

LEMMA ProductIs ==
  ASSUME NEW n \in Nat, NEW den
  PROVE  \E f : Factorials(f, n) /\ Denominator(den, n) = den * f[n]
<1> DEFINE N == Nat \ {0}
           s == [k \in 1 .. n |-> k]
           step == [p \in N \X (1 .. n) |-> p[1] * s[p[2]]]
           D == SUBSET (1 .. n)
           Eq(g) == g = [t \in D |-> IF t = {} THEN 1 ELSE g[t \ {Max(t)}] * s[Max(t)]]
           c == CHOOSE g : Eq(g)
           h == [k \in 0 .. n |-> c[1 .. k]]
<1>0. s \in [1 .. n -> N] /\ DOMAIN s = 1 .. n /\ \A k \in 1 .. n : s[k] = k
  OBVIOUS
<1>1. step \in [N \X (1 .. n) -> N]
  OBVIOUS
<1>2. PICK F \in [D -> N] : FoldsTo(F, n, 1, step)
  <2> HIDE DEF step
  <2>1. 1 \in N
    OBVIOUS
  <2>2. QED
    BY <1>1, <2>1, FoldExists
<1>3. \A t \in D : t # {} => Max(t) \in 1 .. n /\ t \ {Max(t)} \in D
  BY LastPlace
<1>20. \A v \in N, k \in 1 .. n : step[<<v, k>>] = v * s[k]
  OBVIOUS
<1> HIDE DEF step
<1>4. \A t \in D : F[t] = IF t = {} THEN 1 ELSE F[t \ {Max(t)}] * s[Max(t)]
  <2> SUFFICES ASSUME NEW t \in D
               PROVE  F[t] = IF t = {} THEN 1 ELSE F[t \ {Max(t)}] * s[Max(t)]
    OBVIOUS
  <2>1. F[t] = IF t = {} THEN 1 ELSE step[<<F[t \ {Max(t)}], Max(t)>>]
    BY <1>2 DEF FoldsTo
  <2>2. CASE t = {}
    BY <2>1, <2>2
  <2>3. CASE t # {}
    <3>1. Max(t) \in 1 .. n /\ F[t \ {Max(t)}] \in N
      BY <1>2, <1>3, <2>3
    <3>2. QED
      BY <1>20, <2>1, <2>3, <3>1
  <2>4. QED
    BY <2>2, <2>3
<1>5. Eq(F)
  BY <1>2, <1>4
<1>6. Eq(c)
  <2> HIDE DEF Eq
  <2>1. QED
    BY <1>5
<1>7. Denominator(den, n) = den * c[1 .. n]
  BY <1>0, ProductChoice
<1> HIDE DEF c, s
<1>8. c[1 .. 0] = 1 /\ \A k \in 1 .. n : c[1 .. k] = c[1 .. (k - 1)] * k
  <2>1. c[{}] = 1 /\ 1 .. 0 = {}
    BY <1>6
  <2>2. ASSUME NEW k \in 1 .. n
        PROVE  c[1 .. k] = c[1 .. (k - 1)] * k
    <3>1. 1 .. k \in D /\ 1 .. k # {} /\ Max(1 .. k) = k /\ (1 .. k) \ {Max(1 .. k)} = 1 .. (k - 1)
      BY FirstPlaces
    <3>2. c[1 .. k] = c[(1 .. k) \ {Max(1 .. k)}] * s[Max(1 .. k)]
      BY <1>6, <3>1
    <3>3. s[Max(1 .. k)] = k
      BY <1>0, <3>1
    <3>4. QED
      BY <3>1, <3>2, <3>3
  <2>3. QED
    BY <2>1, <2>2
<1>9. \A k \in 0 .. n : h[k] = c[1 .. k]
  OBVIOUS
<1> HIDE DEF h
<1>10. h[0] = 1 /\ \A k \in 1 .. n : h[k] = h[k - 1] * k
  BY <1>8, <1>9
<1>11. \A k \in 0 .. n : h[k] \in N
  <2> DEFINE T == {k \in Nat : k \in 0 .. n => h[k] \in N}
  <2>1. 0 \in T
    BY <1>10
  <2>2. \A k \in Nat : k \in T => k + 1 \in T
    <3> SUFFICES ASSUME NEW k \in Nat, k \in T, k + 1 \in 0 .. n PROVE h[k + 1] \in N
      OBVIOUS
    <3>1. h[k] \in N /\ k + 1 \in 1 .. n /\ (k + 1) - 1 = k
      OBVIOUS
    <3>2. h[k + 1] = h[k] * (k + 1)
      BY <1>10, <3>1
    <3>3. \A x, y \in N : x * y \in N
      OBVIOUS
    <3>4. k + 1 \in N
      OBVIOUS
    <3>5. QED
      BY <3>1, <3>2, <3>3, <3>4
  <2> HIDE DEF T
  <2>3. Nat \subseteq T
    BY <2>1, <2>2, NatInductionSet
  <2>4. QED
    BY <2>3 DEF T
<1>12. h \in [0 .. n -> N]
  BY <1>11 DEF h
<1>14. Denominator(den, n) = den * h[n]
  BY <1>7, <1>9
<1>13. QED
  BY <1>10, <1>12, <1>14 DEF Factorials

(* A factorial is a multiple of the smaller ones. *)
LEMMA FactorialsDivide ==
  ASSUME NEW n \in Nat, NEW f, Factorials(f, n), NEW k \in 0 .. n
  PROVE  \E e \in Nat : f[n] = e * f[k]
<1> DEFINE T == {j \in Nat : k + j \in 0 .. n => \E e \in Nat : f[k + j] = e * f[k]}
<1>1. 0 \in T
  <2>1. f[k] \in Nat /\ k + 0 = k
    BY DEF Factorials
  <2>2. f[k] = 1 * f[k]
    BY <2>1
  <2>3. QED
    BY <2>1, <2>2
<1>2. \A j \in Nat : j \in T => j + 1 \in T
  <2> SUFFICES ASSUME NEW j \in Nat, j \in T, k + (j + 1) \in 0 .. n
               PROVE  \E e \in Nat : f[k + (j + 1)] = e * f[k]
    OBVIOUS
  <2>1. k + j \in 0 .. n /\ k + (j + 1) \in 1 .. n /\ (k + (j + 1)) - 1 = k + j
    OBVIOUS
  <2>2. PICK e \in Nat : f[k + j] = e * f[k]
    BY <2>1
  <2>3. f[k + (j + 1)] = (e * f[k]) * (k + (j + 1)) /\ f[k] \in Nat
    BY <2>1, <2>2 DEF Factorials
  <2>4. \A x, y, z \in Nat : (x * y) * z = (x * z) * y /\ x * z \in Nat
    OBVIOUS
  <2>5. k + (j + 1) \in Nat
    OBVIOUS
  <2>6. f[k + (j + 1)] = (e * (k + (j + 1))) * f[k] /\ e * (k + (j + 1)) \in Nat
    BY <2>3, <2>4, <2>5
  <2>7. QED
    BY <2>6
<1> HIDE DEF T
<1>3. Nat \subseteq T
  BY <1>1, <1>2, NatInductionSet
<1>4. n - k \in T /\ k + (n - k) = n /\ n \in 0 .. n
  BY <1>3
<1>5. QED
  BY <1>4 DEF T

-----------------------------------------------------------------------------
(* Sharing out. *)

(* What the bins not yet seen have. *)
Unseen(n, have, Seen) == [b \in 1 .. n |-> IF b \in Seen THEN 0 ELSE have[b]]

(* So far every bin gave all it has, no more than an even share of the rest. *)
AllGiven(n, have, f, m, Seen, left, quota) ==
  /\ \A b \in Seen : quota[b] = have[b] /\ quota[b] * m <= left
  /\ left <= totalCount(Unseen(n, have, Seen))
  /\ \E d \in Nat : left = d * f[m]

(* From some bin on each gives the same. *)
EvenlyGiven(n, have, m, Seen, left, quota) ==
  \E t \in Nat :
    /\ left = m * t
    /\ \A b \in (1 .. n) \ Seen : t <= have[b]
    /\ \A b \in Seen : quota[b] <= t /\ quota[b] <= have[b] /\ quota[b] \in {t, have[b]}

Shared(n, have, f, all, m, Seen, left, quota) ==
  /\ left \in Nat /\ quota \in [1 .. n -> Nat] /\ left + totalCount(quota) = all
  /\ \A b \in (1 .. n) \ Seen : quota[b] = 0
  /\ AllGiven(n, have, f, m, Seen, left, quota) \/ EvenlyGiven(n, have, m, Seen, left, quota)

LEMMA Divides ==
  ASSUME NEW m \in Nat \ {0}, NEW t \in Int
  PROVE  (t * m) \div m = t
<1>1. m * t = t * m /\ m * t + 0 = m * t
  OBVIOUS
<1>2. 0 \in 0 .. (m - 1)
  OBVIOUS
<1>3. (m * t + 0) \div m = t
  BY <1>2, DivModIs
<1>4. QED
  BY <1>1, <1>3

LEMMA EvenShare ==
  ASSUME NEW left \in Nat, NEW m \in Nat \ {0}
  PROVE  left \div m \in Nat /\ left \div m <= left
<1> DEFINE t == left \div m
           u == left % m
<1>1. t \in Int /\ u \in 0 .. (m - 1) /\ left = m * t + u
  BY DivMod
<1> HIDE DEF t, u
<1>2. ~(t < 0)
  <2> SUFFICES ASSUME t < 0 PROVE FALSE
    OBVIOUS
  <2>1. m * t + m <= m * 0
    BY <1>1, LessTimes
  <2>2. m * t \in Int /\ m * 0 = 0
    BY <1>1
  <2>3. QED
    BY <1>1, <2>1, <2>2
<1>3. t \in Nat
  BY <1>1, <1>2
<1>4. t <= m * t /\ m * t \in Nat
  BY <1>3
<1>5. t <= left
  BY <1>1, <1>3, <1>4
<1>6. QED
  BY <1>3, <1>5 DEF t

(* A bin takes its share, or all it has. *)
Taken(v, all, share) == v = IF all < share THEN all ELSE share

LEMMA TimesUp ==
  ASSUME NEW x \in Nat, NEW y \in Nat, NEW z \in Nat, x <= y
  PROVE  x * z <= y * z /\ x * z \in Nat /\ y * z \in Nat
OBVIOUS

LEMMA TimesLess ==
  ASSUME NEW x \in Nat, NEW m \in Nat \ {0}
  PROVE  x * (m - 1) = x * m - x /\ x * m \in Nat /\ (m - 1) * x = m * x - x /\ x * m = m * x
OBVIOUS

LEMMA TimesMinus ==
  ASSUME NEW x \in Int, NEW y \in Int, NEW z \in Int
  PROVE  x * z - y * z = (x - y) * z
OBVIOUS

LEMMA ShareStep ==
  ASSUME NEW n \in Nat, NEW have \in [1 .. n -> Nat], NEW f, Factorials(f, n), NEW all,
         \A a \in 1 .. n, k \in 0 .. n : \E e \in Nat : have[a] = e * f[k],
         NEW m \in 1 .. n, NEW Seen \in SUBSET (1 .. n), NEW b \in (1 .. n) \ Seen,
         \A a \in Seen : have[a] <= have[b],
         \A a \in (1 .. n) \ Seen : have[b] <= have[a],
         NEW left, NEW quota, Shared(n, have, f, all, m, Seen, left, quota),
         NEW v, Taken(v, have[b], left \div m)
  PROVE  Shared(n, have, f, all, m - 1, Seen \cup {b}, left - v, [quota EXCEPT ![b] = v])
<1> DEFINE q == [quota EXCEPT ![b] = v]
           target == left \div m
<1>1. left \in Nat /\ quota \in [1 .. n -> Nat] /\ left + totalCount(quota) = all /\ quota[b] = 0
  BY DEF Shared
<1>2. m \in Nat \ {0} /\ have[b] \in Nat /\ m - 1 \in 0 .. n
  OBVIOUS
<1>3. target \in Nat /\ target <= left
  BY <1>1, <1>2, EvenShare
<1> HIDE DEF target
<1>4. Taken(v, have[b], target)
  BY DEF target
<1>5. v \in Nat /\ v <= target /\ v <= have[b]
  BY <1>2, <1>3, <1>4 DEF Taken
<1>6. left - v \in Nat
  BY <1>1, <1>3, <1>5
<1>7. q \in [1 .. n -> Nat] /\ q[b] = v /\ \A a \in 1 .. n : a # b => q[a] = quota[a]
  BY <1>1, <1>5
<1> HIDE DEF q
<1>8. (left - v) + totalCount(q) = all
  <2>1. quota \in [1 .. n -> Int] /\ q \in [1 .. n -> Int]
    BY <1>1, <1>7
  <2>2. totalCount(q) = totalCount(quota) - quota[b] + q[b]
    BY <1>7, <2>1, SumChanged
  <2>3. totalCount(quota) \in Nat
    BY <1>1, SumNat
  <2>4. totalCount(q) = totalCount(quota) + v /\ totalCount(quota) \in Int /\ v \in Int
    BY <1>1, <1>5, <1>7, <2>2, <2>3
  <2>5. left \in Int /\ left + totalCount(quota) = all
    BY <1>1
  <2> HIDE DEF q
  <2>6. \A x, y, z \in Int : (x - z) + (y + z) = x + y
    OBVIOUS
  <2>7. QED
    BY <2>4, <2>5, <2>6
<1>9. \A a \in (1 .. n) \ (Seen \cup {b}) : q[a] = 0
  BY <1>7 DEF Shared
<1> DEFINE Next1 == AllGiven(n, have, f, m - 1, Seen \cup {b}, left - v, q)
           Next2 == EvenlyGiven(n, have, m - 1, Seen \cup {b}, left - v, q)
<1>10. ASSUME AllGiven(n, have, f, m, Seen, left, quota)
       PROVE  Next1 \/ Next2
  <2>1. /\ \A a \in Seen : quota[a] = have[a] /\ quota[a] * m <= left
        /\ left <= totalCount(Unseen(n, have, Seen))
    BY <1>10 DEF AllGiven
  <2>2. PICK d \in Nat : left = d * f[m]
    BY <1>10 DEF AllGiven
  <2>3. f[m - 1] \in Nat \ {0} /\ f[m] = f[m - 1] * m
    BY DEF Factorials
  <2> DEFINE p == d * f[m - 1]
  <2>4. left = p * m /\ p \in Nat
    <3>1. \A x, y, z \in Nat : x * (y * z) = (x * y) * z /\ x * y \in Nat
      OBVIOUS
    <3>2. f[m - 1] \in Nat /\ m \in Nat
      BY <1>2, <2>3
    <3>3. d * (f[m - 1] * m) = (d * f[m - 1]) * m /\ d * f[m - 1] \in Nat
      BY <3>1, <3>2
    <3>4. QED
      BY <2>2, <2>3, <3>3
  <2> HIDE DEF p
  <2>5. target = p
    BY <1>2, <2>4, Divides DEF target
  <2>6. CASE have[b] < target
    <3>1. v = have[b]
      BY <1>4, <2>6 DEF Taken
    <3>2. have[b] * m <= left
      <4>1. have[b] * m <= p * m
        <5>1. have[b] <= p /\ m \in Nat
          BY <1>2, <2>4, <2>5, <2>6
        <5>2. QED
          BY <1>2, <2>4, <5>1, TimesUp
      <4>2. QED
        BY <2>4, <4>1
    <3>3. ASSUME NEW a \in Seen \cup {b}
          PROVE  q[a] = have[a] /\ q[a] * (m - 1) <= left - v
      <4>1. q[a] = have[a]
        BY <1>7, <2>1, <3>1
      <4>2. have[a] <= have[b] /\ have[a] \in Nat
        OBVIOUS
      <4>3. have[a] * (m - 1) <= have[b] * (m - 1)
        <5>1. m - 1 \in Nat
          BY <1>2
        <5>2. QED
          BY <1>2, <4>2, <5>1, TimesUp
      <4>4. have[b] * (m - 1) = have[b] * m - have[b] /\ have[b] * m \in Nat
        BY <1>2, TimesLess
      <4>5. have[b] * (m - 1) <= left - v
        <5>1. left \in Int /\ have[b] \in Int /\ have[b] * m \in Int
          BY <1>1, <1>2, <4>4
        <5>2. have[b] * m - have[b] <= left - have[b]
          BY <3>2, <5>1
        <5>3. QED
          BY <3>1, <4>4, <5>2
      <4>6. have[a] * (m - 1) \in Int /\ have[b] * (m - 1) \in Int /\ left - v \in Int
        BY <1>2, <1>6, <4>2
      <4>7. QED
        BY <4>1, <4>3, <4>5, <4>6
    <3>4. left - v <= totalCount(Unseen(n, have, Seen \cup {b}))
      <4> DEFINE s == Unseen(n, have, Seen)
                 t == Unseen(n, have, Seen \cup {b})
      <4>1. s \in [1 .. n -> Nat] /\ t \in [1 .. n -> Nat]
        BY DEF Unseen
      <4>2. s[b] = have[b] /\ t[b] = 0 /\ \A a \in 1 .. n : a # b => t[a] = s[a]
        BY DEF Unseen
      <4>3. left <= totalCount(s)
        BY <2>1
      <4> HIDE DEF s, t
      <4>4. totalCount(t) = totalCount(s) - s[b] + t[b]
        <5>1. s \in [1 .. n -> Int] /\ t \in [1 .. n -> Int]
          BY <4>1
        <5>2. QED
          BY <4>2, <5>1, SumChanged
      <4>5. totalCount(s) \in Nat /\ totalCount(t) \in Nat
        BY <4>1, SumNat
      <4>6. left - v <= totalCount(t)
        <5>1. totalCount(t) = totalCount(s) - have[b] /\ left <= totalCount(s)
          BY <1>2, <4>2, <4>3, <4>4, <4>5
        <5>2. \A x, y, z \in Int : x <= y => x - z <= y - z
          OBVIOUS
        <5>3. left \in Int /\ totalCount(s) \in Int /\ have[b] \in Int
          BY <1>1, <1>2, <4>5
        <5>4. left - have[b] <= totalCount(s) - have[b]
          BY <5>1, <5>2, <5>3
        <5>5. QED
          BY <3>1, <5>1, <5>4
      <4>7. QED
        BY <4>6 DEF t
    <3>5. \E e \in Nat : left - v = e * f[m - 1]
      <4>1. PICK e \in Nat : have[b] = e * f[m - 1]
        BY <1>2
      <4>2. left = (d * m) * f[m - 1]
        <5>1. \A x, y, z \in Nat : x * (y * z) = (x * z) * y
          OBVIOUS
        <5>2. f[m - 1] \in Nat /\ m \in Nat
          BY <1>2, <2>3
        <5>3. d * (f[m - 1] * m) = (d * m) * f[m - 1]
          BY <5>1, <5>2
        <5>4. QED
          BY <2>2, <2>3, <5>3
      <4>3. d * m \in Nat
        BY <1>2
      <4>4. left - v = (d * m - e) * f[m - 1]
        <5>1. d * m \in Int /\ e \in Int /\ f[m - 1] \in Int
          BY <2>3, <4>3
        <5>2. (d * m) * f[m - 1] - e * f[m - 1] = (d * m - e) * f[m - 1]
          BY <5>1, TimesMinus
        <5>3. QED
          <6>1. left - v = left - have[b]
            BY <3>1
          <6>2. left - have[b] = (d * m) * f[m - 1] - e * f[m - 1]
            BY <4>1, <4>2
          <6>3. QED
            BY <5>2, <6>1, <6>2
      <4>5. d * m - e \in Nat
        <5> DEFINE x == d * m - e
        <5>1. x \in Int
          BY <4>3
        <5>2. x * f[m - 1] \in Nat
          BY <1>6, <4>4
        <5> HIDE DEF x
        <5>3. \A y \in Int, z \in Nat \ {0} : y < 0 => y * z < 0
          OBVIOUS
        <5>4. ~(x < 0)
          <6> SUFFICES ASSUME x < 0 PROVE FALSE
            OBVIOUS
          <6>1. x * f[m - 1] < 0
            BY <2>3, <5>1, <5>3
          <6>2. QED
            BY <5>2, <6>1
        <5>5. x \in Nat
          BY <5>1, <5>4
        <5>6. QED
          BY <5>5 DEF x
      <4>6. QED
        BY <4>4, <4>5
    <3>6. Next1
      BY <3>3, <3>4, <3>5 DEF AllGiven
    <3>7. QED
      BY <3>6
  <2>7. CASE ~(have[b] < target)
    <3>1. v = target
      BY <1>4, <2>7 DEF Taken
    <3>2. left - v = (m - 1) * target
      <4>1. p * m - p = (m - 1) * p
        BY <1>2, <2>4, TimesLess
      <4>2. QED
        BY <2>4, <2>5, <3>1, <4>1
    <3>3. target <= have[b]
      BY <1>2, <1>3, <2>7
    <3>4. \A a \in (1 .. n) \ (Seen \cup {b}) : target <= have[a]
      <4> SUFFICES ASSUME NEW a \in (1 .. n) \ (Seen \cup {b}) PROVE target <= have[a]
        OBVIOUS
      <4>1. have[b] <= have[a] /\ have[a] \in Nat
        OBVIOUS
      <4>2. QED
        BY <1>2, <1>3, <3>3, <4>1
    <3>5. ASSUME NEW a \in Seen \cup {b}
          PROVE  q[a] <= target /\ q[a] <= have[a] /\ q[a] \in {target, have[a]}
      <4>1. CASE a = b
        BY <1>2, <1>3, <1>7, <3>1, <3>3, <4>1
      <4>2. CASE a # b
        <5>1. a \in Seen /\ a \in 1 .. n
          BY <4>2
        <5>2. q[a] = have[a] /\ q[a] \in Nat /\ q[a] * m <= left
          BY <1>7, <2>1, <4>2, <5>1
        <5>3. q[a] <= target
          <6>1. q[a] * m <= target * m
            BY <2>4, <2>5, <5>2
          <6>2. \A x, y \in Nat, z \in Nat \ {0} : y < x => y * z + z <= x * z
            BY LessTimes
          <6>3. ~(target < q[a])
            <7> SUFFICES ASSUME target < q[a] PROVE FALSE
              OBVIOUS
            <7>1. target * m + m <= q[a] * m
              BY <1>2, <1>3, <5>2, <6>2
            <7>2. target * m \in Nat /\ q[a] * m \in Nat
              BY <1>2, <1>3, <5>2
            <7>3. QED
              BY <1>2, <6>1, <7>1, <7>2
          <6>4. QED
            BY <1>3, <5>2, <6>3
        <5>4. QED
          BY <5>2, <5>3
      <4>3. QED
        BY <4>1, <4>2
    <3>6. Next2
      BY <1>3, <3>2, <3>4, <3>5 DEF EvenlyGiven
    <3>7. QED
      BY <3>6
  <2>8. QED
    BY <2>6, <2>7
<1>11. ASSUME EvenlyGiven(n, have, m, Seen, left, quota)
       PROVE  Next1 \/ Next2
  <2>1. PICK t \in Nat :
          /\ left = m * t
          /\ \A a \in (1 .. n) \ Seen : t <= have[a]
          /\ \A a \in Seen : quota[a] <= t /\ quota[a] <= have[a] /\ quota[a] \in {t, have[a]}
    BY <1>11 DEF EvenlyGiven
  <2>2. target = t
    <3>1. left = t * m
      BY <1>2, <2>1
    <3>2. QED
      BY <1>2, <3>1, Divides DEF target
  <2>3. t <= have[b] /\ v = t
    <3>1. t <= have[b]
      BY <2>1
    <3>2. ~(have[b] < target)
      BY <1>2, <2>2, <3>1
    <3>3. QED
      BY <1>4, <2>2, <3>2 DEF Taken
  <2>4. left - v = (m - 1) * t
    BY <1>2, <2>1, <2>3, TimesLess
  <2>5. \A a \in (1 .. n) \ (Seen \cup {b}) : t <= have[a]
    BY <2>1
  <2>6. \A a \in Seen \cup {b} : q[a] <= t /\ q[a] <= have[a] /\ q[a] \in {t, have[a]}
    <3> SUFFICES ASSUME NEW a \in Seen \cup {b}
                 PROVE  q[a] <= t /\ q[a] <= have[a] /\ q[a] \in {t, have[a]}
      OBVIOUS
    <3>1. CASE a = b
      BY <1>7, <2>3, <3>1
    <3>2. CASE a # b
      BY <1>7, <2>1, <3>2
    <3>3. QED
      BY <3>1, <3>2
  <2>7. Next2
    BY <2>4, <2>5, <2>6 DEF EvenlyGiven
  <2>8. QED
    BY <2>7
<1>12. Next1 \/ Next2
  BY <1>10, <1>11 DEF Shared
<1>13. QED
  BY <1>6, <1>7, <1>8, <1>9, <1>12 DEF Shared, q

(* The bins in order, the rarest first. *)
Ascending(counts, order, n) ==
  /\ order \in [1 .. n -> 1 .. n]
  /\ \A i, j \in 1 .. n : order[i] = order[j] => i = j
  /\ \A b \in 1 .. n : \E i \in 1 .. n : order[i] = b
  /\ \A i, j \in 1 .. n : i <= j => counts[order[i]] <= counts[order[j]]

LEMMA InOrder ==
  ASSUME NEW n \in Nat, NEW counts \in [1 .. n -> Nat]
  PROVE  Ascending(counts, ByCount(counts), n)
<1> DEFINE B == 1 .. n
           key == [b \in B |-> counts[b] * (n + 1) + b]
           K == {key[b] : b \in B}
           Before(b) == {a \in B : Rarer(counts, a, b)}
           order == ByCount(counts)
<1>1. ASSUME NEW a \in B, NEW b \in B
      PROVE  /\ key[a] \in Nat
             /\ Rarer(counts, a, b) <=> key[a] < key[b]
             /\ key[a] = key[b] => a = b
             /\ key[a] < key[b] => counts[a] <= counts[b]
  <2> DEFINE x == counts[a]
             y == counts[b]
             m == n + 1
  <2>1. x \in Nat /\ y \in Nat /\ m \in Nat \ {0} /\ a \in 1 .. m - 1 /\ b \in 1 .. m - 1
    OBVIOUS
  <2>2. key[a] = m * x + a /\ key[b] = m * y + b
    <3>1. x * m = m * x /\ y * m = m * y
      BY <2>1
    <3>2. QED
      BY <3>1
  <2>3. Rarer(counts, a, b) <=> x < y \/ (x = y /\ a < b)
    BY DEF Rarer
  <2> HIDE DEF x, y, m, key
  <2>4. x < y => m * x + m <= m * y
    BY <2>1, LessTimes
  <2>5. y < x => m * y + m <= m * x
    BY <2>1, LessTimes
  <2>6. m * x \in Nat /\ m * y \in Nat
    BY <2>1
  <2>7. CASE x < y
    BY <2>1, <2>2, <2>3, <2>4, <2>6, <2>7 DEF x, y
  <2>8. CASE y < x
    BY <2>1, <2>2, <2>3, <2>5, <2>6, <2>8 DEF x, y
  <2>9. CASE x = y
    <3>1. m * x = m * y
      BY <2>9
    <3>2. QED
      BY <2>1, <2>2, <2>3, <2>6, <2>9, <3>1 DEF x, y
  <2>10. QED
    BY <2>1, <2>7, <2>8, <2>9
<1> HIDE DEF key
<1>2. IsFiniteSet(B) /\ Cardinality(B) = n
  <2>1. 1 \in Int /\ n \in Int
    OBVIOUS
  <2>2. IsFiniteSet(1 .. n) /\ Cardinality(1 .. n) = IF 1 > n THEN 0 ELSE n - 1 + 1
    BY <2>1, FS_Interval
  <2>3. QED
    BY <2>2
<1>3. K \subseteq Int /\ IsFiniteSet(K) /\ Cardinality(K) = n
  <2> DEFINE g == [b \in B |-> key[b]]
  <2>1. g \in [B -> K] /\ \A x, y \in B : g[x] = g[y] => x = y
    BY <1>1
  <2>2. \A k \in K : \E x \in B : g[x] = k
    OBVIOUS
  <2> HIDE DEF g
  <2>3. g \in Bijection(B, K)
    BY <2>1, <2>2 DEF Bijection, Injection, IsInjective, Surjection
  <2>4. ExistsBijection(B, K)
    BY <2>3 DEF ExistsBijection
  <2>5. IsFiniteSet(K) /\ Cardinality(K) = Cardinality(B)
    BY <1>2, <2>4, FS_Bijection
  <2>6. K \subseteq Int
    <3>1. \A b \in B : key[b] \in Int
      BY <1>1
    <3>2. QED
      BY <3>1
  <2>7. QED
    BY <1>2, <2>5, <2>6
<1>4. ASSUME NEW b \in B
      PROVE  Cardinality(Before(b)) = Cardinality(Smaller(K, key[b]))
  <2> DEFINE P == Before(b)
             Q == Smaller(K, key[b])
             g == [a \in P |-> key[a]]
  <2>1. \A a \in P : a \in B /\ key[a] \in Q
    BY <1>1 DEF Smaller
  <2>2. \A k \in Q : \E a \in P : key[a] = k
    BY <1>1 DEF Smaller
  <2>3. IsFiniteSet(P)
    <3>1. P \in SUBSET B
      OBVIOUS
    <3>2. QED
      BY <1>2, <3>1, FS_Subset
  <2> HIDE DEF P, Q
  <2>4. g \in [P -> Q] /\ \A x, y \in P : g[x] = g[y] => x = y
    BY <1>1, <2>1
  <2>5. \A k \in Q : \E x \in P : g[x] = k
    BY <2>2
  <2> HIDE DEF g
  <2>6. g \in Bijection(P, Q)
    BY <2>4, <2>5 DEF Bijection, Injection, IsInjective, Surjection
  <2>7. ExistsBijection(P, Q)
    BY <2>6 DEF ExistsBijection
  <2>8. Cardinality(Q) = Cardinality(P)
    BY <2>3, <2>7, FS_Bijection
  <2>9. QED
    BY <2>8 DEF P, Q
<1>5. /\ \A x \in K : Cardinality(Smaller(K, x)) \in 0 .. (n - 1)
      /\ \A x, y \in K : Cardinality(Smaller(K, x)) = Cardinality(Smaller(K, y)) => x = y
      /\ \A k \in 0 .. (n - 1) : \E x \in K : Cardinality(Smaller(K, x)) = k
  <2> HIDE DEF K
  <2>1. QED
    BY <1>3, SmallerCounts
<1>6. ASSUME NEW i \in B
      PROVE  order[i] \in B /\ Cardinality(Before(order[i])) = i - 1
  <2> DEFINE Is(b) == Cardinality(Before(b)) = i - 1
  <2>1. \E b \in B : Is(b)
    <3>1. i - 1 \in 0 .. (n - 1)
      OBVIOUS
    <3>2. PICK x \in K : Cardinality(Smaller(K, x)) = i - 1
      BY <1>5, <3>1
    <3>3. PICK b \in B : x = key[b]
      BY <3>2
    <3>4. Cardinality(Before(b)) = Cardinality(Smaller(K, key[b]))
      BY <1>4
    <3>5. QED
      BY <3>2, <3>3, <3>4
  <2>2. order[i] = CHOOSE b \in B : Is(b)
    <3>1. DOMAIN counts = B
      OBVIOUS
    <3>2. QED
      BY <3>1 DEF ByCount
  <2> HIDE DEF Is, order
  <2>3. order[i] \in B /\ Is(order[i])
    BY <2>1, <2>2
  <2>4. QED
    BY <2>3 DEF Is
<1>7. order = [i \in B |-> order[i]]
  <2> DEFINE at(i) == CHOOSE b \in DOMAIN counts :
                        Cardinality({a \in DOMAIN counts : Rarer(counts, a, b)}) = i - 1
  <2>1. DOMAIN counts = B
    OBVIOUS
  <2>2. order = [i \in DOMAIN counts |-> at(i)]
    BY DEF ByCount
  <2> HIDE DEF at, order
  <2>3. QED
    BY <2>1, <2>2
<1> HIDE DEF order
<1>8. order \in [B -> B]
  BY <1>6, <1>7
<1>9. \A i, j \in B : order[i] = order[j] => i = j
  <2> SUFFICES ASSUME NEW i \in B, NEW j \in B, order[i] = order[j] PROVE i = j
    OBVIOUS
  <2>1. i - 1 = j - 1
    BY <1>6
  <2>2. QED
    BY <2>1
<1>10. ASSUME NEW b \in B
       PROVE  \E i \in B : order[i] = b
  <2> DEFINE i == Cardinality(Before(b)) + 1
  <2>1. key[b] \in K
    OBVIOUS
  <2>2. Cardinality(Before(b)) \in 0 .. (n - 1)
    BY <1>4, <1>5, <2>1
  <2>3. i \in B /\ i - 1 = Cardinality(Before(b))
    BY <2>2
  <2> HIDE DEF i
  <2>4. order[i] \in B /\ Cardinality(Before(order[i])) = i - 1
    BY <1>6, <2>3
  <2>5. key[order[i]] \in K
    BY <2>4
  <2>6. Cardinality(Smaller(K, key[order[i]])) = Cardinality(Smaller(K, key[b]))
    <3>1. Cardinality(Before(order[i])) = Cardinality(Smaller(K, key[order[i]]))
      BY <1>4, <2>4
    <3>2. Cardinality(Before(b)) = Cardinality(Smaller(K, key[b]))
      BY <1>4
    <3>3. QED
      BY <2>3, <2>4, <3>1, <3>2
  <2>7. key[order[i]] = key[b]
    BY <1>5, <2>1, <2>5, <2>6
  <2>8. order[i] = b
    BY <1>1, <2>4, <2>7
  <2>9. QED
    BY <2>3, <2>8
<1>11. ASSUME NEW i \in B, NEW j \in B, i <= j
       PROVE  counts[order[i]] <= counts[order[j]]
  <2> DEFINE a == order[i]
             b == order[j]
  <2>1. a \in B /\ b \in B /\ Cardinality(Before(a)) = i - 1 /\ Cardinality(Before(b)) = j - 1
    BY <1>6
  <2> HIDE DEF a, b
  <2>2. CASE key[b] < key[a]
    <3>1. Smaller(K, key[b]) \in SUBSET Smaller(K, key[a])
      <4>1. \A k \in K : k \in Int
        BY <1>3
      <4>2. key[a] \in Nat /\ key[b] \in Nat
        BY <1>1, <2>1
      <4>3. \A k \in K : k < key[b] => k < key[a]
        <5>1. \A x, y, z \in Int : y < x /\ z < y => z < x
          OBVIOUS
        <5>2. key[a] \in Int /\ key[b] \in Int
          BY <4>2
        <5> HIDE DEF K
        <5>3. QED
          BY <2>2, <4>1, <5>1, <5>2
      <4>4. QED
        BY <4>3 DEF Smaller
    <3>2. IsFiniteSet(Smaller(K, key[a])) /\ IsFiniteSet(Smaller(K, key[b]))
      <4>1. Smaller(K, key[a]) \in SUBSET K /\ Smaller(K, key[b]) \in SUBSET K
        BY DEF Smaller
      <4>2. QED
        BY <1>3, <4>1, FS_Subset
    <3>3. Cardinality(Smaller(K, key[b])) <= Cardinality(Smaller(K, key[a]))
      BY <3>1, <3>2, FS_Subset
    <3>4. j - 1 <= i - 1
      BY <1>4, <2>1, <3>3
    <3>5. i = j
      BY <1>11, <3>4
    <3>6. a = b
      BY <3>5 DEF a, b
    <3>7. QED
      BY <1>1, <2>1, <2>2, <3>6
  <2>3. CASE ~(key[b] < key[a])
    <3>1. key[a] \in Nat /\ key[b] \in Nat /\ counts[a] \in Nat
      BY <1>1, <2>1
    <3>2. key[a] < key[b] \/ key[a] = key[b]
      BY <2>3, <3>1
    <3>3. counts[a] <= counts[b]
      BY <1>1, <2>1, <3>1, <3>2
    <3>4. QED
      BY <3>3 DEF a, b
  <2>4. QED
    BY <2>2, <2>3
<1>12. QED
  BY <1>8, <1>9, <1>10, <1>11 DEF Ascending, order

LEMMA PdfChoice ==
  ASSUME NEW counts, NEW total, NEW num, NEW den
  PROVE  calculate_pdf(total, counts, num, den) =
           ((CHOOSE g : g = [k \in 0 .. Len(counts) |->
               IF k = 0 THEN [left |-> total * num * (Denominator(den, Len(counts)) \div den),
                              quota |-> [b \in DOMAIN counts |-> 0]]
               ELSE TakeShare(g[k - 1], Len(counts) - k + 1, ByCount(counts)[k],
                              counts[ByCount(counts)[k]] * Denominator(den, Len(counts)))])[Len(counts)]).quota
BY DEF calculate_pdf

(* The quotas are shared out one bin after the other. *)
SharedOut(g, start, n, order, have) ==
  /\ g[0] = start
  /\ \A k \in 1 .. n : g[k] = TakeShare(g[k - 1], n - k + 1, order[k], have[order[k]])

(* What calculate_pdf returns for m bins: the quotas after the last bin. *)
SharesOf(total, counts, num, den, m) ==
  \E g : /\ SharedOut(g, [left |-> total * num * (Denominator(den, m) \div den), quota |-> [b \in 1 .. m |-> 0]],
                       m, ByCount(counts), [b \in 1 .. m |-> counts[b] * Denominator(den, m)])
         /\ calculate_pdf(total, counts, num, den) = g[m].quota

(* calculate_pdf is the loop over the bins, the rarest first. *)
LEMMA PdfIs ==
  ASSUME NEW counts, Len(counts) \in Nat, counts \in [1 .. Len(counts) -> Nat], NEW total \in Int, NEW num \in Int,
         NEW den, Denominator(den, Len(counts)) \in Int, Denominator(den, Len(counts)) \div den \in Int
  PROVE  SharesOf(total, counts, num, den, Len(counts))
<1> DEFINE unit == Denominator(den, Len(counts))
           order == ByCount(counts)
           have == [b \in 1 .. Len(counts) |-> counts[b] * unit]
           start == [left |-> total * num * (unit \div den), quota |-> [b \in DOMAIN counts |-> 0]]
           S == [left : Int, quota : [1 .. Len(counts) -> Int]]
           D == 0 .. Len(counts)
           Deal(v, k) == TakeShare(v, Len(counts) - k + 1, order[k], counts[order[k]] * unit)
           Eq(g) == g = [k \in D |-> IF k = 0 THEN start ELSE Deal(g[k - 1], k)]
           c == CHOOSE g : Eq(g)
<1>1. order \in [1 .. Len(counts) -> 1 .. Len(counts)]
  BY InOrder DEF Ascending
<1>2. \A b \in 1 .. Len(counts) : have[b] = counts[b] * unit /\ have[b] \in Int
  <2>1. unit \in Int
    OBVIOUS
  <2> HIDE DEF unit
  <2>2. QED
    BY <2>1
<1>3. start \in S
  <2>1. total * num * (unit \div den) \in Int
    <3> DEFINE w == unit \div den
    <3>1. w \in Int
      OBVIOUS
    <3> HIDE DEF w
    <3>2. total * num * w \in Int
      BY <3>1
    <3>3. QED
      BY <3>2 DEF w
  <2>2. [b \in DOMAIN counts |-> 0] \in [1 .. Len(counts) -> Int]
    OBVIOUS
  <2>3. QED
    BY <2>1, <2>2
<1> HIDE DEF unit, order, start, have
<1>4. \A v \in S, k \in 1 .. Len(counts) : Deal(v, k) \in S
  <2> SUFFICES ASSUME NEW v \in S, NEW k \in 1 .. Len(counts) PROVE Deal(v, k) \in S
    OBVIOUS
  <2> DEFINE target == v.left \div (Len(counts) - k + 1)
             taken == IF counts[order[k]] * unit < target THEN counts[order[k]] * unit ELSE target
  <2>1. Len(counts) - k + 1 \in Nat \ {0} /\ order[k] \in 1 .. Len(counts)
    BY <1>1
  <2>2. v.left \in Int /\ v.quota \in [1 .. Len(counts) -> Int]
    OBVIOUS
  <2>3. target \in Int
    BY <2>1, <2>2, DivMod
  <2> HIDE DEF target
  <2>4. taken \in Int
    BY <1>2, <2>1, <2>3
  <2> DEFINE w == v.left - taken
             q == [v.quota EXCEPT ![order[k]] = taken]
  <2>5. Deal(v, k) = [left |-> w, quota |-> q]
    BY DEF TakeShare, target
  <2> HIDE DEF taken, Deal
  <2>6. w \in Int
    BY <2>2, <2>4
  <2>7. q \in [1 .. Len(counts) -> Int]
    <3>1. \A f \in [1 .. Len(counts) -> Int], i \in 1 .. Len(counts), x \in Int : [f EXCEPT ![i] = x] \in [1 .. Len(counts) -> Int]
      OBVIOUS
    <3>2. QED
      BY <2>1, <2>2, <2>4, <3>1
  <2> HIDE DEF w, q
  <2>8. QED
    BY <2>5, <2>6, <2>7
<1> HIDE DEF Deal
<1>5. \E g : Eq(g)
  <2> DEFINE m == [k \in D |-> k]
             next == [k \in D |-> IF k = 0 THEN 0 ELSE k - 1]
             Stop == {0}
             base == [k \in D |-> start]
             step == [p \in D \X S |-> IF p[1] = 0 THEN p[2] ELSE Deal(p[2], p[1])]
  <2>1. m \in [D -> Nat] /\ next \in [D -> D]
    OBVIOUS
  <2>2. base \in [D -> S]
    BY <1>3
  <2>3. step \in [D \X S -> S]
    <3> HIDE DEF S
    <3>1. \A p \in D \X S : p[2] \in S /\ (p[1] # 0 => p[1] \in 1 .. Len(counts))
      OBVIOUS
    <3>2. QED
      BY <1>4, <3>1
  <2>4. \A k \in D \ Stop : m[next[k]] < m[k]
    OBVIOUS
  <2>5. \A k \in D : base[k] = start /\ (k # 0 => next[k] = k - 1)
    OBVIOUS
  <2>6. \A k \in D, v \in S : k # 0 => step[<<k, v>>] = Deal(v, k)
    <3> HIDE DEF S
    <3>1. QED
      OBVIOUS
  <2> HIDE DEF m, next, base, step, S
  <2>7. PICK g \in [D -> S] : \A k \in D : Unfolds(g, k, Stop, base, step, next)
    BY <2>1, <2>2, <2>3, <2>4, RecursionExists
  <2>8. \A k \in D : g[k] = IF k = 0 THEN start ELSE Deal(g[k - 1], k)
    <3> SUFFICES ASSUME NEW k \in D PROVE g[k] = IF k = 0 THEN start ELSE Deal(g[k - 1], k)
      OBVIOUS
    <3>1. g[k] = IF k \in Stop THEN base[k] ELSE step[<<k, g[next[k]]>>]
      BY <2>7 DEF Unfolds
    <3>2. CASE k = 0
      BY <2>5, <3>1, <3>2
    <3>3. CASE k # 0
      <4>1. g[k] = step[<<k, g[k - 1]>>] /\ g[k - 1] \in S
        <5>1. k - 1 \in D
          BY <3>3
        <5>2. g[k - 1] \in S
          BY <2>7, <5>1
        <5>3. QED
          BY <2>5, <3>1, <3>3, <5>2
      <4>2. QED
        BY <2>6, <3>3, <4>1
    <3>4. QED
      BY <3>2, <3>3
  <2>9. g = [k \in D |-> g[k]]
    BY <2>7
  <2>10. Eq(g)
    BY <2>8, <2>9
  <2>11. QED
    BY <2>10
<1>6. Eq(c)
  <2> HIDE DEF Eq
  <2>1. QED
    BY <1>5
<1>7. calculate_pdf(total, counts, num, den) = c[Len(counts)].quota
  BY PdfChoice DEF start, order, unit, Deal
<1> HIDE DEF c
<1>8. c[0] = start /\ \A k \in 1 .. Len(counts) : c[k] = Deal(c[k - 1], k)
  BY <1>6
<1>9. \A k \in 1 .. Len(counts) : c[k] = TakeShare(c[k - 1], Len(counts) - k + 1, order[k], have[order[k]])
  BY <1>1, <1>2, <1>8 DEF Deal
<1>10. start = [left |-> total * num * (unit \div den), quota |-> [b \in 1 .. Len(counts) |-> 0]]
  <2>1. DOMAIN counts = 1 .. Len(counts)
    OBVIOUS
  <2>2. QED
    BY <2>1 DEF start
<1> DEFINE first == [left |-> total * num * (unit \div den), quota |-> [b \in 1 .. Len(counts) |-> 0]]
<1>11. SharedOut(c, first, Len(counts), order, have)
  <2> HIDE DEF first
  <2>1. start = first
    BY <1>10 DEF first
  <2>2. QED
    BY <1>8, <1>9, <2>1 DEF SharedOut
<1>12. QED
  BY <1>7, <1>11 DEF SharesOf, order, have, unit

(* What the sharing starts from. *)
LEMMA ShareStart ==
  ASSUME NEW n \in Nat, NEW f, Factorials(f, n), NEW counts \in [1 .. n -> Nat], NEW unit \in Nat,
         NEW den \in Nat \ {0}, unit = den * f[n], NEW num \in Nat, num <= den,
         NEW have, have = [b \in 1 .. n |-> counts[b] * unit],
         NEW all, all = totalCount(counts) * num * f[n],
         NEW quota, quota = [b \in 1 .. n |-> 0]
  PROVE  Shared(n, have, f, all, n, {}, all, quota)
<1> DEFINE tot == totalCount(counts)
           fn == f[n]
<1>1. tot \in Nat /\ fn \in Nat
  <2>1. tot \in Nat
    BY SumNat
  <2>2. fn \in Nat
    BY DEF Factorials
  <2>3. QED
    BY <2>1, <2>2
<1>2. quota \in [1 .. n -> Nat] /\ \A b \in 1 .. n : quota[b] = 0
  OBVIOUS
<1>3. totalCount(quota) = 0
  <2>1. quota \in [1 .. n -> Int]
    BY <1>2
  <2>2. QED
    BY <1>2, <2>1, SumZero
<1>4. have \in [1 .. n -> Int] /\ \A b \in 1 .. n : have[b] = counts[b] * unit
  <2>1. \A b \in 1 .. n : counts[b] * unit \in Int
    OBVIOUS
  <2>2. QED
    BY <2>1
<1>5. totalCount(have) = tot * unit
  <2>1. counts \in [1 .. n -> Int] /\ unit \in Int
    OBVIOUS
  <2>2. QED
    BY <1>4, <2>1, SumTimes
<1>6. Unseen(n, have, {}) = have
  BY <1>4 DEF Unseen
<1> HIDE DEF tot, fn
<1>7. all = (tot * num) * fn /\ tot * num \in Nat /\ all \in Nat
  <2>1. all = tot * num * fn
    BY DEF tot, fn
  <2>2. tot * num \in Nat
    BY <1>1
  <2>3. \A x, y \in Nat : x * y \in Nat
    OBVIOUS
  <2>4. QED
    BY <1>1, <2>1, <2>2, <2>3
<1>8. all <= tot * unit
  <2>1. unit = den * fn
    BY DEF fn
  <2>2. tot * (den * fn) = (tot * den) * fn
    <3>1. \A x, y, z \in Nat : x * (y * z) = (x * y) * z
      OBVIOUS
    <3>2. QED
      BY <1>1, <3>1
  <2>3. num * tot <= den * tot
    BY <1>1, TimesUp
  <2>4. tot * num = num * tot /\ tot * den = den * tot /\ den * tot \in Nat /\ num * tot \in Nat
    BY <1>1
  <2>5. (num * tot) * fn <= (den * tot) * fn
    BY <1>1, <2>3, <2>4, TimesUp
  <2>6. QED
    BY <1>7, <2>1, <2>2, <2>4, <2>5
<1>9. all <= totalCount(Unseen(n, have, {}))
  BY <1>5, <1>6, <1>8
<1>10. \E d \in Nat : all = d * f[n]
  BY <1>7 DEF fn
<1>11. AllGiven(n, have, f, n, {}, all, quota)
  BY <1>9, <1>10 DEF AllGiven
<1>12. all + totalCount(quota) = all
  BY <1>3, <1>7
<1>13. QED
  BY <1>2, <1>7, <1>11, <1>12 DEF Shared

(* What it ends with. *)
LEMMA ShareEnd ==
  ASSUME NEW n \in Nat, NEW have \in [1 .. n -> Nat], NEW f, NEW all, NEW left, NEW quota,
         Shared(n, have, f, all, 0, 1 .. n, left, quota)
  PROVE  /\ quota \in [1 .. n -> Nat] /\ totalCount(quota) = all
         /\ \A a, b \in 1 .. n : /\ quota[a] <= have[a]
                                 /\ quota[a] < quota[b] => quota[a] = have[a]
<1>1. left \in Nat /\ quota \in [1 .. n -> Nat] /\ left + totalCount(quota) = all
  BY DEF Shared
<1>2. totalCount(quota) \in Nat
  BY <1>1, SumNat
<1>3. ASSUME AllGiven(n, have, f, 0, 1 .. n, left, quota)
      PROVE  /\ left = 0
             /\ \A a, b \in 1 .. n : /\ quota[a] <= have[a]
                                     /\ quota[a] < quota[b] => quota[a] = have[a]
  <2>1. \A a \in 1 .. n : quota[a] = have[a]
    BY <1>3 DEF AllGiven
  <2> DEFINE s == Unseen(n, have, 1 .. n)
  <2>2. s \in [1 .. n -> Int] /\ \A a \in 1 .. n : s[a] = 0
    BY DEF Unseen
  <2>3. left <= totalCount(s)
    BY <1>3 DEF AllGiven
  <2> HIDE DEF s
  <2>4. totalCount(s) = 0
    BY <2>2, SumZero
  <2>5. left = 0
    BY <1>1, <2>3, <2>4
  <2>6. \A a \in 1 .. n : quota[a] <= have[a]
    BY <2>1
  <2>7. QED
    BY <2>1, <2>5, <2>6
<1>4. ASSUME EvenlyGiven(n, have, 0, 1 .. n, left, quota)
      PROVE  /\ left = 0
             /\ \A a, b \in 1 .. n : /\ quota[a] <= have[a]
                                     /\ quota[a] < quota[b] => quota[a] = have[a]
  <2>1. PICK t \in Nat :
          /\ left = 0 * t
          /\ \A a \in 1 .. n : quota[a] <= t /\ quota[a] <= have[a] /\ quota[a] \in {t, have[a]}
    BY <1>4 DEF EvenlyGiven
  <2>2. left = 0
    BY <2>1
  <2>3. ASSUME NEW a \in 1 .. n, NEW b \in 1 .. n, quota[a] < quota[b]
        PROVE  quota[a] = have[a]
    <3>1. quota[a] \in Nat /\ quota[b] \in Nat /\ quota[b] <= t
      BY <1>1, <2>1
    <3>2. quota[a] # t
      BY <2>3, <3>1
    <3>3. QED
      BY <2>1, <3>2
  <2>4. QED
    BY <2>1, <2>2, <2>3
<1>5. /\ left = 0
      /\ \A a, b \in 1 .. n : /\ quota[a] <= have[a]
                              /\ quota[a] < quota[b] => quota[a] = have[a]
  BY <1>3, <1>4 DEF Shared
<1>6. QED
  BY <1>1, <1>2, <1>5

(* What SampleShared says of one sample. *)
WellShared(counts, num, den, n) ==
  LET unit == Denominator(den, n)
      quota == calculate_pdf(totalCount(counts), counts, num, den)
  IN /\ totalCount(quota) * den = totalCount(counts) * num * unit
     /\ \A a, b \in 1 .. n :
          /\ quota[a] <= counts[a] * unit
          /\ quota[a] < quota[b] => quota[a] = counts[a] * unit

(* calculate_pdf, for all counts of bins and every share of them: the quotas *)
(* add up to exactly the share asked for, no bin gives more values than it   *)
(* has, and a bin that gives fewer than another gives all it has, although   *)
(* what each may give is decided bin by bin from what is then left.          *)
THEOREM SharesAddUp ==
  ASSUME NEW n \in Nat, NEW counts \in [1 .. n -> Nat],
         NEW num \in Nat, NEW den \in Nat \ {0}, num <= den
  PROVE  /\ calculate_pdf(totalCount(counts), counts, num, den) \in [1 .. n -> Nat]
         /\ WellShared(counts, num, den, n)
<1>0. Len(counts) = n
  OBVIOUS
<1> DEFINE unit == Denominator(den, n)
           order == ByCount(counts)
           total == totalCount(counts)
           have == [b \in 1 .. n |-> counts[b] * unit]
           quota == calculate_pdf(total, counts, num, den)
<1>1. PICK f : Factorials(f, n) /\ unit = den * f[n]
  BY ProductIs
<1>2. f[n] \in Nat \ {0} /\ unit \in Nat /\ unit \div den = f[n]
  <2>1. f[n] \in Nat \ {0}
    BY <1>1 DEF Factorials
  <2> DEFINE w == f[n]
  <2>2. w \in Nat /\ den \in Nat /\ den * w \in Nat /\ den * w = w * den
    BY <2>1
  <2>3. w \in Int
    BY <2>2
  <2> HIDE DEF w, unit
  <2>4. (w * den) \div den = w
    BY <2>3, Divides
  <2>5. unit = w * den
    BY <1>1, <2>2 DEF w
  <2>6. QED
    BY <2>1, <2>2, <2>4, <2>5 DEF w
<1>3. total \in Nat
  BY SumNat
<1> DEFINE all == total * num * f[n]
           none == [b \in 1 .. n |-> 0]
           start == [left |-> all, quota |-> none]
<1>4. PICK g : SharedOut(g, start, n, order, have) /\ quota = g[n].quota
  <2>1. Denominator(den, n) \in Int /\ Denominator(den, n) \div den \in Int
    BY <1>2
  <2>2. total \in Int /\ num \in Int /\ Len(counts) \in Nat /\ counts \in [1 .. Len(counts) -> Nat]
    BY <1>3
  <2> HIDE DEF total
  <2>3. SharesOf(total, counts, num, den, Len(counts))
    <3>1. Denominator(den, Len(counts)) \in Int /\ Denominator(den, Len(counts)) \div den \in Int
      BY <2>1
    <3>2. QED
      BY <2>2, <3>1, PdfIs
  <2>4. SharesOf(total, counts, num, den, n)
    <3>1. Len(counts) = n
      OBVIOUS
    <3>2. QED
      BY <2>3, <3>1
  <2>5. Denominator(den, n) \div den = f[n]
    BY <1>2
  <2>6. QED
    BY <2>4, <2>5 DEF SharesOf
<1>5. Ascending(counts, order, n)
  BY InOrder
<1>6. have \in [1 .. n -> Nat] /\ \A b \in 1 .. n : have[b] = counts[b] * unit
  <2> HIDE DEF unit
  <2>1. \A b \in 1 .. n : counts[b] * unit \in Nat
    BY <1>2
  <2>2. QED
    BY <2>1
<1>7. \A i, j \in 1 .. n : i <= j => have[order[i]] <= have[order[j]]
  <2> SUFFICES ASSUME NEW i \in 1 .. n, NEW j \in 1 .. n, i <= j
               PROVE  have[order[i]] <= have[order[j]]
    OBVIOUS
  <2> HIDE DEF order, have, unit
  <2>1. order[i] \in 1 .. n /\ order[j] \in 1 .. n /\ counts[order[i]] <= counts[order[j]]
    BY <1>5 DEF Ascending
  <2>2. counts[order[i]] \in Nat /\ counts[order[j]] \in Nat
    BY <2>1
  <2>3. counts[order[i]] * unit <= counts[order[j]] * unit
    BY <1>2, <2>1, <2>2, TimesUp
  <2>4. QED
    BY <1>6, <2>1, <2>3
<1>8. \A a \in 1 .. n, k \in 0 .. n : \E e \in Nat : have[a] = e * f[k]
  <2> SUFFICES ASSUME NEW a \in 1 .. n, NEW k \in 0 .. n
               PROVE  \E e \in Nat : have[a] = e * f[k]
    OBVIOUS
  <2> HIDE DEF have, unit
  <2>1. PICK e \in Nat : f[n] = e * f[k]
    BY <1>1, FactorialsDivide
  <2>2. f[k] \in Nat
    BY <1>1 DEF Factorials
  <2>3. have[a] = counts[a] * (den * (e * f[k])) /\ counts[a] \in Nat
    BY <1>1, <1>6, <2>1
  <2>4. \A w, x, y, z \in Nat : w * (x * (y * z)) = ((w * x) * y) * z
    <3>1. \A w, x, v \in Nat : w * (x * v) = (w * x) * v /\ w * x \in Nat
      OBVIOUS
    <3>2. QED
      BY <3>1
  <2>5. have[a] = ((counts[a] * den) * e) * f[k]
    BY <2>2, <2>3, <2>4
  <2>6. (counts[a] * den) * e \in Nat
    <3>1. \A x, y \in Nat : x * y \in Nat
      OBVIOUS
    <3>2. QED
      BY <2>3, <3>1
  <2>7. QED
    BY <2>5, <2>6
<1> DEFINE Seen(k) == {order[i] : i \in 1 .. k}
           Inv(k) == Shared(n, have, f, all, n - k, Seen(k), g[k].left, g[k].quota)
<1>9. Inv(0)
  <2>1. Shared(n, have, f, all, n, {}, all, none)
    <3> HIDE DEF unit
    <3>1. unit = den * f[n] /\ unit \in Nat
      BY <1>1, <1>2
    <3>2. QED
      BY <1>1, <3>1, ShareStart
  <2>2. g[0] = start
    BY <1>4 DEF SharedOut
  <2>3. start.left = all /\ start.quota = none
    OBVIOUS
  <2>4. Seen(0) = {} /\ n - 0 = n
    OBVIOUS
  <2> HIDE DEF all, none, start, Seen, have
  <2>5. QED
    BY <2>1, <2>2, <2>3, <2>4
<1>10. ASSUME NEW k \in Nat, k + 1 \in 0 .. n, Inv(k)
       PROVE  Inv(k + 1)
  <2> HIDE DEF order, have, unit, all, start
  <2> DEFINE b == order[k + 1]
             m == n - k
             v == IF have[b] < g[k].left \div m THEN have[b] ELSE g[k].left \div m
  <2>1. k + 1 \in 1 .. n /\ (k + 1) - 1 = k /\ m \in 1 .. n /\ m - 1 = n - (k + 1)
        /\ n - (k + 1) + 1 = m
    <3> HIDE DEF Inv, b, v
    <3>1. k \in Nat /\ k + 1 \in 0 .. n /\ n \in Nat
      BY <1>10
    <3>2. k + 1 <= n /\ 1 <= k + 1 /\ (k + 1) - 1 = k /\ n - k \in 1 .. n
      BY <3>1
    <3>3. (n - k) - 1 = n - (k + 1) /\ n - (k + 1) + 1 = n - k
      BY <3>1
    <3>4. QED
      BY <3>1, <3>2, <3>3
  <2>2. g[k + 1] = TakeShare(g[k], m, b, have[b])
    BY <1>4, <2>1 DEF SharedOut
  <2>3. g[k + 1].left = g[k].left - v /\ g[k + 1].quota = [g[k].quota EXCEPT ![b] = v]
    BY <2>2 DEF TakeShare
  <2>4. Taken(v, have[b], g[k].left \div m)
    BY DEF Taken
  <2> HIDE DEF v, m
  <2>5. b \in 1 .. n /\ Seen(k) \in SUBSET (1 .. n) /\ b \notin Seen(k) /\ Seen(k + 1) = Seen(k) \cup {b}
    <3>1. order \in [1 .. n -> 1 .. n] /\ \A i, j \in 1 .. n : order[i] = order[j] => i = j
      BY <1>5 DEF Ascending
    <3>2. 1 .. k \subseteq 1 .. n /\ k + 1 \notin 1 .. k /\ 1 .. (k + 1) = (1 .. k) \cup {k + 1}
      BY <2>1
    <3>3. b \notin Seen(k)
      BY <2>1, <3>1, <3>2
    <3>4. b \in 1 .. n /\ Seen(k) \in SUBSET (1 .. n)
      BY <2>1, <3>1, <3>2
    <3>5. Seen(k + 1) = Seen(k) \cup {b}
      BY <3>2
    <3>6. QED
      BY <3>3, <3>4, <3>5
  <2>6. \A a \in Seen(k) : have[a] <= have[b]
    <3> SUFFICES ASSUME NEW i \in 1 .. k PROVE have[order[i]] <= have[b]
      OBVIOUS
    <3>1. i \in 1 .. n /\ i <= k + 1
      BY <2>1
    <3>2. QED
      BY <1>7, <2>1, <3>1
  <2>7. \A a \in (1 .. n) \ Seen(k) : have[b] <= have[a]
    <3> SUFFICES ASSUME NEW a \in (1 .. n) \ Seen(k) PROVE have[b] <= have[a]
      OBVIOUS
    <3>1. PICK i \in 1 .. n : order[i] = a
      BY <1>5 DEF Ascending
    <3>2. i \notin 1 .. k
      BY <3>1
    <3>3. k + 1 <= i
      BY <2>1, <3>2
    <3>4. QED
      BY <1>7, <2>1, <3>1, <3>3
  <2>8. Shared(n, have, f, all, m, Seen(k), g[k].left, g[k].quota)
    BY <1>10 DEF m
  <2> HIDE DEF b, Seen
  <2>9. b \in (1 .. n) \ Seen(k)
    BY <2>5
  <2>10. Shared(n, have, f, all, m - 1, Seen(k) \cup {b}, g[k].left - v, [g[k].quota EXCEPT ![b] = v])
    BY <1>1, <1>6, <1>8, <2>1, <2>4, <2>5, <2>6, <2>7, <2>8, <2>9, ShareStep
  <2>11. QED
    BY <2>1, <2>3, <2>5, <2>10
<1> HIDE DEF Inv
<1> DEFINE T == {k \in Nat : k \in 0 .. n => Inv(k)}
<1>11. 0 \in T
  BY <1>9
<1>12. \A k \in Nat : k \in T => k + 1 \in T
  <2> SUFFICES ASSUME NEW k \in Nat, k \in T, k + 1 \in 0 .. n PROVE Inv(k + 1)
    OBVIOUS
  <2>1. Inv(k)
    <3>1. k \in 0 .. n
      OBVIOUS
    <3>2. QED
      BY <3>1
  <2>2. QED
    BY <1>10, <2>1
<1> HIDE DEF T
<1>13. Nat \subseteq T
  BY <1>11, <1>12, NatInductionSet
<1>14. Inv(n)
  BY <1>13 DEF T
<1>15. Shared(n, have, f, all, 0, 1 .. n, g[n].left, quota)
  <2>1. Seen(n) = 1 .. n
    BY <1>5 DEF Ascending
  <2>2. n - n = 0
    OBVIOUS
  <2> HIDE DEF Seen, all, have
  <2>3. QED
    BY <1>4, <1>14, <2>1, <2>2 DEF Inv
<1>16. /\ quota \in [1 .. n -> Nat] /\ totalCount(quota) = all
       /\ \A a, b \in 1 .. n : /\ quota[a] <= have[a]
                               /\ quota[a] < quota[b] => quota[a] = have[a]
  <2> DEFINE last == g[n].left
  <2> HIDE DEF have, all, quota, last
  <2>1. Shared(n, have, f, all, 0, 1 .. n, last, quota)
    BY <1>15 DEF last
  <2>2. have \in [1 .. n -> Nat]
    BY <1>6
  <2>3. QED
    BY <2>1, <2>2, ShareEnd
<1>17. totalCount(quota) * den = total * num * unit
  <2> HIDE DEF quota, total, unit
  <2> DEFINE w == f[n]
             x == total * num
  <2>1. totalCount(quota) = x * w /\ unit = den * w /\ w \in Nat
    BY <1>1, <1>2, <1>16
  <2>2. x \in Nat
    BY <1>3
  <2> HIDE DEF x, w
  <2>3. \A i, j, k \in Nat : (i * j) * k = i * (k * j)
    OBVIOUS
  <2>4. (x * w) * den = x * (den * w)
    BY <2>1, <2>2, <2>3
  <2>5. totalCount(quota) * den = x * unit
    BY <2>1, <2>4
  <2>6. QED
    BY <2>5 DEF x
<1> HIDE DEF quota, have, unit
<1>18. \A a, b \in 1 .. n : /\ quota[a] <= counts[a] * unit
                            /\ quota[a] < quota[b] => quota[a] = counts[a] * unit
  BY <1>6, <1>16
<1>19. QED
  BY <1>16, <1>17, <1>18 DEF quota, unit, total, WellShared

=============================================================================
