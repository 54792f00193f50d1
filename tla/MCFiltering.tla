---------------------------- MODULE MCFiltering -----------------------------
(***************************************************************************)
(* Three ranks; each script is one to five operations on one of a few      *)
(* distributions of small domains: several domains on a rank, a rank       *)
(* without domains, domains without the field, no data at all, ghosts, and *)
(* domains for which one rank throws and another does not.                 *)
(***************************************************************************)
EXTENDS FilteringProperties

(* A row of n cells from place x, with the fields every domain has. *)
Row(id, x, n, cellset) ==
  [id |-> id, cellset |-> cellset, shape |-> 3,
   dims |-> IF cellset = "structured" THEN <<n>> ELSE <<>>,
   points |-> [p \in 1 .. n + 1 |-> x + p - 1],
   conn |-> [c \in 1 .. n |-> <<c - 1, c>>],
   fields |-> [f \in {"p", "cid"} |->
     IF f = "p" THEN Field("points", 1, [p \in 1 .. n + 1 |-> (x + p) % 5])
     ELSE Field("cells", 1, [c \in 1 .. n |-> 10 * id + c])]]

WithCells(dom) ==
  AddField(dom, "c", Field("cells", 1, [c \in DOMAIN dom.conn |-> 2 * c + dom.id]))
WithVector(dom) ==
  AddField(dom, "v", Field("points", 3, [p \in DOMAIN dom.points |-> p]))
Full(dom) == WithVector(WithCells(dom))

(* 2 x 2 cells on 9 points. *)
Square(id, ghosts) ==
  AddField(
    [id |-> id, cellset |-> "structured", shape |-> 12, dims |-> <<2, 2>>,
     points |-> [p \in 1 .. 9 |-> p],
     conn |-> [c \in 1 .. 4 |-> LET at == c - 1 + (c - 1) \div 2
                               IN <<at, at + 1, at + 4, at + 3>>],
     fields |-> [f \in {"p", "cid"} |->
       IF f = "p" THEN Field("points", 1, [p \in 1 .. 9 |-> p])
       ELSE Field("cells", 1, [c \in 1 .. 4 |-> 10 * id + c])]],
    "g", Field("cells", 1, ghosts))

Vertices(id, xs) ==
  [id |-> id, cellset |-> "single", shape |-> 1, dims |-> <<>>, points |-> xs,
   conn |-> [c \in DOMAIN xs |-> <<c - 1>>],
   fields |-> [f \in {"p", "cid"} |->
     Field(IF f = "p" THEN "points" ELSE "cells", 1, [c \in DOMAIN xs |-> 10 * id + c])]]

Ghosts(dom, vals) == AddField(dom, "g", Field("cells", 1, vals))
Data(doms) == [doms |-> doms, cycle |-> 7]

Spread == <<Data(<<Full(Row(3, 0, 2, "explicit")), Full(Row(1, 2, 2, "structured"))>>),
            Data(<<Full(Row(5, 4, 2, "explicit"))>>), Data(<<>>)>>
OneRank == <<Data(<<>>), Data(<<Full(Row(2, 0, 3, "structured"))>>), Data(<<>>)>>
Holes == <<Data(<<Row(4, 0, 2, "structured")>>),
           Data(<<Full(Row(6, 2, 2, "structured")), Row(7, 4, 2, "structured")>>),
           Data(<<Full(Row(8, 6, 1, "explicit"))>>)>>
Nothing == <<Data(<<>>), Data(<<>>), Data(<<>>)>>
Conflict == <<Data(<<WithCells(Row(1, 0, 2, "explicit"))>>), Data(<<>>),
              Data(<<AddField(Row(2, 2, 2, "explicit"), "c", Field("points", 2, <<1, 2, 3>>))>>)>>
Whole == [i \in 1 .. 3 |->
            Data(<<AddField(Row(i, i, 2, "explicit"), "p", Field("whole", 1, <<i>>))>>)]
(* The same, and a rank without domains. *)
WholeApart == [Whole EXCEPT ![2] = Data(<<>>)]
(* The first rank's domains differ in the components of "c". *)
Mixed == <<Data(<<WithCells(Row(1, 0, 2, "explicit")),
                  AddField(Row(2, 2, 2, "explicit"), "c", Field("cells", 2, <<1, 2>>))>>),
           Data(<<WithCells(Row(3, 4, 2, "explicit"))>>), Data(<<>>)>>
(* Two domains of the first rank have one id. *)
Twins == <<Data(<<Row(1, 0, 2, "explicit"), Row(1, 2, 2, "explicit")>>),
           Data(<<Row(2, 4, 2, "explicit")>>), Data(<<>>)>>
VectorGhosts == <<Data(<<Square(1, <<0, 0, 0, 0>>)>>),
                  Data(<<AddField(Square(2, <<0, 0, 0, 0>>), "g",
                                  Field("cells", 2, <<1, 0, 0, 1>>))>>), Data(<<>>)>>
GhostLayers == <<Data(<<Square(1, <<0, 1, 0, 0>>), Square(2, <<0, 0, 1, 1>>)>>),
                 Data(<<Ghosts(Row(3, 0, 3, "explicit"), <<1, 0, 0>>),
                        Ghosts(Row(4, 9, 2, "structured"), <<0, 0>>)>>), Data(<<>>)>>
(* The first rank's last domain is empty; the nearest cells are on the second. *)
Views == <<Data(<<Row(1, 4, 2, "explicit"), Row(2, 9, 0, "explicit")>>),
           Data(<<Row(3, 6, 1, "structured"), Row(4, 2, 1, "explicit")>>), Data(<<>>)>>
(* Domains of the first rank differ in their scalar fields. *)
Uneven == <<Data(<<WithCells(Row(1, 0, 2, "explicit")), Row(2, 2, 2, "explicit")>>),
            Data(<<Row(3, 4, 2, "explicit")>>), Data(<<>>)>>
Particles == <<Data(<<Vertices(1, <<0, 1, 5>>)>>), Data(<<>>), Data(<<Vertices(2, <<>>)>>)>>

-----------------------------------------------------------------------------
Op(name, f) == [name |-> name, f |-> f, map |-> {}]
Between(name, f, lo, hi) ==
  [name |-> name, f |-> f, map |-> {}, lo |-> lo, hi |-> hi]
Named(name, f, as) == [name |-> name, f |-> f, map |-> {}, as |-> as]
Counter(name, n) == [name |-> name, f |-> "", map |-> {}, counter |-> n]
Question(q, f) == [name |-> "Query", f |-> f, map |-> {}, q |-> q]
Plane(at) == [at |-> at, normal |-> 1]
ClipBy(planes, invert) ==
  [name |-> "Clip", f |-> "", map |-> {}, planes |-> planes, invert |-> invert]
SliceBy(planes) == [name |-> "Slice", f |-> "", map |-> {}, planes |-> planes]
Contour(f, levels, isos) ==
  [name |-> "MarchingCubes", f |-> f, map |-> {}, levels |-> levels, isos |-> isos]
Bins(name, f, range, ghost) ==
  [name |-> name, f |-> f, map |-> {}, range |-> range, bins |-> 3, ghost |-> ghost,
   num |-> 1, den |-> 2]
Component(f, i) ==
  [name |-> "VectorComponent", f |-> f, map |-> {}, component |-> i, as |-> "x"]
Composite(fields) ==
  [name |-> "CompositeVector", f |-> "", map |-> {}, fields |-> fields, as |-> "w"]
LogOf(f, clamp) == [name |-> "Log", f |-> f, map |-> {}, clamp |-> clamp, as |-> "log"]

(* Filters of the data of any distribution with p, c and cid. *)
FieldOps == {
  Op("NoOp", "c"), Between("Threshold", "c", 4, 6), Between("IsoVolume", "c", 4, 6),
  ClipAt("c", 5, FALSE), Contour("c", 2, <<>>), Named("Gradient", "c", "grad"),
  Named("PointAverage", "c", "avg"), Bins("Histogram", "c", EmptyRange, ""),
  Bins("HistSampling", "c", EmptyRange, ""), Op("Statistics", "c"), LogOf("c", FALSE),
  Question("range", "c"), Question("assoc", "c"), Question("comps", "c")}

(* Operations that need no field, or one all domains have. *)
AnyOps == {
  [Between("Threshold", "p", 1, 3) EXCEPT !.map = {"p", "cid"}], Between("IsoVolume", "p", 1, 2),
  ClipAt("p", 3, TRUE), ClipBy(<<Plane(2)>>, FALSE), ClipBy(<<Plane(1), Plane(4)>>, TRUE),
  SliceBy(<<1>>), SliceBy(<<1, 2>>), Contour("p", -1, <<1, 2>>),
  Op("PointTransform", "") @@ [shift |-> 3], Op("CleanGrid", ""), Op("BoundsMap", ""),
  Bins("Histogram", "p", [lo |-> 1, hi |-> 3], ""), Composite(<<"p", "p">>),
  Question("points", ""), Question("structured", ""), Question("cells", ""), Question("domains", ""),
  Question("exists", "c")}

OtherOps == {
  Op("Triangulate", ""), Op("Tetrahedralize", ""), Op("VectorMagnitude", "v") @@ [as |-> "mag"],
  Component("v", 1), Named("CellAverage", "p", "avg"), Op("Lagrangian", "v"),
  Op("Recenter", "p") @@ [assoc |-> "cells"], LogOf("p", TRUE)}

FailingOps == {
  SliceBy(<<>>), Named("CellAverage", "p", ""), LogOf("p", FALSE), Contour("p", 0, <<>>),
  Component("p", 0), Component("v", 3), Between("GhostStripper", "p", 1, 0),
  Op("ParticleMerging", "p") @@ [radius |-> 1], Composite(<<"p", "c">>), Op("NoOp", "zz")}

(* A rank with domains throws in these, one without does not. *)
LoopOps == {
  Op("VectorMagnitude", "p") @@ [as |-> "mag"], Op("Lagrangian", "p"), LogOf("v", TRUE),
  Op("Statistics", "v"), Bins("Histogram", "v", [lo |-> 1, hi |-> 3], "")}
MixedOps == {
  Question("range", "c"), LogOf("c", TRUE), Contour("c", 2, <<>>), Op("Statistics", "c"),
  Bins("Histogram", "c", EmptyRange, ""), Bins("HistSampling", "c", EmptyRange, ""),
  Composite(<<"c", "c">>)}

OnHost(op) == [op |-> op, on |-> "host"]
OnLast(op) == [op |-> op, on |-> "last"]

Script(data, script, logging) == [data |-> data, script |-> script, logging |-> logging]

Single(distributions, ops) ==
  {Script(d, <<OnHost(op)>>, FALSE) : d \in distributions, op \in ops}

(* One filter after another. *)
First == {Between("Threshold", "c", 4, 6), Between("IsoVolume", "c", 4, 6),
          ClipBy(<<Plane(1), Plane(4)>>, TRUE), Bins("HistSampling", "c", EmptyRange, ""),
          Op("Recenter", "c") @@ [assoc |-> "points"], Contour("c", 2, <<>>)}
Second == {Between("Threshold", "p", 1, 3), Between("IsoVolume", "p", 1, 2),
           Contour("c", -1, <<5>>), Op("Gradient", "c") @@ [as |-> "grad"],
           Bins("Histogram", "c", EmptyRange, ""), Question("points", ""), Op("Triangulate", "")}

MCScenarios ==
  Single({Spread, OneRank, Holes}, FieldOps) \cup
  Single({Spread, OneRank, Nothing}, AnyOps) \cup
  Single({Spread}, OtherOps \cup FailingOps) \cup
  Single({Conflict}, {Op("NoOp", "c"), Question("assoc", "c"), Question("range", "c"),
                      Contour("c", -1, <<2>>)}) \cup
  Single({Whole}, {LogOf("p", TRUE), Op("Recenter", "p") @@ [assoc |-> "points"]}) \cup
  Single({Spread}, LoopOps) \cup Single({Mixed}, MixedOps) \cup
  Single({WholeApart}, {LogOf("p", TRUE), Op("Recenter", "p") @@ [assoc |-> "points"]}) \cup
  Single({Twins}, {Op("BoundsMap", "")}) \cup
  Single({VectorGhosts}, {Between("GhostStripper", "g", 0, 0)}) \cup
  {Script(d, <<OnHost(op), OnHost(next)>>, FALSE) :
     d \in {Mixed}, op \in {Question("range", "c"), Composite(<<"c", "c">>)},
     next \in {Op("NoOp", "p"), Op("NoOp", "zz")}} \cup
  Single({GhostLayers}, {Between("GhostStripper", "g", 0, 0),
                         Bins("HistSampling", "p", EmptyRange, "g")}) \cup
  Single({Particles}, {Op("ParticleMerging", "p") @@ [radius |-> 1], Question("points", "")}) \cup
  Single({Views, Uneven, Nothing, Spread}, {Op("ScalarRenderer", "")}) \cup
  {Script(Spread, <<OnHost(Counter("AddCounter", "cells")), OnHost(Counter("AddCounter", "steps")),
                    OnHost(Counter("Increment", "cells")), OnHost(Counter("TotalVal", "cells")),
                    OnHost(Counter("TotalVal", "steps"))>>, FALSE),
   Script(Nothing, <<OnHost(Counter("AddCounter", "cells")), OnHost(Counter("AddCounter", "cells"))>>,
          FALSE),
   Script(Nothing, <<OnHost(Counter("Increment", "cells"))>>, FALSE)} \cup
  {Script(Spread, <<OnHost(SliceBy(<<1, 2, 5>>))>>, FALSE)} \cup
  {Script(Spread, <<OnHost(a), OnLast(b)>>, FALSE) : a \in First, b \in Second} \cup
  {Script(Spread, <<OnHost(Between("Threshold", "c", 4, 6)), OnLast(Question("range", "c"))>>, TRUE),
   Script(Holes, <<OnHost(Question("assoc", "c")), OnHost(Op("NoOp", "p"))>>, FALSE),
   Script(Spread, <<OnHost(Op("BoundsMap", "")), OnHost(ClipBy(<<Plane(3)>>, FALSE)),
                    OnLast(Op("BoundsMap", ""))>>, FALSE)}

MCRanks == 1 .. 3
MCCounters == {"cells", "steps"}
=============================================================================
