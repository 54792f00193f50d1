--------------------------- MODULE FilterPrograms ---------------------------
(***************************************************************************)
(* What the filters of vtk-h do, as programs: the steps of Update, with    *)
(* PreExecute, DoExecute and PostExecute, in the order of the code.        *)
(*                                                                         *)
(* An operation is a record: name, f (the field, if any), map (AddMapField,*)
(* {} for none) and its parameters.  The steps work on registers, which    *)
(* hold pointers to data sets: in and out are m_input and m_output, old is *)
(* the old_input of the code, temp and other are local variables; slices   *)
(* is the vector of Slice.  A local data set is deleted when its scope     *)
(* ends.                                                                   *)
(***************************************************************************)
EXTENDS DomainWork, MergeContours, ScalarImages

(* A collective question q about field f of a data set. *)
Ask(q, of, f) == [do |-> "ask", q |-> q, of |-> of, f |-> f]
If(test, f, then, else) ==
  [do |-> "if", test |-> test, f |-> f, then |-> then, else |-> else]
(* An exception unless the test holds. *)
Check(test, f) == [do |-> "check", test |-> test, f |-> f]
(* The same, where the rank looks at its own domains of a data set. *)
CheckOwn(test, of, f) == [do |-> "check", test |-> test, of |-> of, f |-> f]
(* A new data set from work on each domain of another, or the same one. *)
Map(work, from, to) == [do |-> "map", work |-> work, from |-> from, to |-> to]
Overwrite(work, of) == [do |-> "overwrite", work |-> work, of |-> of]
(* The Update of another filter. *)
Update(op, from, to) == [do |-> "update", op |-> op, from |-> from, to |-> to]
Delete(reg) == [do |-> "delete", reg |-> reg]
Assign(to, from) == [do |-> "assign", to |-> to, from |-> from]
Do(step) == [do |-> step]

-----------------------------------------------------------------------------
(* Questions that several filters ask. *)

(* Mutant of CheckForRequiredField: each rank looks at its own domains. *)
CheckForRequiredFieldLocally(f) == <<Check("has", f)>>

CheckForRequiredField(f) == <<Ask("exists", "in", f), Check("exists", f)>>

(* Mutant of GetFieldAssociation: only ranks with the field go on. *)
GetFieldAssociationLocally(of, f) ==
  <<Ask("exists", of, f),
    If("has", f, <<Ask("assoc", of, f), Check("assoc", f)>>, <<>>)>>

GetFieldAssociation(of, f) ==
  <<Ask("exists", of, f),
    If("exists", f, <<Ask("assoc", of, f), Check("assoc", f)>>, <<>>)>>

(* GetRange first, which throws if domains of this rank differ in their      *)
(* components.  The two reductions are made for each; here once for all.     *)
GetGlobalRange(of, f) ==
  <<CheckOwn("alike", of, f), Ask("rangeComps", of, f), Check("range", f),
    If("ranged", f, <<Ask("rangeLo", of, f), Ask("rangeHi", of, f)>>, <<>>)>>

IsPointMesh(of) ==
  <<Ask("empty", of, ""), If("empty", "", <<>>, <<Ask("points", of, "")>>)>>

(* A cell field is first averaged to the points, on a copy of the input.    *)
ToPoints(f) ==
  <<Assign("old", "in")>> \o GetFieldAssociation("in", f) \o
  <<If("cells", f,
       <<Update([name |-> "Recenter", f |-> f, map |-> {}, assoc |-> "points"],
                "in", "in")>>, <<>>)>>

DeleteRecentered(f) == <<If("cells", f, <<Do("restore")>>, <<>>)>>

CleanGridOf(from) == Update([name |-> "CleanGrid", f |-> "", map |-> {}], from, "out")

-----------------------------------------------------------------------------
(* Filters that work on one domain after the other. *)

CleanGrid(op) == <<Map(op, "in", "out")>>
NoOp(op) == CheckForRequiredField(op.f) \o <<Map(op, "in", "out")>>
PointTransform(op) == <<Map(op, "in", "out")>>
Triangulate(op) == <<Map(op, "in", "out")>>
Tetrahedralize(op) == <<Map(op, "in", "out")>>
Recenter(op) == CheckForRequiredField(op.f) \o <<Map(op, "in", "out")>>
Lagrangian(op) == CheckForRequiredField(op.f) \o <<Map(op, "in", "out")>>
VectorMagnitude(op) == CheckForRequiredField(op.f) \o <<Map(op, "in", "out")>>

CellAverage(op) ==
  CheckForRequiredField(op.f) \o <<Check("named", ""), Map(op, "in", "out")>>
PointAverage(op) ==
  CheckForRequiredField(op.f) \o <<Check("named", ""), Map(op, "in", "out")>>

GhostStripper(op) ==
  <<Check("ordered", "")>> \o CheckForRequiredField(op.f) \o <<Map(op, "in", "out")>>

VectorComponent(op) ==
  CheckForRequiredField(op.f) \o
  <<Ask("comps", "in", op.f), Check("component", op.f), Check("named", ""),
    Map(op, "in", "out")>>

CompositeVector(op) ==
  LET Each(Of(_)) == FlattenSeq([i \in DOMAIN op.fields |-> Of(op.fields[i])])
  IN Each(CheckForRequiredField) \o
     Each(LAMBDA f : <<Ask("comps", "in", f)>>) \o <<Check("scalars", "")>> \o
     Each(LAMBDA f : GetFieldAssociation("in", f)) \o
     <<Check("sameAssoc", ""), Check("named", ""), Map(op, "in", "out")>>

Log(op) ==
  CheckForRequiredField(op.f) \o GetGlobalRange("in", op.f) \o
  <<Check("positive", op.f), Map(op, "in", "out")>>

ParticleMerging(op) ==
  CheckForRequiredField(op.f) \o IsPointMesh("in") \o
  <<Check("pointMesh", ""), Map(op, "in", "out")>>

-----------------------------------------------------------------------------
(* Filters that use other filters. *)

Threshold(op) ==
  CheckForRequiredField(op.f) \o
  <<Map(op, "in", "temp"), CleanGridOf("temp"), Delete("temp")>>

ClipField(op) ==
  CheckForRequiredField(op.f) \o ToPoints(op.f) \o <<Map(op, "in", "out")>> \o
  DeleteRecentered(op.f)

Gradient(op) ==
  CheckForRequiredField(op.f) \o ToPoints(op.f) \o <<Map(op, "in", "out")>> \o
  DeleteRecentered(op.f)

ClipAt(f, value, invert) ==
  [name |-> "ClipField", f |-> f, map |-> {}, at |-> value, invert |-> invert]

(* Mutant of IsoVolume: the part below the maximum is never deleted. *)
IsoVolumeLeaky(op) ==
  CheckForRequiredField(op.f) \o
  <<Update(ClipAt(op.f, op.hi, TRUE), "in", "temp"),
    Update(ClipAt(op.f, op.lo, FALSE), "temp", "other"),
    CleanGridOf("other"), Delete("other")>>

IsoVolume(op) ==
  CheckForRequiredField(op.f) \o
  <<Update(ClipAt(op.f, op.hi, TRUE), "in", "temp"),
    Update(ClipAt(op.f, op.lo, FALSE), "temp", "other"),
    Delete("temp"), CleanGridOf("other"), Delete("other")>>

(* Several planes: what lies before (behind) one of them (all of them).     *)
Clip(op) ==
  LET iso == [name |-> "IsoVolume", f |-> "mclip_field", map |-> {},
              lo |-> IF op.invert THEN -Inf ELSE 0,
              hi |-> IF op.invert THEN 0 ELSE Inf]
      multi == <<Map([op EXCEPT !.name = "mclip_field"], "in", "temp"),
                 Update(iso, "temp", "other"), Delete("temp"),
                 Map([op EXCEPT !.name = "copy"], "other", "temp"), Delete("other")>>
      single == <<Map(op, "in", "temp")>>
      clip == (IF Len(op.planes) > 1 THEN multi ELSE single) \o
              <<CleanGridOf("temp"), Delete("temp")>>
  IN <<Ask("domains", "in", ""),
       If("domains", "", clip, <<Map([op EXCEPT !.name = "copy"], "in", "out")>>)>>

(* With levels, the iso values divide the range of the field evenly. *)
MarchingCubes(op) ==
  CheckForRequiredField(op.f) \o
  (IF op.levels # -1 THEN GetGlobalRange("in", op.f) ELSE <<>>) \o
  <<Check("isos", op.f)>> \o ToPoints(op.f) \o
  <<Map(op, "in", "temp"), CleanGridOf("temp")>> \o DeleteRecentered(op.f) \o
  <<Delete("temp")>>

SliceContour ==
  [name |-> "MarchingCubes", f |-> "slice_field", map |-> {}, levels |-> -1, isos |-> <<0>>]

SliceField(op, s) == [name |-> "slice_field", f |-> "", plane |-> op.planes[s]]

(* Mutant of Slice: the distance to the plane is stored in the input. *)
SliceInPlace(op) ==
  <<Check("planes", "")>> \o
  FlattenSeq([s \in DOMAIN op.planes |->
    <<Overwrite(SliceField(op, s), "in"), Update(SliceContour, "in", "slices")>>]) \o
  <<Do(IF Len(op.planes) > 1 THEN "merge" ELSE "take")>>

Slice(op) ==
  <<Check("planes", "")>> \o
  FlattenSeq([s \in DOMAIN op.planes |->
    <<Map(SliceField(op, s), "in", "temp"),
      Update(SliceContour, "temp", "slices"), Delete("temp")>>]) \o
  <<Do(IF Len(op.planes) > 1 THEN "merge" ELSE "take")>>

-----------------------------------------------------------------------------
(* Functions that only compute something. *)

Histogram(of, op) ==
  <<Ask("domains", of, ""), Check("domains", ""),
    Ask("exists", of, op.f), Check("exists", op.f)>> \o
  (IF op.range.lo <= op.range.hi THEN <<>>
   ELSE GetGlobalRange(of, op.f) \o <<Check("scalar", op.f)>>) \o
  <<CheckOwn("castable", of, op.f), Ask("bins", of, op.f)>>

Statistics(op) ==
  CheckForRequiredField(op.f) \o <<CheckOwn("castable", "in", op.f)>> \o
  [i \in 1 .. 5 |-> Ask(<<"count", "sum", "sum2", "sum3", "sum4">>[i], "in", op.f)]

(* The field with the choice is added to the input, or the stripped copy. *)
HistSampling(op) ==
  CheckForRequiredField(op.f) \o
  (IF op.ghost = "" THEN <<Assign("temp", "in")>>
   ELSE <<Update([name |-> "GhostStripper", f |-> op.ghost, map |-> {},
                  lo |-> 0, hi |-> 0], "in", "temp")>>) \o
  Histogram("temp", op) \o GetFieldAssociation("temp", op.f) \o
  <<Overwrite([op EXCEPT !.name = "valSampled"], "temp"),
    Update([name |-> "Threshold", f |-> "valSampled", map |-> {}, lo |-> 1, hi |-> 1],
           "temp", "out")>> \o
  (IF op.ghost = "" THEN <<>> ELSE <<Delete("temp")>>)

(* BoundsMap: the blocks of this rank, then those of all. *)
BoundsMap(op) ==
  <<Do("clear"), CheckOwn("unique", "in", ""), Do("addBlocks"),
    Ask("blocks", "in", ""), Ask("boxes", "in", ""), Ask("ids", "in", ""), Do("build")>>

(* One image of the domains of all ranks; its Update is its own. *)
ScalarRenderer(op) ==
  <<Ask("vote", "in", ""),
    If("won", "",
       <<Ask("bounds", "in", ""), Ask("max_p", "in", ""), Ask("min_p", "in", ""),
         Check("payload", ""), Ask("image", "in", "")>>, <<>>),
    Do("picture"), Do("metadata")>>

Count(op) ==
  IF op.name = "AddCounter" THEN <<Check("new", ""), Do("addCounter")>>
  ELSE <<Check("counted", ""), Do("increment")>>

TotalVal(op) == <<Do("calcStats")>>

Query(op) ==
  CASE op.q = "range"  -> GetGlobalRange("in", op.f)
    [] op.q = "assoc"  -> GetFieldAssociation("in", op.f)
    [] op.q = "points" -> IsPointMesh("in")
    [] OTHER           -> <<Ask(op.q, "in", op.f)>>

CountingOps == {"AddCounter", "Increment", "TotalVal"}
Functions == {"Histogram", "Statistics", "BoundsMap", "Query"} \cup CountingOps

FilterNames ==
  {"CleanGrid", "NoOp", "PointTransform", "Triangulate", "Tetrahedralize", "Recenter",
   "Lagrangian", "VectorMagnitude", "CellAverage", "PointAverage", "GhostStripper",
   "VectorComponent", "CompositeVector", "Log", "ParticleMerging", "Threshold", "ClipField",
   "Gradient", "IsoVolume", "Clip", "MarchingCubes", "Slice", "HistSampling"}

Program(op) ==
  CASE op.name = "CleanGrid"       -> CleanGrid(op)
    [] op.name = "NoOp"            -> NoOp(op)
    [] op.name = "PointTransform"  -> PointTransform(op)
    [] op.name = "Triangulate"     -> Triangulate(op)
    [] op.name = "Tetrahedralize"  -> Tetrahedralize(op)
    [] op.name = "Recenter"        -> Recenter(op)
    [] op.name = "Lagrangian"      -> Lagrangian(op)
    [] op.name = "VectorMagnitude" -> VectorMagnitude(op)
    [] op.name = "CellAverage"     -> CellAverage(op)
    [] op.name = "PointAverage"    -> PointAverage(op)
    [] op.name = "GhostStripper"   -> GhostStripper(op)
    [] op.name = "VectorComponent" -> VectorComponent(op)
    [] op.name = "CompositeVector" -> CompositeVector(op)
    [] op.name = "Log"             -> Log(op)
    [] op.name = "ParticleMerging" -> ParticleMerging(op)
    [] op.name = "Threshold"       -> Threshold(op)
    [] op.name = "ClipField"       -> ClipField(op)
    [] op.name = "Gradient"        -> Gradient(op)
    [] op.name = "IsoVolume"       -> IsoVolume(op)
    [] op.name = "Clip"            -> Clip(op)
    [] op.name = "MarchingCubes"   -> MarchingCubes(op)
    [] op.name = "Slice"           -> Slice(op)
    [] op.name = "HistSampling"    -> HistSampling(op)
    [] op.name = "Histogram"       -> Histogram("in", op)
    [] op.name = "Statistics"      -> Statistics(op)
    [] op.name = "BoundsMap"       -> BoundsMap(op)
    [] op.name = "Query"           -> Query(op)
    [] op.name = "ScalarRenderer"  -> ScalarRenderer(op)
    [] op.name \in {"AddCounter", "Increment"} -> Count(op)
    [] op.name = "TotalVal"        -> TotalVal(op)

(* With logging, Update asks whether input and output are structured. *)
FilterUpdate(op, logging) ==
  LET Logged(of) == IF logging THEN <<Ask("structured", of, "")>> ELSE <<>>
  IN Logged("in") \o <<Do("mapFields")>> \o Program(op) \o <<Do("metadata")>> \o
     Logged("out")

Steps(op, logging) ==
  IF op.name \in Functions \cup {"ScalarRenderer"} THEN Program(op) ELSE FilterUpdate(op, logging)
=============================================================================
