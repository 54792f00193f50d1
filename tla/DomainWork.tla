----------------------------- MODULE DomainWork -----------------------------
(***************************************************************************)
(* The loops of the filters over the domains of this rank: what a filter   *)
(* makes of one domain, which domains it skips, and at which it throws.    *)
(* work is the operation (see FilterPrograms), sel the fields to pass on,  *)
(* and got what the collective questions of this filter have answered.     *)
(***************************************************************************)
EXTENDS GhostCells, Histograms

Field(assoc, comps, vals) == [assoc |-> assoc, comps |-> comps, vals |-> vals]

PointField(dom, name, vals) == AddField(dom, name, Field("points", 1, vals))

(* A new field in the place of field f; its values do not matter here. *)
Derived(dom, f, name, comps) ==
  AddField(dom, name, [dom.fields[f] EXCEPT !.comps = comps])

(* The interval Histogram works with: the one it was given, or the range.   *)
RangeOf(work, got) ==
  IF work.range.lo <= work.range.hi THEN work.range
  ELSE [lo |-> got[<<"rangeLo", work.f>>], hi |-> got[<<"rangeHi", work.f>>]]

(* The planes' implicit function is the greatest distance to one of them.   *)
MultiPlane(planes, point) ==
  FoldLeft(LAMBDA m, s : IF s > m THEN s ELSE m, -Inf,
    [i \in DOMAIN planes |-> (point - planes[i].at) * planes[i].normal])

RecenterField(dom, f, assoc) ==
  LET averaged == IF assoc = "points" THEN vtkmPointAverage(dom, f, "out", {})
                  ELSE vtkmCellAverage(dom, f, "out", {})
  IN IF ~HasField(dom, f) \/ dom.fields[f].assoc = assoc THEN dom
     ELSE AddField(dom, f, averaged.fields["out"])

IsoValues(work, got) ==
  IF work.levels = -1 THEN work.isos
  ELSE LET lo == got[<<"rangeLo", work.f>>]
           hi == got[<<"rangeHi", work.f>>]
       IN [i \in 1 .. work.levels |-> lo + (i * (hi - lo)) \div (work.levels + 1)]

(* Particles in one cell of a grid of the given width become one.           *)
MergeParticles(dom, f, width) ==
  LET Bin(p) == dom.points[p] \div width
      bins == Sorted({Bin(p) : p \in DOMAIN dom.points})
      In(b) == Sorted({p \in DOMAIN dom.points : Bin(p) = b})
      Mean(vals) == [b \in DOMAIN bins |-> Average(Pick(vals, In(bins[b])))]
  IN [dom EXCEPT
        !.cellset = "single", !.dims = <<>>, !.shape = 1,
        !.points = Mean(dom.points),
        !.conn = [b \in DOMAIN bins |-> <<b - 1>>],
        !.fields = [n \in {f} |-> [@[f] EXCEPT !.vals = Mean(@)]]]

(* 1 for the cells or points to keep, in a field of the overall association. *)
Sample(dom, work, got) ==
  LET bins == got[<<"bins", work.f>>]
      quota == calculate_pdf(totalCount(bins), bins, work.num, work.den)
  IN AddField(dom, "valSampled",
       Field(IF got[<<"assoc", work.f>>] = "points" THEN "points" ELSE "cells", 1,
             Lookup(dom.fields[work.f].vals, RangeOf(work, got), bins, quota,
                    Denominator(work.den, Len(bins)))))

(* Domains without the field are left out. *)
Skips(work, dom) ==
  /\ work.name \in {"Threshold", "ClipField", "MarchingCubes", "Gradient",
                    "CellAverage", "PointAverage", "GhostStripper"}
  /\ ~HasField(dom, work.f)

(* Domains without the field are passed on as they are. *)
Keeps(work, dom) ==
  \/ /\ work.name \in {"VectorComponent", "Log", "valSampled"}
     /\ ~HasField(dom, work.f)
  \/ /\ work.name = "CompositeVector"
     /\ ~HasField(dom, work.fields[1])

OnPointsOrCells(dom, f) == dom.fields[f].assoc \in {"points", "cells"}

(* The field is of a type the loop casts to.  VTK-m's common vectors have    *)
(* two to four components; GhostStripper casts when it cuts out a block.     *)
Castable(work, dom) ==
  LET field == dom.fields[work.f]
  IN CASE work.name \in {"VectorMagnitude", "VectorComponent"} -> field.comps \in 2 .. 4
       [] work.name = "Lagrangian" -> field.comps = 3
       [] work.name = "Log"        -> field.comps = 1
       [] work.name = "GhostStripper" ->
            \/ field.comps = 1 \/ ~IsStructured(dom)
            \/ \A i \in DOMAIN field.vals : Valid(field.vals[i], work.lo, work.hi)
       [] OTHER -> TRUE

(* The loop throws at this domain. *)
Throws(work, dom) ==
  \/ /\ work.name \in {"VectorMagnitude", "Lagrangian", "ParticleMerging"}
     /\ ~HasField(dom, work.f)
  \/ HasField(dom, work.f) /\ ~Castable(work, dom)
  \/ /\ work.name \in {"Log", "Recenter"}
     /\ HasField(dom, work.f)
     /\ ~OnPointsOrCells(dom, work.f)
  \/ /\ work.name = "CompositeVector"
     /\ HasField(dom, work.fields[1])
     /\ \E i \in DOMAIN work.fields :
          ~HasField(dom, work.fields[i]) \/ dom.fields[work.fields[i]].comps # 1

OnDomain(work, sel, got, dom) ==
  CASE work.name \in {"NoOp", "copy"} -> dom
    [] work.name = "CleanGrid"      -> vtkmCleanGrid(dom, sel)
    [] work.name = "Threshold"      -> vtkmThreshold(dom, work.f, work.lo, work.hi, sel)
    [] work.name = "ClipField"      -> vtkmClipWithField(dom, work.f, work.at, work.invert, sel)
    [] work.name = "Clip"           -> vtkmClip(dom, work.planes[1].at, work.invert, sel)
    [] work.name = "mclip_field"    ->
         PointField(dom, "mclip_field",
           [p \in DOMAIN dom.points |-> MultiPlane(work.planes, dom.points[p])])
    [] work.name = "slice_field"    ->
         PointField(dom, "slice_field",
           [p \in DOMAIN dom.points |-> work.plane - dom.points[p]])
    [] work.name = "MarchingCubes"  ->
         vtkmMarchingCubes(dom, work.f, IsoValues(work, got), sel)
    [] work.name = "Recenter"       -> RecenterField(dom, work.f, work.assoc)
    [] work.name = "Gradient"       -> vtkmGradient(dom, work.f, work.as, sel)
    [] work.name = "CellAverage"    -> vtkmCellAverage(dom, work.f, work.as, sel)
    [] work.name = "PointAverage"   -> vtkmPointAverage(dom, work.f, work.as, sel)
    [] work.name = "PointTransform" -> vtkmPointTransform(dom, work.shift, sel)
    [] work.name = "Triangulate"    -> vtkmTriangulate(dom, sel)
    [] work.name = "Tetrahedralize" -> vtkmTetrahedralize(dom, sel)
    [] work.name = "Lagrangian"     -> vtkmLagrangian(dom)
    [] work.name = "GhostStripper"  -> StripGhosts(dom, work.f, work.lo, work.hi, sel)
    [] work.name = "ParticleMerging" -> MergeParticles(dom, work.f, 2 * work.radius)
    [] work.name \in {"VectorMagnitude", "VectorComponent", "Log"} ->
         Derived(dom, work.f, work.as, 1)
    [] work.name = "CompositeVector" ->
         Derived(dom, work.fields[1], work.as, Len(work.fields))
    [] work.name = "valSampled"     -> Sample(dom, work, got)

(* These loops start from a copy of the data set, with its cycle. *)
Copies == {"copy", "mclip_field", "slice_field", "VectorComponent", "CompositeVector", "Log"}

Worked(work, sel, got, dom) ==
  IF Keeps(work, dom) THEN dom ELSE OnDomain(work, sel, got, dom)

(* The data set a loop makes. *)
MapDomains(work, sel, got, ds) ==
  [doms |-> FoldLeft(LAMBDA doms, dom :
                       IF Skips(work, dom) THEN doms
                       ELSE AddDomain(doms, Worked(work, sel, got, dom), dom.id),
                     <<>>, ds.doms),
   cycle |-> IF work.name \in Copies THEN ds.cycle ELSE NoData.cycle]
=============================================================================
