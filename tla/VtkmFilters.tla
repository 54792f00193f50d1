---------------------------- MODULE VtkmFilters -----------------------------
(***************************************************************************)
(* The VTK-m filters vtk-h runs on one domain, with what the wrappers in   *)
(* vtkm_filters hand to them: the active field, the parameters and the     *)
(* selection of fields to pass on.  VTK-m is outside the repository; what  *)
(* its filters do is reduced to which cells, points and fields come out.   *)
(* Averages are integers.                                                  *)
(***************************************************************************)
EXTENDS DataSets

(* Only the selected fields are passed on. *)
Pass(dom, sel) ==
  [dom EXCEPT !.fields = [n \in DOMAIN @ \cap sel |-> @[n]]]

Pick(s, indices) == [i \in DOMAIN indices |-> s[indices[i]]]

(* The domain with these cells only, as an explicit cell set. *)
KeepCells(dom, cells) ==
  LET order == Sorted(cells)
  IN [dom EXCEPT
        !.cellset = "explicit", !.dims = <<>>,
        !.conn = Pick(@, order),
        !.fields = [n \in DOMAIN @ |->
          IF @[n].assoc = "cells" THEN [@[n] EXCEPT !.vals = Pick(@, order)]
          ELSE @[n]]]

(* The places in points of the corners of cell c. *)
Corners(dom, c) == {dom.conn[c][i] + 1 : i \in DOMAIN dom.conn[c]}

(* The value at cell c, for a point field the values at its corners. *)
ValuesAt(dom, f, c) ==
  LET field == dom.fields[f]
  IN IF field.assoc = "cells" THEN {field.vals[c]}
     ELSE {field.vals[p] : p \in Corners(dom, c)}

vtkmThreshold(dom, f, lo, hi, sel) ==
  Pass(KeepCells(dom, {c \in DOMAIN dom.conn :
                         \A v \in ValuesAt(dom, f, c) : lo <= v /\ v <= hi}), sel)

(* A cell that the surface cuts stays (in part). *)
vtkmClipWithField(dom, f, value, invert, sel) ==
  Pass(KeepCells(dom, {c \in DOMAIN dom.conn :
                         \E v \in ValuesAt(dom, f, c) :
                           IF invert THEN v <= value ELSE v >= value}), sel)

(* The implicit function is a plane: what lies behind it stays. *)
vtkmClip(dom, plane, invert, sel) ==
  Pass(KeepCells(dom, {c \in DOMAIN dom.conn :
                         \E p \in Corners(dom, c) :
                           IF invert THEN dom.points[p] <= plane
                           ELSE dom.points[p] >= plane}), sel)

(* Removes the points no cell uses.  No two points of a domain are in the   *)
(* same place here, so that there are none to merge.                        *)
vtkmCleanGrid(dom, sel) ==
  LET used == UNION {Corners(dom, c) : c \in DOMAIN dom.conn}
      order == Sorted(used)
      NewId(old) == Cardinality({p \in used : p < old})
  IN Pass([dom EXCEPT
        !.cellset = "explicit", !.dims = <<>>,
        !.points = Pick(@, order),
        !.conn = [c \in DOMAIN @ |->
                    [i \in DOMAIN @[c] |-> NewId(@[c][i] + 1)]],
        !.fields = [n \in DOMAIN @ |->
          IF @[n].assoc = "points" THEN [@[n] EXCEPT !.vals = Pick(@, order)]
          ELSE @[n]]], sel)

(* One triangle for each cell an iso value cuts, in a new place. *)
vtkmMarchingCubes(dom, f, isos, sel) ==
  LET Cut(c, iso) == \E v, w \in ValuesAt(dom, f, c) : v <= iso /\ iso < w
      cuts == FlattenSeq([i \in DOMAIN isos |->
                LET cells == Sorted({c \in DOMAIN dom.conn : Cut(c, isos[i])})
                IN [k \in DOMAIN cells |-> <<cells[k], i>>]])
      Corner(k) == [of |-> dom.id, cell |-> cuts[(k - 1) \div 3 + 1],
                    corner |-> (k - 1) % 3]
      First(k) == CHOOSE p \in Corners(dom, cuts[(k - 1) \div 3 + 1][1]) : TRUE
  IN [dom EXCEPT
        !.cellset = "explicit", !.dims = <<>>, !.shape = 5,
        !.points = [k \in 1 .. 3 * Len(cuts) |-> Corner(k)],
        !.conn = [t \in DOMAIN cuts |-> <<3 * t - 3, 3 * t - 2, 3 * t - 1>>],
        !.fields = [n \in DOMAIN @ \cap sel |->
          IF @[n].assoc = "cells"
          THEN [@[n] EXCEPT !.vals = [t \in DOMAIN cuts |-> @[cuts[t][1]]]]
          ELSE IF @[n].assoc = "points"
          THEN [@[n] EXCEPT !.vals = [k \in 1 .. 3 * Len(cuts) |-> @[First(k)]]]
          ELSE @[n]]]

Average(values) == FoldLeft(+, 0, values) \div Len(values)

(* A point without cells has the average 0. *)
vtkmPointAverage(dom, f, name, sel) ==
  LET Around(p) == Sorted({c \in DOMAIN dom.conn : p \in Corners(dom, c)})
      At(p) == IF Around(p) = <<>> THEN 0
               ELSE Average(Pick(dom.fields[f].vals, Around(p)))
  IN AddField(Pass(dom, sel), name,
       [assoc |-> "points", comps |-> dom.fields[f].comps,
        vals |-> [p \in DOMAIN dom.points |-> At(p)]])

vtkmCellAverage(dom, f, name, sel) ==
  LET At(c) == Average(Pick(dom.fields[f].vals, Sorted(Corners(dom, c))))
  IN AddField(Pass(dom, sel), name,
       [assoc |-> "cells", comps |-> dom.fields[f].comps,
        vals |-> [c \in DOMAIN dom.conn |-> At(c)]])

vtkmGradient(dom, f, name, sel) ==
  AddField(Pass(dom, sel), name,
    [assoc |-> "cells", comps |-> 3, vals |-> [c \in DOMAIN dom.conn |-> 0]])

vtkmPointTransform(dom, shift, sel) ==
  Pass([dom EXCEPT !.points = [p \in DOMAIN @ |-> @[p] + shift]], sel)

(* Triangulate and Tetrahedralize: other shapes, each cell in one piece. *)
vtkmTetrahedralize(dom, sel) ==
  Pass([dom EXCEPT !.cellset = "single", !.dims = <<>>, !.shape = 10], sel)
vtkmTriangulate(dom, sel) ==
  Pass([dom EXCEPT !.cellset = "single", !.dims = <<>>, !.shape = 5], sel)

(* The block of points with from[d] <= place < to[d] in each direction, and *)
(* the cells between them; the first direction varies fastest.              *)
vtkmExtractStructured(dom, from, to, sel) ==
  LET nx == dom.dims[1]
      Place(c) == <<(c - 1) % nx, (c - 1) \div nx>>
      inside == {c \in DOMAIN dom.conn :
                   \A d \in DOMAIN dom.dims :
                     from[d] <= Place(c)[d] /\ Place(c)[d] < to[d] - 1}
  IN Pass([KeepCells(dom, inside) EXCEPT
             !.cellset = "structured",
             !.dims = [d \in DOMAIN dom.dims |-> to[d] - from[d] - 1]], sel)

(* The particles' flow: one vertex per point of the domain. *)
vtkmLagrangian(dom) ==
  [dom EXCEPT !.cellset = "single", !.dims = <<>>, !.shape = 1,
              !.conn = [p \in DOMAIN dom.points |-> <<p - 1>>],
              !.fields = [n \in {} |-> 0]]
=============================================================================
