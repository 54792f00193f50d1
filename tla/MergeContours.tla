--------------------------- MODULE MergeContours ---------------------------
(***************************************************************************)
(* detail::MergeContours of Slice: the contours of several planes, one     *)
(* data set each, become one data set.  Domains with the same id are put   *)
(* together; the triangles of the later ones refer to points further back. *)
(***************************************************************************)
EXTENDS DataSets

UnionDomainIds(sets) ==
  Sorted(UNION {{sets[s].doms[i].id : i \in DOMAIN sets[s].doms} : s \in DOMAIN sets})

(* The number of cells, or points, in the domains before domain d. *)
CellOffset(doms, d) == FoldLeft(LAMBDA n, i : n + Len(doms[i].conn), 0, [i \in 1 .. d - 1 |-> i])
PointOffset(doms, d) == FoldLeft(LAMBDA n, i : n + Len(doms[i].points), 0, [i \in 1 .. d - 1 |-> i])

(* Mutant of Offset: moved by the triangles before, not the points. *)
OffsetByCells(doms, d) ==
  [c \in DOMAIN doms[d].conn |->
    [i \in DOMAIN doms[d].conn[c] |-> doms[d].conn[c][i] + CellOffset(doms, d)]]

(* The triangles of domain d; the first to have any keep their numbers. *)
Offset(doms, d) ==
  [c \in DOMAIN doms[d].conn |->
    [i \in DOMAIN doms[d].conn[c] |->
       doms[d].conn[c][i] + IF CellOffset(doms, d) = 0 THEN 0 ELSE PointOffset(doms, d)]]

(* Mutant of CopyField: the first domain's values are not followed by others. *)
CopyFirst(doms, name) == doms[1].fields[name]

(* Other associations than points and cells are dropped. *)
CopyField(doms, name) ==
  [doms[1].fields[name] EXCEPT
     !.vals = FlattenSeq([d \in DOMAIN doms |-> doms[d].fields[name].vals])]

MergeDomains(doms, skip) ==
  LET Supported(name) == doms[1].fields[name].assoc \in {"points", "cells"}
      names == {n \in DOMAIN doms[1].fields : n # skip /\ Supported(n)}
  IN [doms[1] EXCEPT
        !.cellset = "single", !.shape = 5,
        !.points = FlattenSeq([d \in DOMAIN doms |-> doms[d].points]),
        !.conn = FlattenSeq([d \in DOMAIN doms |-> Offset(doms, d)]),
        !.fields = [n \in names |-> CopyField(doms, n)]]

Merge(sets, skip) ==
  [NoData EXCEPT !.doms =
     FoldLeft(LAMBDA merged, id :
                LET with == SelectSeq(sets, LAMBDA ds : HasDomainId(ds, id))
                    doms == [s \in DOMAIN with |-> GetDomainById(with[s], id)]
                IN AddDomain(merged, MergeDomains(doms, skip), id),
              <<>>, UnionDomainIds(sets))]
=============================================================================
