------------------------------ MODULE DataSets ------------------------------
(***************************************************************************)
(* vtkh::DataSet on one rank: a list of domains, each with its id, and a   *)
(* cycle; and what a rank contributes to the collective queries about all  *)
(* domains, with what the queries make of the contributions.               *)
(*                                                                         *)
(* A domain stands for a vtkm::cont::DataSet in one dimension of space:    *)
(* points lists the coordinates, conn the cells, each a sequence of        *)
(* indices into points, which start at 0 as in the code.  cellset is the   *)
(* VTK-m type of the cell set, dims the number of cells per direction of a *)
(* structured one, shape the VTK-m shape id of the cells.  A field has an  *)
(* association, a number of components and one value per point or cell.    *)
(***************************************************************************)
EXTENDS Integers, Sequences, SequencesExt, FiniteSets

CONSTANT Inf   \* stands for the largest double; -Inf for the lowest

(* The numbers of a set, in ascending order. *)
Sorted(S) ==
  [i \in 1 .. Cardinality(S) |->
     CHOOSE x \in S : Cardinality({y \in S : y < x}) = i - 1]

NoData == [doms |-> <<>>, cycle |-> 0]

Ids(ds) == [i \in DOMAIN ds.doms |-> ds.doms[i].id]
HasField(dom, f) == f \in DOMAIN dom.fields

(* Mutant of AddDomain: domains are numbered as they come. *)
AddDomainNumbered(doms, dom, id) == Append(doms, [dom EXCEPT !.id = Len(doms)])

AddDomain(doms, dom, id) == Append(doms, [dom EXCEPT !.id = id])

HasDomainId(ds, id) == \E i \in DOMAIN ds.doms : ds.doms[i].id = id

(* The first domain with the id. *)
GetDomainById(ds, id) ==
  ds.doms[SelectInSeq(ds.doms, LAMBDA d : d.id = id)]

(* A new field replaces one of the same name. *)
AddField(dom, name, field) ==
  [dom EXCEPT !.fields =
     [n \in DOMAIN @ \cup {name} |-> IF n = name THEN field ELSE @[n]]]

(* The domains that have field f, in order. *)
Having(ds, f) == SelectSeq(ds.doms, LAMBDA d : HasField(d, f))

-----------------------------------------------------------------------------
(* VTKMDataSetInfo *)

IsStructured(dom) == dom.cellset = "structured"
TopologicalDims(dom) == IF IsStructured(dom) THEN Len(dom.dims) ELSE -1

(* The cells have one shape, and which; a structured set counts as hexahedra. *)
SingleCellShape(dom) ==
  IF IsStructured(dom) THEN [single |-> TRUE, shape |-> 12]
  ELSE IF dom.cellset = "single" THEN [single |-> TRUE, shape |-> dom.shape]
  ELSE [single |-> dom.conn # <<>>, shape |-> dom.shape]

-----------------------------------------------------------------------------
(* What a rank knows by itself. *)

NumberOfDomains(ds) == Len(ds.doms)
NumberOfCells(ds) == FoldLeft(LAMBDA n, d : n + Len(d.conn), 0, ds.doms)
FieldExists(ds, f) == Having(ds, f) # <<>>
IsEmpty(ds) == \A i \in DOMAIN ds.doms : ds.doms[i].conn = <<>>

(* "none" and 0 stand for a rank without the field. *)
LocalAssociation(ds, f) ==
  IF FieldExists(ds, f) THEN Having(ds, f)[1].fields[f].assoc ELSE "none"

LocalComponents(ds, f) ==
  IF FieldExists(ds, f) THEN Having(ds, f)[1].fields[f].comps ELSE 0

(* Cells of points only; domains without cells do not count. *)
LocalPointMesh(ds) ==
  \A i \in DOMAIN ds.doms :
    ds.doms[i].conn # <<>> =>
      LET s == SingleCellShape(ds.doms[i]) IN s.single /\ s.shape = 1

(* The loop ends at the first domain that is not structured or has other    *)
(* dimensions than the first; only the former makes the answer no.          *)
LocalStructured(ds) ==
  LET First(S) == CHOOSE i \in S : \A j \in S : i <= j
      odd == {i \in DOMAIN ds.doms :
                \/ ~IsStructured(ds.doms[i])
                \/ TopologicalDims(ds.doms[i]) # TopologicalDims(ds.doms[1])}
  IN IF ds.doms = <<>> THEN [structured |-> TRUE, dims |-> -1]
     ELSE IF odd = {} THEN [structured |-> TRUE, dims |-> TopologicalDims(ds.doms[1])]
     ELSE [structured |-> IsStructured(ds.doms[First(odd)]), dims |-> -1]

(* VTK-m: the range of an array, empty for one without values. *)
ArrayRange(vals) ==
  [lo |-> FoldLeft(LAMBDA m, v : IF v < m THEN v ELSE m, Inf, vals),
   hi |-> FoldLeft(LAMBDA m, v : IF v > m THEN v ELSE m, -Inf, vals)]

Include(a, b) == [lo |-> IF b.lo < a.lo THEN b.lo ELSE a.lo,
                  hi |-> IF b.hi > a.hi THEN b.hi ELSE a.hi]

EmptyRange == [lo |-> Inf, hi |-> -Inf]

(* The range of the field over the domains of this rank, and whether they   *)
(* differ in their number of components, which makes GetRange throw.        *)
GetRange(ds, f) ==
  LET have == Having(ds, f)
      ranges == [i \in DOMAIN have |-> ArrayRange(have[i].fields[f].vals)]
  IN [range |-> FoldLeft(Include, EmptyRange, ranges),
      mixed |-> \E i \in DOMAIN have :
                  have[i].fields[f].comps # have[1].fields[f].comps]

-----------------------------------------------------------------------------
(* What the collectives make of the contributions of all ranks. *)

SumOf(values) == FoldFunction(LAMBDA v, n : v + n, 0, values)
MaxOf(values) == FoldFunction(LAMBDA v, m : IF v > m THEN v ELSE m, -Inf, values)
MinOf(values) == FoldFunction(LAMBDA v, m : IF v < m THEN v ELSE m, Inf, values)

GlobalAgreement(votes) == \A r \in DOMAIN votes : votes[r]
GlobalSomeoneAgrees(votes) == \E r \in DOMAIN votes : votes[r]

(* The one association or component count of the ranks that have the field. *)
Given(values, none) == {values[r] : r \in DOMAIN values} \ {none}
Consistent(values, none) == \A a, b \in Given(values, none) : a = b
TheGiven(values, none) ==
  IF Given(values, none) = {} THEN none ELSE CHOOSE v \in Given(values, none) : TRUE
=============================================================================
