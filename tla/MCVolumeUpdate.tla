-------------------------- MODULE MCVolumeUpdate ----------------------------
(* Three ranks with at most one domain each, or two on rank 0.            *)
EXTENDS VolumeUpdate, TLC

Domain(cells, structured, comp, min, max, depth, pixels) ==
  [cells |-> cells, structured |-> structured, comps |-> comp, min |-> min,
   max |-> max, depth |-> depth, pixels |-> pixels]

Near      == Domain(TRUE, TRUE, 1, 2, 3, 1, {1})
Far       == Domain(TRUE, TRUE, 1, 1, 2, 2, {1, 2})
Hidden    == Domain(TRUE, TRUE, 1, 4, 5, 3, {})
Tets      == Domain(TRUE, FALSE, 1, 1, 4, 2, {2})
Empty     == Domain(FALSE, FALSE, 1, 2, 2, 1, {})
NoField   == Domain(TRUE, TRUE, 0, 0, 0, 1, {})
VectorFld == Domain(TRUE, TRUE, 2, 1, 1, 1, {1})

MCRanks == 0 .. 2
MCUserRange == [min |-> 9, max |-> -9]

OneEach(in) == \A r \in MCRanks : Len(in[r]) = 1

(* In a domain with cells of a rank. *)
Cells(in, r) == {in[r][i] : i \in {j \in DOMAIN in[r] : in[r][j].cells}}
AllCells(in) == UNION {Cells(in, r) : r \in MCRanks}

(* The field has one number of components among the domains of a rank. *)
OneFieldPerRank(in) ==
  \A r \in MCRanks : \A i, j \in DOMAIN in[r] :
    in[r][i].comps * in[r][j].comps # 0 => in[r][i].comps = in[r][j].comps

(* With one domain on every rank, unstructured domains with cells are on   *)
(* all ranks or on none.                                                   *)
SameMesh(in) ==
  OneEach(in) =>
    \A r, s \in MCRanks :
      (\E d \in Cells(in, r) : ~d.structured) => (\E d \in Cells(in, s) : ~d.structured)

(* Where partials are composited, every domain with cells has the field.   *)
FieldOnCells(in) ==
  \/ OneEach(in) /\ \A d \in AllCells(in) : d.structured
  \/ \A d \in AllCells(in) : d.comps # 0

(* What Update is used on: the runs that pass. *)
UniformInputs ==
  {in \in {(0 :> a) @@ (1 :> b) @@ (2 :> c) :
             a \in {<<>>, <<Near>>, <<Tets>>, <<Empty>>, <<VectorFld>>, <<Near, Tets>>},
             b \in {<<Far>>, <<Tets>>, <<Hidden>>, <<NoField>>},
             c \in {<<>>, <<Tets>>, <<NoField>>, <<VectorFld>>}} :
     OneFieldPerRank(in) /\ SameMesh(in) /\ FieldOnCells(in)}

(* The restrictions lifted one at a time. *)
UnstructuredInputs == [MCRanks -> {<<Tets>>, <<Empty>>}]

MixedFieldInputs == [MCRanks -> {<<Near>>, <<Near, VectorFld>>}]
=============================================================================
