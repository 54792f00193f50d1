------------------------ MODULE MCPartialCompositor -------------------------
(* Three ranks; pixels 1, 2, 4 and 7 leave blocks without partials, blocks  *)
(* with one pixel and with two, and the sets without 7 make blocks of one   *)
(* pixel or too few pixels for three blocks.                               *)
EXTENDS PartialCompositor, TLC

Partial(pixel, depth, rank) == [pixel |-> pixel, depth |-> depth, rank |-> rank]

Candidates == (0 :> {Partial(1, 1, 0), Partial(1, 3, 0), Partial(4, 2, 0), Partial(7, 2, 0)}) @@
              (1 :> {Partial(1, 2, 1), Partial(4, 1, 1), Partial(7, 1, 1), Partial(2, 1, 1)}) @@
              (2 :> {Partial(2, 2, 2), Partial(4, 2, 2), Partial(7, 1, 2), Partial(1, 4, 2)})

AllInputs == {in \in [Ranks -> UNION {SUBSET Candidates[r] : r \in Ranks}] :
                \A r \in Ranks : in[r] \subseteq Candidates[r]}

(* No rank is left with exactly one partial to blend. *)
SeveralPerRank == {in \in AllInputs : Several(in)}

(* The inputs of at most three partials, one alone on its rank included. *)
FewPartials ==
  {in \in AllInputs : Cardinality(UNION {in[s] : s \in Ranks}) <= 3}
=============================================================================
