----------------------------- MODULE GhostCells -----------------------------
(***************************************************************************)
(* GhostStripper: from the field that marks ghost cells to the part of a   *)
(* domain that remains.  A structured domain can be cut down to a block of *)
(* cells if no ghost cell lies in the block; any other goes through        *)
(* Threshold and CleanGrid.  Directions beyond the second are not modelled.*)
(***************************************************************************)
EXTENDS VtkmFilters

Valid(value, lo, hi) == lo <= value /\ value <= hi

(* The place of cell c (0, 1, ...) in a block of the given dimensions. *)
GetLogical(c, dims) ==
  IF Len(dims) = 1 THEN <<c>> ELSE <<c % dims[1], c \div dims[1]>>

(* The reduction that leaves out negative numbers. *)
MinMaxIgnore(a, b) ==
  <<IF a[1] >= 0 /\ b[1] >= 0 THEN (IF b[1] < a[1] THEN b[1] ELSE a[1])
    ELSE IF a[1] < 0 THEN b[1] ELSE a[1],
    IF a[2] >= 0 /\ b[2] >= 0 THEN (IF b[2] > a[2] THEN b[2] ELSE a[2])
    ELSE IF a[2] < 0 THEN b[2] ELSE a[2]>>

(* Direction d: the least and the greatest place of a valid cell. *)
GhostIndex(vals, dims, lo, hi, d) ==
  FoldLeft(MinMaxIgnore, <<-1, -1>>,
    [c \in DOMAIN vals |->
       LET at == IF Valid(vals[c], lo, hi) THEN GetLogical(c - 1, dims)[d] ELSE -1
       IN <<at, at>>])

(* Mutant of Validate: ghost cells never forbid to strip. *)
ValidateNothing(value, c, dims, lo, hi, least, greatest) == FALSE

(* A ghost cell that forbids to strip.  The code asks whether it lies above  *)
(* the least or below the greatest valid place, which is always the case.    *)
Validate(value, c, dims, lo, hi, least, greatest) ==
  /\ ~Valid(value, lo, hi)
  /\ \E d \in DOMAIN dims : \/ GetLogical(c, dims)[d] >= least[d]
                            \/ GetLogical(c, dims)[d] <= greatest[d]

CanStrip(vals, dims, lo, hi) ==
  LET mm == [d \in DOMAIN dims |-> GhostIndex(vals, dims, lo, hi, d)]
      least == [d \in DOMAIN dims |-> mm[d][1]]
      greatest == [d \in DOMAIN dims |-> mm[d][2]]
      can == \A c \in DOMAIN vals :
               ~Validate(vals[c], c - 1, dims, lo, hi, least, greatest)
  IN [can |-> can, min |-> least, max |-> greatest,
      should |-> can => \E d \in DOMAIN dims :
                          dims[d] # greatest[d] - least[d] + 1]

StripGhosts(dom, f, lo, hi, sel) ==
  LET vals == dom.fields[f].vals
      range == ArrayRange(vals)
      strip == CanStrip(vals, dom.dims, lo, hi)
      Threshold == vtkmCleanGrid(vtkmThreshold(dom, f, lo, hi, sel), sel)
  IN IF lo <= range.lo /\ range.hi <= hi THEN dom
     ELSE IF ~IsStructured(dom) THEN Threshold
     ELSE IF ~strip.can THEN Threshold
     ELSE IF ~strip.should THEN dom
     ELSE vtkmExtractStructured(dom, strip.min,
            [d \in DOMAIN strip.max |-> strip.max[d] + 2], sel)
=============================================================================
