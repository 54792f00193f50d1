---------------------------- MODULE Decomposition ----------------------------
(***************************************************************************)
(* How vtk-h's image compositors cut a two-dimensional image into blocks,  *)
(* one per rank, and in which groups the ranks exchange pieces of it: the  *)
(* parts of DIY's RegularDecomposer and RegularPartners they depend on     *)
(* (diy/decomposition.hpp, diy/partners/common.hpp).                       *)
(*                                                                         *)
(* Bounds are [min |-> <<x, y>>, max |-> <<x, y>>], both ends included.    *)
(***************************************************************************)
EXTENDS Integers, Sequences, FiniteSetsExt

Dims == 1 .. 2

(* Ends of the i-th of n blocks of lo .. hi; the last one takes what is left. *)
From(i, n, lo, hi) == lo + ((hi - lo + 1) \div n) * i
To(i, n, lo, hi) == IF i = n - 1 THEN hi ELSE From(i + 1, n, lo, hi) - 1

SmallestFactor(n) == Min({i \in 2 .. n : n % i = 0})

(* The dimension with the largest blocks; then the one with fewer blocks.  *)
Widest(divs) ==
  Min({d \in Dims : \A e \in Dims :
         \/ divs[d].size > divs[e].size
         \/ divs[d].size = divs[e].size /\ divs[d].nb <= divs[e].nb})

(* Divides the widest dimension by one more factor; fails, with <<>>, when *)
(* a block would be empty.                                                 *)
DivideBy(bounds, factor, divs) ==
  LET d == Widest(divs)
      n == divs[d].nb * factor
      size == To(0, n, bounds.min[d], bounds.max[d]) - bounds.min[d]
  IN  IF size < 0 THEN <<>> ELSE [divs EXCEPT ![d] = [nb |-> n, size |-> size]]

(* Number of blocks in each dimension, or <<>> when n blocks do not fit:   *)
(* the prime factors of n are used up from the largest to the smallest.    *)
Divisions(bounds, n) ==
  LET divided[m \in Nat] ==
        IF m <= 1
        THEN [d \in Dims |-> [nb |-> 1, size |-> bounds.max[d] - bounds.min[d]]]
        ELSE LET factor == SmallestFactor(m)
                 divs == divided[m \div factor]
             IN  IF divs = <<>> THEN <<>> ELSE DivideBy(bounds, factor, divs)
  IN  IF divided[n] = <<>> THEN <<>> ELSE [d \in Dims |-> divided[n][d].nb]

Coords(gid, divs) == <<gid % divs[1], (gid \div divs[1]) % divs[2]>>
Gid(coords, divs) == coords[2] * divs[1] + coords[1]

BlockBounds(bounds, divs, gid) ==
  LET c == Coords(gid, divs)
      end(E(_, _, _, _)) ==
        [d \in Dims |-> E(c[d], divs[d], bounds.min[d], bounds.max[d])]
  IN  [min |-> end(From), max |-> end(To)]

-----------------------------------------------------------------------------
(* Rounds of a swap reduction with groups of about k.                      *)

(* The next group size for n blocks in one dimension: k when it divides,  *)
(* else the largest smaller factor, else everything that is left.          *)
GroupSize(k, n) ==
  IF n % k = 0 THEN k
  ELSE IF \E j \in 2 .. k - 1 : n % j = 0 THEN Max({j \in 2 .. k - 1 : n % j = 0})
  ELSE n

(* The dimensions take turns while blocks are left in them.  Far neighbours *)
(* exchange first: step is the distance of neighbours in the groups of a   *)
(* round, and what is left to exchange in the dimension afterwards.        *)
Rounds(k, divs) ==
  LET rounds[at \in [left : [Dims -> Nat \ {0}], turn : Dims]] ==
        IF \A d \in Dims : at.left[d] = 1 THEN <<>>
        ELSE LET dim == IF at.left[at.turn] = 1 THEN 3 - at.turn ELSE at.turn
                 size == GroupSize(k, at.left[dim])
                 step == at.left[dim] \div size
             IN  <<[dim |-> dim, size |-> size, step |-> step]>>
                   \o rounds[[left |-> [at.left EXCEPT ![dim] = step], turn |-> 3 - dim]]
  IN  rounds[[left |-> divs, turn |-> 1]]

(* Mutant of Partners: a block takes the first place in its own group. *)
PartnersSelfFirst(round, divs, gid) ==
  LET dim == round.dim
      c == Coords(gid, divs)
  IN  [j \in 1 .. round.size |->
         Gid([c EXCEPT ![dim] = (@ + (j - 1) * round.step) % divs[dim]], divs)]

(* The group of a block in a round, in order. *)
Partners(round, divs, gid) ==
  LET dim == round.dim
      c == Coords(gid, divs)
      pos == (c[dim] \div round.step) % round.size
  IN  [j \in 1 .. round.size |->
         Gid([c EXCEPT ![dim] = @ + (j - 1 - pos) * round.step], divs)]
=============================================================================
