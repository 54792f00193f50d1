---------------------------- MODULE MCCompositing -----------------------------
(* Six ranks in groups of two where that divides, of three otherwise: an    *)
(* image of one row or column is exchanged in two rounds of one dimension,  *)
(* the others in one round of each; sizes that do not divide, blocks of a   *)
(* single pixel, and too few pixels for six blocks are among them.          *)
EXTENDS Compositing

Sizes == {<<6, 1>>, <<1, 13>>, <<3, 2>>, <<5, 4>>, <<5, 1>>}

(* Depths from -1 (nothing drawn) to Far and opacities up to the full one,  *)
(* spread over ranks and pixels.                                           *)
Drawing(seed, r, i) ==
  LET a == <<0, 100, 200, 255>>[((i + r * seed) % 4) + 1]
  IN  [depth |-> ((i * (r + seed) + r) % 4) - 1, alpha |-> a, color |-> (a * r) \div 5]

Case(mode, size, order, seed) ==
  [mode |-> mode, width |-> size[1], height |-> size[2], order |-> order,
   canvas |-> [r \in Ranks |-> [i \in 1 .. size[1] * size[2] |-> Drawing(seed, r, i)]]]

(* Places of the ranks in the order of blending. *)
Orders == {[r \in Ranks |-> r], [r \in Ranks |-> (5 * (r + 2)) % 6]}

MCInputs ==
  {Case("surface", size, [r \in Ranks |-> -1], seed) : size \in Sizes, seed \in 1 .. 2} \cup
  {Case("volume", size, order, 1) : size \in Sizes, order \in Orders}
=============================================================================
