---------------------------- MODULE ScalarImages ----------------------------
(***************************************************************************)
(* ScalarRenderer: an image that carries, with the depth of what is seen,  *)
(* the values of the scalar fields there, from the domains of all ranks.   *)
(* The image has one pixel, which looks along the row of points from its   *)
(* low end; the ray through it meets every domain with cells.              *)
(***************************************************************************)
EXTENDS DataSets

(* filter_scalar_fields: the fields with one component. *)
Scalars(dom) == {n \in DOMAIN dom.fields : dom.fields[n].comps = 1}

(* VTK-m's renderer; Convert puts the values into the payload of the image. *)
Render(dom) ==
  [depth |-> ArrayRange(dom.points).lo,
   load  |-> [n \in Scalars(dom) |-> Head(dom.fields[n].vals)]]

Blank == [depth |-> Inf, load |-> <<>>]

Drawn(ds) == SelectSeq(ds.doms, LAMBDA d : d.conn # <<>>)

PayloadBytes(ds) == [i \in DOMAIN Drawn(ds) |-> Cardinality(Scalars(Drawn(ds)[i]))]

(* The nearer of two, the later of two as near. *)
ZBufferComposite(front, image) == IF image.depth <= front.depth THEN image ELSE front

LocalImage(ds) ==
  FoldLeft(ZBufferComposite, Blank, [i \in DOMAIN Drawn(ds) |-> Render(Drawn(ds)[i])])

(* The vote of a rank is about its last domain. *)
LastHasCells(ds) == ds.doms # <<>> /\ Last(ds.doms).conn # <<>>

(* The first rank that voted yes. *)
Winner(votes) ==
  LET yes == {r \in DOMAIN votes : votes[r]}
  IN IF yes = {} THEN -1 ELSE CHOOSE r \in yes : \A s \in yes : r <= s

(* The image of the radix-k reduction with all ranks' images. *)
NearestOf(images) == FoldFunction(LAMBDA i, front : ZBufferComposite(front, i), Blank, images)

(* A data set of one cell for the pixel. *)
ToDataSet(image, names) ==
  [id |-> 0, cellset |-> "structured", shape |-> 12, dims |-> <<1>>,
   points |-> <<0, 1>>, conn |-> <<<<0, 1>>>>,
   fields |-> [n \in names \cup {"depth"} |->
     [assoc |-> "cells", comps |-> 1,
      vals |-> <<IF n = "depth" THEN image.depth ELSE image.load[n]>>]]]
=============================================================================
