----------------------------- MODULE Compositing -----------------------------
(***************************************************************************)
(* vtkh::Compositor on one image per rank: surfaces are composited by      *)
(* depth with the radix-k exchange of RadixKCompositor, volumes are        *)
(* blended in visibility order with DirectSendCompositor.  In both, every  *)
(* rank ends with one piece of the image, and rank 0 collects the pieces.  *)
(*                                                                         *)
(* An image has bounds, its pixels row by row, and its place in the order  *)
(* of blending.  A pixel has a depth, Far where nothing was drawn, an      *)
(* opacity and a color channel in 8 bits, and, as history, the ranks its   *)
(* color was made from.                                                    *)
(***************************************************************************)
EXTENDS Decomposition, Functions, SequencesExt

CONSTANTS
  N,        \* number of ranks
  K,        \* magic_k, the group size asked of DIY
  Inputs    \* what the ranks may have drawn: records [mode, width, height,
            \* canvas, order], canvas[r] the pixels and order[r] the place of r

Ranks == 0 .. N - 1

Far == 2

ASSUME CompositingAssumption == N \in Nat \ {0} /\ K \in Nat \ {0, 1}

Fragment == [depth : {d \in Int : d <= Far}, color : 0 .. 255, alpha : 0 .. 255]

(* The ranks draw images of one size, and volumes in a visibility order.   *)
ASSUME InputsAssumption ==
  \A in \in Inputs :
    /\ in.mode \in {"surface", "volume"}
    /\ in.width \in Nat \ {0} /\ in.height \in Nat \ {0}
    /\ in.canvas \in [Ranks -> [1 .. in.width * in.height -> Fragment]]
    /\ in.order \in [Ranks -> Int]
    /\ in.mode = "volume" => \A r, s \in Ranks : in.order[r] = in.order[s] => r = s

VARIABLES
  input,    \* the input chosen
  divs,     \* blocks in each dimension, of the decomposer each rank builds
  rounds,   \* rounds of the partners each rank builds from it
  pc,       \* pc[r]: the part of the compositing rank r is in
  round,    \* round[r]: rounds of the reduction r has behind it
  image,    \* image[r]: the image or piece of an image rank r holds
  mail      \* the images enqueued and not dequeued: a function of <<from, to, round>>

setup == <<input, divs, rounds>>
vars == <<setup, pc, round, image, mail>>

Whole == [min |-> <<1, 1>>, max |-> <<input.width, input.height>>]

-----------------------------------------------------------------------------
(* Image.                                                                  *)

Extent(bounds, d) == bounds.max[d] - bounds.min[d] + 1

Area(bounds) == Extent(bounds, 1) * Extent(bounds, 2)

(* Init: a canvas marks pixels without a fragment with a negative depth.   *)
ImageInit(r) ==
  [bounds |-> Whole, order |-> input.order[r],
   pixels |-> [i \in DOMAIN input.canvas[r] |->
                 LET p == input.canvas[r][i]
                 IN  [depth |-> IF p.depth < 0 THEN Far ELSE p.depth,
                      color |-> p.color, alpha |-> p.alpha, from |-> <<r>>]]]

(* InitOriginal: the whole image, filled with zeros. *)
Zero == [depth |-> 0, color |-> 0, alpha |-> 0, from |-> <<>>]

InitOriginal ==
  [bounds |-> Whole, order |-> -1, pixels |-> [i \in 1 .. Area(Whole) |-> Zero]]

(* Pixels are stored row by row: where the i-th one lies, and back.        *)
At(bounds, i) == <<bounds.min[1] + ((i - 1) % Extent(bounds, 1)),
                   bounds.min[2] + ((i - 1) \div Extent(bounds, 1))>>

Index(bounds, p) == (p[2] - bounds.min[2]) * Extent(bounds, 1) + p[1] - bounds.min[1] + 1

Inside(bounds, p) == \A d \in Dims : p[d] \in bounds.min[d] .. bounds.max[d]

(* Mutant of SubsetFrom: the rows are taken to be as long as in sub. *)
SubsetFromNarrow(img, sub) ==
  [bounds |-> sub, order |-> img.order,
   pixels |-> [i \in 1 .. Area(sub) |-> img.pixels[Index(img.bounds, sub.min) + i - 1]]]

(* Mutant of SubsetFrom: a bound taken to be exclusive. *)
SubsetFromShort(img, sub) ==
  [bounds |-> sub, order |-> img.order,
   pixels |-> [i \in 1 .. Area(sub) - Extent(sub, 2) |->
                 img.pixels[Index(img.bounds, At(sub, i))]]]

SubsetFrom(img, sub) ==
  [bounds |-> sub, order |-> img.order,
   pixels |-> [i \in 1 .. Area(sub) |-> img.pixels[Index(img.bounds, At(sub, i))]]]

(* SubsetTo: the pixels of img are written to their place in onto.         *)
SubsetTo(img, onto) ==
  LET pixel(p, old) ==
        IF Inside(img.bounds, p) THEN img.pixels[Index(img.bounds, p)] ELSE old
  IN  [onto EXCEPT !.order = img.order,
         !.pixels = [k \in DOMAIN @ |-> pixel(At(onto.bounds, k), @[k])]]

(* ZBufferComposite of a pixel: the back one wins where it is as near.      *)
NearerPixel(front, back) ==
  IF back.depth >= Far \/ front.depth < back.depth THEN front ELSE back

(* Blend, one channel in 8 bits: what the front pixel lets through is added. *)
BlendChannel(front, opacity, back) == (front + (opacity * back) \div 255) % 256

(* Mutant of BlendPixel: weighted by the opacity in front instead of what is left. *)
BlendPixelOpaque(front, back) ==
  [depth |-> Min({front.depth, back.depth}),
   color |-> BlendChannel(front.color, front.alpha, back.color),
   alpha |-> BlendChannel(front.alpha, front.alpha, back.alpha),
   from |-> front.from \o back.from]

BlendPixel(front, back) ==
  [depth |-> Min({front.depth, back.depth}),
   color |-> BlendChannel(front.color, 255 - front.alpha, back.color),
   alpha |-> BlendChannel(front.alpha, 255 - front.alpha, back.alpha),
   from |-> front.from \o back.from]

MergePixel(front, back) ==
  IF input.mode = "surface" THEN NearerPixel(front, back) ELSE BlendPixel(front, back)

Composite(front, back) ==
  [front EXCEPT !.pixels = [i \in DOMAIN @ |-> MergePixel(@[i], back.pixels[i])]]

(* All images of a sequence are composited onto the first, in this order.  *)
CompositeImages(images) ==
  LET upTo[n \in 1 .. Len(images)] ==
        IF n = 1 THEN images[1] ELSE Composite(upTo[n - 1], images[n])
  IN  upTo[Len(images)]

(* The arguments of a function, by increasing value.                       *)
SortedBy(key) ==
  [i \in 1 .. Cardinality(DOMAIN key) |->
     CHOOSE x \in DOMAIN key : Cardinality({y \in DOMAIN key : key[y] < key[x]}) = i - 1]

(* Mutant of Ordered: blended as received. *)
AsReceived(images) == [i \in 1 .. Cardinality(DOMAIN images) |-> images[i - 1]]

(* OrderedComposite sorts the images by their place in the order.          *)
Ordered(images) ==
  LET sorted == SortedBy([r \in DOMAIN images |-> images[r].order])
  IN  [i \in DOMAIN sorted |-> images[sorted[i]]]

-----------------------------------------------------------------------------
Init ==
  /\ input \in Inputs
  /\ divs = Divisions(Whole, N)
  /\ rounds = IF divs = <<>> THEN <<>> ELSE Rounds(K, divs)
  /\ pc = [r \in Ranks |-> "start"]
  /\ round = [r \in Ranks |-> 0]
  /\ image = [r \in Ranks |-> ImageInit(r)]
  /\ mail = <<>>

GoTo(r, label) == pc' = [pc EXCEPT ![r] = label]

(* The decomposer throws on every rank when the image has too few pixels.  *)
Start(r) ==
  /\ pc[r] = "start"
  /\ GoTo(r, IF divs = <<>> THEN "error"
             ELSE IF input.mode = "surface" THEN "reduce" ELSE "redistribute")
  /\ UNCHANGED <<setup, round, image, mail>>

(* The parts of bounds for the n members of a group: as equal as possible  *)
(* in dimension dim, neighbours sharing the pixels between them.           *)
Parts(bounds, dim, n) ==
  LET length == bounds.max[dim] - bounds.min[dim]
      start(i) == bounds.min[dim] + (length \div n) * i + Min({i, length % n})
  IN  [i \in 1 .. n |-> [min |-> [bounds.min EXCEPT ![dim] = start(i - 1)],
                         max |-> [bounds.max EXCEPT ![dim] = start(i)]]]

(* Mutant of Expected: a rank waits for itself, to which it sends nothing. *)
ExpectedOfSelf(r) ==
  CASE pc[r] = "reduce" /\ round[r] > 0 ->
         {<<s, r, round[r]>> : s \in ToSet(Partners(rounds[round[r]], divs, r))}
    [] pc[r] = "blend" -> {<<s, r, 1>> : s \in Ranks}
    [] pc[r] = "collect" /\ r = 0 -> {<<s, 0, Len(rounds) + 1>> : s \in Ranks \ {0}}
    [] OTHER -> {}

(* Messages that rank r waits for before its next callback. *)
Expected(r) ==
  CASE pc[r] = "reduce" /\ round[r] > 0 ->
         {<<s, r, round[r]>> : s \in ToSet(Partners(rounds[round[r]], divs, r)) \ {r}}
    [] pc[r] = "blend" -> {<<s, r, 1>> : s \in Ranks}
    [] pc[r] = "collect" /\ r = 0 -> {<<s, 0, Len(rounds) + 1>> : s \in Ranks \ {0}}
    [] OTHER -> {}

Arrived(r) == Expected(r) \subseteq DOMAIN mail

Rest(r) == Restrict(mail, DOMAIN mail \ Expected(r))

Enqueue(new, queue) ==
  [m \in DOMAIN new \cup DOMAIN queue |-> IF m \in DOMAIN new THEN new[m] ELSE queue[m]]

Place(s, group) == CHOOSE i \in DOMAIN group : group[i] = s

(* The image of rank r with what came in composited onto it, in the order   *)
(* of the group.                                                           *)
Merged(r) ==
  IF round[r] = 0 THEN image[r]
  ELSE LET group == Partners(rounds[round[r]], divs, r)
           others == RemoveAt(group, Place(r, group))
       IN  CompositeImages(<<image[r]>> \o
             [j \in DOMAIN others |-> mail[<<others[j], r, round[r]>>]])

(* reduce_images: composite what came in; cut the result up for the group  *)
(* of the next round and keep one's own part.                              *)
Reduce(r) ==
  /\ pc[r] = "reduce"
  /\ Arrived(r)
  /\ IF round[r] = Len(rounds)
     THEN /\ image' = [image EXCEPT ![r] = Merged(r)]
          /\ mail' = Rest(r)
          /\ GoTo(r, "collect")
          /\ UNCHANGED round
     ELSE LET next == round[r] + 1
              group == Partners(rounds[next], divs, r)
              parts == Parts(Merged(r).bounds, rounds[next].dim, Len(group))
              part(s) == SubsetFrom(Merged(r), parts[Place(s, group)])
              out == {<<r, s, next>> : s \in ToSet(group) \ {r}}
          IN  /\ image' = [image EXCEPT ![r] = part(r)]
              /\ mail' = Enqueue([m \in out |-> part(m[2])], Rest(r))
              /\ round' = [round EXCEPT ![r] = next]
              /\ UNCHANGED pc
  /\ UNCHANGED setup

(* Redistribute, first round: every block gets its part of this image.     *)
Redistribute(r) ==
  /\ pc[r] = "redistribute"
  /\ LET out == {<<r, s, 1>> : s \in Ranks}
         part(s) == SubsetFrom(image[r], BlockBounds(Whole, divs, s))
     IN  mail' = Enqueue([m \in out |-> part(m[2])], mail)
  /\ GoTo(r, "blend")
  /\ UNCHANGED <<setup, round, image>>

(* Redistribute, last round: blend the parts of all ranks.                 *)
BlendParts(r) ==
  /\ pc[r] = "blend"
  /\ Arrived(r)
  /\ image' = [image EXCEPT ![r] =
       CompositeImages(Ordered([s \in Ranks |-> mail[<<s, r, 1>>]]))]
  /\ mail' = Rest(r)
  /\ GoTo(r, "barrier")
  /\ UNCHANGED <<setup, round>>

Barrier ==
  /\ \A r \in Ranks : pc[r] = "barrier"
  /\ pc' = [r \in Ranks |-> "collect"]
  /\ UNCHANGED <<setup, round, image, mail>>

(* CollectImages: the others send their piece to rank 0 and clear it.      *)
CollectSend(r) ==
  /\ pc[r] = "collect"
  /\ r # 0
  /\ mail' = Enqueue([m \in {<<r, 0, Len(rounds) + 1>>} |-> image[r]], mail)
  /\ image' = [image EXCEPT ![r].pixels = <<>>]
  /\ GoTo(r, "done")
  /\ UNCHANGED <<setup, round>>

CollectReceive ==
  /\ pc[0] = "collect"
  /\ Arrived(0)
  /\ LET collected[s \in Ranks] ==
           IF s = 0 THEN SubsetTo(image[0], InitOriginal)
           ELSE SubsetTo(mail[<<s, 0, Len(rounds) + 1>>], collected[s - 1])
     IN  image' = [image EXCEPT ![0] = collected[N - 1]]
  /\ mail' = Rest(0)
  /\ GoTo(0, "done")
  /\ UNCHANGED <<setup, round>>

Terminated == \A r \in Ranks : pc[r] \in {"done", "error"}

Progress ==
  \/ \E r \in Ranks :
       Start(r) \/ Reduce(r) \/ Redistribute(r) \/ BlendParts(r) \/ CollectSend(r)
  \/ Barrier
  \/ CollectReceive

Next == Progress \/ (Terminated /\ UNCHANGED vars)

Spec == Init /\ [][Next]_vars

-----------------------------------------------------------------------------
(* Properties.                                                             *)

TypeOK ==
  /\ pc \in [Ranks -> {"start", "reduce", "redistribute", "blend", "barrier",
                       "collect", "done", "error"}]
  /\ round \in [Ranks -> 0 .. Len(rounds)]
  /\ DOMAIN mail \subseteq Ranks \X Ranks \X (1 .. Len(rounds) + 1)
  /\ \A r \in Ranks : Len(image[r].pixels) \in {0, Area(image[r].bounds)}

(* A piece that reaches a block covers exactly the pixels the block has to *)
(* put it on, though the two computed their bounds apart and rounds ago    *)
(* (the assertions of ImageCompositor.hpp:53-56).                          *)
PiecesFit ==
  \A r \in Ranks : \A m \in DOMAIN mail \cap Expected(r) :
    pc[r] = "reduce" => mail[m].bounds = image[r].bounds

(* The sender of a message has sent it: a piece for rank 0 when it is done, *)
(* a piece for a block when it has cut up its image.                       *)
Sent(m) ==
  IF m[1] # 0 /\ m[3] = Len(rounds) + 1 THEN pc[m[1]] = "done"
  ELSE IF input.mode = "volume" THEN pc[m[1]] \notin {"start", "redistribute"}
  ELSE round[m[1]] >= m[3]

(* Ranks compute with whom they exchange from their own block alone, and   *)
(* still agree: whatever a rank waits for is in the mail or its sender is  *)
(* yet to send it, so that nobody waits forever, nobody goes on without    *)
(* the others, and no piece is left over in the end.                       *)
PartnersAgree ==
  /\ \A r \in Ranks : \A m \in Expected(r) : Sent(m) = (m \in DOMAIN mail)
  /\ Terminated => DOMAIN mail = {}

(* Drawn at pixel i on rank r. *)
DrawnAt(i, r) == ImageInit(r).pixels[i]

(* In surface mode the image of rank 0 shows at every pixel the nearest of *)
(* the fragments of all ranks, and what some rank has as a background      *)
(* where there is none; no pixel is left without one, none is mixed up.    *)
NearestShown ==
  pc[0] = "done" /\ input.mode = "surface" =>
    \A i \in 1 .. Area(Whole) :
      /\ image[0].pixels[i] \in {DrawnAt(i, r) : r \in Ranks}
      /\ image[0].pixels[i].depth = Min({DrawnAt(i, r).depth : r \in Ranks})

(* In volume mode every pixel of rank 0's image is blended from the pixels *)
(* of all ranks, each once, in visibility order.                           *)
BlendedInOrder ==
  pc[0] = "done" /\ input.mode = "volume" =>
    \A i \in 1 .. Area(Whole) : image[0].pixels[i].from = SortedBy(input.order)

(* Blending colors weighted with their opacity never leaves 8 bits: a sum   *)
(* that wraps around would leave a color above its opacity.                *)
Premultiplied ==
  \A r \in Ranks : \A i \in DOMAIN image[r].pixels :
    image[r].pixels[i].color <= image[r].pixels[i].alpha
=============================================================================
