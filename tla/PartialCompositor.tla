------------------------- MODULE PartialCompositor --------------------------
(***************************************************************************)
(* vtkh::PartialCompositor (compositing/PartialCompositor.cpp): volume     *)
(* samples ("partials") rendered on all ranks become one color per pixel   *)
(* on rank 0.  The pixels between the smallest and the largest are split   *)
(* into one block per rank; every partial is sent to the rank that owns    *)
(* its pixel, which sorts and blends what it received; rank 0 collects.    *)
(*                                                                         *)
(* A partial is its pixel, its depth and the rank it was rendered on.  The *)
(* color blended of some partials is the sequence of them, front to back.  *)
(***************************************************************************)
EXTENDS Integers, Sequences, FiniteSets, FiniteSetsExt, SequencesExt

CONSTANTS
  N,         \* number of ranks
  Inputs     \* the partials considered: functions from ranks to sets

Ranks == 0 .. N - 1

ASSUME PartialAssumption == N \in Nat \ {0}

Partials == [pixel : Nat, depth : Int, rank : Ranks]

ASSUME InputsAssumption ==
  \A in \in Inputs : in \in [Ranks -> SUBSET Partials] /\ \A r \in Ranks : IsFiniteSet(in[r])

VARIABLES
  rendered,  \* rendered[r]: the partials rank r renders
  pc,        \* pc[r]: the part of composite rank r is in
  bounds,    \* bounds[r]: smallest and largest pixel, once r has merged
  partials,  \* partials[r]: the partials rank r holds
  queue,     \* queue[r]: what the ranks have enqueued for block r
  output     \* output[r]: sequence of the pixels blended on rank r

vars == <<rendered, pc, bounds, partials, queue, output>>

Garbage == [pixel |-> -1, depth |-> 0, rank |-> -1]

-----------------------------------------------------------------------------
(* The decomposition (DiscreteBounds, one dimension, one block per rank).  *)

Width(min, max) == (max - min + 1) \div N

(* The last block takes the remainder. *)
Owner(pixel, min, max) ==
  Min({(pixel - min) \div Width(min, max), N - 1})

(* VolumePartial::operator<; std::sort leaves equal partials in any order. *)
Before(p, q) == p.pixel < q.pixel \/ (p.pixel = q.pixel /\ p.depth < q.depth)

Sortings(S) ==
  {s \in [1 .. Cardinality(S) -> S] :
     \A i, j \in DOMAIN s : i < j => s[i] # s[j] /\ ~Before(s[j], s[i])}

(* composite_partials on sorted partials s, of which there are at least    *)
(* two: a pixel with one partial is copied, the partials of a longer run   *)
(* are blended in order.  The copies come first.                           *)
(* Mutant of Begins: any entry may begin a run. *)
BeginsAnywhere(s, i) == i \in DOMAIN s

Begins(s, i) == i = 1 \/ s[i].pixel # s[i - 1].pixel
Continues(s, i) == i < Len(s) /\ s[i].pixel = s[i + 1].pixel

(* The loop ends after the last entry or before one of another pixel. *)
RunEnd(s, i) == Min({j \in i .. Len(s) : j < Len(s) => s[j + 1].pixel # s[i].pixel})

(* Mutant of Run: the loop takes one entry too many. *)
RunPastEnd(s, i) == Append(SubSeq(s, i, RunEnd(s, i)), Garbage)

Run(s, i) == SubSeq(s, i, RunEnd(s, i))

Unique(s) == {i \in DOMAIN s : Begins(s, i) /\ ~Continues(s, i)}
Work(s) == {i \in DOMAIN s : Begins(s, i) /\ Continues(s, i)}

Ascending(I) ==
  [k \in 1 .. Cardinality(I) |-> CHOOSE i \in I : Cardinality({j \in I : j < i}) = k - 1]

(* The colors of the pixels whose runs begin at the indices I, in order. *)
Colors(s, I) ==
  [k \in 1 .. Cardinality(I) |->
     LET i == Ascending(I)[k] IN [pixel |-> s[i].pixel, parts |-> Run(s, i)]]

Blended(s) == Colors(s, Unique(s)) \o Colors(s, Work(s))

(* With one partial the flags of the first entry compare it with what is   *)
(* in memory after the array, those of the last with what is before it.    *)
OnePartial(p) ==
  {(IF before THEN <<>> ELSE <<[pixel |-> p.pixel, parts |-> <<p>>]>>) \o
   (IF after THEN <<[pixel |-> p.pixel, parts |-> <<p, Garbage>>]>> ELSE <<>>) :
     before, after \in BOOLEAN}

CompositePartials(S) ==
  IF S = {} THEN {<<>>}
  ELSE IF Cardinality(S) = 1 THEN UNION {OnePartial(p) : p \in S}
  ELSE {Blended(s) : s \in Sortings(S)}

-----------------------------------------------------------------------------
Pixels(in) == {p.pixel : p \in UNION {in[r] : r \in Ranks}}

Init ==
  /\ rendered \in Inputs
  /\ pc = [r \in Ranks |-> "merge"]
  /\ bounds = [r \in Ranks |-> <<>>]
  /\ partials = rendered
  /\ queue = [r \in Ranks |-> {}]
  /\ output = [r \in Ranks |-> <<>>]

GoTo(r, label) == pc' = [pc EXCEPT ![r] = label]

(* merge: all ranks agree on the range of pixels; none at all ends it.     *)
Merge ==
  /\ \A r \in Ranks : pc[r] = "merge"
  /\ IF Pixels(partials) = {}
     THEN pc' = [r \in Ranks |-> "done"] /\ UNCHANGED bounds
     ELSE /\ pc' = [r \in Ranks |-> "redistribute"]
          /\ bounds' = [r \in Ranks |-> [min |-> Min(Pixels(partials)),
                                         max |-> Max(Pixels(partials))]]
  /\ UNCHANGED <<rendered, partials, queue, output>>

(* redistribute: RegularDecomposer throws when a block would be empty.     *)
Decompose(r) ==
  /\ pc[r] = "redistribute"
  /\ Width(bounds[r].min, bounds[r].max) = 0
  /\ GoTo(r, "error")
  /\ UNCHANGED <<rendered, bounds, partials, queue, output>>

(* First round of Redistribute: one message, maybe empty, to every block.  *)
Send(r) ==
  /\ pc[r] = "redistribute"
  /\ Width(bounds[r].min, bounds[r].max) > 0
  /\ queue' = [s \in Ranks |-> queue[s] \cup
       {[from |-> r, partials |->
           {p \in partials[r] : Owner(p.pixel, bounds[r].min, bounds[r].max) = s}]}]
  /\ partials' = [partials EXCEPT ![r] = {}]
  /\ GoTo(r, "receive")
  /\ UNCHANGED <<rendered, bounds, output>>

(* Mutant of Receive: a block does not wait for all others. *)
ReceiveEarly(r) ==
  /\ pc[r] = "receive"
  /\ partials' = [partials EXCEPT ![r] = @ \cup UNION {m.partials : m \in queue[r]}]
  /\ queue' = [queue EXCEPT ![r] = {}]
  /\ GoTo(r, "composite")
  /\ UNCHANGED <<rendered, bounds, output>>

(* Last round: every block has a message from every block. *)
Receive(r) ==
  /\ pc[r] = "receive"
  /\ {m.from : m \in queue[r]} = Ranks
  /\ partials' = [partials EXCEPT ![r] = @ \cup UNION {m.partials : m \in queue[r]}]
  /\ queue' = [queue EXCEPT ![r] = {}]
  /\ GoTo(r, "composite")
  /\ UNCHANGED <<rendered, bounds, output>>

(* composite_partials, after the barrier that ends redistribute. *)
Composite(r) ==
  /\ pc[r] = "composite"
  /\ \A s \in Ranks : pc[s] \notin {"redistribute", "receive"}
  /\ \E out \in CompositePartials(partials[r]) :
       output' = [output EXCEPT ![r] = out]
  /\ partials' = [partials EXCEPT ![r] = {}]
  /\ GoTo(r, "collect")
  /\ UNCHANGED <<rendered, bounds, queue>>

(* collect: the others hand their output to rank 0, which waits for all.   *)
CollectSend(r) ==
  /\ pc[r] = "collect"
  /\ r # 0
  /\ queue' = [queue EXCEPT ![0] = @ \cup {[from |-> r, output |-> output[r]]}]
  /\ output' = [output EXCEPT ![r] = <<>>]
  /\ GoTo(r, "done")
  /\ UNCHANGED <<rendered, bounds, partials>>

CollectReceive ==
  /\ pc[0] = "collect"
  /\ {m.from : m \in queue[0]} = Ranks \ {0}
  /\ LET from(s) == (CHOOSE m \in queue[0] : m.from = s).output
     IN  output' = [output EXCEPT ![0] =
                      @ \o FlattenSeq([i \in 1 .. N - 1 |-> from(i)])]
  /\ queue' = [queue EXCEPT ![0] = {}]
  /\ GoTo(0, "done")
  /\ UNCHANGED <<rendered, bounds, partials>>

Terminating ==
  /\ \A r \in Ranks : pc[r] \in {"done", "error"}
  /\ UNCHANGED vars

Next ==
  \/ Merge
  \/ \E r \in Ranks : Decompose(r) \/ Send(r) \/ Receive(r) \/ Composite(r)
                        \/ CollectSend(r)
  \/ CollectReceive
  \/ Terminating

Spec == Init /\ [][Next]_vars

-----------------------------------------------------------------------------
(* Properties.                                                             *)

(* The partials that the decomposition of all pixels gives to one rank. *)
OwnedBy(in, r) ==
  {p \in UNION {in[s] : s \in Ranks} :
     Owner(p.pixel, Min(Pixels(in)), Max(Pixels(in))) = r}

(* No rank is left with exactly one partial to blend (see OnePartial). *)
Several(in) ==
  \/ Pixels(in) = {}
  \/ Width(Min(Pixels(in)), Max(Pixels(in))) = 0
  \/ \A r \in Ranks : Cardinality(OwnedBy(in, r)) # 1

AllRendered == UNION {rendered[r] : r \in Ranks}

PixelParts(pixel) == {p \in AllRendered : p.pixel = pixel}

TypeOK ==
  /\ pc \in [Ranks -> {"merge", "redistribute", "receive", "composite",
                       "collect", "done", "error"}]
  /\ \A r \in Ranks : partials[r] \subseteq AllRendered
  /\ \A r \in Ranks : \A m \in queue[r] : m.from \in Ranks
  /\ \A r \in Ranks : \A i \in DOMAIN output[r] :
       output[r][i].parts \in Seq(AllRendered)

(* When rank 0 is done it holds every pixel that some rank rendered exactly *)
(* once, with all partials of that pixel, wherever they were rendered, from *)
(* front to back (PartialCompositor.cpp:355-487).                          *)
ImageComplete ==
  pc[0] = "done" =>
    /\ \A i, j \in DOMAIN output[0] :
         output[0][i].pixel = output[0][j].pixel => i = j
    /\ {output[0][i].pixel : i \in DOMAIN output[0]} = {p.pixel : p \in AllRendered}
    /\ \A i \in DOMAIN output[0] :
         output[0][i].parts \in Sortings(PixelParts(output[0][i].pixel))

(* Once a rank starts to blend, all partials of the pixels it has are with *)
(* it: no pixel is blended on two ranks ("the ranks that owns that sectoon *)
(* of the image", vtkh_diy_partial_redistribute.hpp:53-55).                *)
OneOwnerPerPixel ==
  \A r \in Ranks : pc[r] = "composite" =>
    \A p \in partials[r] : PixelParts(p.pixel) \subseteq partials[r]
=============================================================================
