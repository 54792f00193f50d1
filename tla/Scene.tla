------------------------------- MODULE Scene --------------------------------
(***************************************************************************)
(* vtkh::Scene (rendering/Scene.cpp) on top of Renderer::Update: a scene   *)
(* draws its plots into the canvases of its images, batch by batch.  The   *)
(* opaque plots of a batch are drawn one over the other on every rank and  *)
(* composited once, onto rank 0; then the depths of rank 0 are broadcast   *)
(* and the volume is drawn behind them.                                    *)
(*                                                                         *)
(* What a canvas shows is the set of fragments drawn on it; a fragment is   *)
(* a plot and the rank whose data it comes from.  All ranks run the same   *)
(* program, so the list of plots is the same on all of them.               *)
(***************************************************************************)
EXTENDS Integers, Sequences, FiniteSetsExt, SequencesExt

CONSTANTS
  Ranks, Root,
  NumImages,    \* renders of the scene
  MaxPlots,     \* bound on the number of plots added
  BatchSizes    \* arguments of SetRenderBatchSize

ASSUME SceneAssumption ==
  /\ Root \in Ranks
  /\ NumImages \in Nat \ {0} /\ MaxPlots \in Nat
  /\ BatchSizes \subseteq Nat

Images == 1 .. NumImages
Kinds == {"surface", "mesh", "volume"}

VARIABLES
  m_renderers,   \* the plots, in the order they are drawn: [kind, id]
  m_has_volume,
  m_batch_size,
  pc,            \* pc[r]: where rank r is in Render
  batch_start,   \* batch_start[r]: images of the batches r is done with
  plot,          \* plot[r]: the plot r draws next
  color, depth,  \* color[r][i], depth[r][i]: the two buffers of a canvas
  hidden_by,     \* history: hidden_by[r][i], the depths the volume was drawn to
  saved          \* history: saved[i], what was written to the file of image i

scene == <<m_renderers, m_has_volume, m_batch_size>>
canvases == <<color, depth, hidden_by, saved>>
vars == <<scene, pc, batch_start, plot, canvases>>

opaque_plots == Len(m_renderers) - IF m_has_volume THEN 1 ELSE 0

Batch(r) == batch_start[r] + 1 .. Min({batch_start[r] + m_batch_size, NumImages})

FragmentsOf(plots) == {<<p.id, r>> : p \in plots, r \in Ranks}

Idle == \A r \in Ranks : pc[r] = "idle"

-----------------------------------------------------------------------------
Init ==
  /\ m_renderers = <<>>
  /\ m_has_volume = FALSE
  /\ m_batch_size \in BatchSizes
  /\ pc = [r \in Ranks |-> "idle"]
  /\ batch_start = [r \in Ranks |-> 0]
  /\ plot = [r \in Ranks |-> 1]
  /\ color = [r \in Ranks |-> [i \in Images |-> {}]]
  /\ depth = color
  /\ hidden_by = color
  /\ saved = [i \in Images |-> {}]

(* Mutant of MeshPlace: the mesh goes to the end of the list. *)
MeshPlaceLast == Len(m_renderers) + 1

(* Where AddRenderer inserts a mesh: last, or first when the volume is     *)
(* alone, or two places before the end of the list.                        *)
MeshPlace ==
  IF ~m_has_volume THEN Len(m_renderers) + 1
  ELSE IF Len(m_renderers) = 1 THEN 1
  ELSE Len(m_renderers) - 1

(* A second volume is refused with an exception. *)
AddRenderer(kind) ==
  /\ Idle /\ Len(m_renderers) < MaxPlots
  /\ kind = "volume" => ~m_has_volume
  /\ LET new == [kind |-> kind, id |-> Len(m_renderers) + 1]
         place == IF kind = "volume" THEN Len(m_renderers) + 1
                  ELSE IF kind = "mesh" THEN MeshPlace
                  ELSE 1
     IN  m_renderers' = InsertAt(m_renderers, place, new)
  /\ m_has_volume' = (m_has_volume \/ kind = "volume")
  /\ UNCHANGED <<m_batch_size, pc, batch_start, plot, canvases>>

(* Less than one is refused with an exception. *)
SetRenderBatchSize(n) ==
  /\ Idle /\ n >= 1
  /\ m_batch_size' = n
  /\ UNCHANGED <<m_renderers, m_has_volume, pc, batch_start, plot, canvases>>

Render ==
  /\ Idle
  /\ pc' = [r \in Ranks |-> "batch"]
  /\ batch_start' = [r \in Ranks |-> 0]
  /\ saved' = [i \in Images |-> {}]
  /\ UNCHANGED <<scene, plot, color, depth, hidden_by>>

(* The next batch: clear its canvases; or return after the last one.       *)
StartBatch(r) ==
  /\ pc[r] = "batch"
  /\ IF batch_start[r] < NumImages
     THEN /\ pc' = [pc EXCEPT ![r] = IF opaque_plots > 0 THEN "opaque"
                                     ELSE IF m_has_volume THEN "volume" ELSE "save"]
          /\ LET Cleared(buffer) == [i \in Images |-> IF i \in Batch(r) THEN {} ELSE buffer[i]]
             IN  /\ color' = [color EXCEPT ![r] = Cleared(@)]
                 /\ depth' = [depth EXCEPT ![r] = Cleared(@)]
     ELSE /\ pc' = [pc EXCEPT ![r] = "idle"]
          /\ UNCHANGED <<color, depth>>
  /\ plot' = [plot EXCEPT ![r] = 1]
  /\ UNCHANGED <<scene, batch_start, hidden_by, saved>>

Drawn(buffer, r, p) ==
  [buffer EXCEPT ![r] =
     [i \in Images |-> IF i \in Batch(r) THEN @[i] \cup {<<p.id, r>>} ELSE @[i]]]

(* Mutant of DoComposite: the first plot is composited. *)
CompositesFirst(n) == n = 1

(* The plot whose Update also composites: the last opaque one.             *)
DoComposite(n) == n = opaque_plots

(* Update of an opaque plot, without its compositing. *)
DrawOpaque(r) ==
  /\ pc[r] = "opaque"
  /\ color' = Drawn(color, r, m_renderers[plot[r]])
  /\ depth' = Drawn(depth, r, m_renderers[plot[r]])
  /\ plot' = [plot EXCEPT ![r] = @ + 1]
  /\ pc' = [pc EXCEPT ![r] =
              IF DoComposite(plot[r]) THEN "composite"
              ELSE IF plot[r] < opaque_plots THEN "opaque"
              ELSE IF m_has_volume THEN "synch" ELSE "save"]
  /\ UNCHANGED <<scene, batch_start, hidden_by, saved>>

(* Renderer::Composite, in which all ranks take part: rank 0 gets what is   *)
(* nearest in any rank's canvas, and its depth.                            *)
Composite ==
  /\ \A r \in Ranks : pc[r] = "composite"
  /\ LET Gathered(buffer) == [buffer EXCEPT ![Root] =
           [i \in Images |-> IF i \in Batch(Root) THEN UNION {buffer[r][i] : r \in Ranks}
                             ELSE @[i]]]
     IN  color' = Gathered(color) /\ depth' = Gathered(depth)
  /\ pc' = [r \in Ranks |-> IF plot[r] <= opaque_plots THEN "opaque"
                            ELSE IF m_has_volume THEN "synch" ELSE "save"]
  /\ UNCHANGED <<scene, batch_start, plot, hidden_by, saved>>

(* Mutant of SynchDepths: the depths stay where they are. *)
SynchNothing ==
  /\ \A r \in Ranks : pc[r] = "synch"
  /\ pc' = [r \in Ranks |-> "volume"]
  /\ UNCHANGED <<scene, batch_start, plot, canvases>>

(* SynchDepths: MPI_Bcast of the depth buffer of every image. *)
SynchDepths ==
  /\ \A r \in Ranks : pc[r] = "synch"
  /\ depth' = [r \in Ranks |-> [i \in Images |->
                 IF i \in Batch(r) THEN depth[Root][i] ELSE depth[r][i]]]
  /\ pc' = [r \in Ranks |-> "volume"]
  /\ UNCHANGED <<scene, batch_start, plot, color, hidden_by, saved>>

(* Update of the volume; it does not write depths.                         *)
DrawVolume(r) ==
  /\ pc[r] = "volume"
  /\ color' = Drawn(color, r, m_renderers[plot[r]])
  /\ hidden_by' = [hidden_by EXCEPT ![r] =
                     [i \in Images |-> IF i \in Batch(r) THEN depth[r][i] ELSE @[i]]]
  /\ plot' = [plot EXCEPT ![r] = @ + 1]
  /\ pc' = [pc EXCEPT ![r] = "compositeVolume"]
  /\ UNCHANGED <<scene, batch_start, depth, saved>>

(* The samples of the volume on all ranks are blended on rank 0. *)
CompositeVolume ==
  /\ \A r \in Ranks : pc[r] = "compositeVolume"
  /\ LET volume == FragmentsOf({m_renderers[Len(m_renderers)]})
         samples(i) == (UNION {color[r][i] : r \in Ranks}) \cap volume
     IN  color' = [color EXCEPT ![Root] =
           [i \in Images |-> IF i \in Batch(Root) THEN @[i] \cup samples(i) ELSE @[i]]]
  /\ pc' = [r \in Ranks |-> "save"]
  /\ UNCHANGED <<scene, batch_start, plot, depth, hidden_by, saved>>

(* Mutants of Save: the same batch again; an image left out between two.   *)
SaveAgain(r) ==
  /\ pc[r] = "save"
  /\ saved' = IF r # Root THEN saved
              ELSE [i \in Images |-> IF i \in Batch(r) THEN color[r][i] ELSE saved[i]]
  /\ pc' = [pc EXCEPT ![r] = "batch"]
  /\ UNCHANGED <<scene, batch_start, plot, color, depth, hidden_by>>

SaveSkipping(r) ==
  /\ pc[r] = "save"
  /\ saved' = IF r # Root THEN saved
              ELSE [i \in Images |-> IF i \in Batch(r) THEN color[r][i] ELSE saved[i]]
  /\ batch_start' = [batch_start EXCEPT ![r] = @ + m_batch_size + 1]
  /\ pc' = [pc EXCEPT ![r] = "batch"]
  /\ UNCHANGED <<scene, plot, color, depth, hidden_by>>

(* Rank 0 writes the images of the batch. *)
Save(r) ==
  /\ pc[r] = "save"
  /\ saved' = IF r # Root THEN saved
              ELSE [i \in Images |-> IF i \in Batch(r) THEN color[r][i] ELSE saved[i]]
  /\ batch_start' = [batch_start EXCEPT ![r] = Min({@ + m_batch_size, NumImages})]
  /\ pc' = [pc EXCEPT ![r] = "batch"]
  /\ UNCHANGED <<scene, plot, color, depth, hidden_by>>

Rendering ==
  \/ \E r \in Ranks :
       StartBatch(r) \/ DrawOpaque(r) \/ DrawVolume(r) \/ Save(r)
  \/ Composite
  \/ SynchDepths
  \/ CompositeVolume

Next ==
  \/ \E kind \in Kinds : AddRenderer(kind)
  \/ \E n \in BatchSizes : SetRenderBatchSize(n)
  \/ Render
  \/ Rendering

Spec == Init /\ [][Next]_vars

(* Render runs to its end once it is called. *)
FairSpec == Spec /\ WF_vars(Rendering)

-----------------------------------------------------------------------------
(* Properties.                                                             *)

TypeOK ==
  /\ m_renderers \in Seq([kind : Kinds, id : 1 .. MaxPlots])
  /\ m_has_volume \in BOOLEAN /\ m_batch_size \in BatchSizes
  /\ pc \in [Ranks -> {"idle", "batch", "opaque", "composite", "synch", "volume",
                       "compositeVolume", "save"}]
  /\ batch_start \in [Ranks -> 0 .. NumImages]
  /\ plot \in [Ranks -> 1 .. MaxPlots + 1]

Opaque == {p \in ToSet(m_renderers) : p.kind # "volume"}

(* A volume is drawn after everything else, as the pass for volumes takes  *)
(* for granted (Scene.cpp:90, 197).                                        *)
VolumeLast ==
  \A n \in DOMAIN m_renderers :
    m_renderers[n].kind = "volume" => n = Len(m_renderers)

(* "Order is: 1) surfaces 2) meshes 3) volume" (Scene.cpp:158-162).        *)
RenderOrder ==
  \A i, j \in DOMAIN m_renderers :
    m_renderers[i].kind = "mesh" /\ m_renderers[j].kind = "surface" => j < i

(* When Render is over every image has been written, in whichever batch it *)
(* was, and shows every plot of every rank.                                *)
ImagesWhole ==
  \A i \in Images :
    (\A r \in Ranks : pc[r] = "batch" /\ batch_start[r] >= NumImages) =>
      saved[i] = FragmentsOf(ToSet(m_renderers))

(* Wherever the volume has been drawn, it was drawn behind all opaque plots *)
(* of all ranks: "synchronize depths so that volume only render to the max *)
(* depth" (Scene.cpp:164-166).                                             *)
VolumeBehindOpaque ==
  \A r \in Ranks : pc[r] = "compositeVolume" =>
    \A i \in Batch(r) : hidden_by[r][i] = FragmentsOf(Opaque)

(* Render returns, on every rank. *)
RenderEnds == ~Idle ~> Idle
=============================================================================
