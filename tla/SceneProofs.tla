----------------------------- MODULE SceneProofs ------------------------------
(***************************************************************************)
(* Theorems about Scene, for any number of plots, images and ranks and any *)
(* batch size: the volume stays last in the list of plots, it is drawn     *)
(* behind everything opaque, and the images written show every plot.       *)
(***************************************************************************)
EXTENDS Scene, SequenceTheorems, TLAPS

Plot == [kind : Kinds, id : 1 .. MaxPlots]

(* What inserting at a place does to the others. *)
LEMMA Inserted ==
  ASSUME NEW s \in Seq(Plot), NEW place \in 1 .. Len(s) + 1, NEW new \in Plot
  PROVE  /\ InsertAt(s, place, new) \in Seq(Plot)
         /\ Len(InsertAt(s, place, new)) = Len(s) + 1
         /\ \A k \in 1 .. Len(s) + 1 :
              InsertAt(s, place, new)[k] =
                IF k < place THEN s[k] ELSE IF k = place THEN new ELSE s[k - 1]
<1> DEFINE front == SubSeq(s, 1, place - 1)
           back == SubSeq(s, place, Len(s))
<1>1. /\ front \in Seq(Plot) /\ Len(front) = place - 1
      /\ \A k \in 1 .. place - 1 : front[k] = s[k]
  OBVIOUS
<1>2. /\ back \in Seq(Plot) /\ Len(back) = Len(s) - place + 1
      /\ \A k \in 1 .. Len(s) - place + 1 : back[k] = s[place + k - 1]
  OBVIOUS
<1>3. InsertAt(s, place, new) = front \o <<new>> \o back
  BY DEF InsertAt
<1> HIDE DEF front, back
<1>4. /\ front \o <<new>> \in Seq(Plot) /\ Len(front \o <<new>>) = place
      /\ \A k \in 1 .. place :
           (front \o <<new>>)[k] = IF k < place THEN s[k] ELSE new
  BY <1>1
<1> DEFINE start == front \o <<new>>
<1> HIDE DEF start
<1>5. /\ start \in Seq(Plot) /\ Len(start) = place
      /\ \A k \in 1 .. place : start[k] = IF k < place THEN s[k] ELSE new
  BY <1>4 DEF start
<1>6. /\ start \o back \in Seq(Plot) /\ Len(start \o back) = Len(s) + 1
      /\ \A k \in 1 .. Len(s) + 1 :
           (start \o back)[k] = IF k <= place THEN start[k] ELSE back[k - place]
  <2>1. start \o back \in Seq(Plot)
    BY <1>2, <1>5, ConcatProperties
  <2>2. Len(start \o back) = Len(start) + Len(back)
    BY <1>2, <1>5, ConcatProperties
  <2>3. \A k \in 1 .. Len(start) + Len(back) :
          (start \o back)[k] = IF k <= Len(start) THEN start[k] ELSE back[k - Len(start)]
    BY <1>2, <1>5, ConcatProperties
  <2>4. Len(start) + Len(back) = Len(s) + 1
    BY <1>2, <1>5
  <2> QED
    BY <1>5, <2>1, <2>2, <2>3, <2>4
<1>7. \A k \in 1 .. Len(s) + 1 :
        (start \o back)[k] = IF k < place THEN s[k] ELSE IF k = place THEN new ELSE s[k - 1]
  BY <1>2, <1>5, <1>6
<1> QED
  BY <1>3, <1>6, <1>7 DEF start

-----------------------------------------------------------------------------
(* The inductive invariant: m_has_volume tells whether the last plot is a  *)
(* volume, on which the place of the next plot depends.                    *)
PlotsInv ==
  /\ m_renderers \in Seq(Plot)
  /\ Len(m_renderers) <= MaxPlots
  /\ m_has_volume \in BOOLEAN
  /\ m_has_volume => m_renderers # <<>>
  /\ \A n \in 1 .. Len(m_renderers) :
       m_renderers[n].kind = "volume" <=> m_has_volume /\ n = Len(m_renderers)

LEMMA PlotsInvInit == Init => PlotsInv
<1> SUFFICES ASSUME Init PROVE PlotsInv
  OBVIOUS
<1>1. m_renderers = <<>> /\ m_has_volume = FALSE
  BY DEF Init
<1>2. m_renderers \in Seq(Plot) /\ Len(m_renderers) = 0
  BY <1>1
<1>3. 1 .. Len(m_renderers) = {}
  BY <1>2
<1>4. Len(m_renderers) <= MaxPlots
  BY <1>2, SceneAssumption
<1> QED
  BY <1>1, <1>2, <1>3, <1>4 DEF PlotsInv

LEMMA PlotsInvAdd ==
  ASSUME PlotsInv, NEW kind \in Kinds, AddRenderer(kind)
  PROVE  PlotsInv'
<1> DEFINE n == Len(m_renderers)
           new == [kind |-> kind, id |-> n + 1]
           place == IF kind = "volume" THEN n + 1
                    ELSE IF kind = "mesh" THEN MeshPlace ELSE 1
<1>1. /\ n \in Nat /\ n + 1 <= MaxPlots /\ new \in Plot
      /\ m_has_volume => n > 0
  BY SceneAssumption DEF PlotsInv, Plot, AddRenderer
<1>2. /\ place \in 1 .. n + 1
      /\ kind = "volume" => place = n + 1
      /\ kind # "volume" /\ m_has_volume => place < n + 1
  <2>1. CASE kind = "volume"
    BY <1>1, <2>1
  <2>2. CASE kind = "mesh"
    <3>1. place = MeshPlace
      BY <2>2
    <3>2. CASE ~m_has_volume
      <4>1. MeshPlace = n + 1
        BY <3>2 DEF MeshPlace
      <4> QED
        BY <1>1, <2>2, <3>1, <3>2, <4>1
    <3>3. CASE m_has_volume
      <4>1. n > 0
        BY <1>1, <3>3
      <4>2. MeshPlace = IF n = 1 THEN 1 ELSE n - 1
        BY <3>3 DEF MeshPlace
      <4>3. MeshPlace \in 1 .. n + 1 /\ MeshPlace < n + 1
        <5>1. n \in Nat
          BY <1>1
        <5> HIDE DEF n
        <5>2. CASE n = 1
          BY <4>2, <5>2
        <5>3. CASE n # 1
          <6>1. MeshPlace = n - 1 /\ n > 1
            BY <4>1, <4>2, <5>1, <5>3
          <6> QED
            BY <5>1, <6>1
        <5> QED
          BY <5>2, <5>3
      <4> QED
        BY <2>2, <3>1, <4>3
    <3> QED
      BY <3>2, <3>3
  <2>3. CASE kind \notin {"volume", "mesh"}
    <3>1. place = 1
      BY <2>3
    <3> QED
      BY <1>1, <2>3, <3>1
  <2> QED
    BY <2>1, <2>2, <2>3
<1>3. /\ m_renderers' = InsertAt(m_renderers, place, new)
      /\ m_has_volume' = (m_has_volume \/ kind = "volume")
      /\ kind = "volume" => ~m_has_volume
  BY DEF AddRenderer
<1> HIDE DEF place
<1>4. /\ m_renderers' \in Seq(Plot)
      /\ Len(m_renderers') = n + 1
      /\ \A k \in 1 .. n + 1 :
           m_renderers'[k] = IF k < place THEN m_renderers[k]
                             ELSE IF k = place THEN new ELSE m_renderers[k - 1]
  BY <1>1, <1>2, <1>3, Inserted DEF PlotsInv
<1>5. ASSUME NEW k \in 1 .. n + 1
      PROVE  m_renderers'[k].kind = "volume" <=> m_has_volume' /\ k = n + 1
  <2>1. CASE k < place
    <3>1. k \in 1 .. n /\ m_renderers'[k] = m_renderers[k]
      BY <1>1, <1>2, <1>4, <2>1
    <3>2. m_renderers[k].kind = "volume" <=> m_has_volume /\ k = n
      BY <3>1 DEF PlotsInv
    <3>3. k # n + 1
      BY <1>1, <3>1
    <3>4. ~ (m_has_volume /\ k = n)
      <4>1. ASSUME m_has_volume PROVE kind # "volume"
        BY <1>3, <4>1
      <4>2. ASSUME m_has_volume PROVE place < n + 1
        BY <1>2, <4>1, <4>2
      <4> QED
        BY <1>1, <1>2, <2>1, <4>2
    <3> QED
      BY <3>1, <3>2, <3>3, <3>4, Zenon
  <2>2. CASE k = place
    <3>1. m_renderers'[k].kind = kind
      BY <1>4, <2>2
    <3>2. CASE kind = "volume"
      BY <1>2, <1>3, <2>2, <3>1, <3>2, Zenon
    <3>3. CASE kind # "volume"
      <4>1. ASSUME m_has_volume PROVE k # n + 1
        BY <1>1, <1>2, <2>2, <3>3, <4>1
      <4> QED
        BY <1>3, <3>1, <3>3, <4>1, Zenon
    <3> QED
      BY <3>2, <3>3
  <2>3. CASE k > place
    <3>1. k - 1 \in 1 .. n /\ m_renderers'[k] = m_renderers[k - 1]
      BY <1>1, <1>2, <1>4, <2>3
    <3>2. m_renderers[k - 1].kind = "volume" <=> m_has_volume /\ k - 1 = n
      BY <3>1 DEF PlotsInv
    <3>3. kind # "volume"
      BY <1>1, <1>2, <2>3
    <3>4. k - 1 = n <=> k = n + 1
      BY <1>1
    <3> QED
      BY <1>3, <3>1, <3>2, <3>3, <3>4, Zenon
  <2> QED
    BY <1>1, <1>2, <2>1, <2>2, <2>3
<1>6. m_has_volume' \in BOOLEAN
  BY <1>3 DEF PlotsInv
<1>7. m_renderers' # <<>>
  BY <1>1, <1>4
<1> QED
  BY <1>1, <1>4, <1>5, <1>6, <1>7 DEF PlotsInv

LEMMA PlotsInvNext == PlotsInv /\ [Next]_vars => PlotsInv'
<1> SUFFICES ASSUME PlotsInv, [Next]_vars PROVE PlotsInv'
  OBVIOUS
<1>1. CASE \E kind \in Kinds : AddRenderer(kind)
  BY <1>1, PlotsInvAdd
<1>2. ASSUME UNCHANGED <<m_renderers, m_has_volume>> PROVE PlotsInv'
  BY <1>2 DEF PlotsInv
<1>3. CASE \E m \in BatchSizes : SetRenderBatchSize(m)
  BY <1>2, <1>3 DEF SetRenderBatchSize
<1>4. CASE Render
  BY <1>2, <1>4 DEF Render, scene
<1>5. CASE Rendering
  <2>1. ASSUME NEW r \in Ranks, StartBatch(r) \/ DrawOpaque(r) \/ DrawVolume(r) \/ Save(r)
        PROVE  UNCHANGED scene
    BY <2>1 DEF StartBatch, DrawOpaque, DrawVolume, Save
  <2>2. CASE Composite \/ SynchDepths \/ CompositeVolume
    BY <1>2, <2>2 DEF Composite, SynchDepths, CompositeVolume, scene
  <2> QED
    BY <1>2, <1>5, <2>1, <2>2 DEF Rendering, scene
<1>6. CASE UNCHANGED vars
  BY <1>2, <1>6 DEF vars, scene
<1> QED
  BY <1>1, <1>3, <1>4, <1>5, <1>6 DEF Next

(* Whatever plots are added, in whatever order and between whatever calls  *)
(* of Render, the volume stays last (Scene::AddRenderer).                  *)
THEOREM VolumeStaysLast == Spec => []VolumeLast
<1>1. PlotsInv => VolumeLast
  BY DEF PlotsInv, VolumeLast
<1> QED
  BY <1>1, PlotsInvInit, PlotsInvNext, PTL DEF Spec
-----------------------------------------------------------------------------
(* Where the ranks are in Render, and what is on their canvases there.     *)

DrawnBy(r, n) == {<<m_renderers[k].id, r>> : k \in 1 .. n}

VolumeOf(r) == <<m_renderers[Len(m_renderers)].id, r>>

Shows(buffer, r, fragments) == \A i \in Batch(r) : buffer[r][i] = fragments

RenderTypes ==
  /\ m_batch_size \in BatchSizes
  /\ pc \in [Ranks -> {"idle", "batch", "opaque", "composite", "synch", "volume",
                       "compositeVolume", "save"}]
  /\ batch_start \in [Ranks -> 0 .. NumImages]
  /\ plot \in [Ranks -> 1 .. MaxPlots + 1]
  /\ DOMAIN color = Ranks /\ DOMAIN depth = Ranks /\ DOMAIN hidden_by = Ranks

(* Which plot a rank is at. *)
PlotOf(r) ==
  /\ pc[r] = "opaque" => plot[r] \in 1 .. opaque_plots
  /\ pc[r] \in {"composite", "synch", "volume"} => plot[r] = opaque_plots + 1
  /\ pc[r] = "composite" => opaque_plots > 0
  /\ pc[r] \in {"synch", "volume", "compositeVolume"} => m_has_volume

(* What is on the canvases of any rank, and on those of rank 0. *)
CanvasesOf(r) ==
  /\ pc[r] \in {"opaque", "composite"} =>
       /\ Shows(color, r, DrawnBy(r, plot[r] - 1))
       /\ Shows(depth, r, DrawnBy(r, plot[r] - 1))
  /\ pc[r] = "volume" => Shows(depth, r, FragmentsOf(Opaque))
  /\ pc[r] = "compositeVolume" =>
       /\ Shows(hidden_by, r, FragmentsOf(Opaque))
       /\ \A i \in Batch(r) : VolumeOf(r) \in color[r][i]

CanvasesOfRoot ==
  /\ pc[Root] = "synch" =>
       /\ Shows(color, Root, FragmentsOf(Opaque))
       /\ Shows(depth, Root, FragmentsOf(Opaque))
  /\ pc[Root] = "volume" => Shows(color, Root, FragmentsOf(Opaque))
  /\ pc[Root] = "compositeVolume" =>
       Shows(color, Root, FragmentsOf(Opaque) \cup {VolumeOf(Root)})
  /\ pc[Root] = "save" => Shows(color, Root, FragmentsOf(ToSet(m_renderers)))

SavedSoFar ==
  ~Idle => \A i \in 1 .. batch_start[Root] : saved[i] = FragmentsOf(ToSet(m_renderers))

(* The images a rank is done with when the collective steps of its batch are *)
(* behind it.  With any plot at all, the ranks agree on them.              *)
Goal(r) == IF pc[r] = "save" THEN Min({batch_start[r] + m_batch_size, NumImages})
           ELSE batch_start[r]

Aligned == ~Idle /\ m_renderers # <<>> => \A q, r \in Ranks : Goal(q) = Goal(r)

RenderInv ==
  /\ PlotsInv
  /\ RenderTypes
  /\ \A r \in Ranks : PlotOf(r) /\ CanvasesOf(r)
  /\ CanvasesOfRoot
  /\ SavedSoFar
  /\ Aligned

LEMMA MinOfTwo ==
  ASSUME NEW a \in Int, NEW b \in Int
  PROVE  Min({a, b}) = IF a <= b THEN a ELSE b
<1> DEFINE least == IF a <= b THEN a ELSE b
<1>1. least \in {a, b} /\ \A y \in {a, b} : least <= y
  OBVIOUS
<1>2. ASSUME NEW x \in {a, b}, \A y \in {a, b} : x <= y PROVE x = least
  BY <1>1, <1>2
<1> QED
  BY <1>1, <1>2 DEF Min

LEMMA BatchStarts ==
  ASSUME RenderTypes, NEW r \in Ranks
  PROVE  /\ m_batch_size \in Nat /\ batch_start[r] \in 0 .. NumImages
         /\ Min({batch_start[r] + m_batch_size, NumImages}) \in batch_start[r] .. NumImages
         /\ Batch(r) \subseteq Images
<1>1. /\ m_batch_size \in Nat /\ NumImages \in Nat
      /\ batch_start[r] \in 0 .. NumImages
  BY SceneAssumption DEF RenderTypes
<1>2. Min({batch_start[r] + m_batch_size, NumImages}) =
        IF batch_start[r] + m_batch_size <= NumImages
        THEN batch_start[r] + m_batch_size ELSE NumImages
  BY <1>1, MinOfTwo
<1> QED
  BY <1>1, <1>2 DEF Batch, Images

(* The list of plots: the opaque ones, then the volume. *)
LEMMA OpaqueFirst ==
  ASSUME PlotsInv
  PROVE  /\ opaque_plots \in Nat /\ opaque_plots <= MaxPlots
         /\ m_has_volume => /\ opaque_plots + 1 = Len(m_renderers)
                            /\ opaque_plots < MaxPlots
         /\ Opaque = {m_renderers[k] : k \in 1 .. opaque_plots}
         /\ ~m_has_volume => ToSet(m_renderers) = Opaque
         /\ m_has_volume => ToSet(m_renderers) = Opaque \cup {m_renderers[Len(m_renderers)]}
         /\ opaque_plots = 0 /\ ~m_has_volume => m_renderers = <<>>
<1> DEFINE n == Len(m_renderers)
<1>1. n \in Nat /\ n <= MaxPlots /\ DOMAIN m_renderers = 1 .. n
  BY DEF PlotsInv
<1>2. m_has_volume => n > 0
  BY DEF PlotsInv
<1>3. m_renderers = <<>> <=> n = 0
  BY DEF PlotsInv
<1>4. \A k \in 1 .. n : m_renderers[k].kind = "volume" <=> m_has_volume /\ k = n
  BY DEF PlotsInv
<1>5. ToSet(m_renderers) = {m_renderers[k] : k \in 1 .. n}
  BY <1>1 DEF ToSet
<1>6. opaque_plots = n - IF m_has_volume THEN 1 ELSE 0
  BY DEF opaque_plots
<1> HIDE DEF n
<1>7. \A k \in 1 .. n : k \in 1 .. opaque_plots <=> m_renderers[k].kind # "volume"
  BY <1>1, <1>2, <1>4, <1>6
<1>8. 1 .. opaque_plots \subseteq 1 .. n
  BY <1>1, <1>6
<1>9. Opaque = {m_renderers[k] : k \in 1 .. opaque_plots}
  BY <1>5, <1>7, <1>8 DEF Opaque
<1>10. ASSUME ~m_has_volume PROVE ToSet(m_renderers) = Opaque
  BY <1>5, <1>6, <1>9, <1>10, <1>1
<1>11. ASSUME m_has_volume PROVE ToSet(m_renderers) = Opaque \cup {m_renderers[n]}
  <2>1. n = opaque_plots + 1 /\ opaque_plots \in Nat
    BY <1>1, <1>2, <1>6, <1>11
  <2>2. 1 .. n = 1 .. opaque_plots \cup {n}
    BY <2>1
  <2> QED
    BY <1>5, <1>9, <2>2
<1>12. /\ opaque_plots \in Nat /\ opaque_plots <= MaxPlots
       /\ m_has_volume => opaque_plots + 1 = n /\ opaque_plots < MaxPlots
       /\ opaque_plots = 0 /\ ~m_has_volume => m_renderers = <<>>
  BY <1>1, <1>2, <1>3, <1>6, SceneAssumption
<1> QED
  BY <1>9, <1>10, <1>11, <1>12 DEF n

(* The fragments the ranks draw, all together. *)
LEMMA OpaqueFragments ==
  ASSUME PlotsInv
  PROVE  /\ UNION {DrawnBy(r, opaque_plots) : r \in Ranks} = FragmentsOf(Opaque)
         /\ m_has_volume =>
              FragmentsOf(ToSet(m_renderers)) =
                FragmentsOf(Opaque) \cup {VolumeOf(r) : r \in Ranks}
         /\ ~m_has_volume => FragmentsOf(ToSet(m_renderers)) = FragmentsOf(Opaque)
         /\ opaque_plots = 0 => FragmentsOf(Opaque) = {}
<1>1. Opaque = {m_renderers[k] : k \in 1 .. opaque_plots}
  BY OpaqueFirst
<1>2. FragmentsOf(Opaque) =
        {<<m_renderers[k].id, r>> : k \in 1 .. opaque_plots, r \in Ranks}
  BY <1>1 DEF FragmentsOf
<1>3. UNION {DrawnBy(r, opaque_plots) : r \in Ranks} =
        {<<m_renderers[k].id, r>> : k \in 1 .. opaque_plots, r \in Ranks}
  BY DEF DrawnBy
<1>4. ASSUME m_has_volume
      PROVE  FragmentsOf(ToSet(m_renderers)) =
               FragmentsOf(Opaque) \cup {VolumeOf(r) : r \in Ranks}
  <2>1. ToSet(m_renderers) = Opaque \cup {m_renderers[Len(m_renderers)]}
    BY <1>4, OpaqueFirst
  <2> QED
    BY <2>1 DEF FragmentsOf, VolumeOf
<1>5. ASSUME ~m_has_volume PROVE FragmentsOf(ToSet(m_renderers)) = FragmentsOf(Opaque)
  BY <1>5, OpaqueFirst
<1>6. ASSUME opaque_plots = 0 PROVE FragmentsOf(Opaque) = {}
  BY <1>2, <1>6
<1> QED
  BY <1>2, <1>3, <1>4, <1>5, <1>6

(* Steps that change neither the plots nor anything of rank q keep what is *)
(* known of q.                                                             *)
LEMMA RankKept ==
  ASSUME UNCHANGED scene, NEW q \in Ranks, PlotOf(q), CanvasesOf(q),
         pc'[q] = pc[q], plot'[q] = plot[q], batch_start'[q] = batch_start[q],
         color'[q] = color[q], depth'[q] = depth[q], hidden_by'[q] = hidden_by[q]
  PROVE  PlotOf(q)' /\ CanvasesOf(q)'
<1>1. /\ opaque_plots' = opaque_plots /\ Opaque' = Opaque
      /\ FragmentsOf(Opaque)' = FragmentsOf(Opaque)
      /\ VolumeOf(q)' = VolumeOf(q) /\ Batch(q)' = Batch(q)
      /\ DrawnBy(q, plot[q] - 1)' = DrawnBy(q, plot[q] - 1)
  BY DEF scene, opaque_plots, Opaque, FragmentsOf, VolumeOf, Batch, DrawnBy
<1>2. PlotOf(q)'
  BY <1>1 DEF PlotOf, scene
<1>3. CanvasesOf(q)'
  BY <1>1 DEF CanvasesOf, Shows
<1> QED
  BY <1>2, <1>3

LEMMA RootKept ==
  ASSUME UNCHANGED scene, CanvasesOfRoot,
         pc'[Root] = pc[Root], batch_start'[Root] = batch_start[Root],
         color'[Root] = color[Root], depth'[Root] = depth[Root]
  PROVE  CanvasesOfRoot'
<1>1. /\ Opaque' = Opaque /\ FragmentsOf(Opaque)' = FragmentsOf(Opaque)
      /\ FragmentsOf(ToSet(m_renderers))' = FragmentsOf(ToSet(m_renderers))
      /\ VolumeOf(Root)' = VolumeOf(Root) /\ Batch(Root)' = Batch(Root)
  BY DEF scene, Opaque, FragmentsOf, VolumeOf, Batch
<1> QED
  BY <1>1 DEF CanvasesOfRoot, Shows

LEMMA SavedKept ==
  ASSUME UNCHANGED scene, SavedSoFar, ~Idle,
         saved' = saved, batch_start'[Root] = batch_start[Root]
  PROVE  SavedSoFar'
<1>1. FragmentsOf(ToSet(m_renderers))' = FragmentsOf(ToSet(m_renderers))
  BY DEF scene, FragmentsOf
<1> QED
  BY <1>1 DEF SavedSoFar

LEMMA AlignmentKept ==
  ASSUME UNCHANGED scene, Aligned, ~Idle, \A q \in Ranks : Goal(q)' = Goal(q)
  PROVE  Aligned'
BY DEF Aligned, scene

(* A collective step finds the ranks in one batch, and leaves them there.   *)
LEMMA JointStep ==
  ASSUME RenderInv, m_renderers # <<>>,
         NEW before, before \notin {"idle", "save"}, \A r \in Ranks : pc[r] = before,
         NEW after, pc' = [r \in Ranks |-> after], UNCHANGED <<scene, batch_start>>
  PROVE  /\ \A r \in Ranks : Batch(r) = Batch(Root)
         /\ Aligned' /\ ~Idle /\ Root \in Ranks
<1>1. Root \in Ranks /\ ~Idle
  BY SceneAssumption DEF Idle
<1>2. \A r \in Ranks : Goal(r) = batch_start[r]
  BY DEF Goal
<1>3. \A r \in Ranks : batch_start[r] = batch_start[Root]
  BY <1>1, <1>2 DEF RenderInv, Aligned
<1>4. \A r \in Ranks : Batch(r) = Batch(Root)
  BY <1>3 DEF Batch
<1>5. Aligned'
  BY <1>1, <1>3 DEF Aligned, Goal, scene
<1> QED
  BY <1>1, <1>4, <1>5

LEMMA RenderInvInit == Init => RenderInv
<1> SUFFICES ASSUME Init PROVE RenderInv
  OBVIOUS
<1>1. \A r \in Ranks : pc[r] = "idle"
  BY DEF Init
<1>2. Idle
  BY <1>1 DEF Idle
<1>3. RenderTypes
  BY SceneAssumption DEF Init, RenderTypes
<1>4. \A r \in Ranks : PlotOf(r) /\ CanvasesOf(r)
  BY <1>1 DEF PlotOf, CanvasesOf
<1>5. CanvasesOfRoot
  BY <1>1, SceneAssumption DEF CanvasesOfRoot
<1> QED
  BY <1>2, <1>3, <1>4, <1>5, PlotsInvInit DEF RenderInv, SavedSoFar, Aligned

(* Between two calls of Render nothing is known of the canvases. *)
LEMMA RenderInvHost ==
  ASSUME RenderInv,
         \/ \E kind \in Kinds : AddRenderer(kind)
         \/ \E n \in BatchSizes : SetRenderBatchSize(n)
  PROVE  RenderInv'
<1>1. /\ Idle /\ m_batch_size' \in BatchSizes
      /\ UNCHANGED <<pc, batch_start, plot, canvases>>
  BY DEF AddRenderer, SetRenderBatchSize, RenderInv, RenderTypes
<1>2. \A r \in Ranks : pc'[r] = "idle"
  BY <1>1 DEF Idle
<1>3. Idle'
  BY <1>2 DEF Idle
<1>4. RenderTypes'
  BY <1>1 DEF RenderInv, RenderTypes, canvases
<1>5. \A r \in Ranks : PlotOf(r)' /\ CanvasesOf(r)'
  BY <1>2 DEF PlotOf, CanvasesOf
<1>6. CanvasesOfRoot'
  BY <1>2, SceneAssumption DEF CanvasesOfRoot
<1>7. PlotsInv'
  BY PlotsInvNext DEF RenderInv, Next
<1> QED
  BY <1>3, <1>4, <1>5, <1>6, <1>7 DEF RenderInv, SavedSoFar, Aligned

LEMMA RenderInvRender == RenderInv /\ Render => RenderInv'
<1> SUFFICES ASSUME RenderInv, Render PROVE RenderInv'
  OBVIOUS
<1>1. /\ \A r \in Ranks : pc'[r] = "batch" /\ batch_start'[r] = 0
      /\ pc' = [r \in Ranks |-> "batch"] /\ batch_start' = [r \in Ranks |-> 0]
      /\ UNCHANGED <<scene, plot, color, depth, hidden_by>>
  BY DEF Render
<1>2. RenderTypes'
  BY <1>1, SceneAssumption DEF RenderInv, RenderTypes, scene
<1>3. \A r \in Ranks : PlotOf(r)' /\ CanvasesOf(r)'
  BY <1>1 DEF PlotOf, CanvasesOf
<1>4. CanvasesOfRoot'
  BY <1>1, SceneAssumption DEF CanvasesOfRoot
<1>5. SavedSoFar'
  <2>1. 1 .. batch_start'[Root] = {}
    BY <1>1, SceneAssumption
  <2> QED
    BY <2>1 DEF SavedSoFar
<1>6. Aligned'
  BY <1>1 DEF Aligned, Goal
<1>7. PlotsInv'
  BY PlotsInvNext DEF RenderInv, Next
<1> QED
  BY <1>2, <1>3, <1>4, <1>5, <1>6, <1>7 DEF RenderInv

LEMMA RenderInvStartBatch ==
  ASSUME RenderInv, NEW r \in Ranks, StartBatch(r)
  PROVE  RenderInv'
<1>0. opaque_plots \in Nat
  BY OpaqueFirst DEF RenderInv
<1>1. /\ pc[r] = "batch" /\ ~Idle
      /\ UNCHANGED <<scene, batch_start, hidden_by, saved>>
      /\ plot' = [plot EXCEPT ![r] = 1]
  BY DEF StartBatch, Idle
<1>2. /\ pc'[r] \in {"idle", "save", "opaque", "volume"}
      /\ pc'[r] = "save" => opaque_plots = 0 /\ ~m_has_volume
      /\ pc'[r] = "opaque" => opaque_plots > 0
      /\ pc'[r] = "volume" => m_has_volume /\ ~(opaque_plots > 0)
      /\ pc' = [pc EXCEPT ![r] = pc'[r]]
  BY <1>0 DEF StartBatch, RenderInv, RenderTypes
<1>3. /\ DOMAIN color' = Ranks /\ DOMAIN depth' = Ranks
      /\ pc'[r] # "idle" => \A i \in Batch(r) : color'[r][i] = {} /\ depth'[r][i] = {}
      /\ \A q \in Ranks \ {r} : color'[q] = color[q] /\ depth'[q] = depth[q]
  <2>1. CASE batch_start[r] < NumImages
    <3> DEFINE Cleared(buffer) == [i \in Images |-> IF i \in Batch(r) THEN {} ELSE buffer[i]]
    <3>1. /\ color' = [color EXCEPT ![r] = Cleared(color[r])]
          /\ depth' = [depth EXCEPT ![r] = Cleared(depth[r])]
      BY <2>1 DEF StartBatch
    <3>2. Batch(r) \subseteq Images
      BY BatchStarts DEF RenderInv
    <3> QED
      BY <3>1, <3>2 DEF RenderInv, RenderTypes
  <2>2. CASE ~(batch_start[r] < NumImages)
    BY <2>2 DEF StartBatch, RenderInv, RenderTypes
  <2> QED
    BY <2>1, <2>2
<1>4. RenderTypes'
  <2>1. pc' \in [Ranks -> {"idle", "batch", "opaque", "composite", "synch", "volume",
                           "compositeVolume", "save"}]
    BY <1>2 DEF RenderInv, RenderTypes
  <2>2. plot' \in [Ranks -> 1 .. MaxPlots + 1]
    BY <1>1, SceneAssumption DEF RenderInv, RenderTypes
  <2> QED
    BY <1>1, <1>3, <2>1, <2>2 DEF RenderInv, RenderTypes, scene
<1>5. /\ opaque_plots' = opaque_plots /\ Opaque' = Opaque
      /\ FragmentsOf(Opaque)' = FragmentsOf(Opaque) /\ Batch(r)' = Batch(r)
      /\ FragmentsOf(ToSet(m_renderers))' = FragmentsOf(ToSet(m_renderers))
      /\ m_has_volume' = m_has_volume
  BY <1>1 DEF scene, opaque_plots, Opaque, FragmentsOf, Batch
<1>6. plot'[r] = 1 /\ opaque_plots \in Nat
  BY <1>1, OpaqueFirst DEF RenderInv, RenderTypes
<1>7. PlotOf(r)'
  BY <1>2, <1>5, <1>6 DEF PlotOf
<1>8. CanvasesOf(r)'
  <2>1. DrawnBy(r, plot[r] - 1)' = {}
    BY <1>6 DEF DrawnBy
  <2>2. pc'[r] = "volume" => FragmentsOf(Opaque) = {}
    BY <1>2, <1>6, OpaqueFragments DEF RenderInv
  <2> QED
    BY <1>2, <1>3, <1>5, <2>1, <2>2 DEF CanvasesOf, Shows
<1>9. ASSUME NEW q \in Ranks PROVE PlotOf(q)' /\ CanvasesOf(q)'
  <2>1. CASE q = r
    BY <1>7, <1>8, <2>1
  <2>2. CASE q # r
    BY <1>1, <1>2, <1>3, <2>2, RankKept DEF RenderInv, RenderTypes
  <2> QED
    BY <2>1, <2>2
<1>10. CanvasesOfRoot'
  <2>1. CASE Root = r
    <3>1. pc'[r] \in {"volume", "save"} => FragmentsOf(Opaque) = {}
      BY <1>2, <1>6, OpaqueFragments DEF RenderInv
    <3>2. pc'[r] = "save" => FragmentsOf(ToSet(m_renderers)) = {}
      BY <1>2, <3>1, OpaqueFragments DEF RenderInv
    <3> QED
      BY <1>2, <1>3, <1>5, <2>1, <3>1, <3>2 DEF CanvasesOfRoot, Shows
  <2>2. CASE Root # r
    BY <1>1, <1>2, <1>3, <2>2, RootKept, SceneAssumption DEF RenderInv, RenderTypes
  <2> QED
    BY <2>1, <2>2
<1>11. SavedSoFar'
  BY <1>1, SavedKept DEF RenderInv
<1>12. Aligned'
  <2>1. CASE pc'[r] = "save"
    <3>1. m_renderers' = <<>>
      BY <1>1, <1>2, <2>1, OpaqueFirst DEF RenderInv, scene
    <3> QED
      BY <3>1 DEF Aligned
  <2>2. CASE pc'[r] # "save"
    <3>1. \A q \in Ranks : Goal(q)' = Goal(q)
      BY <1>1, <1>2, <2>2 DEF Goal, scene, RenderInv, RenderTypes
    <3> QED
      BY <1>1, <3>1, AlignmentKept DEF RenderInv
  <2> QED
    BY <2>1, <2>2
<1>13. PlotsInv'
  BY PlotsInvNext DEF RenderInv, Next, Rendering
<1> QED
  BY <1>4, <1>9, <1>10, <1>11, <1>12, <1>13 DEF RenderInv

LEMMA RenderInvDrawOpaque ==
  ASSUME RenderInv, NEW r \in Ranks, DrawOpaque(r)
  PROVE  RenderInv'
<1> DEFINE mine == <<m_renderers[plot[r]].id, r>>
<1>1. /\ pc[r] = "opaque" /\ ~Idle
      /\ UNCHANGED <<scene, batch_start, hidden_by, saved>>
      /\ plot' = [plot EXCEPT ![r] = plot[r] + 1]
  BY DEF DrawOpaque, Idle
<1>2. /\ opaque_plots \in Nat /\ opaque_plots <= MaxPlots
      /\ plot[r] \in 1 .. opaque_plots /\ MaxPlots \in Nat
  BY <1>1, OpaqueFirst, SceneAssumption DEF RenderInv, PlotOf
<1>3. /\ pc'[r] = IF plot[r] = opaque_plots THEN "composite" ELSE "opaque"
      /\ pc' = [pc EXCEPT ![r] = pc'[r]]
  BY <1>2 DEF DrawOpaque, DoComposite, RenderInv, RenderTypes
<1>4. /\ DOMAIN color' = Ranks /\ DOMAIN depth' = Ranks
      /\ \A i \in Batch(r) : /\ color'[r][i] = color[r][i] \cup {mine}
                             /\ depth'[r][i] = depth[r][i] \cup {mine}
      /\ \A q \in Ranks \ {r} : color'[q] = color[q] /\ depth'[q] = depth[q]
  <2>1. Batch(r) \subseteq Images
    BY BatchStarts DEF RenderInv
  <2> QED
    BY <2>1 DEF DrawOpaque, Drawn, RenderInv, RenderTypes
<1>5. RenderTypes'
  <2>1. pc' \in [Ranks -> {"idle", "batch", "opaque", "composite", "synch", "volume",
                           "compositeVolume", "save"}]
    BY <1>3 DEF RenderInv, RenderTypes
  <2>2. plot' \in [Ranks -> 1 .. MaxPlots + 1]
    BY <1>1, <1>2 DEF RenderInv, RenderTypes
  <2> QED
    BY <1>1, <1>4, <2>1, <2>2 DEF RenderInv, RenderTypes, scene
<1>6. opaque_plots' = opaque_plots /\ Batch(r)' = Batch(r) /\ plot'[r] = plot[r] + 1
  BY <1>1 DEF scene, opaque_plots, Batch, RenderInv, RenderTypes
<1>7. PlotOf(r)'
  BY <1>2, <1>3, <1>6 DEF PlotOf
<1>8. CanvasesOf(r)'
  <2>1. DrawnBy(r, plot[r] - 1)' = DrawnBy(r, plot[r] - 1) \cup {mine}
    <3>1. 1 .. plot[r] = 1 .. plot[r] - 1 \cup {plot[r]}
      BY <1>2
    <3>2. (plot[r] - 1)' = plot[r]
      BY <1>2, <1>6
    <3>3. DrawnBy(r, plot[r]) = DrawnBy(r, plot[r] - 1) \cup {mine}
      BY <3>1 DEF DrawnBy
    <3>4. DrawnBy(r, plot[r] - 1)' = DrawnBy(r, plot[r])
      BY <1>1, <3>2 DEF DrawnBy, scene
    <3> QED
      BY <3>3, <3>4
  <2>2. /\ Shows(color, r, DrawnBy(r, plot[r] - 1))
        /\ Shows(depth, r, DrawnBy(r, plot[r] - 1))
    BY <1>1 DEF RenderInv, CanvasesOf
  <2> QED
    BY <1>3, <1>4, <1>6, <2>1, <2>2 DEF CanvasesOf, Shows
<1>9. ASSUME NEW q \in Ranks PROVE PlotOf(q)' /\ CanvasesOf(q)'
  <2>1. CASE q = r
    BY <1>7, <1>8, <2>1
  <2>2. CASE q # r
    BY <1>1, <1>3, <1>4, <2>2, RankKept DEF RenderInv, RenderTypes
  <2> QED
    BY <2>1, <2>2
<1>10. CanvasesOfRoot'
  <2>1. CASE Root = r
    BY <1>3, <2>1 DEF CanvasesOfRoot
  <2>2. CASE Root # r
    BY <1>1, <1>3, <1>4, <2>2, RootKept, SceneAssumption DEF RenderInv, RenderTypes
  <2> QED
    BY <2>1, <2>2
<1>11. SavedSoFar'
  BY <1>1, SavedKept DEF RenderInv
<1>12. Aligned'
  <2>1. \A q \in Ranks : Goal(q)' = Goal(q)
    BY <1>1, <1>3 DEF Goal, scene, RenderInv, RenderTypes
  <2> QED
    BY <1>1, <2>1, AlignmentKept DEF RenderInv
<1>13. PlotsInv'
  BY PlotsInvNext DEF RenderInv, Next, Rendering
<1> QED
  BY <1>5, <1>9, <1>10, <1>11, <1>12, <1>13 DEF RenderInv

LEMMA RenderInvComposite == RenderInv /\ Composite => RenderInv'
<1> SUFFICES ASSUME RenderInv, Composite PROVE RenderInv'
  OBVIOUS
<1> DEFINE All(buffer, i) == UNION {buffer[r][i] : r \in Ranks}
           next == IF m_has_volume THEN "synch" ELSE "save"
<1>1. /\ \A r \in Ranks : pc[r] = "composite"
      /\ UNCHANGED <<scene, batch_start, plot, hidden_by, saved>>
  BY DEF Composite
<1>2. /\ opaque_plots \in Nat /\ opaque_plots > 0
      /\ \A r \in Ranks : plot[r] = opaque_plots + 1
  BY <1>1, OpaqueFirst, SceneAssumption DEF RenderInv, PlotOf
<1>3. pc' = [r \in Ranks |-> next]
  BY <1>2 DEF Composite
<1>4. /\ \A r \in Ranks : Batch(r) = Batch(Root)
      /\ Aligned' /\ ~Idle /\ Root \in Ranks
  <2>1. m_renderers # <<>>
    BY <1>2 DEF RenderInv, PlotsInv, opaque_plots
  <2> QED
    BY <1>1, <1>3, <2>1, JointStep
<1>5. /\ DOMAIN color' = Ranks /\ DOMAIN depth' = Ranks
      /\ \A i \in Batch(Root) : /\ color'[Root][i] = All(color, i)
                                /\ depth'[Root][i] = All(depth, i)
  <2>1. Batch(Root) \subseteq Images
    BY <1>4, BatchStarts DEF RenderInv
  <2> QED
    BY <1>4, <2>1 DEF Composite, RenderInv, RenderTypes
<1>6. /\ opaque_plots' = opaque_plots
      /\ FragmentsOf(Opaque)' = FragmentsOf(Opaque) /\ Batch(Root)' = Batch(Root)
      /\ FragmentsOf(ToSet(m_renderers))' = FragmentsOf(ToSet(m_renderers))
      /\ m_has_volume' = m_has_volume
  BY <1>1 DEF scene, opaque_plots, Opaque, FragmentsOf, Batch
<1>7. RenderTypes'
  <2>1. pc' \in [Ranks -> {"idle", "batch", "opaque", "composite", "synch", "volume",
                           "compositeVolume", "save"}]
    BY <1>3
  <2> QED
    BY <1>1, <1>5, <2>1 DEF RenderInv, RenderTypes, scene
<1>8. ASSUME NEW r \in Ranks PROVE PlotOf(r)' /\ CanvasesOf(r)'
  <2>1. PlotOf(r)'
    BY <1>1, <1>2, <1>3, <1>6 DEF PlotOf
  <2>2. CanvasesOf(r)'
    BY <1>3 DEF CanvasesOf
  <2> QED
    BY <2>1, <2>2
<1>9. \A i \in Batch(Root) : /\ All(color, i) = FragmentsOf(Opaque)
                             /\ All(depth, i) = FragmentsOf(Opaque)
  <2>1. ASSUME NEW i \in Batch(Root), NEW r \in Ranks
        PROVE  /\ color[r][i] = DrawnBy(r, opaque_plots)
               /\ depth[r][i] = DrawnBy(r, opaque_plots)
    <3>1. plot[r] - 1 = opaque_plots
      BY <1>2
    <3>2. /\ Shows(color, r, DrawnBy(r, plot[r] - 1))
          /\ Shows(depth, r, DrawnBy(r, plot[r] - 1))
      BY <1>1 DEF RenderInv, CanvasesOf
    <3> QED
      BY <1>4, <2>1, <3>1, <3>2 DEF Shows
  <2>2. UNION {DrawnBy(r, opaque_plots) : r \in Ranks} = FragmentsOf(Opaque)
    BY OpaqueFragments DEF RenderInv
  <2> QED
    BY <2>1, <2>2
<1> HIDE DEF All
<1>10. CanvasesOfRoot'
  <2>1. ~m_has_volume => FragmentsOf(ToSet(m_renderers)) = FragmentsOf(Opaque)
    BY OpaqueFragments DEF RenderInv
  <2>2. pc'[Root] = next
    BY <1>3, <1>4
  <2>3. /\ Shows(color, Root, FragmentsOf(Opaque))'
        /\ Shows(depth, Root, FragmentsOf(Opaque))'
    BY <1>5, <1>6, <1>9 DEF Shows
  <2>4. CASE m_has_volume
    BY <2>2, <2>3, <2>4 DEF CanvasesOfRoot
  <2>5. CASE ~m_has_volume
    <3>1. Shows(color, Root, FragmentsOf(ToSet(m_renderers)))'
      BY <1>6, <2>1, <2>3, <2>5
    <3> QED
      BY <2>2, <2>5, <3>1 DEF CanvasesOfRoot
  <2> QED
    BY <2>4, <2>5
<1>11. SavedSoFar'
  BY <1>1, <1>4, SavedKept DEF RenderInv
<1>12. PlotsInv'
  BY PlotsInvNext DEF RenderInv, Next, Rendering
<1> QED
  BY <1>4, <1>7, <1>8, <1>10, <1>11, <1>12 DEF RenderInv

LEMMA RenderInvSynchDepths == RenderInv /\ SynchDepths => RenderInv'
<1> SUFFICES ASSUME RenderInv, SynchDepths PROVE RenderInv'
  OBVIOUS
<1>1. /\ \A r \in Ranks : pc[r] = "synch"
      /\ pc' = [r \in Ranks |-> "volume"]
      /\ UNCHANGED <<scene, batch_start, plot, color, hidden_by, saved>>
  BY DEF SynchDepths
<1>2. /\ m_has_volume
      /\ \A r \in Ranks : plot[r] = opaque_plots + 1
  BY <1>1, SceneAssumption DEF RenderInv, PlotOf
<1>3. /\ \A r \in Ranks : Batch(r) = Batch(Root)
      /\ Aligned' /\ ~Idle /\ Root \in Ranks
  BY <1>1, <1>2, JointStep DEF RenderInv, PlotsInv
<1>4. /\ DOMAIN depth' = Ranks
      /\ \A r \in Ranks : \A i \in Batch(r) : depth'[r][i] = depth[Root][i]
  <2>1. \A r \in Ranks : Batch(r) \subseteq Images
    BY BatchStarts DEF RenderInv
  <2> QED
    BY <2>1 DEF SynchDepths
<1>5. /\ opaque_plots' = opaque_plots
      /\ FragmentsOf(Opaque)' = FragmentsOf(Opaque)
      /\ \A r \in Ranks : Batch(r)' = Batch(r)
      /\ m_has_volume' = m_has_volume
  BY <1>1 DEF scene, opaque_plots, Opaque, FragmentsOf, Batch
<1>6. RenderTypes'
  BY <1>1, <1>4 DEF RenderInv, RenderTypes, scene
<1>7. /\ Shows(color, Root, FragmentsOf(Opaque))
      /\ Shows(depth, Root, FragmentsOf(Opaque))
  BY <1>1, <1>3 DEF RenderInv, CanvasesOfRoot
<1>8. ASSUME NEW r \in Ranks PROVE PlotOf(r)' /\ CanvasesOf(r)'
  <2>1. PlotOf(r)'
    BY <1>1, <1>2, <1>5 DEF PlotOf
  <2>2. Shows(depth, r, FragmentsOf(Opaque))'
    BY <1>3, <1>4, <1>5, <1>7 DEF Shows
  <2>3. CanvasesOf(r)'
    BY <1>1, <2>2 DEF CanvasesOf
  <2> QED
    BY <2>1, <2>3
<1>9. CanvasesOfRoot'
  <2>1. Shows(color, Root, FragmentsOf(Opaque))'
    BY <1>1, <1>3, <1>5, <1>7 DEF Shows
  <2> QED
    BY <1>1, <1>3, <2>1 DEF CanvasesOfRoot
<1>10. SavedSoFar'
  BY <1>1, <1>3, SavedKept DEF RenderInv
<1>11. PlotsInv'
  BY PlotsInvNext DEF RenderInv, Next, Rendering
<1> QED
  BY <1>3, <1>6, <1>8, <1>9, <1>10, <1>11 DEF RenderInv

LEMMA RenderInvDrawVolume ==
  ASSUME RenderInv, NEW r \in Ranks, DrawVolume(r)
  PROVE  RenderInv'
<1>1. /\ pc[r] = "volume" /\ ~Idle
      /\ UNCHANGED <<scene, batch_start, depth, saved>>
      /\ plot' = [plot EXCEPT ![r] = plot[r] + 1]
      /\ pc' = [pc EXCEPT ![r] = "compositeVolume"]
  BY DEF DrawVolume, Idle
<1>2. /\ m_has_volume /\ plot[r] = opaque_plots + 1
      /\ opaque_plots \in Nat /\ plot[r] = Len(m_renderers)
      /\ plot[r] + 1 \in 1 .. MaxPlots + 1
  BY <1>1, OpaqueFirst, SceneAssumption DEF RenderInv, PlotOf
<1>3. /\ DOMAIN color' = Ranks /\ DOMAIN hidden_by' = Ranks
      /\ \A i \in Batch(r) : /\ color'[r][i] = color[r][i] \cup {VolumeOf(r)}
                             /\ hidden_by'[r][i] = depth[r][i]
      /\ \A q \in Ranks \ {r} : color'[q] = color[q] /\ hidden_by'[q] = hidden_by[q]
  <2>1. Batch(r) \subseteq Images
    BY BatchStarts DEF RenderInv
  <2> QED
    BY <1>2, <2>1 DEF DrawVolume, Drawn, VolumeOf, RenderInv, RenderTypes
<1>4. RenderTypes'
  BY <1>1, <1>2, <1>3 DEF RenderInv, RenderTypes, scene
<1>5. /\ FragmentsOf(Opaque)' = FragmentsOf(Opaque) /\ Batch(r)' = Batch(r)
      /\ VolumeOf(r)' = VolumeOf(r) /\ m_has_volume' = m_has_volume
      /\ pc'[r] = "compositeVolume"
  BY <1>1 DEF scene, Opaque, FragmentsOf, Batch, VolumeOf, RenderInv, RenderTypes
<1>6. PlotOf(r)'
  BY <1>2, <1>5 DEF PlotOf
<1>7. CanvasesOf(r)'
  <2>1. Shows(depth, r, FragmentsOf(Opaque))
    BY <1>1 DEF RenderInv, CanvasesOf
  <2> QED
    BY <1>3, <1>5, <2>1 DEF CanvasesOf, Shows
<1>8. ASSUME NEW q \in Ranks PROVE PlotOf(q)' /\ CanvasesOf(q)'
  <2>1. CASE q = r
    BY <1>6, <1>7, <2>1
  <2>2. CASE q # r
    BY <1>1, <1>3, <2>2, RankKept DEF RenderInv, RenderTypes
  <2> QED
    BY <2>1, <2>2
<1>9. CanvasesOfRoot'
  <2>1. CASE Root = r
    <3>1. Shows(color, Root, FragmentsOf(Opaque))
      BY <1>1, <2>1 DEF RenderInv, CanvasesOfRoot
    <3> QED
      BY <1>3, <1>5, <2>1, <3>1 DEF CanvasesOfRoot, Shows
  <2>2. CASE Root # r
    BY <1>1, <1>3, <2>2, RootKept, SceneAssumption DEF RenderInv, RenderTypes
  <2> QED
    BY <2>1, <2>2
<1>10. SavedSoFar'
  BY <1>1, SavedKept DEF RenderInv
<1>11. Aligned'
  <2>1. \A q \in Ranks : Goal(q)' = Goal(q)
    BY <1>1 DEF Goal, scene, RenderInv, RenderTypes
  <2> QED
    BY <1>1, <2>1, AlignmentKept DEF RenderInv
<1>12. PlotsInv'
  BY PlotsInvNext DEF RenderInv, Next, Rendering
<1> QED
  BY <1>4, <1>8, <1>9, <1>10, <1>11, <1>12 DEF RenderInv

LEMMA RenderInvCompositeVolume == RenderInv /\ CompositeVolume => RenderInv'
<1> SUFFICES ASSUME RenderInv, CompositeVolume PROVE RenderInv'
  OBVIOUS
<1> DEFINE volume == FragmentsOf({m_renderers[Len(m_renderers)]})
           samples(i) == (UNION {color[r][i] : r \in Ranks}) \cap volume
<1>1. /\ \A r \in Ranks : pc[r] = "compositeVolume"
      /\ pc' = [r \in Ranks |-> "save"]
      /\ UNCHANGED <<scene, batch_start, plot, depth, hidden_by, saved>>
  BY DEF CompositeVolume
<1>2. m_has_volume
  BY <1>1, SceneAssumption DEF RenderInv, PlotOf
<1>3. /\ \A r \in Ranks : Batch(r) = Batch(Root)
      /\ Aligned' /\ ~Idle /\ Root \in Ranks
  BY <1>1, <1>2, JointStep DEF RenderInv, PlotsInv
<1>4. /\ DOMAIN color' = Ranks
      /\ \A i \in Batch(Root) : color'[Root][i] = color[Root][i] \cup samples(i)
  <2>1. Batch(Root) \subseteq Images
    BY <1>3, BatchStarts DEF RenderInv
  <2> QED
    BY <1>3, <2>1 DEF CompositeVolume, RenderInv, RenderTypes
<1>5. ASSUME NEW i \in Batch(Root)
      PROVE  color'[Root][i] = FragmentsOf(ToSet(m_renderers))
  <2>1. volume = {VolumeOf(r) : r \in Ranks}
    BY DEF FragmentsOf, VolumeOf
  <2>2. \A r \in Ranks : VolumeOf(r) \in color[r][i]
    BY <1>1, <1>3, <1>5 DEF RenderInv, CanvasesOf
  <2>3. samples(i) = {VolumeOf(r) : r \in Ranks}
    <3>1. \A r \in Ranks : VolumeOf(r) \in UNION {color[q][i] : q \in Ranks}
      BY <2>2
    <3> HIDE DEF volume
    <3> QED
      BY <2>1, <3>1
  <2>4. color[Root][i] = FragmentsOf(Opaque) \cup {VolumeOf(Root)}
    BY <1>1, <1>3, <1>5 DEF RenderInv, CanvasesOfRoot, Shows
  <2>5. FragmentsOf(ToSet(m_renderers)) =
          FragmentsOf(Opaque) \cup {VolumeOf(r) : r \in Ranks}
    BY <1>2, OpaqueFragments DEF RenderInv
  <2>6. color'[Root][i] = color[Root][i] \cup samples(i)
    BY <1>4, <1>5
  <2> HIDE DEF samples
  <2> QED
    BY <1>3, <2>3, <2>4, <2>5, <2>6
<1>6. RenderTypes'
  <2>1. pc' \in [Ranks -> {"idle", "batch", "opaque", "composite", "synch", "volume",
                           "compositeVolume", "save"}]
    BY <1>1
  <2> QED
    BY <1>1, <1>4, <2>1 DEF RenderInv, RenderTypes, scene
<1>7. \A r \in Ranks : PlotOf(r)' /\ CanvasesOf(r)'
  BY <1>1 DEF PlotOf, CanvasesOf
<1>8. CanvasesOfRoot'
  <2>1. /\ Batch(Root)' = Batch(Root)
        /\ FragmentsOf(ToSet(m_renderers))' = FragmentsOf(ToSet(m_renderers))
    BY <1>1 DEF scene, Batch, FragmentsOf
  <2>2. Shows(color, Root, FragmentsOf(ToSet(m_renderers)))'
    BY <1>5, <2>1 DEF Shows
  <2> QED
    BY <1>1, <1>3, <2>2 DEF CanvasesOfRoot
<1>9. SavedSoFar'
  BY <1>1, <1>3, SavedKept DEF RenderInv
<1>10. PlotsInv'
  BY PlotsInvNext DEF RenderInv, Next, Rendering
<1> QED
  BY <1>3, <1>6, <1>7, <1>8, <1>9, <1>10 DEF RenderInv

LEMMA RenderInvSave ==
  ASSUME RenderInv, NEW r \in Ranks, Save(r)
  PROVE  RenderInv'
<1> DEFINE next == Min({batch_start[r] + m_batch_size, NumImages})
<1>1. /\ pc[r] = "save" /\ ~Idle
      /\ UNCHANGED <<scene, plot, color, depth, hidden_by>>
      /\ batch_start' = [batch_start EXCEPT ![r] = next]
      /\ pc' = [pc EXCEPT ![r] = "batch"]
  BY DEF Save, Idle
<1>2. /\ batch_start[r] \in Nat /\ next \in batch_start[r] .. NumImages
      /\ NumImages \in Nat
      /\ Batch(r) = batch_start[r] + 1 .. next /\ Batch(r) \subseteq Images
  <2>1. Batch(r) = batch_start[r] + 1 .. next
    BY DEF Batch
  <2>2. /\ batch_start[r] \in 0 .. NumImages /\ Batch(r) \subseteq Images
        /\ next \in batch_start[r] .. NumImages
    BY BatchStarts DEF RenderInv
  <2> HIDE DEF next
  <2> QED
    BY <2>1, <2>2, SceneAssumption
<1> HIDE DEF next
<1>3. RenderTypes'
  <2>1. batch_start' \in [Ranks -> 0 .. NumImages]
    BY <1>1, <1>2 DEF RenderInv, RenderTypes
  <2>2. pc' \in [Ranks -> {"idle", "batch", "opaque", "composite", "synch", "volume",
                           "compositeVolume", "save"}]
    BY <1>1 DEF RenderInv, RenderTypes
  <2> QED
    BY <1>1, <2>1, <2>2 DEF RenderInv, RenderTypes, scene
<1>4. pc'[r] = "batch" /\ batch_start'[r] = next
  BY <1>1 DEF RenderInv, RenderTypes
<1>5. ASSUME NEW q \in Ranks PROVE PlotOf(q)' /\ CanvasesOf(q)'
  <2>1. CASE q = r
    BY <1>4, <2>1 DEF PlotOf, CanvasesOf
  <2>2. CASE q # r
    BY <1>1, <2>2, RankKept DEF RenderInv, RenderTypes
  <2> QED
    BY <2>1, <2>2
<1>6. CanvasesOfRoot'
  <2>1. CASE Root = r
    BY <1>4, <2>1 DEF CanvasesOfRoot
  <2>2. CASE Root # r
    BY <1>1, <2>2, RootKept, SceneAssumption DEF RenderInv, RenderTypes
  <2> QED
    BY <2>1, <2>2
<1>7. SavedSoFar'
  <2>1. CASE Root = r
    <3>1. \A i \in Batch(r) : saved'[i] = FragmentsOf(ToSet(m_renderers))
      <4>1. Shows(color, r, FragmentsOf(ToSet(m_renderers)))
        BY <1>1, <2>1 DEF RenderInv, CanvasesOfRoot
      <4> QED
        BY <1>2, <2>1, <4>1 DEF Save, Shows
    <3>2. \A i \in 1 .. batch_start[r] : saved'[i] = FragmentsOf(ToSet(m_renderers))
      <4>1. \A i \in 1 .. batch_start[r] : i \in Images /\ i \notin Batch(r)
        BY <1>2 DEF Images
      <4>2. \A i \in 1 .. batch_start[r] : saved[i] = FragmentsOf(ToSet(m_renderers))
        BY <1>1, <2>1 DEF RenderInv, SavedSoFar
      <4> QED
        BY <2>1, <4>1, <4>2 DEF Save
    <3>3. 1 .. next \subseteq 1 .. batch_start[r] \cup Batch(r)
      BY <1>2
    <3>4. FragmentsOf(ToSet(m_renderers))' = FragmentsOf(ToSet(m_renderers))
      BY <1>1 DEF scene, FragmentsOf
    <3> QED
      BY <1>4, <2>1, <3>1, <3>2, <3>3, <3>4 DEF SavedSoFar
  <2>2. CASE Root # r
    <3>1. saved' = saved
      BY <2>2 DEF Save
    <3> QED
      BY <1>1, <2>2, <3>1, SavedKept, SceneAssumption DEF RenderInv, RenderTypes
  <2> QED
    BY <2>1, <2>2
<1>8. Aligned'
  <2>1. Goal(r)' = Goal(r)
    BY <1>1, <1>4 DEF Goal, next
  <2>2. \A q \in Ranks \ {r} : Goal(q)' = Goal(q)
    BY <1>1 DEF Goal, scene, RenderInv, RenderTypes
  <2> QED
    BY <1>1, <2>1, <2>2, AlignmentKept DEF RenderInv
<1>9. PlotsInv'
  BY PlotsInvNext DEF RenderInv, Next, Rendering
<1> QED
  BY <1>3, <1>5, <1>6, <1>7, <1>8, <1>9 DEF RenderInv

LEMMA RenderInvNext == RenderInv /\ [Next]_vars => RenderInv'
<1> SUFFICES ASSUME RenderInv, [Next]_vars PROVE RenderInv'
  OBVIOUS
<1>1. CASE \/ \E kind \in Kinds : AddRenderer(kind)
           \/ \E n \in BatchSizes : SetRenderBatchSize(n)
  BY <1>1, RenderInvHost
<1>2. CASE Render
  BY <1>2, RenderInvRender
<1>3. ASSUME NEW r \in Ranks, StartBatch(r) \/ DrawOpaque(r) \/ DrawVolume(r) \/ Save(r)
      PROVE  RenderInv'
  BY <1>3, RenderInvStartBatch, RenderInvDrawOpaque, RenderInvDrawVolume, RenderInvSave
<1>4. CASE Composite \/ SynchDepths \/ CompositeVolume
  BY <1>4, RenderInvComposite, RenderInvSynchDepths, RenderInvCompositeVolume
<1>5. CASE UNCHANGED vars
  <2>1. \A q \in Ranks : PlotOf(q)' /\ CanvasesOf(q)'
    BY <1>5, RankKept DEF RenderInv, vars, canvases
  <2>2. CanvasesOfRoot'
    BY <1>5, RootKept DEF RenderInv, vars, canvases
  <2>3. RenderTypes'
    BY <1>5 DEF RenderInv, RenderTypes, vars, scene, canvases
  <2>4. SavedSoFar'
    <3>1. /\ Idle' = Idle /\ batch_start' = batch_start /\ saved' = saved
          /\ FragmentsOf(ToSet(m_renderers))' = FragmentsOf(ToSet(m_renderers))
      BY <1>5 DEF Idle, FragmentsOf, vars, scene, canvases
    <3> QED
      BY <3>1 DEF RenderInv, SavedSoFar
  <2>5. Aligned'
    <3>1. Idle' = Idle /\ m_renderers' = m_renderers /\ \A q \in Ranks : Goal(q)' = Goal(q)
      BY <1>5 DEF Idle, Goal, vars, scene
    <3> QED
      BY <3>1 DEF RenderInv, Aligned
  <2>6. PlotsInv'
    BY PlotsInvNext DEF RenderInv
  <2> QED
    BY <2>1, <2>2, <2>3, <2>4, <2>5, <2>6 DEF RenderInv
<1> QED
  BY <1>1, <1>2, <1>3, <1>4, <1>5 DEF Next, Rendering

LEMMA RenderInvAlways == Spec => []RenderInv
BY RenderInvInit, RenderInvNext, PTL DEF Spec

(* The state of a scene stays within its types, whatever the host does.    *)
THEOREM TypesKept == Spec => []TypeOK
<1>1. RenderInv => TypeOK
  BY DEF RenderInv, RenderTypes, PlotsInv, Plot, TypeOK
<1> QED
  BY <1>1, RenderInvAlways, PTL

(* The volume is drawn behind the opaque plots of all ranks: the depths it  *)
(* is drawn to are those rank 0 got from compositing and has broadcast      *)
(* (Scene::Render and SynchDepths).                                        *)
THEOREM VolumeDrawnBehind == Spec => []VolumeBehindOpaque
<1>1. RenderInv => VolumeBehindOpaque
  BY DEF RenderInv, CanvasesOf, Shows, VolumeBehindOpaque
<1> QED
  BY <1>1, RenderInvAlways, PTL

(* Every image a call of Render has written shows every plot of every rank, *)
(* for any number of images and batch size (Scene::Render, Save).          *)
THEOREM ImagesAreWhole == Spec => []ImagesWhole
<1>1. ASSUME RenderInv, NEW i \in Images,
             \A r \in Ranks : pc[r] = "batch" /\ batch_start[r] >= NumImages
      PROVE  saved[i] = FragmentsOf(ToSet(m_renderers))
  <2>1. ~Idle /\ Root \in Ranks
    BY <1>1, SceneAssumption DEF Idle
  <2>2. batch_start[Root] = NumImages
    BY <1>1, <2>1, SceneAssumption DEF RenderInv, RenderTypes
  <2> QED
    BY <1>1, <2>1, <2>2 DEF RenderInv, SavedSoFar, Images
<1>2. RenderInv => ImagesWhole
  BY <1>1 DEF ImagesWhole
<1> QED
  BY <1>2, RenderInvAlways, PTL
=============================================================================
