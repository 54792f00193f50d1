---------------------------- MODULE VolumeUpdate ----------------------------
(***************************************************************************)
(* vtkh::VolumeRenderer::Update on every rank (rendering/VolumeRenderer.cpp *)
(* on top of rendering/Renderer.cpp and DataSet.cpp): the collectives each  *)
(* rank goes through, and the decisions it takes in between from its own    *)
(* domains.  A rank that throws makes no further call.                      *)
(*                                                                         *)
(* A domain is a record: has it cells, are its coordinates structured, the  *)
(* number of components of the field to render (0: it lacks the field), the *)
(* range of the field, its distance to the camera and the pixels its        *)
(* samples fall on.  All renders share one camera.                          *)
(***************************************************************************)
EXTENDS Integers, Sequences, FiniteSets, FiniteSetsExt

CONSTANTS
  Ranks, Root,
  Inputs,       \* the distributed data sets considered: [Ranks -> Seq(Domain)]
  NumRenders,   \* renders (images) of the renderer
  UserRange,    \* the range given with SetRange, Unset where it is not given
  Inf,          \* larger than every value of the field and every pixel id
  DoComposite   \* m_do_composite

Unset == [min |-> Inf, max |-> -Inf]

ASSUME UpdateAssumption ==
  /\ IsFiniteSet(Ranks)
  /\ Root \in Ranks
  /\ NumRenders \in Nat \ {0}
  /\ Inf \in Nat \ {0}
  /\ UserRange \in [min : -Inf .. Inf, max : -Inf .. Inf]
  /\ DoComposite \in BOOLEAN

ASSUME InputAssumption ==
  \A in \in Inputs : in \in
    [Ranks -> Seq([cells : BOOLEAN, structured : BOOLEAN, comps : Nat,
                   min : -Inf .. Inf, max : -Inf .. Inf, depth : Int,
                   pixels : SUBSET (0 .. Inf)])]

VARIABLES
  domains,      \* m_input: domains[r], the domains of rank r
  pc,           \* pc[r]: the collective rank r makes next or is in, GetRange,
                \* done or error
  step,         \* step[r]: component, bound or render of the loop r is in
  comps,        \* comps[r]: components of the field on r, then of all ranks
  m_range,      \* m_range[r]
  vis_order,    \* DepthSort on the root: vis_order[r], orders of r's domains
  m_visibility_orders, \* m_visibility_orders[r][i]: orders of r's domains in
                       \* render i
  calls, inCall

MPI == INSTANCE Collectives WITH
  ToRoot <- {"counts", "depths"}, FromRoot <- {"order"}

vars == <<domains, pc, step, comps, m_range, vis_order, m_visibility_orders,
          calls, inCall>>

Terminated == {"done", "error"}

Sites == {"exists", "components", "min", "max", "bounds", "one",
          "counts", "depths", "order", "send", "sent", "gather",
          "images", "pixelMin", "pixelMax", "redistribute", "redistributed",
          "collect", "collected"}

-----------------------------------------------------------------------------
(* What a rank knows of its own domains.                                   *)

Doms(r) == {domains[r][i] : i \in DOMAIN domains[r]}

WithField(r) == {d \in Doms(r) : d.comps # 0}

FieldExists(r) == WithField(r) # {}

MinOver(S, default) == Min(S \cup {default})
MaxOver(S, default) == Max(S \cup {default})

RangeMin(r) == MinOver({d.min : d \in WithField(r)}, Inf)
RangeMax(r) == MaxOver({d.max : d \in WithField(r)}, -Inf)

(* VolumeRenderer::SetInput wraps the domains that have cells. *)
Wrapped(r) == {d \in Doms(r) : d.cells}

HasUnstructured(r) == \E d \in Wrapped(r) : ~d.structured

Pixels(r) == UNION {d.pixels : d \in Wrapped(r)}

(* What rank r contributes to the collective it is about to make. *)
Contribution(r) ==
  CASE pc[r] = "exists"     -> FieldExists(r)
    [] pc[r] = "components" -> comps[r]
    [] pc[r] = "min"        -> RangeMin(r)
    [] pc[r] = "max"        -> RangeMax(r)
    [] pc[r] = "one"        -> Len(domains[r]) = 1
    [] pc[r] = "counts"     -> Len(domains[r])
    [] pc[r] = "depths"     -> [i \in DOMAIN domains[r] |-> domains[r][i].depth]
    [] pc[r] = "order"      -> vis_order
    [] pc[r] = "pixelMin"   -> MinOver(Pixels(r), Inf)
    [] pc[r] = "pixelMax"   -> MaxOver(Pixels(r), -Inf)
    [] OTHER                -> 0

-----------------------------------------------------------------------------
Init ==
  /\ domains \in Inputs
  /\ pc = [r \in Ranks |-> "exists"]
  /\ step = [r \in Ranks |-> 1]
  /\ comps = [r \in Ranks |-> 0]
  /\ m_range = [r \in Ranks |-> UserRange]
  /\ vis_order = <<>>
  /\ m_visibility_orders = [r \in Ranks |-> <<>>]
  /\ MPI!CollectivesInit

GoTo(r, label) == pc' = [pc EXCEPT ![r] = label]

SetStep(r, n) == step' = [step EXCEPT ![r] = n]

GoToLoop(r, label) == GoTo(r, label) /\ SetStep(r, 1)

Throw(r) == GoToLoop(r, "error")

(* The next iteration of a loop of n iterations over the calls from first   *)
(* on, or what comes after the loop.                                       *)
Again(r, n, first, after) ==
  IF step[r] < n THEN GoTo(r, first) /\ SetStep(r, step[r] + 1)
  ELSE GoToLoop(r, after)

(* The next call in a row of calls made for the same reason. *)
Then(r, from, to) ==
  /\ MPI!Return(r, from)
  /\ GoTo(r, to)
  /\ UNCHANGED <<step, comps, m_range, vis_order, m_visibility_orders>>

Call(r) ==
  /\ pc[r] \in Sites
  /\ MPI!Enter(r, pc[r], Contribution(r))
  /\ UNCHANGED <<domains, pc, step, comps, m_range, vis_order,
                 m_visibility_orders>>

(* Mutant of CheckForRequiredField: a rank asks for the field on itself.   *)
CheckForLocalField(r) ==
  /\ MPI!Return(r, "exists")
  /\ IF ~FieldExists(r) THEN Throw(r)
     ELSE IF m_range[r].min <= m_range[r].max THEN GoToLoop(r, "bounds")
     ELSE GoToLoop(r, "GetRange")
  /\ UNCHANGED <<comps, m_range, vis_order, m_visibility_orders>>

(* Filter::CheckForRequiredField, and the test of m_range made before it.  *)
CheckForRequiredField(r) ==
  /\ MPI!Return(r, "exists")
  /\ IF \A s \in Ranks : ~MPI!Contributed(r)[s] THEN Throw(r)
     ELSE IF m_range[r].min <= m_range[r].max THEN GoToLoop(r, "bounds")
     ELSE GoToLoop(r, "GetRange")
  /\ UNCHANGED <<comps, m_range, vis_order, m_visibility_orders>>

(* Mutant of GetRange: -1 marks a rank without the field. *)
GetRangeMarked(r) ==
  /\ pc[r] = "GetRange"
  /\ GoToLoop(r, "components")
  /\ comps' = [comps EXCEPT ![r] = MaxOver({d.comps : d \in WithField(r)}, -1)]
  /\ UNCHANGED <<m_range, vis_order, m_visibility_orders, calls, inCall>>

(* DataSet::GetRange looks at the domains of this rank only. *)
GetRange(r) ==
  /\ pc[r] = "GetRange"
  /\ LET kinds == {d.comps : d \in WithField(r)}
     IN  IF Cardinality(kinds) > 1
         THEN Throw(r) /\ UNCHANGED comps
         ELSE /\ GoToLoop(r, "components")
              /\ comps' = [comps EXCEPT ![r] = MaxOver(kinds, 0)]
  /\ UNCHANGED <<m_range, vis_order, m_visibility_orders, calls, inCall>>

(* Mutant of AllgatherComponents: a rank without the field compares its own *)
(* number with those of the others.                                        *)
AllgatherOwn(r) ==
  /\ MPI!Return(r, "components")
  /\ LET kinds == {MPI!Contributed(r)[s] : s \in Ranks} \ {0}
     IN  IF kinds \ {comps[r]} # {}
         THEN Throw(r) /\ UNCHANGED comps
         ELSE /\ GoToLoop(r, "min")
              /\ comps' = [comps EXCEPT ![r] = MaxOver(kinds, 0)]
  /\ UNCHANGED <<m_range, vis_order, m_visibility_orders>>

(* DataSet::GetGlobalRange: no two ranks may differ, but for empty ones.   *)
AllgatherComponents(r) ==
  /\ MPI!Return(r, "components")
  /\ LET kinds == {MPI!Contributed(r)[s] : s \in Ranks} \ {0}
     IN  IF Cardinality(kinds) > 1
         THEN Throw(r) /\ UNCHANGED comps
         ELSE /\ GoToLoop(r, "min")
              /\ comps' = [comps EXCEPT ![r] = MaxOver(kinds, 0)]
  /\ UNCHANGED <<m_range, vis_order, m_visibility_orders>>

(* Mutant of ReduceMin: the minimum of this rank instead of the global one. *)
ReduceMinLocal(r) ==
  /\ MPI!Return(r, "min")
  /\ m_range' = [m_range EXCEPT ![r].min =
                   IF comps[r] = 1 /\ @ = Inf THEN RangeMin(r) ELSE @]
  /\ GoTo(r, "max")
  /\ UNCHANGED <<step, comps, vis_order, m_visibility_orders>>

(* One iteration of the loop over components: the range of component step. *)
(* Only a field of one component can be rendered.  What the user gave of   *)
(* the range is kept.                                                      *)
ReduceMin(r) ==
  /\ MPI!Return(r, "min")
  /\ m_range' = [m_range EXCEPT ![r].min =
                   IF comps[r] = 1 /\ @ = Inf
                   THEN Min({MPI!Contributed(r)[s] : s \in Ranks}) ELSE @]
  /\ GoTo(r, "max")
  /\ UNCHANGED <<step, comps, vis_order, m_visibility_orders>>

ReduceMax(r) ==
  /\ MPI!Return(r, "max")
  /\ m_range' = [m_range EXCEPT ![r].max =
                   IF comps[r] = 1 /\ @ = -Inf
                   THEN Max({MPI!Contributed(r)[s] : s \in Ranks}) ELSE @]
  /\ Again(r, comps[r], "min", IF comps[r] = 1 THEN "bounds" ELSE "error")
  /\ UNCHANGED <<comps, vis_order, m_visibility_orders>>

(* DataSet::GetGlobalBounds: a minimum and a maximum for each of X, Y, Z. *)
GlobalBounds(r) ==
  /\ MPI!Return(r, "bounds")
  /\ Again(r, 6, "bounds", "one")
  /\ UNCHANGED <<comps, m_range, vis_order, m_visibility_orders>>

(* Mutant of DoExecute: the number of domains of this rank alone decides.  *)
DoExecuteLocal(r) ==
  /\ MPI!Return(r, "one")
  /\ IF Len(domains[r]) = 1 /\ ~HasUnstructured(r)
     THEN GoToLoop(r, IF DoComposite THEN "counts" ELSE "done")
     ELSE IF \E d \in Wrapped(r) : d.comps = 0 THEN Throw(r)
     ELSE GoToLoop(r, "images")
  /\ UNCHANGED <<comps, m_range, vis_order, m_visibility_orders>>

(* DoExecute, the branch taken and the rendering that is done before the   *)
(* branch communicates: one domain per rank skips a domain without the     *)
(* field, many domains do not and GetField throws.                         *)
DoExecute(r) ==
  /\ MPI!Return(r, "one")
  /\ IF (\A s \in Ranks : MPI!Contributed(r)[s]) /\ ~HasUnstructured(r)
     THEN GoToLoop(r, IF DoComposite THEN "counts" ELSE "done")
     ELSE IF \E d \in Wrapped(r) : d.comps = 0 THEN Throw(r)
     ELSE GoToLoop(r, "images")
  /\ UNCHANGED <<comps, m_range, vis_order, m_visibility_orders>>

(* DepthSort, once per render: the root gathers the number of domains and   *)
(* the depths, numbers all domains from front to back, and scatters to     *)
(* each rank the numbers of its domains.  std::sort leaves domains at the  *)
(* same depth in any order.                                                *)
GatherCounts(r) == Then(r, "counts", "depths")

(* Mutant of Numberings: from back to front. *)
NumberingsBackwards(depths) ==
  LET slots == {slot \in Ranks \X UNION {DOMAIN depths[s] : s \in Ranks} :
                  slot[2] \in DOMAIN depths[slot[1]]}
  IN  {order \in [slots -> 0 .. Cardinality(slots) - 1] :
         \A a, b \in slots :
           /\ depths[a[1]][a[2]] > depths[b[1]][b[2]] => order[a] < order[b]
           /\ order[a] = order[b] => a = b}

Numberings(depths) ==
  LET slots == {slot \in Ranks \X UNION {DOMAIN depths[s] : s \in Ranks} :
                  slot[2] \in DOMAIN depths[slot[1]]}
  IN  {order \in [slots -> 0 .. Cardinality(slots) - 1] :
         \A a, b \in slots :
           /\ depths[a[1]][a[2]] < depths[b[1]][b[2]] => order[a] < order[b]
           /\ order[a] = order[b] => a = b}

GatherDepths(r) ==
  /\ MPI!Return(r, "depths")
  /\ IF r # Root THEN UNCHANGED vis_order
     ELSE \E order \in Numberings(MPI!Contributed(r)) :
            vis_order' = [s \in Ranks |->
              [c \in DOMAIN MPI!Contributed(r)[s] |-> order[<<s, c>>]]]
  /\ GoTo(r, "order")
  /\ UNCHANGED <<step, comps, m_range, m_visibility_orders>>

ScatterOrder(r) ==
  /\ MPI!Return(r, "order")
  /\ m_visibility_orders' = [m_visibility_orders EXCEPT ![r] =
                               Append(@, MPI!Contributed(r)[Root][r])]
  /\ Again(r, NumRenders, "counts", "send")
  /\ UNCHANGED <<comps, m_range, vis_order>>

(* Composite, once per render: DirectSendCompositor sends every rank its   *)
(* part of the image, and gathers the parts on the root.                   *)
CompositeImage(r) ==
  \/ Then(r, "send", "sent")
  \/ Then(r, "sent", "gather")
  \/ /\ MPI!Return(r, "gather")
     /\ Again(r, NumRenders, "send", "done")
     /\ UNCHANGED <<comps, m_range, vis_order, m_visibility_orders>>

(* PartialCompositor::composite, once per render; merge finds the pixels.  *)
CompositePartials(r) ==
  \/ Then(r, "images", "pixelMin")
  \/ Then(r, "pixelMin", "pixelMax")
  \/ Then(r, "redistribute", "redistributed")
  \/ Then(r, "redistributed", "collect")
  \/ Then(r, "collect", "collected")
  \/ /\ MPI!Return(r, "collected")
     /\ Again(r, NumRenders, "images", "done")
     /\ UNCHANGED <<comps, m_range, vis_order, m_visibility_orders>>

(* No pixel anywhere: bail out of this render. *)
MergePixels(r) ==
  /\ MPI!Return(r, "pixelMax")
  /\ LET pixelMin == {calls[s][Len(calls[r]) - 1].value : s \in Ranks}
         pixelMax == {MPI!Contributed(r)[s] : s \in Ranks}
     IN  IF Min(pixelMin) > Max(pixelMax)
         THEN Again(r, NumRenders, "images", "done")
         ELSE GoTo(r, "redistribute") /\ UNCHANGED step
  /\ UNCHANGED <<comps, m_range, vis_order, m_visibility_orders>>

Update(r) ==
  \/ CheckForRequiredField(r)
  \/ GetRange(r)
  \/ AllgatherComponents(r)
  \/ ReduceMin(r)
  \/ ReduceMax(r)
  \/ GlobalBounds(r)
  \/ DoExecute(r)
  \/ GatherCounts(r)
  \/ GatherDepths(r)
  \/ ScatterOrder(r)
  \/ CompositeImage(r)
  \/ CompositePartials(r)
  \/ MergePixels(r)

Terminating ==
  /\ \A r \in Ranks : pc[r] \in Terminated
  /\ UNCHANGED vars

Next ==
  \/ \E r \in Ranks : Call(r) \/ (Update(r) /\ UNCHANGED domains)
  \/ Terminating

(* Every rank keeps running, and MPI completes a call that can complete.   *)
Fairness == \A r \in Ranks : WF_vars(Call(r) \/ (Update(r) /\ UNCHANGED domains))

Spec == Init /\ [][Next]_vars

FairSpec == Spec /\ Fairness

-----------------------------------------------------------------------------
(* Properties.                                                             *)

TypeOK ==
  /\ pc \in [Ranks -> Sites \cup Terminated \cup {"GetRange"}]
  /\ step \in [Ranks -> Nat \ {0}]
  /\ comps \in [Ranks -> Nat]
  /\ \A r \in Ranks : m_range[r].min \in -Inf .. Inf /\ m_range[r].max \in -Inf .. Inf
  /\ inCall \in [Ranks -> BOOLEAN]
  /\ \A r \in Ranks : inCall[r] => pc[r] \in Sites

(* All ranks make the same collectives in the same order: whatever a rank  *)
(* decides from its own domains never changes what it calls next.          *)
CollectivesMatch == MPI!CallsMatch

(* No rank enters a collective that a rank which has returned from Update, *)
(* or thrown out of it, did not make: it would wait for ever.              *)
NoRankLeftBehind ==
  \A r, s \in Ranks :
    pc[r] \in Terminated => Len(calls[s]) <= Len(calls[r])

(* Once a rank has left GetGlobalRange it scales colors by the range of    *)
(* the field over all domains of all ranks, but for an end of the range    *)
(* the user has set: so all ranks use the same one.                        *)
AllWithField == UNION {WithField(s) : s \in Ranks}

RangeIsGlobal ==
  \A r \in Ranks :
    pc[r] \notin {"exists", "GetRange", "components", "min", "max", "error"} =>
      IF UserRange.min <= UserRange.max THEN m_range[r] = UserRange
      ELSE /\ m_range[r].min = IF UserRange.min # Inf THEN UserRange.min
                               ELSE Min({d.min : d \in AllWithField})
           /\ m_range[r].max = IF UserRange.max # -Inf THEN UserRange.max
                               ELSE Max({d.max : d \in AllWithField})

(* When the images are composited, the orders the ranks hold for a render  *)
(* number all domains from front to back without a gap: "In order for      *)
(* parallel volume rendering to composite correctly, we nee to establish a *)
(* visibility ordering" (VolumeRenderer.cpp:846-847).                      *)
FrontToBack ==
  \A r \in Ranks : pc[r] = "send" /\ inCall[r] =>
    \A s \in {q \in Ranks : pc[q] \in {"send", "sent", "gather"}} :
      \A i \in 1 .. NumRenders :
        /\ m_visibility_orders[r][i][1] \in 0 .. Cardinality(Ranks) - 1
        /\ m_visibility_orders[r][i][1] = m_visibility_orders[s][i][1] => r = s
        /\ domains[r][1].depth < domains[s][1].depth =>
             m_visibility_orders[r][i][1] < m_visibility_orders[s][i][1]

(* Every rank returns from Update or throws: nobody waits for a call that   *)
(* never comes.                                                            *)
UpdateEnds == \A r \in Ranks : <>(pc[r] \in Terminated)
=============================================================================
