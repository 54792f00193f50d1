# Verification of vtk-h

vtk-h is a distributed layer over VTK-m: every MPI rank holds some domains of a
data set, filters and renderers run on the local ones, and the ranks cooperate
through MPI and DIY where a result depends on all of them. This directory
models that cooperation in TLA+, checks it with TLC on small instances, and
proves part of it with TLAPS for every instance. Paths below are relative to
`src/vtkh/`.

## 1. The system

| Component | State | Operations | Interacts with |
|---|---|---|---|
| `filters/communication/Messenger` | registered tags, next id, send and receive buffers, packets of incomplete messages | `RegisterTag`, `InitializeBuffers`, `SendData`, `RecvData`, `CheckPendingSendRequests`, `CleanupRequests` | MPI point to point |
| `RayMessenger` | none of its own; the caller's vectors of rays | `RegisterMessages`, `SendMsg`, `SendAllMsg`, `SendRays`, `RecvAny` | derives from Messenger |
| `MemStream`, `BoundsMap` | a buffer with a position; block bounds of all ranks | read, write; `AddBlock`, `Build`, `FindBlock` | Messenger; MPI |
| `DataSet` | domains, domain ids, cycle | add and get domains; local and collective queries (field existence, association, components, range, counts, structure, bounds) | MPI; used by every filter and renderer |
| `Filter` | input, output, map fields | `Update` = `PreExecute`, `DoExecute`, `PostExecute`; the host owns what it gets out | DataSet; filters run other filters on the way |
| `rendering/Renderer` and subclasses | range, renders, whether to composite | `PreExecute`, `DoExecute`, `Composite` | DataSet, Compositor |
| `VolumeRenderer` | wrapped domains, `m_has_unstructured`, visibility orders | two ways of rendering a distributed volume; `DepthSort` | DataSet, both compositors, MPI |
| `rendering/Scene` | ordered list of plots, batch size | `AddRenderer`, `AddRender`, `Render` | Renderer, canvases of Render, MPI |
| `compositing/PartialCompositor` | partials (samples of rays) per rank | merge, redistribute, blend, collect | DIY |
| `compositing/Compositor`, `RadixKCompositor`, `DirectSendCompositor`, `PayloadCompositor`, `Image` | images | add images, composite them onto rank 0 | DIY |
| DIY (vendored) | blocks, queues | decomposition, swap partners, rounds | MPI |
| `rendering/ScalarRenderer` | bounds, camera, output on rank 0 | `DoExecute`: renders every domain, reduces images that carry field values | DataSet, PayloadCompositor, MPI |
| `StatisticsDB`, `Logger` | counters, timers, events, totals once computed; log blocks | `AddCounter`, `Increment`, `calcStats`, `totalVal` | MPI |
| `vtkh.cpp`, `utils` | communicator, devices, containers | setters | MPI |
| filters that communicate (`Histogram`, `HistSampling`, `Statistics`, `GhostStripper`, `ParticleMerging`, `Lagrangian`, `ContourTree`) | parameters, partial results | `DoExecute` around reductions | MPI, DataSet |
| filters per domain (`Slice`, `Clip`, `Threshold`, `IsoVolume`, `MarchingCubes`, ...) | parameters | one VTK-m filter per domain, or several filters one after the other | Filter, `vtkm_filters` |
| `vtkm_filters` | none | one wrapper for each VTK-m filter | VTK-m |

What is hard, and what makes each part correct:

* **Messenger.** Packets of many messages complete in any order over several
  polls. A message must come back whole, in order and once; the pool of posted
  receives must not run dry; clean-up meets receives that already hold data.
* **RayMessenger.** Rays leave the caller's vector and must be in exactly one
  place until the receiving caller has them.
* **Collectives.** Between two ranks nothing is checked when a collective is
  called: if a rank branches, throws or returns early on what only it knows,
  the others wait for ever or read something else. So: same calls in the same
  order on all ranks, results that are global, visibility orders that fit
  together.
* **Filters.** `Update` mixes collective questions with loops over the local
  domains, throws at some of them, and runs other filters on temporary data
  sets. All ranks must throw together or not at all; every temporary must be
  deleted once, on every path; the host's data must come out as it went in; and
  the parts of the result must be those of a single pass over all data, though
  they were made by domain, plane by plane or in two nested passes.
* **Compositing.** Every rank computes on its own which part of the image it
  is responsible for and whom it exchanges with. The image on rank 0 must be
  the nearest fragment, or the blend in visibility order, of what *all* ranks
  drew, in whatever order the messages arrived.
* **Scene.** Plots share canvases and depth buffers. The last opaque plot
  composites for all; the volume needs the depths of all ranks. The order in
  which plots were added must not matter.

`PROJECT.json` lists the components with what is modelled of each, and the
hazards, each at its line with the properties that cover it.

## 2. Modules

| Module | Models | How |
|---|---|---|
| `MessageService` | what a messenger promises: sent messages are returned at most once, whole, to their destination | abstract specification |
| `Messenger` | `Messenger.cpp` | one action per method; MPI is `MatchReceive`, which gives a packet to a posted receive and keeps MPI's order between two ranks on one tag. A byte is its position in the message, so a lost, repeated or permuted piece shows |
| `RayMessenger` | `RayMessenger.cpp` | extends Messenger; rays are opaque; `SendAllMsg` is a loop of `SendMsg` steps |
| `MessengerProofs` | | theorems about Messenger and RayMessenger |
| `Collectives` | MPI collectives of one communicator | a rank's calls are a sequence; the i-th call of a rank belongs with the i-th of every other; rooted calls wait only for whom MPI makes them wait |
| `VolumeUpdate` | `VolumeRenderer::Update` with `Filter::CheckForRequiredField`, `Renderer::PreExecute`, the `DataSet` queries, both branches of `DoExecute`, `DepthSort` and the calls of the compositors | INSTANCE of Collectives; a rank's `pc` is the site of its next collective; between two collectives is one action |
| `PartialCompositor` | `PartialCompositor.cpp`, `vtkh_diy_partial_*.hpp` for volume partials | a partial is a pixel, a depth and a rank; blending keeps the sequence of partials |
| `Decomposition` | the parts of DIY's `RegularDecomposer` and `RegularPartners` the image compositors depend on | pure operators |
| `Compositing` | `RadixKCompositor.cpp`, `DirectSendCompositor.cpp`, `vtkh_diy_collect.hpp`, `Image.hpp`, `ImageCompositor.hpp` | one image per rank; a DIY callback is one action, enabled when the messages of its round are in; a pixel has depth, opacity, one 8-bit channel and, as history, the ranks it was made from |
| `CompositingProofs` | | theorems about Compositing, on blending and on blocks |
| `ListLemmas` | | facts the proofs share: induction on a measure, existence of functions defined by recursion, division, finite sets, sequences of whatever elements: joined, headed, appended to, with one element replaced or taken out |
| `PartialCompositorProofs`, `VolumeUpdateProofs` | | theorems about PartialCompositor and VolumeUpdate |
| `Scene` | `Scene.cpp`, `Renderer::Update` seen from it, `Render::Save` | a canvas is the set of fragments drawn on it, with a depth buffer apart |
| `SceneProofs` | | theorems about Scene |
| `DataSets` | `DataSet.cpp`, `utils/vtkm_dataset_info.cpp` | a domain is a row of points with cells that refer to them and fields with a value for each; what a rank contributes to a query, and what the query makes of it, are operators |
| `VtkmFilters` | the wrappers in `vtkm_filters` | one operator for each: which cells, points and fields of a domain come out |
| `GhostCells` | `GhostStripper.cpp` | from the ghost field to the block that stays, in one and two dimensions |
| `MergeContours` | `detail::MergeContours` of `Slice.cpp` | points, cells and fields of several contours put together with offsets, as in the code |
| `Histograms` | the arithmetic of `Histogram`, `Statistics`, `HistSampling` | integers over a common denominator |
| `ScalarImages` | `ScalarRenderer.cpp`, `PayloadCompositor.cpp`, `PayloadImageCompositor.hpp` | an image of one pixel with depth and payload; votes, reduction, back to a data set |
| `DomainWork` | the loops of the filters over the domains of a rank | what becomes of a domain, which are skipped, at which the filter throws |
| `FilterPrograms` | `PreExecute`, `DoExecute`, `PostExecute` of every filter | a program for each filter: a sequence of questions, loops, nested filters, tests, moves of data set pointers and deletions, in the code's order |
| `Filtering` | the machine the programs run on: `Filter::Update`, the calls of MPI, `new` and `delete` of data sets, `BoundsMap`, `StatisticsDB` | INSTANCE of Collectives; each rank has a heap of data sets and a stack of filters under way; one action for each kind of step |
| `FilteringProperties` | | the properties of Filtering, with what they assume of the host's data |
| `FilteringProofs`, `OwnershipProofs` | | theorems about Filtering: the ways of the ranks through their programs, the shares of a sample, and who owns the data sets |
| `MC*` | | constants and inputs for TLC |

Variables and actions keep the names of the code. Definitions called "Mutant
of X" are not part of any specification: each is X with a plausible bug, to
show which property would notice it.

Composition: `RayMessenger` extends `Messenger`, which implements
`MessageService` under the refinement `ServiceSpec` (the same variables `sent`
and `delivered`). `VolumeUpdate` and `Filtering` instantiate `Collectives`. The
filter modules are layers of one model: `DataSets`, then what is done to one
domain (`VtkmFilters`, `GhostCells`, `MergeContours`, `Histograms`,
`ScalarImages`), to all domains of a rank (`DomainWork`), by one filter
(`FilterPrograms`), and by several ranks (`Filtering`). `Compositing`
extends `Decomposition`. `Scene` takes what `Compositing` and `VolumeUpdate`
establish (rank 0 gets the fragments of all ranks; all ranks come through) as
one joint step each.

## 3. Runs

| Run | Instance | Shows |
|---|---|---|
| `messenger` | 2 ranks, tags with 1 and 2 receives, messages of 1 and of 3 packets (the last empty), 1 message per rank, to itself or the other | `TypeOK`; `AtMostOnce`: a returned message leaves no packet behind; `NothingLost`: packets on their way and messages returned make up what was sent, clean-up excepted; `PoolConserved`; `ServiceSpec`: refinement of MessageService |
| `ray_messenger` | 3 ranks, 1 posted receive for rays and 1 for control messages, vectors of 1 and 2 rays for one receiver, one ray addressed to its own rank | `RaysConserved`: a ray is in exactly one place; `RaysArrive`, `EventuallyDelivered`: liveness |
| `ray_loss` | the same with 2 receives for rays | violates `RaysConserved`, see findings |
| `volume_update` | 3 ranks, up to 2 domains on one; empty ranks and domains, missing field, scalar and vector field, invisible domains, structured and not; 2 renders; no range set by the user | `CollectivesMatch`, `NoRankLeftBehind`, `RangeIsGlobal`, `FrontToBack`, liveness `UpdateEnds` |
| `volume_unstructured`, `range_mismatch` | the restrictions of `volume_update` lifted, one at a time | violate `CollectivesMatch` and `NoRankLeftBehind` |
| `partial_compositor` | 3 ranks, up to 4 samples each over pixels 1, 2, 4, 7 | `ImageComplete`, `OneOwnerPerPixel` |
| `partial_one` | at most 3 samples in all | violates `ImageComplete` |
| `compositing` | 6 ranks, groups of 2 and 3; images 6x1, 1x13, 3x2, 5x4, and 5x1, which is too small for six blocks | `PiecesFit`, `PartnersAgree`, `NearestShown`, `BlendedInOrder`, `Premultiplied` |
| `scene` | 2 ranks, 3 images in batches of 1, 2, 4, up to 3 plots of any kinds in any order, rendered again and again | `VolumeLast`, `ImagesWhole`, `VolumeBehindOpaque`, liveness `RenderEnds` |
| `scene_order` | the same | violates `RenderOrder` |
| `filtering` | 3 ranks; 197 scripts of one to five filters and questions, on fourteen distributions of domains with 0 to 3 cells (two domains on a rank, a rank without domains, a domain without the field, no data at all, a field on points here and on cells there, a field of the whole domain on all ranks and on some, domains of a rank that differ in the components of a field or have one id, ghost layers in one and two dimensions, ghosts of several components, views for the renderer, particles); 3 bins, a sample of one half, `Inf` = 1000; 858,322 states, 343 steps deep | `CollectivesMatch`: ranks call together; `ErrorsAgree`: none is past a check another failed at, whoever throws alone beside it; `NothingLeaks`, `NoDangling`, `InputKept`: who owns which data set; `CellsExact`, `DomainsKept`, `SlicesMerged`, `SampleShared`: results are those of one pass over the whole; `AnswersTrue`, `BlocksKnown`: what a rank learns of the others is true |

Why the bounds are enough for the cases that matter:

* Messenger treats each tag and sender alike. Two tags with pools smaller and
  larger than one message, a message shorter than a packet and one whose last
  packet is empty, and a receiver with two senders (itself included) give every
  case of cutting, interleaving and re-posting. `MaxMsgs` bounds the messages a
  rank sends; the code's `int` ids are not modelled as wrapping.
* `VolumeUpdate`: three ranks are a root, one that differs and one that does
  not. Depths and ranges are small numbers, `Inf` stands for the largest
  double. Domain records are chosen so that every local decision of the code
  goes both ways on some rank.
* `Compositing`: 6 = 2 * 3 makes groups of two sizes; in a row or column the two
  rounds are in one dimension, otherwise one in each. `K = 2` instead of the
  code's 8 gives with six ranks what the code does with more than eight.
  Sizes do not divide evenly. Depths go from "nothing drawn" to beyond the far
  plane. One color channel is modelled, all are treated alike.
* `PartialCompositor`: blocks without samples, with one pixel and with two, a
  last block that takes the rest, and too few pixels for three blocks.
* `Filtering`: three ranks are one with several domains, one with one or
  several, and one without; rows of one to three cells have cells inside, across
  and outside every threshold and plane; two planes are the least for which
  merging needs offsets, three the least for which offsets add up; three bins
  are the least in which the first and last can give all they have and the
  middle one not. Chains of two filters meet what the first leaves behind:
  empty domains, dropped domains, recentered fields, fields of its own.
* `Scene`: three plots are the least for which the place of a mesh can be
  wrong; a short last batch and a batch size beyond the number of images occur.

Deadlock is checked in all runs but those of the messengers, which may stop:
a caller need not send or poll any more. `Filtering` states no fairness: every
step takes a rank forward in a finite script, so that a script that does not end
shows as a deadlock. `Terminated` accepts that a rank waits for one that has
thrown for its own domains and has not joined the call (`LeftWaiting`), as in
the code; a rank that waited for any other reason would be a deadlock. The other modules have an explicit
step for ranks that are done. In `Compositing` this replaces a liveness
property: every step takes a rank to a later stage, so with no deadlock all
ranks end, and `PartnersAgree` says why.

**Inputs the passing runs leave out.** `volume_update` excludes, by name in
`MCVolumeUpdate`, data sets on which the code does not keep its promises or
asks for more: `OneFieldPerRank` (finding `range_mismatch`), `SameMesh`
(finding `volume_unstructured`), and `FieldOnCells`: in the general branch a
domain with cells and without the field makes VTK-m's `GetField` throw on that
rank alone. `partial_compositor` excludes ranks that are left with exactly one
partial (finding `partial_one`).

`filtering` assumes nothing of the host's data where calls, errors and
ownership are concerned: on `WholeApart`, `Mixed`, `Twins`, `VectorGhosts` and
others a rank throws for its own domains (status `thrown`) while ranks without
such domains go on, and are left in a call it never makes. What results and
answers say is assumed of data, as `FilteringProperties` says in its head, of which the
first domain of a rank has all fields its domains have, since
`Filter::MapAllFields` takes the names from there; the domains with a field
agree on its components, if `NumberOfComponents` is asked for it; the domains
`ScalarRenderer` draws have the same scalar fields, and rank 0 has cells and so
has the last domain of some rank, if any has; and nothing is counted after the
totals of the counters were asked for. Section 5 says what the code does
otherwise.

**Mismatched collectives.** MPI leaves open what happens when the i-th calls of
two ranks differ. In the model such a call never returns, the usual outcome;
`CollectivesMatch` is violated before that matters.

**Undefined behaviour.** `composite_partials` reads `partials[1]` and
`partials[total-2]` of a vector of one element. The model takes either result
of the comparison: the memory may hold anything, also a partial of the same
pixel the vector held before.

**Fairness.** `RayFairness`: a rank finishes its setup, sends what it has and
polls, as the loops that use the messenger do; MPI makes progress on a packet
for which a receive is posted, which the standard guarantees. Nothing is assumed of
`SendAllMsg`, the reaping of sends, or clean-up. In `VolumeUpdate` and `Scene`
every rank keeps running and a collective that can complete does. These are
weak fairness throughout: nothing depends on a choice being offered only now
and then.

## 4. Proofs

All theorems hold for every value of the constants that satisfies the named
assumptions of the modules.

* `TypeCorrect` (`MessengerProofs`): `Spec => []TypeOK`, from
  `TagAssumption` and `BoundAssumption`. `RecvData` re-posts as many receives
  as completed, a cardinality, so the inductive `TypeInv` adds that the buffers
  are finite.
* `ReturnedAtMostOnce`: `Spec => []AtMostOnce`. `AtMostOnce` alone is not
  inductive: `RecvData` removes the packets it has listed, and one could still
  be in the network or in a receive. `OnceInv` adds that ids in use are below
  the next one (`IdsUsed`), that a packet is in one place (`InOnePlace`), that
  all packets of a message agree on their number and each index occurs once
  (`PacketsAgree`), and so that a list as long as `numPackets` is all there is
  (`NoneLeft`).
* `PoolIsConserved`: `Spec => []PoolConserved`. `PoolInv` adds to `OnceInv`
  that tags are only cleaned up after `InitializeBuffers`. The step that
  matters is `RecvData`: what it takes out of the buffers and what it re-posts
  are the same number, tag by tag.
* `NothingIsLost`: `Spec => []NothingLost`, byte for byte: the packets on
  their way and the messages returned make up what was sent, clean-up excepted.
  `KeepInv` adds to `OnceInv` where the packets of each sent message are and
  which bytes each holds, so that a complete list, put in order of its indices
  and joined, is the message.
* `MessengerIsService`: `Spec => ServiceSpec`, the refinement of
  `MessageService`: `SendData` is its send, a `RecvData` that completes messages
  its delivery, every other step a stutter.
* `ClientOfMessenger`: each step of `RayMessenger` is a
  step of `Messenger` or leaves its variables alone, so that all the theorems
  about messengers hold in the ray layer too. `RaysAreConserved`:
  `Spec => []RaysConserved` with one posted receive per ray tag. `RayInv` says
  that a ray is in one place (`OnePlace`) and that what a message carries is
  what its sender put in (`Contents`, `Vectors`). The hypothesis is the one the
  run `ray_loss` shows to be needed (finding 1).
* `TypesKept`, `VolumeStaysLast`, `VolumeDrawnBehind`, `ImagesAreWhole`
  (`SceneProofs`): the four invariants of `Scene`. `PlotsInv` relates
  `m_has_volume`, from which `AddRenderer` computes the place of a plot, to the
  last plot of the list. `RenderInv` says for every rank and image of its batch
  what the canvas and its depths show at each point of `Render`, that ranks which
  meet in a collective are in the same batch, and that the images of earlier
  batches are saved. A volume is drawn last, so after `SynchDepths`, and the
  last batch ends at `NumImages` whether or not it is full.
* `PixelsHaveOneOwner` (`PartialCompositorProofs`):
  `Spec => []OneOwnerPerPixel`. `OwnerInv` follows the partials: what a rank
  has before the exchange is what it rendered, a message is the share of its
  sender for its receiver, and after the barrier a rank has the shares of all.
  The receiver of a pixel is computed from bounds that are the same on all
  ranks, so all its partials go to one.
* `TypeCorrect`, `ImageIsComplete` (`PartialCompositorProofs`): `TypeOK` and
  `ImageComplete`, when no rank is left with exactly one partial (`AllSeveral`;
  finding 4 shows the need). `ImageInv` adds to `OwnerInv` that what has not
  arrived was sent (`AllSent`), what bounds and sizes the ranks know (`Known`),
  that bounds cover all pixels (`Spread`, `Fits`), what a rank made of its
  partials (`Outputs`) and what rank 0 has of them (`Gathered`, `Held`).
* `TypeCorrect`, `RangeAgreed` (`VolumeUpdateProofs`): `Spec => []TypeOK` and
  `Spec => []RangeIsGlobal`, from `UpdateAssumption` and `InputAssumption`.
  `RangeInv` records what each call so far contributed and that it is what the
  rank's own domains give; that the least of the ranks' least values is the
  least of all is proved from finite sets, by hand.
* `MatchingPreventsDeadlock`: while the calls of the ranks agree and none has
  left early, the ranks are never all waiting (`~Stuck`): the rank with the
  fewest calls can return from its last. So a hang can only come from a
  violation of `CollectivesMatch` or `NoRankLeftBehind`.
* `CollectivesAgree`, `NobodyLeftBehind`, `OrdersFrontToBack`
  (`VolumeUpdateProofs`): `Spec /\ Uniform => []CollectivesMatch`, the same for
  `NoRankLeftBehind /\ ~Stuck` and for `FrontToBack`, with any number of ranks,
  domains and renders. `Uniform` names the data on which neither the two
  findings about volumes nor the exception of `FieldOnCells` can occur: one number of components per rank; with one
  domain per rank, all structured or none; else the field on every domain with
  cells. `CollectivesMatch` alone says nothing of where a rank is. `OrderInv`
  says there is one sequence of places, a place being a call site and a loop
  iteration, computed from the data set as a whole, and that each rank has
  gone along it, whichever of the domains are its own. Such a sequence exists
  by an induction over the naturals done by hand, on the least counterexample.
  `BlendInv` adds that the orders a rank holds are those the root scattered,
  and what the root numbered is a sort of all depths.
* `ExchangeHolds`, `GroupsAgree`, `PiecesAlwaysFit`, `ImagesHold`,
  `CompositingTypes`, `NearestAlwaysShown`, `AlwaysBlendedInOrder`,
  `StaysPremultiplied` (`CompositingProofs`): the six invariants of
  `Compositing`, for any number of ranks, any image size, any group size `K` and any canvases. The
  argument has three layers.
  * Who exchanges with whom: `ExchangeInv`. `SetupInv` gives what the decomposer
    and the partners of DIY compute: a grid of `N` blocks (`GoodGrid`) with
    rounds whose groups partition it. `PlaceInv` and `MailInv` say how far each
    rank is and which messages are there: a rank is never ahead of a
    peer it needs something from. `PartnersAgree` follows.
  * Which part of the image: `Pieces` and `Shares` are the rectangle a rank is
    responsible for after `n` rounds and the ranks whose fragments are in it.
    Members of a group start from the same rectangle and cut it alike
    (`PiecesAgree`), the rectangles cover the image (`PiecesCover`), and after the last round
    each holds fragments of all ranks (`SharesAll`). That gives `PiecesFit`.
  * What is in the pixels: `ImagesInv(P)`. An image or message at stage `n`
    shows at each point of its rectangle what the ranks of its share drew there
    (`Holds`): the nearest, or the blend in order. `P` is the set of pixels,
    either all or, for the last theorem, those whose color is weighted with their
    opacity; what is needed of it is that it is closed under the code's
    operations (`Closed`).

  `StaysPremultiplied` assumes that what the renderers draw is premultiplied
  (`AllWeighted`), which is how VTK-m writes its canvases; `BlendStaysWeighted`,
  on which it rests, says that the `unsigned char` sums of
  `ImageCompositor::Blend` do not wrap around for such pixels.
* `CollectivesAlwaysMatch` (`FilteringProofs`): `Spec => []CollectivesMatch` of
  `Filtering`, for any ranks, any data on them and any script. The only
  hypothesis is `ScenarioAssumption`: a script names operations of vtk-h, with
  parameters of their types, and takes the host's data or what the operation
  before returned. What a rank does next is decided by its *place*
  (`PlaceOf`): how many calls and operations are behind it, the filters under
  way, what each has left to do, the answers it has, and which counters
  exist. The domains and data sets of the rank are no part of it. `WayInv` says
  that there is one sequence of places, that each rank no exception has
  stopped stands on it, and that its i-th call was made from the i-th place that calls.
  That a step leads from a place to the one that follows it (`Follows`) rests on
  three facts:
  * an answer is computed from what all ranks contributed, so it is the same on
    all; `totalVal` alone is not, and nothing in its program looks at it
    (`ViewOf` leaves it out);
  * in every filter's program the branches that lead to a call or to another
    filter test only what all ranks know (`Told`); what a rank finds on its
    own data (`FoundHere`, `FoundOn`) decides only whether it throws. This is `Sound`,
    proved program by program;
  * the counters of `AddCounter` exist on all ranks or on none, as scripts
    are the same on all.

  A new filter is covered once its program is shown to be `Sound`.
* `ErrorsAlwaysAgree` (`FilteringProofs`): `Spec => []ErrorsAgree`, for any
  data, on the same way of places. An exception is of one of two kinds. A rank
  has *failed* at a check of what all ranks know: whether it fails is decided by
  the place (`Failing`), and `ErrorInv` says that no rank has gone past a place
  where all fail, and that a rank that has failed did so where the way ends. No
  other rank has finished that operation or made a call beyond it. Or it has
  *thrown* for what is on its own domains: `GetRange` for domains that differ in
  their components, a loop for a field that is missing, on the whole mesh or of
  a type it does not cast to, `BoundsMap` for two domains with one id. There
  the code of a rank asks no other, ranks do throw alone, and nothing is claimed of
  those that go on without them, but that a rank that has thrown left the way
  at some place of it (`LeftTheWay`): it is not past the end either, so that
  what is said of ranks that have failed holds beside it.
* `SharesAddUp` (`FilteringProofs`): `calculate_pdf` of `HistSampling`, for any
  number of bins, any counts and any share of them. It takes the bins in the order
  of their counts and gives each an even share of what is left, or all it has.
  `Shared`, the invariant of the loop, says that what is given and what is left
  add up to the sample, and that either all bins so far gave all they have
  (`AllGiven`: the rest is then no more than the remaining bins hold) or what is left is
  the remaining bins' number times one share that no bin exceeded
  (`EvenlyGiven`), from which on nothing is left over. The code divides in
  `Float32`; the model multiplies all by `den * bins!`, so that each division
  comes out even (`FactorialsDivide`), and the theorem is about the exact
  shares. `SamplesAlwaysShared` (`OwnershipProofs`) makes of it `Spec /\
  []BinsCounted => []SampleShared`: `SharesAllowed` holds of every script, as the
  setters throw otherwise, and `BinsCounted`, a conjunct of `TypeOK`, says that
  the counts all ranks added up are natural numbers, one for each bin.
* `NothingDangles`, `NothingEverLeaks`, `InputStays` (`OwnershipProofs`):
  `Spec => []NoDangling`, `Spec => []NothingLeaks` and `Spec => InputKept`, from
  `ScenarioAssumption`. The programs come first. A *holding* says of a filter
  under way which of its pointers point to a data set (`has`), which of those
  data sets it has to delete or to return (`own`), how many contours it has put
  aside, and what the answers tell of its field. `Does` says what a step needs
  of a holding and makes of it: what is deleted is owned, what is overwritten is
  owned too (but for the field `HistSampling` adds to its input), a pointer that
  is the only one to a data set is not set anew.
  `Safe` says that a filter comes to its end that way on each of its branches,
  with its output and nothing else, and is proved for each program (`Start`).
  The branch that averages a cell field to the points, and at the end deletes
  the copy and restores the input, is taken twice, on the same answers, which is
  why a holding must remember them.

  Then the ranks: `OwnInv` says that there are *books*, one holding for each
  frame on the stack and the data sets its callers have (`base`), such that a
  frame's pointers are as its holding says (`Accounts`): what it does not own is
  in `base`, what it owns is not, and no two pointers own the same data set. The
  data sets on the heap are what the innermost frame has and its base, or, with
  no filter under way, what the host holds. So no step can delete what a caller
  or the host still uses, and an output that is returned is the only thing
  left. A rank an exception has stopped is left out of `NothingLeaks`: its frames are
  gone, and what they owned is lost, as in the code.
* `BlocksShareOut`: with at least as many places as blocks, which DIY ensures by
  throwing otherwise, every place of a dimension is in exactly one block.

Definitions are written so that they can be reasoned about: recursion is by
recursive functions of one argument, as the provers know none of two
(`Compositing.Rounds` has a record for it), and sequences are put in order by a
choice (`InOrder` of `Messenger`) and not by `SortSeq`, of which the provers
have no definition. What a recursive function or a fold computes is proved by
induction on the naturals with sets instead of predicates (`ListLemmas`).

Model-checked only: liveness, which is out of the provers' reach, and what
`Filtering` says of results and of the shape of data. `CellsExact`,
`DomainsKept`, `SlicesMerged`, `AnswersTrue` and `BlocksKnown`
compare results of whole programs, folds over the domains of all ranks among
them, with a reference computed in one pass; `TypeOK` asks that every filter
makes fields as long as the points or cells of its domain, which needs the folds of
the data set operations, and that what is counted over them is a natural number
for each bin (`BinsCounted`, the hypothesis of `SamplesAlwaysShared`).

## 5. Findings

1. `RecvAny` overwrites the rays of one message with those of the next when
   `RecvData` returns several (`RayMessenger.cpp:132`). Run `ray_loss`.
2. `DoExecute` takes its branch on the rank-local `m_has_unstructured`
   (`VolumeRenderer.cpp:471`): a rank whose unstructured domain is empty calls
   other collectives than the rest. Run `volume_unstructured`.
3. `GetRange` throws on one rank before the `MPI_Allgather` that is to make all
   ranks notice the mismatch (`DataSet.cpp:405`). Run `range_mismatch`.
4. `composite_partials` reads outside the array when a rank holds one partial
   (`PartialCompositor.cpp:359`). Run `partial_one`.
5. `AddRenderer` puts a mesh before the last surface when there is a volume
   (`Scene.cpp:106`). Run `scene_order`.

Seen on the way. None of these is a run, since no text in the repository promises
the contrary. What is modelled of it, is as the code does it, and the passing
runs keep to data on which it does not matter.

* Fields and domains. `MapAllFields` lists the fields of the first domain of
  a rank only (`Filter.cpp:111`), and keeps the list for the next `Update`
  (`:95`). `IsStructured` leaves its loop at a domain of another dimension while
  the answer is still yes, and reports a dimension that is local
  (`DataSet.cpp:563`, `:580`). `FindBlock` of `BoundsMap` takes bounds as half
  open, and `Clear` keeps `globalBounds`.
* Exceptions on one rank, while ranks without such domains go on and wait in
  their next call. `VectorMagnitude`, `Lagrangian` and `ParticleMerging` throw at a
  domain without the field. `VectorMagnitude` (`VectorMagnitude.cpp:85`) and
  `VectorComponent` throw at a field of one component or more than four, `Lagrangian` at
  one that has not three, `Log` (`Log.cpp:155`), `Histogram` and `Statistics` at one that has not
  one, `Log` (`:147`) and `Recenter` (`Recenter.cpp:99`) at one of the whole mesh,
  `GhostStripper` at ghosts of several components it has to strip. `GetRange` throws when the
  domains of the rank differ in components (`DataSet.cpp:380`, the cause of
  finding 3, here in the filters that ask for a range), `BoundsMap` when two
  have one id. `VectorComponent` accepts a negative component other than -1. An
  exception leaves log blocks open, and a data set that `MarchingCubes`,
  `ClipField` or `Gradient` had put in the place of the input. With logging on,
  `Update` reads the input before `PreExecute` tests it.
* Results. `Slice` by one plane keeps `slice_field`, by several does not; with
  no domain anywhere it throws that the field does not exist, which `Clip`
  works around (`Clip.cpp:309-318`). `Clip` by several planes leaves its own
  field, `HistSampling` adds one to the caller's input, `IsoVolume` and
  `ClipField` return cell fields as point fields. Names made up for the results
  of `Log` and `VectorMagnitude` are not made again for another field.
  A rank without the field returns another range from `Histogram` than the
  rest. `GhostStripper` never cuts a block out of a structured domain: the test
  at `GhostStripper.cpp:183` is true of every ghost cell, and the domain goes
  through Threshold.
* `ScalarRenderer` asks the last domain only for its vote, drops the image when
  rank 0 has nothing to draw, and broadcasts the winner's bounds of the payload
  over all others, so that ranks with other fields go unnoticed.
* `StatisticsDB`: the maximum of a statistic is compared with `vals.end()`, sums
  are added up in `int` (`StatisticsDB.hpp:121`), `totalVal` returns an
  uninitialized value on ranks other than 0, a copy loses the events, and
  `calcStats` uses `MPI_COMM_WORLD` whatever the communicator of the library.
* `MeshRenderer::SetShowInternal` assigns `m_is_overlay`
  (`MeshRenderer.cpp:58`). `ZBufferBlend` works on a vector of pixels it never
  sizes, and its last step is not implemented; it is reached only with
  transparent images without an order, which no renderer asks for.

## 6. Not modelled

* Drawing, cameras, color tables, annotations, PNG files and GPU selection: no
  state of vtk-h beyond parameters. Geometry of VTK-m filters beyond one
  dimension (two for ghost cells): the control of vtk-h does not look at it.
* The vendored code under `thirdparty_builtin`: lodepng, and of DIY all but
  what the compositors rely on. It makes up much of the lines of the repository.
* `ContourTree`, compiled only with an option of VTK-m, hands over to VTK-m's
  distributed contour tree; `filters/avtParICAlgorithm.*`, an earlier form of the
  messengers, is in no build file.
* A filter or renderer object used a second time, for other data: the fields a
  filter passes on and the range of a renderer stay those of the first time.
* Several images per rank and the modes of `Compositor`; absorption and
  emission partials, which take the same way as volume partials and differ in
  what a blend adds up.
* Blocks of the data log, timers and events, which follow the scheme of
  counters. `ThreadSafeContainer` is used nowhere. `MemStream`: bytes of
  messages are positions in `Messenger`, and who reads mirrors who wrote.
  `vtkh.cpp` keeps what the host sets.
* Floating point and OpenMP loops, whose iterations are independent. Failures
  of MPI itself: vtk-h does not handle them.

Exceptions VTK-m's own filters throw for what they are handed are not modelled
either; those of vtk-h's loops and casts are.

Of the hazards listed in `PROJECT.json`, ten have no property, each with the
reason at its entry.

## 7. Plan

Done: messengers, volume update, partial compositing, image compositing, scene,
data sets, all filters but one, bounds map, scalar renderer, counters.

Proved: the safety properties of all modules but `Filtering`, and of `Filtering`
that the ranks make the same collective calls, that none gets past a check
another failed at, that no data set is used after it is deleted, changed under the
host's hands or left behind, and that a sample is shared out over the bins as
far as they go.

What is left, in order of worth: proofs of what `Filtering` says of results; a renderer and a filter updated twice, on
other data, in `VolumeUpdate` and `Filtering`; several images per rank and the
modes of `Compositor`.
