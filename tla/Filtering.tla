----------------------------- MODULE Filtering ------------------------------
(***************************************************************************)
(* A host program on several ranks that runs vtk-h filters, one after the  *)
(* other, on data distributed over the ranks.  Each rank has a heap of     *)
(* data sets and a stack of filters in their Update; all ranks run the     *)
(* same script of operations, and meet in the collective calls.            *)
(*                                                                         *)
(* An address is a place in heap; memory is not used again after delete.   *)
(* The host's data set is at address 1; 0 is the null pointer.  A rank on  *)
(* which an exception leaves Update makes no more calls: it has failed at  *)
(* a check of what all ranks know, or thrown on account of its own domains.*)
(***************************************************************************)
EXTENDS FilterPrograms

CONSTANTS
  Ranks,
  Counters,   \* names of counters
  Scenarios   \* records: data[r] (the host's data set), script, logging

VARIABLES
  scenario,   \* the host's data and script, and whether logging is built in
  status,     \* status[r]: "running", "failed", "thrown" or "done"
  stack,      \* stack[r]: the filters under way, the innermost last
  heap,       \* heap[r]: the data sets of rank r, Freed when deleted
  results,    \* results[r]: for each operation done its in and out and answers
  boundsMap,  \* boundsMap[r]: BoundsMap, with bm, m_rank_map and globalBounds
  stats,      \* stats[r]: StatisticsDB, with counters and the totals computed
  calls, inCall

(* Rank 0 of the code. *)
Rank0 == CHOOSE r \in Ranks : \A s \in Ranks : r <= s

(* totalVal reduces each counter to rank 0. *)
C == INSTANCE Collectives WITH
       Root <- Rank0,
       ToRoot <- {<<"TotalVal", "counter", n>> : n \in Counters},
       FromRoot <- {}

vars == <<scenario, status, stack, heap, results, boundsMap, stats, calls, inCall>>

Freed == [doms |-> <<>>, cycle |-> -1]

NoFrame == [in |-> 0, old |-> 0, out |-> 0, temp |-> 0, other |-> 0]

Frame(op, in) ==
  [op |-> op, todo |-> Steps(op, scenario.logging),
   reg |-> [NoFrame EXCEPT !.in = in], slices |-> <<>>, sel |-> op.map, got |-> <<>>]

Top(r) == Last(stack[r])
Step(r) == Head(Top(r).todo)
Rest(r) == [Top(r) EXCEPT !.todo = Tail(@)]
At(r, reg) == heap[r][Top(r).reg[reg]]
Put(r, frame) == [stack EXCEPT ![r] = Append(Front(@), frame)]
New(r) == Len(heap[r]) + 1

(* Ranks that an exception has stopped. *)
Stopped == {"failed", "thrown"}

Doing(r, what) ==
  /\ status[r] = "running"
  /\ stack[r] # <<>>
  /\ Top(r).todo # <<>>
  /\ Step(r).do = what

(* Scripts name operations of vtk-h, with counters of Counters, and take the *)
(* host's data or what the operation before returned.                       *)
WellFormedOp(op) ==
  /\ "name" \in DOMAIN op /\ op.name \in FilterNames \cup Functions \cup {"ScalarRenderer"}
  /\ op.name \in CountingOps => op.counter \in Counters
  /\ op.name = "CompositeVector" => op.fields \in Seq(STRING)
  /\ op.name = "Slice" => op.planes \in Seq(Int)

(* The setters of HistSampling: a share above 0 of at most 1, and some bins. *)
SharesAllowed(op) ==
  op.name = "HistSampling" =>
    /\ op.num \in Nat \ {0} /\ op.den \in Nat \ {0} /\ op.num <= op.den
    /\ op.bins \in Nat \ {0}

ASSUME ScenarioAssumption ==
  \A s \in Scenarios :
    /\ s.logging \in BOOLEAN
    /\ \A r \in Ranks : /\ s.data[r] = [doms |-> s.data[r].doms, cycle |-> s.data[r].cycle]
                        /\ s.data[r].cycle \in Nat
    /\ s.script \in Seq(ToSet(s.script))
    /\ \A i \in DOMAIN s.script :
         /\ WellFormedOp(s.script[i].op) /\ SharesAllowed(s.script[i].op)
         /\ \/ s.script[i].on = "host"
            \/ /\ s.script[i].on = "last" /\ i > 1
               /\ s.script[i - 1].op.name \notin Functions

-----------------------------------------------------------------------------
(* The questions. *)

Bounds(dom) == ArrayRange(dom.points)

(* The sum, and the sums of powers of the distance to the mean. *)
Moment(q, got, f, vals) ==
  CASE q = "sum"  -> FoldLeft(+, 0, vals)
    [] q = "sum2" -> PowerSum(vals, got[<<"count", f>>], got[<<"sum", f>>], 2)
    [] q = "sum3" -> PowerSum(vals, got[<<"count", f>>], got[<<"sum", f>>], 3)
    [] q = "sum4" -> PowerSum(vals, got[<<"count", f>>], got[<<"sum", f>>], 4)

(* What the rank contributes to the collective call it comes to. *)
Contribution(r) ==
  LET q == Step(r).q
      f == Step(r).f
      ds == At(r, Step(r).of)
      got == Top(r).got
      bm == boundsMap[r].bm
  IN CASE q = "exists"     -> FieldExists(ds, f)
       [] q = "assoc"      -> LocalAssociation(ds, f)
       [] q \in {"comps", "rangeComps"} -> LocalComponents(ds, f)
       [] q = "rangeLo"    -> GetRange(ds, f).range.lo
       [] q = "rangeHi"    -> GetRange(ds, f).range.hi
       [] q = "domains"    -> NumberOfDomains(ds)
       [] q = "cells"      -> NumberOfCells(ds)
       [] q = "empty"      -> IsEmpty(ds)
       [] q = "points"     -> LocalPointMesh(ds)
       [] q = "structured" -> LocalStructured(ds).structured
       [] q = "bins"       -> LocalHistogram(ds, f, RangeOf(Top(r).op, got), Top(r).op.bins)
       [] q = "count"      -> Len(LocalValues(ds, f))
       [] q \in {"sum", "sum2", "sum3", "sum4"} -> Moment(q, got, f, LocalValues(ds, f))
       [] q = "blocks"     -> Cardinality(DOMAIN bm)
       [] q = "boxes"      -> bm
       [] q = "ids"        -> DOMAIN bm
       [] q = "vote"       -> LastHasCells(ds)
       [] q = "bounds"     -> Drawn(ds) # <<>>
       [] q = "max_p"      -> ArrayRange(PayloadBytes(ds)).hi
       [] q = "min_p"      -> ArrayRange(PayloadBytes(ds)).lo
       [] q = "image"      -> LocalImage(ds)
       [] q = "counter"    -> stats[r].counters[f]

(* What the rank makes of all contributions; "mixed" and -1 for conflicts.  *)
(* Of what the rank with the winning vote broadcasts the others take that.  *)
AnswerTo(q, values, got) ==
  CASE q = "exists" -> GlobalSomeoneAgrees(values)
    [] q = "assoc"  ->
         IF Consistent(values, "none") THEN TheGiven(values, "none") ELSE "mixed"
    [] q = "rangeComps" -> IF Consistent(values, 0) THEN TheGiven(values, 0) ELSE -1
    [] q \in {"comps", "rangeHi"} -> MaxOf(values)
    [] q = "rangeLo" -> MinOf(values)
    [] q \in {"domains", "cells", "count", "sum", "sum2", "sum3", "sum4", "counter"} ->
         SumOf(values)
    [] q \in {"empty", "points", "structured"} -> GlobalAgreement(values)
    [] q = "bins"   -> SumOfBins(values, Len(values[CHOOSE r \in DOMAIN values : TRUE]))
    [] q \in {"blocks", "boxes", "ids"} -> values
    [] q = "vote"   -> Winner(values)
    [] q \in {"bounds", "max_p", "min_p"} -> values[got[<<"vote", "">>]]
    [] q = "image"  -> NearestOf(values)

Site(r) == <<Top(r).op.name, Step(r).q, Step(r).f>>

EnterCall(r) ==
  /\ Doing(r, "ask")
  /\ C!Enter(r, Site(r), Contribution(r))
  /\ UNCHANGED <<scenario, status, stack, heap, results, boundsMap, stats>>

ReturnFromCall(r) ==
  LET key == <<Step(r).q, Step(r).f>>
      answer == AnswerTo(Step(r).q, C!Contributed(r), Top(r).got)
  IN /\ Doing(r, "ask")
     /\ C!Return(r, Site(r))
     /\ stack' = Put(r, [Rest(r) EXCEPT
                   !.got = [k \in DOMAIN @ \cup {key} |-> IF k = key THEN answer ELSE @[k]]])
     /\ UNCHANGED <<scenario, status, heap, results, boundsMap, stats>>

-----------------------------------------------------------------------------
(* Conditions in the programs. *)

(* What the answers and the parameters of the filter tell: the same on all. *)
Told(op, got, test, f) ==
  CASE test = "exists"    -> got[<<"exists", f>>]
    [] test = "domains"   -> got[<<"domains", "">>] > 0
    [] test = "assoc"     -> got[<<"assoc", f>>] # "mixed"
    [] test = "cells"     -> got[<<"exists", f>>] /\ got[<<"assoc", f>>] = "cells"
    [] test = "range"     -> got[<<"rangeComps", f>>] # -1
    [] test = "ranged"    -> got[<<"rangeComps", f>>] > 0
    [] test = "scalar"    -> got[<<"rangeComps", f>>] = 1
    [] test = "empty"     -> got[<<"empty", "">>]
    [] test = "pointMesh" -> ~got[<<"empty", "">>] /\ got[<<"points", "">>]
    [] test = "component" -> /\ got[<<"comps", f>>] # 1
                             /\ op.component # -1
                             /\ op.component < got[<<"comps", f>>]
    [] test = "scalars"   -> \A i \in DOMAIN op.fields : got[<<"comps", op.fields[i]>>] = 1
    [] test = "sameAssoc" -> \A i \in DOMAIN op.fields :
                               got[<<"assoc", op.fields[i]>>] = got[<<"assoc", op.fields[1]>>]
    [] test = "positive"  -> got[<<"rangeLo", f>>] > 0 \/ op.clamp
    [] test = "isos"      -> op.levels > 0 \/ (op.levels = -1 /\ op.isos # <<>>)
    [] test = "named"     -> op.as # ""
    [] test = "ordered"   -> op.lo <= op.hi
    [] test = "won"       -> got[<<"vote", "">>] # -1
    [] test = "payload"   -> got[<<"min_p", "">>] = got[<<"max_p", "">>]
    [] test = "planes"    -> op.planes # <<>>

(* Tests of what a rank has of its own; some are of its domains. *)
OwnTests == {"alike", "castable", "unique"}
LocalTests == {"has", "new", "counted"} \cup OwnTests

FoundOn(ds, test, f) ==
  CASE test = "alike"    -> ~GetRange(ds, f).mixed
    [] test = "castable" -> \A i \in DOMAIN Having(ds, f) : Having(ds, f)[i].fields[f].comps = 1
    [] test = "unique"   -> \A i, j \in DOMAIN ds.doms : ds.doms[i].id = ds.doms[j].id => i = j

FoundHere(r, test, f) ==
  CASE test = "has"       -> FieldExists(At(r, "in"), f)
    [] test = "new"       -> Top(r).op.counter \notin DOMAIN stats[r].counters
    [] test = "counted"   -> Top(r).op.counter \in DOMAIN stats[r].counters
    [] test \in OwnTests -> FoundOn(At(r, Step(r).of), test, f)

Test(r, test, f) ==
  IF test \in LocalTests THEN FoundHere(r, test, f)
  ELSE Told(Top(r).op, Top(r).got, test, f)

Branch(r) ==
  /\ Doing(r, "if")
  /\ stack' = Put(r, [Rest(r) EXCEPT
       !.todo = (IF Test(r, Step(r).test, Step(r).f) THEN Step(r).then ELSE Step(r).else) \o @])
  /\ UNCHANGED <<scenario, status, heap, results, boundsMap, stats, calls, inCall>>

(* An exception unwinds the stack; local pointers are lost. *)
Fail(r, how) ==
  /\ status' = [status EXCEPT ![r] = how]
  /\ stack' = [stack EXCEPT ![r] = <<>>]
  /\ UNCHANGED <<scenario, heap, results, boundsMap, stats, calls, inCall>>

CheckHolds(r) ==
  /\ Doing(r, "check")
  /\ Test(r, Step(r).test, Step(r).f)
  /\ stack' = Put(r, Rest(r))
  /\ UNCHANGED <<scenario, status, heap, results, boundsMap, stats, calls, inCall>>

CheckFails(r) ==
  /\ Doing(r, "check")
  /\ ~Test(r, Step(r).test, Step(r).f)
  /\ Fail(r, IF Step(r).test \in OwnTests THEN "thrown" ELSE "failed")

-----------------------------------------------------------------------------
(* Data sets. *)

Store(r, frame, reg, ds) ==
  /\ heap' = [heap EXCEPT ![r] = Append(@, ds)]
  /\ stack' = Put(r, [frame EXCEPT !.reg[reg] = New(r)])

(* An empty list of fields to pass on means those of the first domain. *)
MapAllFields(ds) == IF ds.doms = <<>> THEN {} ELSE DOMAIN ds.doms[1].fields

MapFields(r) ==
  /\ Doing(r, "mapFields")
  /\ stack' = Put(r, [Rest(r) EXCEPT
                       !.sel = IF @ = {} THEN MapAllFields(At(r, "in")) ELSE @])
  /\ UNCHANGED <<scenario, status, heap, results, boundsMap, stats, calls, inCall>>

ThrowsSomewhere(work, ds) == \E i \in DOMAIN ds.doms : Throws(work, ds.doms[i])

RunOnDomains(r) ==
  LET from == At(r, Step(r).from)
  IN /\ Doing(r, "map")
     /\ ~ThrowsSomewhere(Step(r).work, from)
     /\ Store(r, Rest(r), Step(r).to,
              MapDomains(Step(r).work, Top(r).sel, Top(r).got, from))
     /\ UNCHANGED <<scenario, status, results, boundsMap, stats, calls, inCall>>

DomainThrows(r) ==
  /\ Doing(r, "map")
  /\ ThrowsSomewhere(Step(r).work, At(r, Step(r).from))
  /\ Fail(r, "thrown")

OverwriteDomains(r) ==
  LET of == Top(r).reg[Step(r).of]
  IN /\ Doing(r, "overwrite")
     /\ heap' = [heap EXCEPT ![r][of].doms =
          [i \in DOMAIN @ |-> Worked(Step(r).work, Top(r).sel, Top(r).got, @[i])]]
     /\ stack' = Put(r, Rest(r))
     /\ UNCHANGED <<scenario, status, results, boundsMap, stats, calls, inCall>>

AssignPointer(r) ==
  /\ Doing(r, "assign")
  /\ stack' = Put(r, [Rest(r) EXCEPT !.reg[Step(r).to] = Top(r).reg[Step(r).from]])
  /\ UNCHANGED <<scenario, status, heap, results, boundsMap, stats, calls, inCall>>

DeleteDataSet(r) ==
  /\ Doing(r, "delete")
  /\ heap' = [heap EXCEPT ![r][Top(r).reg[Step(r).reg]] = Freed]
  /\ stack' = Put(r, [Rest(r) EXCEPT !.reg[Step(r).reg] = 0])
  /\ UNCHANGED <<scenario, status, results, boundsMap, stats, calls, inCall>>

(* Mutant of Restored: the pointer to the averaged copy stays. *)
NotRestored(frame) == frame

Restored(frame) == [frame EXCEPT !.reg.in = frame.reg.old, !.reg.old = 0]

RestoreInput(r) ==
  /\ Doing(r, "restore")
  /\ heap' = [heap EXCEPT ![r][Top(r).reg.in] = Freed]
  /\ stack' = Put(r, Restored(Rest(r)))
  /\ UNCHANGED <<scenario, status, results, boundsMap, stats, calls, inCall>>

(* The contours become one data set; MergeContours deletes them. *)
MergeSlices(r) ==
  LET slices == Top(r).slices
      merged == Merge([i \in DOMAIN slices |-> heap[r][slices[i]]], "slice_field")
  IN /\ Doing(r, "merge")
     /\ heap' = [heap EXCEPT ![r] =
          Append([a \in DOMAIN @ |-> IF Contains(slices, a) THEN Freed ELSE @[a]], merged)]
     /\ stack' = Put(r, [Rest(r) EXCEPT !.reg.out = New(r), !.slices = <<>>])
     /\ UNCHANGED <<scenario, status, results, boundsMap, stats, calls, inCall>>

TakeSlice(r) ==
  /\ Doing(r, "take")
  /\ stack' = Put(r, [Rest(r) EXCEPT !.reg.out = Top(r).slices[1], !.slices = <<>>])
  /\ UNCHANGED <<scenario, status, heap, results, boundsMap, stats, calls, inCall>>

PropagateMetadata(r) ==
  /\ Doing(r, "metadata")
  /\ heap' = [heap EXCEPT ![r][Top(r).reg.out].cycle = At(r, "in").cycle]
  /\ stack' = Put(r, Rest(r))
  /\ UNCHANGED <<scenario, status, results, boundsMap, stats, calls, inCall>>

(* Only rank 0 has an image to return, under its own names of the fields;   *)
(* without data of its own it has no names, and returns nothing.            *)
TakePicture(r) ==
  LET drawn == Drawn(At(r, "in"))
      picture == r = Rank0 /\ <<"image", "">> \in DOMAIN Top(r).got /\ drawn # <<>>
                 /\ Scalars(Last(drawn)) # {}
  IN /\ Doing(r, "picture")
     /\ Store(r, Rest(r), "out",
          IF picture
          THEN [NoData EXCEPT !.doms =
                  AddDomain(@, ToDataSet(Top(r).got[<<"image", "">>], Scalars(Last(drawn))), 0)]
          ELSE NoData)
     /\ UNCHANGED <<scenario, status, results, boundsMap, stats, calls, inCall>>

-----------------------------------------------------------------------------
(* BoundsMap: bm and m_rank_map are maps from block ids. *)

NoBounds == [bm |-> <<>>, m_rank_map |-> <<>>, globalBounds |-> EmptyRange]

(* The bounds of all blocks before are not cleared. *)
Clear(r) ==
  /\ Doing(r, "clear")
  /\ boundsMap' = [boundsMap EXCEPT ![r].bm = <<>>, ![r].m_rank_map = <<>>]
  /\ stack' = Put(r, Rest(r))
  /\ UNCHANGED <<scenario, status, heap, results, stats, calls, inCall>>

AddBlocks(r) ==
  LET ds == At(r, "in")
      ids == {ds.doms[i].id : i \in DOMAIN ds.doms}
  IN /\ Doing(r, "addBlocks")
     /\ boundsMap' = [boundsMap EXCEPT
          ![r].bm = [i \in ids |-> Bounds(GetDomainById(ds, i))],
          ![r].m_rank_map = [i \in ids |-> -1]]
     /\ stack' = Put(r, Rest(r))
     /\ UNCHANGED <<scenario, status, heap, results, stats, calls, inCall>>

RankOrder == Sorted(Ranks)

(* The ids of the blocks of all ranks, as the Allgatherv lines them up.     *)
dom_rec_buff(boxes) ==
  FlattenSeq([k \in DOMAIN RankOrder |-> Sorted(DOMAIN boxes[RankOrder[k]])])

(* Mutant of rank_map: every rank is taken to have one block. *)
rank_map_of_one(boxes) ==
  [i \in DOMAIN dom_rec_buff(boxes) |-> RankOrder[((i - 1) % Len(RankOrder)) + 1]]

(* The rank each of them comes from; a rank may have none. *)
rank_map(boxes) ==
  FlattenSeq([k \in DOMAIN RankOrder |->
    [d \in 1 .. Cardinality(DOMAIN boxes[RankOrder[k]]) |-> RankOrder[k]]])

(* The last of several blocks with one id counts.  The global bounds only grow. *)
Build(r) ==
  LET boxes == Top(r).got[<<"boxes", "">>]
      ids == dom_rec_buff(boxes)
      sent == FlattenSeq([k \in DOMAIN RankOrder |->
                LET own == boxes[RankOrder[k]]
                IN [d \in DOMAIN Sorted(DOMAIN own) |-> own[Sorted(DOMAIN own)[d]]]])
      last(id) == CHOOSE i \in DOMAIN ids :
                    ids[i] = id /\ \A j \in DOMAIN ids : ids[j] = id => j <= i
      bm == [id \in ToSet(ids) |-> sent[last(id)]]
  IN /\ Doing(r, "build")
     /\ boundsMap' = [boundsMap EXCEPT
          ![r].bm = bm,
          ![r].m_rank_map = [id \in ToSet(ids) |-> rank_map(boxes)[last(id)]],
          ![r].globalBounds =
             FoldLeft(LAMBDA b, id : Include(b, bm[id]), @, Sorted(ToSet(ids)))]
     /\ stack' = Put(r, Rest(r))
     /\ UNCHANGED <<scenario, status, heap, results, stats, calls, inCall>>

-----------------------------------------------------------------------------
(* StatisticsDB: the counters of the global object stats. *)

NoStats == [counters |-> <<>>, totals |-> <<>>, statsComputed |-> FALSE]

AddCounter(r) ==
  LET new == Top(r).op.counter
  IN /\ Doing(r, "addCounter")
     /\ stats' = [stats EXCEPT
          ![r].counters = [n \in DOMAIN @ \cup {new} |-> IF n = new THEN 0 ELSE @[n]]]
     /\ stack' = Put(r, Rest(r))
     /\ UNCHANGED <<scenario, status, heap, results, boundsMap, calls, inCall>>

(* Hosts count, for one, the cells they hand to vtk-h. *)
Increment(r) ==
  /\ Doing(r, "increment")
  /\ stats' = [stats EXCEPT ![r].counters[Top(r).op.counter] = @ + NumberOfCells(At(r, "in"))]
  /\ stack' = Put(r, Rest(r))
  /\ UNCHANGED <<scenario, status, heap, results, boundsMap, calls, inCall>>

(* One reduction for each counter this rank has, the first time only. *)
calcStats(r) ==
  LET names == SetToSeq(DOMAIN stats[r].counters)
  IN /\ Doing(r, "calcStats")
     /\ stack' = Put(r, [Rest(r) EXCEPT !.todo =
          (IF stats[r].statsComputed THEN <<>>
           ELSE [i \in DOMAIN names |-> Ask("counter", "in", names[i])] \o
                <<Do("computed")>>) \o @])
     /\ UNCHANGED <<scenario, status, heap, results, boundsMap, stats, calls, inCall>>

StatsComputed(r) ==
  /\ Doing(r, "computed")
  /\ stats' = [stats EXCEPT
       ![r].statsComputed = TRUE,
       ![r].totals = IF r # Rank0 THEN @
                     ELSE [n \in DOMAIN stats[r].counters |-> Top(r).got[<<"counter", n>>]]]
  /\ stack' = Put(r, Rest(r))
  /\ UNCHANGED <<scenario, status, heap, results, boundsMap, calls, inCall>>

-----------------------------------------------------------------------------
(* Update of a filter, from the host or from another filter. *)

NextOp(r) == scenario.script[Len(results[r]) + 1]

Begin(r) ==
  LET in == IF NextOp(r).on = "host" THEN 1 ELSE Last(results[r]).out
  IN /\ status[r] = "running"
     /\ stack[r] = <<>>
     /\ Len(results[r]) < Len(scenario.script)
     /\ stack' = [stack EXCEPT ![r] = <<Frame(NextOp(r).op, in)>>]
     /\ UNCHANGED <<scenario, status, heap, results, boundsMap, stats, calls, inCall>>

CallUpdate(r) ==
  /\ Doing(r, "update")
  /\ stack' = [stack EXCEPT ![r] = Append(@, Frame(Step(r).op, Top(r).reg[Step(r).from]))]
  /\ UNCHANGED <<scenario, status, heap, results, boundsMap, stats, calls, inCall>>

Finished(r) == status[r] = "running" /\ stack[r] # <<>> /\ Top(r).todo = <<>>

(* GetOutput: the calling filter goes on. *)
ReturnToFilter(r) ==
  LET caller == stack[r][Len(stack[r]) - 1]
      to == Head(caller.todo).to
      done == [caller EXCEPT !.todo = Tail(@)]
  IN /\ Finished(r)
     /\ Len(stack[r]) > 1
     /\ stack' = [stack EXCEPT ![r] =
          Append(Front(Front(@)),
                 IF to = "slices" THEN [done EXCEPT !.slices = Append(@, Top(r).reg.out)]
                 ELSE [done EXCEPT !.reg[to] = Top(r).reg.out])]
     /\ UNCHANGED <<scenario, status, heap, results, boundsMap, stats, calls, inCall>>

ReturnToHost(r) ==
  /\ Finished(r)
  /\ Len(stack[r]) = 1
  /\ results' = [results EXCEPT ![r] =
       Append(@, [in |-> Top(r).reg.in, out |-> Top(r).reg.out, got |-> Top(r).got])]
  /\ stack' = [stack EXCEPT ![r] = <<>>]
  /\ UNCHANGED <<scenario, status, heap, boundsMap, stats, calls, inCall>>

Finish(r) ==
  /\ status[r] = "running"
  /\ stack[r] = <<>>
  /\ Len(results[r]) = Len(scenario.script)
  /\ status' = [status EXCEPT ![r] = "done"]
  /\ UNCHANGED <<scenario, stack, heap, results, boundsMap, stats, calls, inCall>>

(* A rank may be left in a call that one with domains it throws for does not *)
(* make; no other rank waits for ever.                                       *)
LeftWaiting(r) ==
  inCall[r] /\ \E s \in Ranks : status[s] = "thrown" /\ ~C!Joined(s, r)

Terminated ==
  /\ \A r \in Ranks : status[r] # "running" \/ LeftWaiting(r)
  /\ UNCHANGED vars

-----------------------------------------------------------------------------
Init ==
  /\ scenario \in Scenarios
  /\ status = [r \in Ranks |-> "running"]
  /\ stack = [r \in Ranks |-> <<>>]
  /\ heap = [r \in Ranks |-> <<scenario.data[r]>>]
  /\ results = [r \in Ranks |-> <<>>]
  /\ boundsMap = [r \in Ranks |-> NoBounds]
  /\ stats = [r \in Ranks |-> NoStats]
  /\ C!CollectivesInit

Work(r) ==
  \/ RunOnDomains(r) \/ DomainThrows(r) \/ OverwriteDomains(r)
  \/ AssignPointer(r) \/ DeleteDataSet(r) \/ RestoreInput(r)
  \/ MergeSlices(r) \/ TakeSlice(r) \/ MapFields(r) \/ PropagateMetadata(r)
  \/ TakePicture(r)

Control(r) ==
  \/ Begin(r) \/ CallUpdate(r) \/ ReturnToFilter(r) \/ ReturnToHost(r) \/ Finish(r)
  \/ EnterCall(r) \/ ReturnFromCall(r) \/ Branch(r) \/ CheckHolds(r) \/ CheckFails(r)

Bounding(r) == Clear(r) \/ AddBlocks(r) \/ Build(r)

Counting(r) == AddCounter(r) \/ Increment(r) \/ calcStats(r) \/ StatsComputed(r)

Next ==
  \/ \E r \in Ranks : Work(r) \/ Control(r) \/ Bounding(r) \/ Counting(r)
  \/ Terminated

Spec == Init /\ [][Next]_vars
=============================================================================
