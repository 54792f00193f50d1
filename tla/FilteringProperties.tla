------------------------ MODULE FilteringProperties -------------------------
(***************************************************************************)
(* What Filtering promises of any data: the types, CollectivesMatch,        *)
(* ErrorsAgree, and what is owned.  The results and answers are promised    *)
(* of data of which                                                         *)
(*   - the first domain of a rank has all fields its domains have (the code *)
(*     takes the names of the fields to pass on from there),                *)
(*   - the domains with a field agree on its number of components, if       *)
(*     NumberOfComponents is asked for it (GetGlobalRange throws if not),   *)
(*   - the domains ScalarRenderer draws have the same scalar fields, rank 0  *)
(*     has cells and so has the last domain of some rank, if any has, and   *)
(*   - nothing is counted after the totals of the counters were asked for.  *)
(* Cells have a number of their own, in the cell field "cid", by which the  *)
(* properties recognise them in the results.                                *)
(***************************************************************************)
EXTENDS Filtering

Live(r) == {a \in DOMAIN heap[r] : heap[r][a] # Freed}

Outputs(r) == {results[r][k].out : k \in DOMAIN results[r]} \ {0}

(* What the host holds pointers to. *)
Owned(r) == {1} \cup Outputs(r)

OpOf(k) == scenario.script[k].op

(* The ranks that have just done an operation of these names, what it was    *)
(* done on, what came out, and the answers it was given.                     *)
Done(r) == stack[r] = <<>> /\ results[r] # <<>>
LastOp(r) == OpOf(Len(results[r]))
In(r) == heap[r][Last(results[r]).in]
Out(r) == heap[r][Last(results[r]).out]
GotBy(r) == Last(results[r]).got

Filters(names) == {r \in Ranks : Done(r) /\ LastOp(r).name \in names}

(* What HistSampling is told of its bins is how many values each has.        *)
BinsCounted ==
  \A r \in Filters({"HistSampling"}) :
    GotBy(r)[<<"bins", LastOp(r).f>>] \in [1 .. LastOp(r).bins -> Nat]

(* The values of a field make sense for its domain. *)
WellFormed(dom) ==
  /\ \A c \in DOMAIN dom.conn : Corners(dom, c) \subseteq DOMAIN dom.points
  /\ \A n \in DOMAIN dom.fields :
       LET field == dom.fields[n]
       IN CASE field.assoc = "points" -> Len(field.vals) = Len(dom.points)
            [] field.assoc = "cells"  -> Len(field.vals) = Len(dom.conn)
            [] OTHER                  -> TRUE

(* Every data set on the heap has cells that refer to points of its domain   *)
(* and fields with one value for each point or cell (Slice.cpp puts arrays   *)
(* together by hand), filters hold pointers into the heap only, and what is  *)
(* counted is a natural number.                                              *)
TypeOK ==
  /\ BinsCounted
  /\ \A r \in Ranks :
       /\ status[r] \in {"running", "failed", "thrown", "done"}
       /\ Len(results[r]) <= Len(scenario.script)
       /\ \A i \in DOMAIN stack[r], x \in DOMAIN NoFrame :
            stack[r][i].reg[x] \in 0 .. Len(heap[r])
       /\ \A a \in DOMAIN heap[r] : \A i \in DOMAIN heap[r][a].doms :
            WellFormed(heap[r][a].doms[i])

(* The ranks make the same collective calls in the same order, and one that  *)
(* is through has made all calls any other makes: no rank is left waiting,   *)
(* whichever domains and fields it has (the GetGlobalRange and               *)
(* GetFieldAssociation comments on ranks without data).                      *)
CollectivesMatch ==
  /\ C!CallsMatch
  /\ \A r, s \in Ranks : status[r] = "done" => Len(calls[s]) <= Len(calls[r])

(* When a rank fails at a check of what all know, no other rank gets past    *)
(* that check: none is through, none is in a later operation or waits in a   *)
(* call for it (the checks that follow GlobalFieldExists, GetGlobalRange,    *)
(* GetFieldAssociation and NumberOfComponents).  Exceptions a rank throws on *)
(* account of its own domains alone, in GetRange or a loop, may be one       *)
(* rank's alone, and the others may wait for it; but that rank was not past  *)
(* the check either.                                                         *)
ErrorsAgree ==
  \A r, s \in Ranks :
    status[r] = "failed" =>
      /\ status[s] # "done"
      /\ Len(results[s]) <= Len(results[r])
      /\ Len(calls[s]) <= Len(calls[r])

(* Between two operations a rank has the host's data and the outputs the     *)
(* host was given on its heap, and no other data set, unless an exception    *)
(* has stopped it, with which the local pointers go.                         *)
NothingLeaks ==
  \A r \in Ranks :
    stack[r] = <<>> /\ status[r] \notin Stopped => Live(r) = Owned(r)

(* The input of each filter under way, and all the host holds, are there.    *)
NoDangling ==
  \A r \in Ranks :
    /\ Owned(r) \subseteq Live(r)
    /\ \A i \in DOMAIN stack[r] : stack[r][i].reg.in \in Live(r)

(* The domains without the field "valSampled". *)
WithoutSample(doms) ==
  [i \in DOMAIN doms |->
    [doms[i] EXCEPT !.fields = [n \in DOMAIN @ \ {"valSampled"} |-> @[n]]]]

(* What the host holds stays as it is; HistSampling adds its field to the    *)
(* domains, and nothing else, when it does not strip ghosts.                 *)
InputKept ==
  [][\A r \in Ranks : \A a \in Owned(r) :
       \/ heap'[r][a] = heap[r][a]
       \/ /\ NextOp(r).op.name = "HistSampling" /\ NextOp(r).op.ghost = ""
          /\ WithoutSample(heap'[r][a].doms) = WithoutSample(heap[r][a].doms)
          /\ heap'[r][a].cycle = heap[r][a].cycle]_vars

-----------------------------------------------------------------------------
(* The results, against what they should be of the input. *)

(* A cell of domain dom as seen from outside: where it came from, and where  *)
(* and with which values of point field "p" its corners are.                 *)
Cell(dom, c) ==
  [id |-> dom.id, cid |-> dom.fields["cid"].vals[c],
   corners |-> {<<dom.points[p], dom.fields["p"].vals[p]>> : p \in Corners(dom, c)}]

Cells(ds) ==
  UNION {{Cell(ds.doms[i], c) : c \in DOMAIN ds.doms[i].conn} : i \in DOMAIN ds.doms}

(* The values that decide about a cell, of a cell field averaged to points. *)
PointValues(dom, f, c) ==
  ValuesAt(RecenterField(dom, f, "points"), f, c)

Wanted(op, dom, c) ==
  CASE op.name \in {"Threshold", "GhostStripper"} ->
         \A v \in ValuesAt(dom, op.f, c) : v \in op.lo .. op.hi
    [] op.name = "IsoVolume" ->
         /\ \E v \in PointValues(dom, op.f, c) : v <= op.hi
         /\ \E v \in PointValues(dom, op.f, c) : v >= op.lo
    [] op.name = "ClipField" ->
         \E v \in PointValues(dom, op.f, c) : IF op.invert THEN v <= op.at ELSE v >= op.at
    [] op.name = "Clip" ->
         \E p \in Corners(dom, c) :
           LET sides == {(dom.points[p] - op.planes[i].at) * op.planes[i].normal :
                           i \in DOMAIN op.planes}
           IN IF op.invert THEN \A s \in sides : s <= 0 ELSE \E s \in sides : s >= 0

WantedCells(op, ds) ==
  UNION {{Cell(ds.doms[i], c) : c \in {d \in DOMAIN ds.doms[i].conn : Wanted(op, ds.doms[i], d)}} :
           i \in {j \in DOMAIN ds.doms : op.f = "" \/ HasField(ds.doms[j], op.f)}}

(* Threshold, Clip, ClipField, IsoVolume and GhostStripper, in one pass or    *)
(* several nested ones, keep exactly the cells of the input that the range   *)
(* or the planes select, with their places and values.                       *)
CellsExact ==
  \A r \in Filters({"Threshold", "Clip", "ClipField", "IsoVolume", "GhostStripper"}) :
    Cells(Out(r)) = WantedCells(LastOp(r), In(r))

(* The output has a domain for each domain of the input (that has the field, *)
(* if the filter leaves out those without), under its id, in their order,    *)
(* and the input's cycle.  Slice orders by id when it merges; an image of    *)
(* ScalarRenderer is the one domain 0, on rank 0, if any rank has cells.     *)
DomainsKept ==
  \A r \in Ranks :
    Done(r) /\ LastOp(r).name \notin Functions =>
      LET kept == SelectSeq(In(r).doms, LAMBDA d : ~Skips(LastOp(r), d) /\ ~(
                    LastOp(r).name \in {"IsoVolume", "HistSampling"} /\ ~HasField(d, LastOp(r).f)))
          ids == [i \in DOMAIN kept |-> kept[i].id]
          picture == IF r = Rank0 /\ \E s \in Ranks : NumberOfCells(scenario.data[s]) > 0
                     THEN <<0>> ELSE <<>>
      IN /\ Out(r).cycle = In(r).cycle
         /\ Ids(Out(r)) = IF LastOp(r).name = "ScalarRenderer" THEN picture
                          ELSE IF LastOp(r).name = "Slice" /\ Len(LastOp(r).planes) > 1
                          THEN SortSeq(ids, <) ELSE ids

(* The triangle's corners are those made for it, of one cell of this domain. *)
WholeTriangle(dom, t) ==
  LET at == {dom.points[p] : p \in Corners(dom, t)}
      some == CHOOSE x \in at : TRUE
  IN /\ {x.corner : x \in at} = {0, 1, 2}
     /\ \A x \in at : x.of = dom.id /\ x.cell = some.cell

(* The plane goes through the cell. *)
CutBy(dom, c, plane) ==
  \E p, q \in Corners(dom, c) : dom.points[p] >= plane /\ plane > dom.points[q]

(* A slice by several planes has, for each plane and each cell it cuts, one  *)
(* triangle with its own three corners and the fields of that cell.          *)
SlicesMerged ==
  \A r \in Filters({"Slice"}) : \A i \in DOMAIN Out(r).doms :
    LET dom == Out(r).doms[i]
        from == GetDomainById(In(r), dom.id)
        planes == LastOp(r).planes
        CellOf(t) == CHOOSE c \in DOMAIN from.conn :
                       from.fields["cid"].vals[c] = dom.fields["cid"].vals[t]
    IN /\ \A t \in DOMAIN dom.conn :
            /\ WholeTriangle(dom, t)
            /\ \A p \in Corners(dom, t) : dom.points[p].cell[1] = CellOf(t)
       /\ \A c \in DOMAIN from.conn :
            Cardinality({t \in DOMAIN dom.conn : CellOf(t) = c}) =
            Cardinality({k \in DOMAIN planes : CutBy(from, c, planes[k])})

-----------------------------------------------------------------------------
(* The answers, against what they should be of the domains of all ranks. *)

AllDomains(k) ==
  LET order == Sorted(Ranks)
      Of(r) == heap[r][results[r][k].in].doms
  IN [doms |-> FlattenSeq([i \in DOMAIN order |-> Of(order[i])]), cycle |-> 0]

Reference(q, f, all, got, op) ==
  LET vals == LocalValues(all, f)
      own == {vals[i] : i \in DOMAIN vals}
  IN CASE q = "exists"     -> \E i \in DOMAIN all.doms : HasField(all.doms[i], f)
       [] q = "assoc"      -> LocalAssociation(all, f)
       [] q \in {"comps", "rangeComps"} -> LocalComponents(all, f)
       [] q = "rangeLo"    -> CHOOSE v \in own : \A w \in own : v <= w
       [] q = "rangeHi"    -> CHOOSE v \in own : \A w \in own : w <= v
       [] q = "domains"    -> Len(all.doms)
       [] q = "cells"      -> NumberOfCells(all)
       [] q = "empty"      -> NumberOfCells(all) = 0
       [] q = "points"     -> \A i \in DOMAIN all.doms : \A c \in DOMAIN all.doms[i].conn :
                                Len(all.doms[i].conn[c]) = 1
       [] q = "structured" -> \A i \in DOMAIN all.doms : IsStructured(all.doms[i])
       [] q = "bins"       -> HistoFunctor(vals, RangeOf(op, got), op.bins)
       [] q = "count"      -> Len(vals)
       [] q \in {"sum", "sum2", "sum3", "sum4"} -> Moment(q, got, f, vals)
       [] q = "image"      ->
            LET drawn == {Render(all.doms[i]) : i \in {j \in DOMAIN all.doms :
                                                      all.doms[j].conn # <<>>}}
            IN CHOOSE p \in drawn : \A o \in drawn : p.depth <= o.depth

(* All ranks have come as far as r; what they know together is on their heaps. *)
AllHaveDone(r) == \A s \in Ranks : Len(results[s]) >= Len(results[r])

(* Each collective answer a rank works with is the one for the domains of    *)
(* all ranks taken together, and so the same on all; the image shows what    *)
(* is nearest of them, and rank 0 has the totals of the counters of all.     *)
AnswersTrue ==
  \A r \in Ranks :
    Done(r) /\ AllHaveDone(r) =>
      LET all == AllDomains(Len(results[r]))
          asked == {k \in DOMAIN GotBy(r) : k[1] \notin {"vote", "bounds", "max_p", "min_p", "counter"}}
      IN /\ LastOp(r).name \in {"Query", "Histogram", "Statistics", "ScalarRenderer"} =>
              \A k \in asked :
                GotBy(r)[k] = Reference(k[1], k[2], all, GotBy(r), LastOp(r))
         /\ LastOp(r).name = "TotalVal" /\ r = Rank0 =>
              \A n \in DOMAIN stats[r].counters :
                stats[r].totals[n] = SumOf([s \in Ranks |-> stats[s].counters[n]])

(* After BoundsMap.Build a rank knows each block of each rank, where it is   *)
(* and what space it takes, and the global bounds enclose them all.          *)
BlocksKnown ==
  \A r \in Filters({"BoundsMap"}) :
    LET map == boundsMap[r]
    IN \A s \in Ranks : Len(results[s]) >= Len(results[r]) =>
         \A i \in DOMAIN heap[s][results[s][Len(results[r])].in].doms :
           LET dom == heap[s][results[s][Len(results[r])].in].doms[i]
           IN /\ map.m_rank_map[dom.id] = s
              /\ map.bm[dom.id] = Bounds(dom)
              /\ Include(map.globalBounds, Bounds(dom)) = map.globalBounds

(* HistSampling shares the sample out over the bins: the quotas add up to    *)
(* the share asked for, no bin gives more than it has, and only a bin that   *)
(* gives all it has gives less than another.                                 *)
SampleShared ==
  \A r \in Filters({"HistSampling"}) :
    LET op == LastOp(r)
        counts == GotBy(r)[<<"bins", op.f>>]
        unit == Denominator(op.den, op.bins)
        quota == calculate_pdf(totalCount(counts), counts, op.num, op.den)
    IN /\ totalCount(quota) * op.den = totalCount(counts) * op.num * unit
       /\ \A a, b \in DOMAIN counts :
            /\ quota[a] <= counts[a] * unit
            /\ quota[a] < quota[b] => quota[a] = counts[a] * unit
=============================================================================
