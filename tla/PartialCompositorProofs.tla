---------------------- MODULE PartialCompositorProofs -----------------------
(***************************************************************************)
(* Theorems about PartialCompositor, for any number of ranks and any       *)
(* partials: redistribute brings all partials of a pixel to one rank       *)
(* before that rank blends them, and, if no rank is left with just one     *)
(* partial to blend, rank 0 ends with every pixel once, of all its         *)
(* partials from front to back.                                            *)
(*                                                                         *)
(* The argument follows the messages.  A rank that has not sent still      *)
(* holds what it rendered; one that has sent holds nothing, and exactly    *)
(* one message of it is at every block that still waits; a block leaves    *)
(* the exchange only with a message of every rank, and by then the         *)
(* messages together are all partials whose pixel the block owns.  All     *)
(* ranks use the same range of pixels, so a pixel has one owner, and the   *)
(* blocks are a partition of the partials.  In a sorted block the runs of  *)
(* equal pixels begin once for every pixel and end where the pixel does;   *)
(* outputs of blocks of different pixels can be joined in any order.       *)
(***************************************************************************)
EXTENDS PartialCompositor, ListLemmas

Labels == {"merge", "redistribute", "receive", "composite", "collect", "done",
           "error"}

(* The exchange has not ended for a rank in one of these parts. *)
Exchanging == {"merge", "redistribute", "receive"}

(* The partials of rank s whose pixel belongs to rank r. *)
Share(s, r) ==
  {p \in rendered[s] : Owner(p.pixel, bounds[s].min, bounds[s].max) = r}

Message(s, r) == [from |-> s, partials |-> Share(s, r)]

HaveSent == {s \in Ranks : pc[s] \notin {"merge", "redistribute", "error"}}

Shapes ==
  /\ pc \in [Ranks -> Labels]
  /\ DOMAIN rendered = Ranks
  /\ DOMAIN partials = Ranks
  /\ DOMAIN queue = Ranks

SameBounds == \A r, s \in Ranks : bounds[r] = bounds[s]

MergeTogether == \A r, s \in Ranks : pc[r] = "merge" => pc[s] = "merge"

Holdings ==
  \A r \in Ranks :
    /\ pc[r] \in {"merge", "redistribute"} => partials[r] = rendered[r]
    /\ pc[r] = "receive" => partials[r] = {}

Messages ==
  \A r \in Ranks :
    pc[r] \in Exchanging => queue[r] = {Message(s, r) : s \in HaveSent}

(* A rank collects only after the barrier that ends the exchange. *)
AfterBarrier ==
  \A q, s \in Ranks : pc[q] = "collect" => pc[s] \notin Exchanging

Owned ==
  \A r \in Ranks :
    pc[r] = "composite" => partials[r] = UNION {Share(s, r) : s \in Ranks}

OwnerInv ==
  /\ Shapes
  /\ SameBounds
  /\ MergeTogether
  /\ Holdings
  /\ Messages
  /\ AfterBarrier
  /\ Owned

-----------------------------------------------------------------------------
LEMMA OwnerInit == Init => OwnerInv
<1> SUFFICES ASSUME Init PROVE OwnerInv
  OBVIOUS
<1>1. HaveSent = {}
  BY DEF Init, HaveSent
<1>2. DOMAIN rendered = Ranks
  BY InputsAssumption DEF Init
<1>3. Messages
  BY <1>1 DEF Init, Messages
<1>4. Shapes
  BY <1>2 DEF Init, Shapes, Labels
<1>5. QED
  BY <1>3, <1>4 DEF Init, OwnerInv, SameBounds, MergeTogether, Holdings,
     AfterBarrier, Owned, Exchanging

(* Messages and shares depend on nothing but the partials rendered and the *)
(* range of pixels, which no step after merge changes.                     *)
LEMMA SameMessages ==
  ASSUME UNCHANGED <<rendered, bounds>>
  PROVE  \A s, r \in Ranks : Share(s, r)' = Share(s, r) /\ Message(s, r)' = Message(s, r)
BY DEF Share, Message

LEMMA MergeKeeps == OwnerInv /\ Merge => OwnerInv'
<1> SUFFICES ASSUME OwnerInv, Merge PROVE OwnerInv'
  OBVIOUS
<1>1. /\ \A r \in Ranks : pc[r] = "merge"
      /\ UNCHANGED <<rendered, partials, queue>>
      /\ \/ pc' = [r \in Ranks |-> "done"] /\ UNCHANGED bounds
         \/ /\ pc' = [r \in Ranks |-> "redistribute"]
            /\ \A r, s \in Ranks : bounds'[r] = bounds'[s]
  <2> DEFINE pixels == Pixels(partials)
  <2>1. CASE pixels = {}
    BY <2>1 DEF Merge
  <2>2. CASE pixels # {}
    <3>1. bounds' = [r \in Ranks |-> [min |-> Min(pixels), max |-> Max(pixels)]]
      BY <2>2 DEF Merge
    <3> HIDE DEF pixels
    <3>2. \A r, s \in Ranks : bounds'[r] = bounds'[s]
      BY <3>1
    <3>3. QED
      BY <2>2, <3>2 DEF Merge, pixels
  <2>3. QED
    BY <2>1, <2>2
<1>2. Shapes' /\ SameBounds' /\ MergeTogether' /\ AfterBarrier' /\ Owned'
  BY <1>1 DEF OwnerInv, Shapes, Labels, SameBounds, MergeTogether, AfterBarrier,
     Owned, Exchanging
<1>3. Holdings'
  BY <1>1 DEF OwnerInv, Holdings
<1>4. Messages'
  <2>1. HaveSent = {} /\ \A r \in Ranks : queue[r] = {}
    BY <1>1 DEF OwnerInv, Messages, HaveSent, Exchanging
  <2>2. CASE pc' = [r \in Ranks |-> "done"]
    BY <2>2 DEF Messages, Exchanging
  <2>3. CASE pc' = [r \in Ranks |-> "redistribute"]
    <3>1. HaveSent' = {}
      BY <2>3 DEF HaveSent
    <3>2. QED
      BY <1>1, <2>1, <3>1 DEF Messages
  <2>4. QED
    BY <1>1, <2>2, <2>3
<1>5. QED
  BY <1>2, <1>3, <1>4 DEF OwnerInv

LEMMA SendKeeps ==
  ASSUME OwnerInv, NEW r \in Ranks, Send(r)
  PROVE  OwnerInv'
<1>1. /\ pc[r] = "redistribute"
      /\ pc' = [pc EXCEPT ![r] = "receive"]
      /\ partials' = [partials EXCEPT ![r] = {}]
      /\ UNCHANGED <<rendered, bounds>>
  BY DEF Send, GoTo
<1>2. \A s \in Ranks : queue'[s] = queue[s] \cup {Message(r, s)}
  BY <1>1 DEF Send, OwnerInv, Holdings, Message, Share
<1>3. DOMAIN queue' = Ranks
  BY DEF Send
<1>4. Shapes'
  BY <1>1, <1>3 DEF OwnerInv, Shapes, Labels
<1>5. SameBounds' /\ MergeTogether' /\ Holdings'
  BY <1>1 DEF OwnerInv, Shapes, SameBounds, MergeTogether, Holdings
<1>6. AfterBarrier' /\ Owned'
  BY <1>1, SameMessages DEF OwnerInv, Shapes, AfterBarrier, Owned, Exchanging
<1>7. Messages'
  <2>1. HaveSent' = HaveSent \cup {r}
    BY <1>1 DEF OwnerInv, Shapes, HaveSent
  <2>2. SUFFICES ASSUME NEW s \in Ranks, pc'[s] \in Exchanging
                 PROVE  queue'[s] = {Message(q, s)' : q \in HaveSent'}
    BY DEF Messages
  <2>3. pc[s] \in Exchanging
    BY <1>1, <2>2 DEF OwnerInv, Shapes, Exchanging
  <2>4. queue[s] = {Message(q, s) : q \in HaveSent}
    BY <2>3 DEF OwnerInv, Messages
  <2>5. HaveSent' \subseteq Ranks
    BY DEF HaveSent
  <2>6. \A q \in HaveSent' : Message(q, s)' = Message(q, s)
    BY <1>1, <2>5, SameMessages
  <2>7. QED
    BY <1>2, <2>1, <2>4, <2>6
<1>8. QED
  BY <1>4, <1>5, <1>6, <1>7 DEF OwnerInv

LEMMA ReceiveKeeps ==
  ASSUME OwnerInv, NEW r \in Ranks, Receive(r)
  PROVE  OwnerInv'
<1>1. /\ pc[r] = "receive"
      /\ {m.from : m \in queue[r]} = Ranks
      /\ pc' = [pc EXCEPT ![r] = "composite"]
      /\ partials' = [partials EXCEPT
                        ![r] = @ \cup UNION {m.partials : m \in queue[r]}]
      /\ queue' = [queue EXCEPT ![r] = {}]
      /\ UNCHANGED <<rendered, bounds>>
  BY DEF Receive, GoTo
<1>2. Shapes'
  BY <1>1 DEF OwnerInv, Shapes, Labels
<1>3. SameBounds' /\ MergeTogether' /\ Holdings' /\ AfterBarrier'
  BY <1>1 DEF OwnerInv, Shapes, SameBounds, MergeTogether, Holdings,
     AfterBarrier, Exchanging
<1>4. queue[r] = {Message(s, r) : s \in HaveSent}
  BY <1>1 DEF OwnerInv, Messages, Exchanging
<1>5. HaveSent = Ranks
  BY <1>1, <1>4 DEF Message, HaveSent
<1>6. UNION {m.partials : m \in queue[r]} = UNION {Share(s, r) : s \in Ranks}
  <2>1. \A s \in Ranks : Message(s, r) \in queue[r] /\ Message(s, r).partials = Share(s, r)
    BY <1>4, <1>5 DEF Message
  <2>2. \A m \in queue[r] : \E s \in Ranks : m = Message(s, r)
    BY <1>4, <1>5
  <2>3. \A m \in queue[r] : \E s \in Ranks : m.partials = Share(s, r)
    BY <2>1, <2>2
  <2>4. \A p : p \in UNION {m.partials : m \in queue[r]} <=>
               \E s \in Ranks : p \in Share(s, r)
    BY <2>1, <2>3
  <2>5. QED
    BY <2>4
<1>7. partials'[r] = UNION {Share(s, r) : s \in Ranks}
  BY <1>1, <1>6 DEF OwnerInv, Shapes, Holdings
<1>8. Owned'
  <2>1. \A s \in Ranks : s # r /\ pc'[s] = "composite" =>
          pc[s] = "composite" /\ partials'[s] = partials[s]
    BY <1>1 DEF OwnerInv, Shapes
  <2>2. \A s \in Ranks : {Share(q, s)' : q \in Ranks} = {Share(q, s) : q \in Ranks}
    BY <1>1, SameMessages
  <2>3. QED
    BY <1>7, <2>1, <2>2 DEF OwnerInv, Owned
<1>9. Messages'
  <2>1. HaveSent' = HaveSent
    BY <1>1 DEF OwnerInv, Shapes, HaveSent
  <2>2. SUFFICES ASSUME NEW s \in Ranks, pc'[s] \in Exchanging
                 PROVE  queue'[s] = {Message(q, s)' : q \in HaveSent'}
    BY DEF Messages
  <2>3. s # r /\ pc[s] \in Exchanging
    BY <1>1, <2>2 DEF OwnerInv, Shapes, Exchanging
  <2>4. queue'[s] = {Message(q, s) : q \in HaveSent}
    BY <1>1, <2>3 DEF OwnerInv, Shapes, Messages
  <2>5. \A q \in HaveSent' : Message(q, s)' = Message(q, s)
    BY <1>1, SameMessages DEF HaveSent
  <2>6. QED
    BY <2>1, <2>4, <2>5
<1>10. QED
  BY <1>2, <1>3, <1>8, <1>9 DEF OwnerInv

(* The steps outside the exchange: those of one rank that leave the        *)
(* partials of the others, and the queues of the ranks still exchanging.   *)
LEMMA OutsideKeeps ==
  ASSUME OwnerInv, NEW r \in Ranks,
         \/ Decompose(r)
         \/ Composite(r)
         \/ CollectSend(r)
         \/ CollectReceive /\ r = 0
  PROVE  OwnerInv'
<1>1. /\ UNCHANGED <<rendered, bounds>>
      /\ pc[r] \in {"redistribute", "composite", "collect"}
      /\ \/ pc[r] = "redistribute" /\ pc' = [pc EXCEPT ![r] = "error"]
         \/ /\ pc[r] = "composite" /\ pc' = [pc EXCEPT ![r] = "collect"]
            /\ \A s \in Ranks : pc[s] \notin {"redistribute", "receive"}
         \/ pc[r] = "collect" /\ pc' = [pc EXCEPT ![r] = "done"]
      /\ DOMAIN partials' = DOMAIN partials
      /\ DOMAIN queue' = DOMAIN queue
      /\ \A s \in Ranks : s # r => partials'[s] = partials[s]
  BY DEF Decompose, Composite, CollectSend, CollectReceive, GoTo, OwnerInv, Shapes
<1>2. pc[r] # "collect" => UNCHANGED queue
  BY DEF Decompose, Composite, CollectSend, CollectReceive
<1>3. pc[r] = "composite" => \A s \in Ranks : pc[s] \notin Exchanging
  BY <1>1 DEF OwnerInv, Shapes, MergeTogether, Exchanging
<1>4. Shapes' /\ SameBounds' /\ Holdings'
  BY <1>1 DEF OwnerInv, Shapes, Labels, SameBounds, Holdings
<1>5. MergeTogether'
  BY <1>1 DEF OwnerInv, Shapes, MergeTogether
<1>6. AfterBarrier'
  BY <1>1, <1>3 DEF OwnerInv, Shapes, AfterBarrier, Exchanging
<1>7. Owned'
  <2>1. \A s \in Ranks : pc'[s] = "composite" =>
          pc[s] = "composite" /\ partials'[s] = partials[s]
    BY <1>1 DEF OwnerInv, Shapes
  <2>2. \A s \in Ranks : {Share(q, s)' : q \in Ranks} = {Share(q, s) : q \in Ranks}
    BY <1>1, SameMessages
  <2>3. QED
    BY <2>1, <2>2 DEF OwnerInv, Owned
<1>8. Messages'
  <2>1. SUFFICES ASSUME NEW s \in Ranks, pc'[s] \in Exchanging
                 PROVE  queue'[s] = {Message(q, s)' : q \in HaveSent'}
    BY DEF Messages
  <2>2. s # r /\ pc[s] \in Exchanging
    BY <1>1, <2>1 DEF OwnerInv, Shapes, Exchanging
  <2>3. pc[r] = "redistribute" /\ pc' = [pc EXCEPT ![r] = "error"]
    BY <1>1, <1>3, <2>2 DEF OwnerInv, AfterBarrier
  <2>4. HaveSent' = HaveSent
    BY <2>3 DEF OwnerInv, Shapes, HaveSent
  <2>5. queue'[s] = {Message(q, s) : q \in HaveSent}
    BY <1>2, <2>2, <2>3 DEF OwnerInv, Messages
  <2>6. \A q \in HaveSent' : Message(q, s)' = Message(q, s)
    BY <1>1, SameMessages DEF HaveSent
  <2>7. QED
    BY <2>4, <2>5, <2>6
<1>9. QED
  BY <1>4, <1>5, <1>6, <1>7, <1>8 DEF OwnerInv

LEMMA OwnerNext == OwnerInv /\ [Next]_vars => OwnerInv'
<1> SUFFICES ASSUME OwnerInv, [Next]_vars PROVE OwnerInv'
  OBVIOUS
<1>1. CASE Merge
  BY <1>1, MergeKeeps
<1>2. ASSUME NEW r \in Ranks, Send(r) PROVE OwnerInv'
  BY <1>2, SendKeeps
<1>3. ASSUME NEW r \in Ranks, Receive(r) PROVE OwnerInv'
  BY <1>3, ReceiveKeeps
<1>4. ASSUME NEW r \in Ranks, Decompose(r) \/ Composite(r) \/ CollectSend(r)
      PROVE  OwnerInv'
  BY <1>4, OutsideKeeps
<1>5. CASE CollectReceive
  <2>1. 0 \in Ranks
    BY PartialAssumption DEF Ranks
  <2>2. QED
    BY <1>5, <2>1, OutsideKeeps
<1>6. CASE UNCHANGED vars
  <2>1. \A s, r \in Ranks : Share(s, r)' = Share(s, r) /\ Message(s, r)' = Message(s, r)
    BY <1>6, SameMessages DEF vars
  <2>2. HaveSent' = HaveSent
    BY <1>6 DEF vars, HaveSent
  <2>3. \A r \in Ranks : {Share(q, r)' : q \in Ranks} = {Share(q, r) : q \in Ranks}
    BY <2>1
  <2>4. \A r \in Ranks : {Message(q, r)' : q \in HaveSent'} = {Message(q, r) : q \in HaveSent}
    BY <2>1, <2>2 DEF HaveSent
  <2>5. Owned' /\ Messages'
    BY <1>6, <2>3, <2>4 DEF vars, OwnerInv, Owned, Messages
  <2>6. QED
    BY <1>6, <2>5 DEF vars, OwnerInv, Shapes, SameBounds, MergeTogether,
       Holdings, AfterBarrier
<1>7. QED
  BY <1>1, <1>2, <1>3, <1>4, <1>5, <1>6 DEF Next, Terminating

LEMMA OwnerImplies == OwnerInv => OneOwnerPerPixel
<1> SUFFICES ASSUME OwnerInv, NEW r \in Ranks, pc[r] = "composite",
                    NEW p \in partials[r], NEW q \in PixelParts(p.pixel)
             PROVE  q \in partials[r]
  BY DEF OneOwnerPerPixel
<1>1. partials[r] = UNION {Share(s, r) : s \in Ranks}
  BY DEF OwnerInv, Owned
<1>2. PICK s \in Ranks : p \in Share(s, r)
  BY <1>1
<1>3. PICK t \in Ranks : q \in rendered[t] /\ q.pixel = p.pixel
  BY DEF PixelParts, AllRendered
<1>4. bounds[s] = bounds[t]
  BY DEF OwnerInv, SameBounds
<1>5. q \in Share(t, r)
  BY <1>2, <1>3, <1>4 DEF Share
<1>6. QED
  BY <1>1, <1>5

(* Once a rank starts to blend, all partials of the pixels it has are with *)
(* it, for any number of ranks and any partials (the barrier and the last  *)
(* round of Redistribute, vtkh_diy_partial_redistribute.hpp:53-116).       *)
THEOREM PixelsHaveOneOwner == Spec => []OneOwnerPerPixel
BY OwnerInit, OwnerNext, OwnerImplies, PTL DEF Spec

-----------------------------------------------------------------------------
(* What one rank blends.                                                   *)

(* Every element of a finite set is at one place of a sorting of it. *)
LEMMA SortingOnto ==
  ASSUME NEW S, S \subseteq Partials, IsFiniteSet(S), NEW s \in Sortings(S)
  PROVE  /\ s \in Seq(S) /\ s \in Seq(Partials)
         /\ Len(s) = Cardinality(S) /\ DOMAIN s = 1 .. Len(s)
         /\ \A i, j \in 1 .. Len(s) : s[i] = s[j] => i = j
         /\ \A p \in S : \E i \in 1 .. Len(s) : s[i] = p
<1> DEFINE n == Cardinality(S)
<1>1. n \in Nat
  BY FS_CardinalityType
<1>2. s \in [1 .. n -> S] /\ \A i, j \in 1 .. n : i < j => s[i] # s[j]
  BY DEF Sortings
<1> HIDE DEF n
<1>3. s \in Seq(S) /\ Len(s) = n
  BY <1>1, <1>2, IsASeq
<1>4. s \in Seq(Partials)
  BY <1>3, SeqMonotonic
<1>5. \A i, j \in 1 .. n : s[i] = s[j] => i = j
  <2> SUFFICES ASSUME NEW i \in 1 .. n, NEW j \in 1 .. n, s[i] = s[j] PROVE i = j
    OBVIOUS
  <2>1. i \in Int /\ j \in Int /\ ~(i < j) /\ ~(j < i)
    BY <1>1, <1>2
  <2>2. QED
    BY <2>1
<1>6. \A p \in S : \E i \in 1 .. n : s[i] = p
  <2> DEFINE D == 1 .. n
  <2>1. IsFiniteSet(D) /\ Cardinality(D) = n
    <3>1. /\ IsFiniteSet(1 .. n)
          /\ Cardinality(1 .. n) = IF 1 > n THEN 0 ELSE n - 1 + 1
      BY <1>1, FS_Interval
    <3>2. QED
      BY <1>1, <3>1
  <2>2. s \in Injection(D, S)
    BY <1>2, <1>5 DEF Injection, IsInjective
  <2> HIDE DEF D
  <2>3. s \in Surjection(D, S)
    BY <2>1, <2>2, FS_Injection DEF n
  <2>4. QED
    BY <2>3 DEF Surjection, D
<1>7. QED
  BY <1>2, <1>3, <1>4, <1>5, <1>6 DEF n

LEMMA SortedPixels ==
  ASSUME NEW S, S \subseteq Partials, IsFiniteSet(S), NEW s \in Sortings(S),
         NEW i \in 1 .. Len(s), NEW j \in 1 .. Len(s), i <= j
  PROVE  s[i].pixel \in Nat /\ s[j].pixel \in Nat /\ s[i].pixel <= s[j].pixel
<1>1. s[i] \in Partials /\ s[j] \in Partials /\ DOMAIN s = 1 .. Len(s)
  BY SortingOnto
<1>2. s[i].pixel \in Nat /\ s[j].pixel \in Nat
  BY <1>1 DEF Partials
<1>3. CASE i = j
  BY <1>2, <1>3
<1>4. CASE i # j
  <2>1. i < j
    BY <1>4
  <2>2. ~Before(s[j], s[i])
    BY <1>1, <2>1 DEF Sortings
  <2>3. QED
    BY <1>2, <2>2 DEF Before
<1>5. QED
  BY <1>3, <1>4

(* A run is where the partials of the pixel are. *)
LEMMA RunEndIs ==
  ASSUME NEW s \in Seq(Partials), NEW i \in 1 .. Len(s)
  PROVE  /\ RunEnd(s, i) \in i .. Len(s)
         /\ \A k \in i .. RunEnd(s, i) : s[k].pixel = s[i].pixel
         /\ RunEnd(s, i) < Len(s) => s[RunEnd(s, i) + 1].pixel # s[i].pixel
<1> DEFINE E == {j \in i .. Len(s) : j < Len(s) => s[j + 1].pixel # s[i].pixel}
           e == RunEnd(s, i)
<1>1. Len(s) \in Nat /\ i \in Int
  OBVIOUS
<1>2. Len(s) \in E /\ E \subseteq Int /\ \A x \in E : i <= x
  BY <1>1
<1>3. e = Min(E)
  BY DEF RunEnd
<1>4. e \in E /\ \A y \in E : e <= y
  <2> HIDE DEF E, e
  <2>1. E # {}
    BY <1>2
  <2>2. QED
    BY <1>1, <1>2, <1>3, <2>1, MinBounded
<1>5. \A k \in i .. e : s[k].pixel = s[i].pixel
  <2> SUFFICES ASSUME NEW k \in i .. e, k # i PROVE s[k].pixel = s[i].pixel
    OBVIOUS
  <2> HIDE DEF e
  <2>1. e \in i .. Len(s)
    BY <1>4
  <2>2. k - 1 \in i .. Len(s) /\ k - 1 < e /\ (k - 1) + 1 = k /\ k - 1 < Len(s)
    BY <1>1, <2>1
  <2>3. k - 1 \notin E
    BY <1>4, <2>1, <2>2
  <2>4. QED
    BY <2>2, <2>3
<1>6. QED
  BY <1>4, <1>5

OfPixel(S, x) == {p \in S : p.pixel = x}

LEMMA RunIsSorting ==
  ASSUME NEW S, S \subseteq Partials, IsFiniteSet(S), NEW s \in Sortings(S),
         NEW i \in 1 .. Len(s), Begins(s, i)
  PROVE  /\ Run(s, i) \in Seq(Partials)
         /\ Run(s, i) \in Sortings(OfPixel(S, s[i].pixel))
<1> DEFINE e == RunEnd(s, i)
           T == OfPixel(S, s[i].pixel)
           n == e - i + 1
           r == Run(s, i)
<1>1. /\ s \in Seq(S) /\ s \in Seq(Partials)
      /\ DOMAIN s = 1 .. Len(s) /\ Len(s) \in Nat
      /\ \A k, l \in 1 .. Len(s) : s[k] = s[l] => k = l
      /\ \A p \in S : \E k \in 1 .. Len(s) : s[k] = p
  BY SortingOnto
<1>2. /\ e \in i .. Len(s)
      /\ \A k \in i .. e : s[k].pixel = s[i].pixel
      /\ e < Len(s) => s[e + 1].pixel # s[i].pixel
  BY <1>1, RunEndIs
<1> HIDE DEF e
<1>3. n \in Nat /\ \A k \in 1 .. n : i + k - 1 \in i .. e /\ i + k - 1 \in 1 .. Len(s)
  BY <1>1, <1>2
<1>4. r = [k \in 1 .. n |-> s[i + k - 1]]
  <2>1. r = SubSeq(s, i, e)
    BY DEF Run, e
  <2> HIDE DEF r
  <2>2. QED
    BY <1>1, <1>2, <2>1
<1>5. r \in [1 .. n -> T] /\ \A k \in 1 .. n : r[k] = s[i + k - 1]
  <2>1. \A k \in 1 .. n : s[i + k - 1] \in T
    BY <1>1, <1>2, <1>3 DEF OfPixel
  <2>2. QED
    BY <1>4, <2>1
<1>6. \A p \in T : \E k \in 1 .. n : r[k] = p
  <2> SUFFICES ASSUME NEW p \in T PROVE \E k \in 1 .. n : r[k] = p
    OBVIOUS
  <2>1. PICK j \in 1 .. Len(s) : s[j] = p
    BY <1>1 DEF OfPixel
  <2>2. s[j].pixel = s[i].pixel
    BY <2>1 DEF OfPixel
  <2>3. i <= j
    <3> SUFFICES ASSUME j < i PROVE FALSE
      BY <1>1
    <3>1. i # 1 /\ i - 1 \in 1 .. Len(s) /\ j <= i - 1 /\ i - 1 <= i
      BY <1>1
    <3>2. s[i].pixel # s[i - 1].pixel
      BY <3>1 DEF Begins
    <3>3. /\ s[j].pixel \in Nat /\ s[i - 1].pixel \in Nat
          /\ s[j].pixel <= s[i - 1].pixel
      BY <3>1, SortedPixels
    <3>4. s[i].pixel \in Nat /\ s[i - 1].pixel <= s[i].pixel
      BY <3>1, SortedPixels
    <3>5. QED
      BY <2>2, <3>2, <3>3, <3>4
  <2>4. j <= e
    <3> SUFFICES ASSUME e < j PROVE FALSE
      BY <1>1, <1>2
    <3>1. e + 1 \in 1 .. Len(s) /\ e < Len(s) /\ i <= e + 1 /\ e + 1 <= j
      BY <1>1, <1>2
    <3>2. s[e + 1].pixel # s[i].pixel
      BY <1>2, <3>1
    <3>3. /\ s[i].pixel \in Nat /\ s[e + 1].pixel \in Nat
          /\ s[i].pixel <= s[e + 1].pixel
      BY <3>1, SortedPixels
    <3>4. s[j].pixel \in Nat /\ s[e + 1].pixel <= s[j].pixel
      BY <3>1, SortedPixels
    <3>5. QED
      BY <2>2, <3>2, <3>3, <3>4
  <2>5. j - i + 1 \in 1 .. n /\ i + (j - i + 1) - 1 = j
    BY <1>1, <1>2, <2>3, <2>4
  <2>6. QED
    BY <1>5, <2>1, <2>5
<1>7. \A k, l \in 1 .. n : k < l => r[k] # r[l] /\ ~Before(r[l], r[k])
  <2> SUFFICES ASSUME NEW k \in 1 .. n, NEW l \in 1 .. n, k < l
               PROVE  r[k] # r[l] /\ ~Before(r[l], r[k])
    OBVIOUS
  <2>1. /\ i + k - 1 \in 1 .. Len(s) /\ i + l - 1 \in 1 .. Len(s)
        /\ i + k - 1 < i + l - 1
    BY <1>1, <1>3
  <2>2. \A x, y \in 1 .. Len(s) : x < y => s[x] # s[y] /\ ~Before(s[y], s[x])
    BY <1>1 DEF Sortings
  <2>3. QED
    BY <1>5, <2>1, <2>2
<1> HIDE DEF r, T, n
<1>8. Cardinality(T) = n
  <2>1. \A k, l \in 1 .. n : r[k] = r[l] => k = l
    <3> SUFFICES ASSUME NEW k \in 1 .. n, NEW l \in 1 .. n, r[k] = r[l] PROVE k = l
      OBVIOUS
    <3>1. k \in Int /\ l \in Int /\ ~(k < l) /\ ~(l < k)
      BY <1>3, <1>7
    <3>2. QED
      BY <3>1
  <2>2. r \in Bijection(1 .. n, T)
    BY <1>5, <1>6, <2>1 DEF Bijection, Injection, IsInjective, Surjection
  <2>3. ExistsBijection(1 .. n, T)
    BY <2>2 DEF ExistsBijection
  <2>4. QED
    BY <1>3, <2>3, FS_CountingElements
<1>9. r \in Sortings(T)
  BY <1>5, <1>7, <1>8 DEF Sortings
<1>10. r \in Seq(Partials)
  <2>1. T \subseteq Partials
    BY DEF T, OfPixel
  <2>2. r \in [1 .. n -> Partials]
    BY <1>5, <2>1
  <2>3. QED
    BY <1>3, <2>2, IsASeq
<1>11. QED
  BY <1>9, <1>10 DEF r, T

(* Every index of I is at one place of Ascending(I). *)
LEMMA AscendingIs ==
  ASSUME NEW I, I \subseteq Nat, IsFiniteSet(I)
  PROVE  /\ Cardinality(I) \in Nat
         /\ \A k \in 1 .. Cardinality(I) : Ascending(I)[k] \in I
         /\ \A k, l \in 1 .. Cardinality(I) : Ascending(I)[k] = Ascending(I)[l] => k = l
         /\ \A i \in I : \E k \in 1 .. Cardinality(I) : Ascending(I)[k] = i
<1> DEFINE n == Cardinality(I)
           count(i) == Cardinality(Smaller(I, i))
           a == Ascending(I)
<1>1. /\ n \in Nat
      /\ \A i \in I : count(i) \in 0 .. (n - 1)
      /\ \A i, j \in I : count(i) = count(j) => i = j
      /\ \A k \in 0 .. (n - 1) : \E i \in I : count(i) = k
  <2>1. I \subseteq Int
    OBVIOUS
  <2>2. QED
    BY <2>1, SmallerCounts
<1>2. a = [k \in 1 .. n |-> CHOOSE i \in I : count(i) = k - 1]
  BY DEF Ascending, Smaller
<1> HIDE DEF n, count, a
<1>3. \A k \in 1 .. n : a[k] \in I /\ count(a[k]) = k - 1
  <2> SUFFICES ASSUME NEW k \in 1 .. n PROVE a[k] \in I /\ count(a[k]) = k - 1
    OBVIOUS
  <2>1. k - 1 \in 0 .. (n - 1)
    BY <1>1
  <2>2. a[k] = CHOOSE i \in I : count(i) = k - 1
    BY <1>2
  <2>3. \E i \in I : count(i) = k - 1
    BY <1>1, <2>1
  <2>4. QED
    BY <2>2, <2>3
<1>4. \A k, l \in 1 .. n : a[k] = a[l] => k = l
  <2> SUFFICES ASSUME NEW k \in 1 .. n, NEW l \in 1 .. n, a[k] = a[l] PROVE k = l
    OBVIOUS
  <2>1. k - 1 = l - 1
    BY <1>3
  <2>2. QED
    BY <1>1, <2>1
<1>5. \A i \in I : \E k \in 1 .. n : a[k] = i
  <2> SUFFICES ASSUME NEW i \in I PROVE \E k \in 1 .. n : a[k] = i
    OBVIOUS
  <2>1. count(i) \in 0 .. (n - 1)
    BY <1>1
  <2>2. count(i) + 1 \in 1 .. n /\ (count(i) + 1) - 1 = count(i)
    BY <1>1, <2>1
  <2>3. a[count(i) + 1] \in I /\ count(a[count(i) + 1]) = count(i)
    BY <1>3, <2>2
  <2>4. a[count(i) + 1] = i
    BY <1>1, <2>3
  <2>5. QED
    BY <2>2, <2>4
<1>6. QED
  BY <1>1, <1>3, <1>4, <1>5 DEF n, a

(* A sequence of colors shows the partials S: one color for each pixel, of *)
(* all partials of the pixel, front to back.                               *)
Color == [pixel : Nat, parts : Seq(Partials)]

Shows(out, S) ==
  /\ out \in Seq(Color)
  /\ \A i, j \in 1 .. Len(out) : out[i].pixel = out[j].pixel => i = j
  /\ \A p \in S : \E i \in 1 .. Len(out) : out[i].pixel = p.pixel
  /\ \A i \in 1 .. Len(out) :
       /\ \E p \in S : out[i].pixel = p.pixel
       /\ out[i].parts \in Sortings(OfPixel(S, out[i].pixel))

LEMMA ShowsNothing == Shows(<<>>, {})
BY DEF Shows

(* The partials of the pixels whose runs begin at the indices I. *)
StartedIn(S, s, I) == {p \in S : \E i \in I : s[i].pixel = p.pixel}

LEMMA BeginsOnce ==
  ASSUME NEW S, S \subseteq Partials, IsFiniteSet(S), NEW s \in Sortings(S),
         NEW i \in 1 .. Len(s), NEW j \in 1 .. Len(s), Begins(s, i), Begins(s, j),
         s[i].pixel = s[j].pixel
  PROVE  i = j
<1>1. \A k, l \in 1 .. Len(s) : k < l /\ Begins(s, l) => s[k].pixel # s[l].pixel
  <2> SUFFICES ASSUME NEW k \in 1 .. Len(s), NEW l \in 1 .. Len(s), k < l,
                      Begins(s, l), s[k].pixel = s[l].pixel
               PROVE  FALSE
    OBVIOUS
  <2>1. Len(s) \in Nat
    BY SortingOnto
  <2>2. l # 1 /\ l - 1 \in 1 .. Len(s) /\ k <= l - 1 /\ l - 1 <= l
    BY <2>1
  <2>3. s[l].pixel # s[l - 1].pixel
    BY <2>2 DEF Begins
  <2>4. s[k].pixel \in Nat /\ s[l - 1].pixel \in Nat /\ s[k].pixel <= s[l - 1].pixel
    BY <2>2, SortedPixels
  <2>5. s[l].pixel \in Nat /\ s[l - 1].pixel <= s[l].pixel
    BY <2>2, SortedPixels
  <2>6. QED
    BY <2>3, <2>4, <2>5
<1>2. ~(i < j) /\ ~(j < i)
  BY <1>1
<1>3. i \in Int /\ j \in Int
  BY SortingOnto
<1>4. QED
  BY <1>2, <1>3

LEMMA EveryPixelBegins ==
  ASSUME NEW S, S \subseteq Partials, IsFiniteSet(S), NEW s \in Sortings(S),
         NEW p \in S
  PROVE  \E i \in 1 .. Len(s) : Begins(s, i) /\ s[i].pixel = p.pixel
<1> DEFINE I == {i \in 1 .. Len(s) : s[i].pixel = p.pixel}
<1>1. Len(s) \in Nat /\ \E i \in 1 .. Len(s) : s[i] = p
  BY SortingOnto
<1>2. I # {} /\ I \subseteq Nat
  BY <1>1
<1>3. PICK i \in I : \A j \in I : i <= j
  <2> HIDE DEF I
  <2>1. QED
    BY <1>2, LeastNat
<1>4. ASSUME i # 1 PROVE s[i].pixel # s[i - 1].pixel
  <2>1. i - 1 \in 1 .. Len(s) /\ ~(i <= i - 1)
    BY <1>1, <1>4
  <2>2. i - 1 \notin I
    BY <1>3, <2>1
  <2>3. QED
    BY <2>1, <2>2
<1>5. QED
  BY <1>4 DEF Begins

LEMMA ColorsShow ==
  ASSUME NEW S, S \subseteq Partials, IsFiniteSet(S), NEW s \in Sortings(S),
         NEW I, I \subseteq {i \in DOMAIN s : Begins(s, i)}
  PROVE  Shows(Colors(s, I), StartedIn(S, s, I))
<1> DEFINE n == Cardinality(I)
           a == Ascending(I)
           c == Colors(s, I)
           T == StartedIn(S, s, I)
<1>1. /\ s \in Seq(S) /\ Len(s) \in Nat /\ DOMAIN s = 1 .. Len(s)
  BY SortingOnto
<1>2. I \subseteq 1 .. Len(s) /\ I \subseteq Nat /\ \A i \in I : Begins(s, i)
  BY <1>1
<1>3. IsFiniteSet(I)
  <2>1. IsFiniteSet(1 .. Len(s))
    BY <1>1, FS_Interval
  <2>2. QED
    BY <1>2, <2>1, FS_Subset
<1>4. /\ n \in Nat /\ \A k \in 1 .. n : a[k] \in I
      /\ \A k, l \in 1 .. n : a[k] = a[l] => k = l
      /\ \A i \in I : \E k \in 1 .. n : a[k] = i
  BY <1>2, <1>3, AscendingIs
<1>5. c = [k \in 1 .. n |-> [pixel |-> s[a[k]].pixel, parts |-> Run(s, a[k])]]
  BY DEF Colors
<1> HIDE DEF n, a, c
<1>6. \A k \in 1 .. n : /\ c[k].pixel = s[a[k]].pixel
                        /\ c[k].parts = Run(s, a[k])
  BY <1>5
<1>7. ASSUME NEW i \in I
      PROVE  /\ s[i] \in S /\ s[i].pixel \in Nat
             /\ Run(s, i) \in Seq(Partials)
             /\ Run(s, i) \in Sortings(OfPixel(T, s[i].pixel))
  <2>1. i \in 1 .. Len(s) /\ Begins(s, i)
    BY <1>2
  <2>2. s[i] \in S /\ s[i] \in Partials
    BY <1>1, <2>1
  <2>3. OfPixel(T, s[i].pixel) = OfPixel(S, s[i].pixel)
    BY DEF OfPixel, StartedIn
  <2>4. /\ Run(s, i) \in Seq(Partials)
        /\ Run(s, i) \in Sortings(OfPixel(S, s[i].pixel))
    BY <2>1, RunIsSorting
  <2>5. QED
    BY <2>2, <2>3, <2>4 DEF Partials
<1>8. c \in Seq(Color) /\ Len(c) = n
  <2>1. \A k \in 1 .. n : [pixel |-> s[a[k]].pixel, parts |-> Run(s, a[k])] \in Color
    BY <1>4, <1>7 DEF Color
  <2>2. c \in [1 .. n -> Color]
    BY <1>5, <2>1
  <2>3. QED
    BY <1>4, <2>2
<1>9. \A k, l \in 1 .. n : c[k].pixel = c[l].pixel => k = l
  <2> SUFFICES ASSUME NEW k \in 1 .. n, NEW l \in 1 .. n, c[k].pixel = c[l].pixel
               PROVE  k = l
    OBVIOUS
  <2>1. s[a[k]].pixel = s[a[l]].pixel
    BY <1>6
  <2>2. a[k] = a[l]
    BY <1>2, <1>4, <2>1, BeginsOnce
  <2>3. QED
    BY <1>4, <2>2
<1>10. \A p \in T : \E k \in 1 .. n : c[k].pixel = p.pixel
  <2> SUFFICES ASSUME NEW p \in T PROVE \E k \in 1 .. n : c[k].pixel = p.pixel
    OBVIOUS
  <2>1. PICK i \in I : s[i].pixel = p.pixel
    BY DEF StartedIn
  <2>2. PICK k \in 1 .. n : a[k] = i
    BY <1>4
  <2>3. QED
    BY <1>6, <2>1, <2>2
<1>11. \A k \in 1 .. n : /\ \E p \in T : c[k].pixel = p.pixel
                         /\ c[k].parts \in Sortings(OfPixel(T, c[k].pixel))
  <2> SUFFICES ASSUME NEW k \in 1 .. n
               PROVE  /\ \E p \in T : c[k].pixel = p.pixel
                      /\ c[k].parts \in Sortings(OfPixel(T, c[k].pixel))
    OBVIOUS
  <2>1. a[k] \in I
    BY <1>4
  <2>2. s[a[k]] \in T
    BY <1>7, <2>1 DEF StartedIn
  <2> HIDE DEF T
  <2>3. QED
    BY <1>6, <1>7, <2>1, <2>2
<1>12. QED
  BY <1>8, <1>9, <1>10, <1>11 DEF Shows, c, T

(* Outputs of different pixels, one after the other. *)
OtherPixels(S, T) == \A p \in S, q \in T : p.pixel # q.pixel

LEMMA NoneOfPixel ==
  ASSUME NEW S, NEW T, NEW x, OtherPixels(S, T)
  PROVE  /\ (\E p \in S : x = p.pixel) => OfPixel(S \cup T, x) = OfPixel(S, x)
         /\ (\E p \in T : x = p.pixel) => OfPixel(S \cup T, x) = OfPixel(T, x)
<1>1. ASSUME NEW p \in S, x = p.pixel PROVE \A q \in T : q.pixel # x
  BY <1>1 DEF OtherPixels
<1>2. ASSUME NEW p \in T, x = p.pixel PROVE \A q \in S : q.pixel # x
  BY <1>2 DEF OtherPixels
<1>3. QED
  BY <1>1, <1>2 DEF OfPixel

LEMMA ShowsBoth ==
  ASSUME NEW S, NEW T, NEW a, NEW b, Shows(a, S), Shows(b, T), OtherPixels(S, T)
  PROVE  Shows(a \o b, S \cup T)
<1> DEFINE c == a \o b
           m == Len(a)
           n == Len(b)
<1>1. /\ a \in Seq(Color) /\ b \in Seq(Color) /\ m \in Nat /\ n \in Nat
      /\ c \in Seq(Color) /\ Len(c) = m + n
      /\ \A i \in 1 .. m : c[i] = a[i]
      /\ \A i \in 1 .. n : c[m + i] = b[i]
  BY DEF Shows
<1>2. \A i \in 1 .. m + n : i \in 1 .. m \/ (i - m \in 1 .. n /\ m + (i - m) = i)
  BY <1>1
<1> HIDE DEF c, m, n
<1>3. \A i \in 1 .. m + n : \/ i \in 1 .. m /\ c[i] = a[i]
                            \/ i - m \in 1 .. n /\ c[i] = b[i - m]
  BY <1>1, <1>2
<1>4. /\ \A i, j \in 1 .. m : a[i].pixel = a[j].pixel => i = j
      /\ \A p \in S : \E i \in 1 .. m : a[i].pixel = p.pixel
      /\ \A i \in 1 .. m :
           /\ \E p \in S : a[i].pixel = p.pixel
           /\ a[i].parts \in Sortings(OfPixel(S, a[i].pixel))
  BY DEF Shows, m
<1>5. /\ \A i, j \in 1 .. n : b[i].pixel = b[j].pixel => i = j
      /\ \A p \in T : \E i \in 1 .. n : b[i].pixel = p.pixel
      /\ \A i \in 1 .. n :
           /\ \E p \in T : b[i].pixel = p.pixel
           /\ b[i].parts \in Sortings(OfPixel(T, b[i].pixel))
  BY DEF Shows, n
<1>6. \A i \in 1 .. m, j \in 1 .. n : a[i].pixel # b[j].pixel
  BY <1>4, <1>5 DEF OtherPixels
<1>7. \A i, j \in 1 .. m + n : c[i].pixel = c[j].pixel => i = j
  <2> SUFFICES ASSUME NEW i \in 1 .. m + n, NEW j \in 1 .. m + n, c[i].pixel = c[j].pixel
               PROVE  i = j
    OBVIOUS
  <2>1. CASE i \in 1 .. m /\ c[i] = a[i] /\ j \in 1 .. m /\ c[j] = a[j]
    BY <1>4, <2>1
  <2>2. CASE i - m \in 1 .. n /\ c[i] = b[i - m] /\ j - m \in 1 .. n /\ c[j] = b[j - m]
    <3>1. i - m = j - m
      BY <1>5, <2>2
    <3>2. QED
      BY <1>1, <3>1
  <2>3. QED
    BY <1>3, <1>6, <2>1, <2>2
<1>8. \A p \in S \cup T : \E i \in 1 .. m + n : c[i].pixel = p.pixel
  <2> SUFFICES ASSUME NEW p \in S \cup T PROVE \E i \in 1 .. m + n : c[i].pixel = p.pixel
    OBVIOUS
  <2>1. CASE p \in S
    <3>1. PICK i \in 1 .. m : a[i].pixel = p.pixel
      BY <1>4, <2>1
    <3>2. i \in 1 .. m + n
      BY <1>1
    <3>3. QED
      BY <1>1, <3>1, <3>2
  <2>2. CASE p \in T
    <3>1. PICK i \in 1 .. n : b[i].pixel = p.pixel
      BY <1>5, <2>2
    <3>2. m + i \in 1 .. m + n
      BY <1>1
    <3>3. QED
      BY <1>1, <3>1, <3>2
  <2>3. QED
    BY <2>1, <2>2
<1>9. ASSUME NEW i \in 1 .. m
      PROVE  /\ \E p \in S \cup T : a[i].pixel = p.pixel
             /\ a[i].parts \in Sortings(OfPixel(S \cup T, a[i].pixel))
  <2>1. PICK p \in S : a[i].pixel = p.pixel
    BY <1>4
  <2>2. OfPixel(S \cup T, a[i].pixel) = OfPixel(S, a[i].pixel)
    BY <2>1, NoneOfPixel
  <2>3. a[i].parts \in Sortings(OfPixel(S, a[i].pixel))
    BY <1>4
  <2>4. QED
    BY <2>1, <2>2, <2>3
<1>10. ASSUME NEW i \in 1 .. n
       PROVE  /\ \E p \in S \cup T : b[i].pixel = p.pixel
              /\ b[i].parts \in Sortings(OfPixel(S \cup T, b[i].pixel))
  <2>1. PICK p \in T : b[i].pixel = p.pixel
    BY <1>5
  <2>2. OfPixel(S \cup T, b[i].pixel) = OfPixel(T, b[i].pixel)
    BY <2>1, NoneOfPixel
  <2>3. b[i].parts \in Sortings(OfPixel(T, b[i].pixel))
    BY <1>5
  <2>4. QED
    BY <2>1, <2>2, <2>3
<1>11. ASSUME NEW i \in 1 .. m + n
       PROVE  /\ \E p \in S \cup T : c[i].pixel = p.pixel
              /\ c[i].parts \in Sortings(OfPixel(S \cup T, c[i].pixel))
  <2>1. CASE i \in 1 .. m /\ c[i] = a[i]
    BY <1>9, <2>1
  <2>2. CASE i - m \in 1 .. n /\ c[i] = b[i - m]
    BY <1>10, <2>2
  <2>3. QED
    BY <1>3, <2>1, <2>2
<1>12. QED
  BY <1>1, <1>7, <1>8, <1>11 DEF Shows, c

LEMMA BlendedShows ==
  ASSUME NEW S, S \subseteq Partials, IsFiniteSet(S), NEW s \in Sortings(S)
  PROVE  Shows(Blended(s), S)
<1> DEFINE U == Unique(s)
           W == Work(s)
           B == {i \in DOMAIN s : Begins(s, i)}
<1>1. U \subseteq B /\ W \subseteq B /\ U \cup W = B /\ \A i \in U : i \notin W
  BY DEF Unique, Work
<1>2. DOMAIN s = 1 .. Len(s)
  BY SortingOnto
<1>3. OtherPixels(StartedIn(S, s, U), StartedIn(S, s, W))
  <2>1. \A i \in U, j \in W : s[i].pixel # s[j].pixel
    BY <1>1, <1>2, BeginsOnce
  <2> HIDE DEF U, W
  <2>2. QED
    BY <2>1 DEF OtherPixels, StartedIn
<1>4. StartedIn(S, s, U) \cup StartedIn(S, s, W) = S
  <2>1. \A p \in S : \E i \in B : s[i].pixel = p.pixel
    BY <1>2, EveryPixelBegins
  <2> HIDE DEF U, W, B
  <2>2. QED
    BY <1>1, <2>1 DEF StartedIn
<1>5. Shows(Colors(s, U), StartedIn(S, s, U)) /\ Shows(Colors(s, W), StartedIn(S, s, W))
  BY <1>1, ColorsShow
<1> HIDE DEF U, W
<1>6. Shows(Colors(s, U) \o Colors(s, W), S)
  BY <1>3, <1>4, <1>5, ShowsBoth
<1>7. QED
  BY <1>6 DEF Blended, U, W

LEMMA CompositeShows ==
  ASSUME NEW S, S \subseteq Partials, IsFiniteSet(S), Cardinality(S) # 1,
         NEW out \in CompositePartials(S)
  PROVE  Shows(out, S)
<1>1. CASE S = {}
  BY <1>1, ShowsNothing DEF CompositePartials
<1>2. CASE S # {}
  <2>1. PICK s \in Sortings(S) : out = Blended(s)
    BY <1>2 DEF CompositePartials
  <2>2. QED
    BY <2>1, BlendedShows
<1>3. QED
  BY <1>1, <1>2

(* The outputs of several ranks, of different pixels each. *)
UpTo(S, k) == UNION {S[i] : i \in 1 .. k}

LEMMA FlattenShows ==
  ASSUME NEW n \in Nat, NEW o, NEW S,
         \A i \in 1 .. n : Shows(o[i], S[i]),
         \A i, j \in 1 .. n : i # j => OtherPixels(S[i], S[j])
  PROVE  Shows(FlattenSeq([i \in 1 .. n |-> o[i]]), UpTo(S, n))
<1> DEFINE s == [i \in 1 .. n |-> o[i]]
<1>1. Len(s) = n /\ \A i \in 1 .. n : s[i] = o[i]
  OBVIOUS
<1>2. CASE n = 0
  <2>1. s = <<>> /\ UpTo(S, n) = {}
    BY <1>2 DEF UpTo
  <2>2. FlattenSeq(s) = s
    BY <1>1, <1>2 DEF FlattenSeq
  <2>3. QED
    BY <2>1, <2>2, ShowsNothing
<1>3. CASE n # 0
  <2> HIDE DEF s
  <2>1. PICK h : Joins(h, s, n)
    BY JoinsExist
  <2>2. \A i \in 1 .. n : h[i] = IF i = 1 THEN o[i] ELSE h[i - 1] \o o[i]
    BY <1>1, <2>1 DEF Joins
  <2> DEFINE T == {k \in Nat : k \in 1 .. n => Shows(h[k], UpTo(S, k))}
  <2>3. 0 \in T
    OBVIOUS
  <2>4. ASSUME NEW k \in Nat, k \in T PROVE k + 1 \in T
    <3> SUFFICES ASSUME k + 1 \in 1 .. n PROVE Shows(h[k + 1], UpTo(S, k + 1))
      OBVIOUS
    <3>1. Shows(o[k + 1], S[k + 1])
      OBVIOUS
    <3>2. UpTo(S, k + 1) = UpTo(S, k) \cup S[k + 1]
      <4>1. 1 .. k + 1 = (1 .. k) \cup {k + 1}
        OBVIOUS
      <4>2. QED
        BY <4>1 DEF UpTo
    <3>3. CASE k = 0
      <4>1. UpTo(S, k) = {} /\ h[k + 1] = o[k + 1]
        BY <2>2, <3>3 DEF UpTo
      <4>2. QED
        BY <3>1, <3>2, <4>1
    <3>4. CASE k # 0
      <4>1. k \in 1 .. n /\ k + 1 # 1 /\ (k + 1) - 1 = k
        BY <3>4
      <4>2. Shows(h[k], UpTo(S, k)) /\ h[k + 1] = h[k] \o o[k + 1]
        BY <2>2, <2>4, <4>1
      <4>3. \A i \in 1 .. k : OtherPixels(S[i], S[k + 1])
        BY <4>1
      <4>4. OtherPixels(UpTo(S, k), S[k + 1])
        BY <4>3 DEF OtherPixels, UpTo
      <4>5. QED
        BY <3>1, <3>2, <4>2, <4>4, ShowsBoth
    <3>5. QED
      BY <3>3, <3>4
  <2>5. n \in T
    <3> HIDE DEF T
    <3>1. QED
      BY <2>3, <2>4, NatInductionSet
  <2>6. Shows(h[n], UpTo(S, n))
    BY <1>3, <2>5
  <2>7. FlattenSeq(s) = h[n]
    BY <1>1, <1>3, <2>1, FlattenIs
  <2>8. QED
    BY <2>6, <2>7 DEF s
<1>4. QED
  BY <1>2, <1>3

-----------------------------------------------------------------------------
(* The image.                                                              *)

(* The partials of all ranks whose pixel belongs to rank r. *)
Block(r) == UNION {Share(s, r) : s \in Ranks}

PixelRange == [min |-> Min(Pixels(rendered)), max |-> Max(Pixels(rendered))]

Known == rendered \in Inputs /\ DOMAIN output = Ranks

Spread ==
  \A r \in Ranks : pc[r] \notin {"merge", "done"} =>
    AllRendered # {} /\ bounds[r] = PixelRange

Exchanged == {"receive", "composite", "collect"}

Fits ==
  \A r \in Ranks : pc[r] \in Exchanged => Width(bounds[r].min, bounds[r].max) > 0

Outputs ==
  \A r \in Ranks :
    /\ pc[r] \notin {"collect", "done"} => output[r] = <<>>
    /\ pc[r] = "collect" => Shows(output[r], Block(r))
    /\ pc[r] = "done" /\ r # 0 => output[r] = <<>>
    /\ pc[r] = "done" /\ r = 0 => Shows(output[r], AllRendered)

(* What rank 0 collects: one message of each rank that is done. *)
Collected(m) ==
  /\ m.from \in Ranks \ {0}
  /\ pc[m.from] = "done"
  /\ Shows(m.output, Block(m.from))

Gathered ==
  pc[0] \in {"composite", "collect"} =>
    /\ \A m \in queue[0] : Collected(m)
    /\ \A m, n \in queue[0] : m.from = n.from => m = n

Held ==
  \A r \in Ranks : /\ partials[r] \subseteq AllRendered
                   /\ \A m \in queue[r] : m.from \in Ranks

(* A rank leaves the exchange after all have sent. *)
AllSent ==
  \A q, s \in Ranks :
    pc[q] \in {"composite", "collect"} => pc[s] \notin {"merge", "redistribute"}

ImageInv ==
  /\ OwnerInv
  /\ AllSent
  /\ Known
  /\ Spread
  /\ Fits
  /\ Outputs
  /\ Gathered
  /\ Held

(* No rank is left with one partial. *)
AllSeveral == \A in \in Inputs : Several(in)

-----------------------------------------------------------------------------
LEMMA RanksFinite == 0 \in Ranks /\ IsFiniteSet(Ranks)
<1>1. N - 1 \in Int /\ 0 \in Int
  BY PartialAssumption
<1>2. IsFiniteSet(0 .. (N - 1))
  BY <1>1, FS_Interval
<1>3. QED
  BY <1>2, PartialAssumption DEF Ranks

LEMMA RenderedTypes ==
  ASSUME rendered \in Inputs
  PROVE  /\ AllRendered \subseteq Partials /\ IsFiniteSet(AllRendered)
         /\ Pixels(rendered) = {p.pixel : p \in AllRendered}
         /\ Pixels(rendered) \subseteq Nat /\ IsFiniteSet(Pixels(rendered))
<1>1. rendered \in [Ranks -> SUBSET Partials] /\ \A r \in Ranks : IsFiniteSet(rendered[r])
  BY InputsAssumption
<1>2. AllRendered \subseteq Partials
  BY <1>1 DEF AllRendered
<1>3. IsFiniteSet(AllRendered)
  <2> DEFINE S == {rendered[r] : r \in Ranks}
  <2>1. IsFiniteSet(S)
    BY <1>1, RanksFinite, FunctionImageFinite
  <2>2. \A T \in S : IsFiniteSet(T)
    BY <1>1
  <2> HIDE DEF S
  <2>3. IsFiniteSet(UNION S)
    BY <2>1, <2>2, FS_UNION
  <2>4. QED
    BY <2>3 DEF S, AllRendered
<1>4. Pixels(rendered) = {p.pixel : p \in AllRendered}
  BY DEF Pixels, AllRendered
<1>5. Pixels(rendered) \subseteq Nat
  BY <1>2, <1>4 DEF Partials
<1>6. IsFiniteSet(Pixels(rendered))
  <2> DEFINE f == [p \in AllRendered |-> p.pixel]
  <2>1. f \in Surjection(AllRendered, Pixels(rendered))
    BY <1>4 DEF Surjection
  <2> HIDE DEF f
  <2>2. QED
    BY <1>3, <2>1, FS_Surjection
<1>7. QED
  BY <1>2, <1>3, <1>4, <1>5, <1>6

LEMMA OwnerIsRank ==
  ASSUME NEW min \in Int, NEW max \in Int, NEW pixel \in Int, min <= pixel,
         Width(min, max) > 0
  PROVE  Owner(pixel, min, max) \in Ranks
<1> DEFINE w == Width(min, max)
           b == (pixel - min) \div w
<1>1. w \in Nat \ {0}
  BY PartialAssumption DEF Width
<1> HIDE DEF w
<1>2. pixel - min \in Nat
  OBVIOUS
<1>3. b \in Nat
  BY <1>1, <1>2
<1> HIDE DEF b
<1>4. {b, N - 1} \subseteq Nat /\ N - 1 \in Nat
  BY <1>3, PartialAssumption
<1>5. Min({b, N - 1}) \in {b, N - 1} /\ Min({b, N - 1}) <= N - 1
  <2>1. CASE b <= N - 1
    <3>1. \A x \in {b, N - 1} : b <= x
      BY <1>4, <2>1
    <3>2. Min({b, N - 1}) = b
      BY <1>4, <3>1, MinIs
    <3>3. QED
      BY <2>1, <3>2
  <2>2. CASE ~(b <= N - 1)
    <3>1. \A x \in {b, N - 1} : N - 1 <= x
      BY <1>4, <2>2
    <3>2. Min({b, N - 1}) = N - 1
      BY <1>4, <3>1, MinIs
    <3>3. QED
      BY <1>4, <3>2
  <2>3. QED
    BY <2>1, <2>2
<1>6. Owner(pixel, min, max) = Min({b, N - 1})
  BY DEF Owner, b, w
<1>7. QED
  BY <1>4, <1>5, <1>6 DEF Ranks

(* The blocks of the ranks are a partition of the partials by pixel. *)
Partitioned ==
  /\ AllRendered \subseteq Partials
  /\ \A r \in Ranks : Block(r) \subseteq AllRendered /\ IsFiniteSet(Block(r))
  /\ \A r, s \in Ranks : r # s => OtherPixels(Block(r), Block(s))
  /\ AllRendered = UNION {Block(r) : r \in Ranks}

LEMMA BlocksPartition ==
  ASSUME OwnerInv, Known, Spread, Fits, NEW q \in Ranks, pc[q] \in Exchanged
  PROVE  /\ Partitioned
         /\ AllSeveral => \A r \in Ranks : Cardinality(Block(r)) # 1
<1> DEFINE lo == Min(Pixels(rendered))
           hi == Max(Pixels(rendered))
<1>1. /\ AllRendered # {}
      /\ \A s \in Ranks : bounds[s].min = lo /\ bounds[s].max = hi
      /\ Width(lo, hi) > 0
  <2>1. AllRendered # {} /\ bounds[q].min = lo /\ bounds[q].max = hi
    BY DEF Spread, PixelRange, Exchanged
  <2>2. \A s \in Ranks : bounds[s] = bounds[q]
    BY DEF OwnerInv, SameBounds
  <2>3. QED
    BY <2>1, <2>2 DEF Fits
<1>2. /\ AllRendered \subseteq Partials /\ IsFiniteSet(AllRendered)
      /\ Pixels(rendered) = {p.pixel : p \in AllRendered}
      /\ Pixels(rendered) \subseteq Nat /\ IsFiniteSet(Pixels(rendered))
  BY RenderedTypes DEF Known
<1>3. Pixels(rendered) # {}
  BY <1>1, <1>2
<1>4. lo \in Int /\ hi \in Int /\ \A x \in Pixels(rendered) : x \in Int /\ lo <= x
  <2> DEFINE X == Pixels(rendered)
  <2>1. X \subseteq Nat /\ X \subseteq Int /\ IsFiniteSet(X) /\ X # {}
    BY <1>2, <1>3
  <2> HIDE DEF X
  <2>2. Min(X) \in X /\ Max(X) \in X /\ \A x \in X : Min(X) <= x
    BY <2>1, FiniteMinMax
  <2>3. QED
    BY <2>1, <2>2 DEF X
<1> HIDE DEF lo, hi
<1>5. \A r \in Ranks : Block(r) = {p \in AllRendered : Owner(p.pixel, lo, hi) = r}
  <2> SUFFICES ASSUME NEW r \in Ranks
               PROVE  Block(r) = {p \in AllRendered : Owner(p.pixel, lo, hi) = r}
    OBVIOUS
  <2>1. \A s \in Ranks : Share(s, r) = {p \in rendered[s] : Owner(p.pixel, lo, hi) = r}
    BY <1>1 DEF Share
  <2>2. QED
    BY <2>1 DEF Block, AllRendered
<1>6. \A r \in Ranks : Block(r) \subseteq AllRendered /\ IsFiniteSet(Block(r))
  <2>1. \A r \in Ranks : Block(r) \in SUBSET AllRendered
    BY <1>5
  <2>2. QED
    BY <1>2, <2>1, FS_Subset
<1>7. \A r, s \in Ranks : r # s => OtherPixels(Block(r), Block(s))
  BY <1>5 DEF OtherPixels
<1>8. AllRendered = UNION {Block(r) : r \in Ranks}
  <2>1. ASSUME NEW p \in AllRendered PROVE \E r \in Ranks : p \in Block(r)
    <3>1. p.pixel \in Pixels(rendered)
      BY <1>2
    <3>2. Owner(p.pixel, lo, hi) \in Ranks
      BY <1>1, <1>4, <3>1, OwnerIsRank
    <3>3. QED
      BY <1>5, <3>2
  <2>2. QED
    BY <1>6, <2>1
<1>9. ASSUME AllSeveral, NEW r \in Ranks PROVE Cardinality(Block(r)) # 1
  <2>1. Several(rendered)
    BY <1>9 DEF AllSeveral, Known
  <2>2. Block(r) = OwnedBy(rendered, r)
    BY <1>5 DEF OwnedBy, AllRendered, lo, hi
  <2>3. Width(lo, hi) # 0
    BY <1>1
  <2>4. QED
    BY <1>3, <2>1, <2>2, <2>3 DEF Several, lo, hi
<1>10. QED
  BY <1>2, <1>6, <1>7, <1>8, <1>9 DEF Partitioned

LEMMA ImageInit == Init => ImageInv
<1> SUFFICES ASSUME Init PROVE ImageInv
  OBVIOUS
<1>1. OwnerInv
  BY OwnerInit
<1>2. Known /\ Spread /\ Fits /\ Outputs /\ AllSent
  BY DEF Init, Known, Spread, Fits, Exchanged, Outputs, AllSent
<1>3. Gathered
  BY RanksFinite DEF Init, Gathered
<1>4. Held
  BY DEF Init, Held, AllRendered
<1>5. QED
  BY <1>1, <1>2, <1>3, <1>4 DEF ImageInv

(* What a step that renders nothing and keeps the range of pixels keeps.   *)
LEMMA SameBlocks ==
  ASSUME UNCHANGED <<rendered, bounds>>
  PROVE  /\ AllRendered' = AllRendered /\ PixelRange' = PixelRange
         /\ \A r \in Ranks : Block(r)' = Block(r)
<1>1. \A r \in Ranks : {Share(s, r)' : s \in Ranks} = {Share(s, r) : s \in Ranks}
  BY SameMessages
<1>2. QED
  BY <1>1 DEF AllRendered, PixelRange, Block

LEMMA MergeImage == ImageInv /\ Merge => ImageInv'
<1> SUFFICES ASSUME ImageInv, Merge PROVE ImageInv'
  OBVIOUS
<1>1. OwnerInv'
  BY MergeKeeps DEF ImageInv
<1>2. /\ \A r \in Ranks : pc[r] = "merge"
      /\ UNCHANGED <<rendered, partials, queue, output>>
  BY DEF Merge
<1>3. \A r \in Ranks : output[r] = <<>>
  BY <1>2 DEF ImageInv, Outputs
<1>4. Pixels(partials) = Pixels(rendered)
  <2>1. \A r \in Ranks : partials[r] = rendered[r]
    BY <1>2 DEF ImageInv, OwnerInv, Holdings
  <2>2. QED
    BY <2>1 DEF Pixels
<1>5. AllRendered' = AllRendered /\ PixelRange' = PixelRange
  BY <1>2 DEF AllRendered, PixelRange
<1>6. Pixels(rendered) = {p.pixel : p \in AllRendered}
  BY RenderedTypes DEF ImageInv, Known
<1>7. Known' /\ Held'
  BY <1>2, <1>5 DEF ImageInv, Known, Held
<1>8. CASE Pixels(rendered) = {}
  <2>1. pc' = [r \in Ranks |-> "done"]
    BY <1>4, <1>8 DEF Merge
  <2>2. AllRendered' = {}
    BY <1>5, <1>6, <1>8
  <2>3. Spread' /\ Fits' /\ Gathered' /\ AllSent'
    BY <2>1, RanksFinite DEF Spread, Fits, Exchanged, Gathered, AllSent
  <2>4. Outputs'
    BY <1>2, <1>3, <2>1, <2>2, ShowsNothing DEF Outputs
  <2>5. QED
    BY <1>1, <1>7, <2>3, <2>4 DEF ImageInv
<1>9. CASE Pixels(rendered) # {}
  <2>1. /\ pc' = [r \in Ranks |-> "redistribute"]
        /\ bounds' = [r \in Ranks |-> PixelRange]
    BY <1>4, <1>9 DEF Merge, PixelRange
  <2>2. AllRendered' # {}
    BY <1>5, <1>6, <1>9
  <2>3. Spread'
    BY <1>5, <2>1, <2>2 DEF Spread
  <2>4. Fits' /\ Gathered' /\ AllSent'
    BY <2>1, RanksFinite DEF Fits, Exchanged, Gathered, AllSent
  <2>5. Outputs'
    BY <1>2, <1>3, <2>1 DEF Outputs
  <2>6. QED
    BY <1>1, <1>7, <2>3, <2>4, <2>5 DEF ImageInv
<1>10. QED
  BY <1>8, <1>9

(* The steps of the exchange. *)
LEMMA ExchangeImage ==
  ASSUME ImageInv, NEW r \in Ranks, Decompose(r) \/ Send(r) \/ Receive(r)
  PROVE  ImageInv'
<1>1. /\ UNCHANGED <<rendered, bounds, output>>
      /\ \/ pc[r] = "redistribute" /\ pc' = [pc EXCEPT ![r] = "error"] /\ UNCHANGED <<partials, queue>>
         \/ /\ pc[r] = "redistribute" /\ pc' = [pc EXCEPT ![r] = "receive"]
            /\ Width(bounds[r].min, bounds[r].max) > 0
         \/ pc[r] = "receive" /\ pc' = [pc EXCEPT ![r] = "composite"]
  BY DEF Decompose, Send, Receive, GoTo
<1>2. OwnerInv'
  BY SendKeeps, ReceiveKeeps, OutsideKeeps DEF ImageInv
<1>3. DOMAIN pc = Ranks /\ DOMAIN partials = Ranks /\ DOMAIN queue = Ranks
  BY DEF ImageInv, OwnerInv, Shapes
<1>4. /\ AllRendered' = AllRendered /\ PixelRange' = PixelRange
      /\ \A s \in Ranks : Block(s)' = Block(s)
  BY <1>1, SameBlocks
<1>5. /\ pc'[r] \in {"error", "receive", "composite"} /\ pc[r] \in {"redistribute", "receive"}
      /\ \A s \in Ranks : s # r => pc'[s] = pc[s]
  BY <1>1, <1>3
<1>6. Known'
  BY <1>1 DEF ImageInv, Known
<1>7. Spread'
  BY <1>1, <1>4, <1>5 DEF ImageInv, Spread
<1>8. Fits'
  BY <1>1, <1>3 DEF ImageInv, Fits, Exchanged
<1>9. Outputs'
  <2>1. \A s \in Ranks : s # r => /\ pc'[s] = pc[s] /\ output'[s] = output[s]
                                  /\ Block(s)' = Block(s)
    BY <1>1, <1>4, <1>5
  <2>2. output[r] = <<>> /\ output'[r] = <<>>
    BY <1>1, <1>5 DEF ImageInv, Outputs
  <2>3. QED
    BY <1>4, <1>5, <2>1, <2>2 DEF ImageInv, Outputs
<1>10. Held'
  <2>1. CASE Decompose(r)
    BY <1>4, <2>1 DEF Decompose, ImageInv, Held
  <2>2. CASE Send(r)
    BY <1>3, <1>4, <2>2 DEF Send, ImageInv, Held
  <2>3. CASE Receive(r)
    <3>1. \A m \in queue[r] : m.partials \subseteq AllRendered
      <4>1. queue[r] = {Message(s, r) : s \in HaveSent}
        BY <2>3 DEF Receive, ImageInv, OwnerInv, Messages, Exchanging
      <4>2. \A s \in HaveSent : Message(s, r).partials \subseteq AllRendered
        BY DEF Message, Share, AllRendered, HaveSent
      <4>3. QED
        BY <4>1, <4>2
    <3>2. /\ partials' = [partials EXCEPT ![r] = @ \cup UNION {m.partials : m \in queue[r]}]
          /\ queue' = [queue EXCEPT ![r] = {}]
      BY <2>3 DEF Receive
    <3>3. UNION {m.partials : m \in queue[r]} \subseteq AllRendered
      BY <3>1
    <3>4. QED
      BY <1>3, <1>4, <3>2, <3>3 DEF ImageInv, Held
  <2>4. QED
    BY <2>1, <2>2, <2>3
<1>11. Gathered'
  <2> SUFFICES ASSUME pc'[0] \in {"composite", "collect"} PROVE Gathered'
    BY DEF Gathered
  <2>1. CASE r = 0
    <3>1. Receive(0)
      BY <1>1, <1>3, <2>1, RanksFinite DEF Decompose, Send, GoTo
    <3>2. queue'[0] = {}
      BY <1>3, <3>1, RanksFinite DEF Receive
    <3>3. QED
      BY <3>2 DEF Gathered
  <2>2. CASE r # 0
    <3>1. pc[0] \in {"composite", "collect"}
      BY <1>5, <2>2, RanksFinite
    <3>2. pc[r] = "receive" /\ Receive(r)
      BY <1>1, <3>1, RanksFinite DEF ImageInv, AllSent, Decompose, Send
    <3>3. queue'[0] = queue[0]
      BY <2>2, <3>2 DEF Receive
    <3>4. /\ \A m \in queue[0] : Collected(m)
          /\ \A m, n \in queue[0] : m.from = n.from => m = n
      BY <3>1 DEF ImageInv, Gathered
    <3>5. ASSUME NEW m \in queue[0] PROVE Collected(m)'
      <4>1. Collected(m)
        BY <3>4
      <4>2. m.from # r /\ pc'[m.from] = "done" /\ Block(m.from)' = Block(m.from)
        BY <1>4, <1>5, <3>2, <4>1 DEF Collected
      <4>3. QED
        BY <4>1, <4>2 DEF Collected
    <3>6. QED
      BY <3>3, <3>4, <3>5 DEF Gathered
  <2>3. QED
    BY <2>1, <2>2
<1>12. AllSent'
  <2>1. CASE Receive(r)
    <3>1. queue[r] = {Message(s, r) : s \in HaveSent}
      BY <2>1 DEF Receive, ImageInv, OwnerInv, Messages, Exchanging
    <3>2. \A s \in Ranks : \E m \in queue[r] : m.from = s
      BY <2>1 DEF Receive
    <3>3. \A s \in Ranks : s \in HaveSent
      BY <3>1, <3>2 DEF Message
    <3>4. \A s \in Ranks : pc'[s] \notin {"merge", "redistribute"}
      BY <1>5, <3>3 DEF HaveSent
    <3>5. QED
      BY <3>4 DEF AllSent
  <2>2. CASE ~Receive(r)
    <3>1. pc[r] = "redistribute" /\ pc'[r] \in {"error", "receive"}
      BY <1>1, <1>3, <2>2 DEF Decompose, Send, GoTo
    <3>2. QED
      BY <1>5, <3>1 DEF ImageInv, AllSent
  <2>3. QED
    BY <2>1, <2>2
<1>13. QED
  BY <1>2, <1>6, <1>7, <1>8, <1>9, <1>10, <1>11, <1>12 DEF ImageInv

LEMMA CompositeImage ==
  ASSUME ImageInv, AllSeveral, NEW r \in Ranks, Composite(r)
  PROVE  ImageInv'
<1>1. /\ UNCHANGED <<rendered, bounds, queue>>
      /\ pc[r] = "composite" /\ pc' = [pc EXCEPT ![r] = "collect"]
      /\ partials' = [partials EXCEPT ![r] = {}]
  BY DEF Composite, GoTo
<1>2. OwnerInv'
  BY OutsideKeeps DEF ImageInv
<1>3. DOMAIN pc = Ranks /\ DOMAIN partials = Ranks /\ DOMAIN output = Ranks
  BY DEF ImageInv, OwnerInv, Shapes, Known
<1>4. /\ AllRendered' = AllRendered /\ PixelRange' = PixelRange
      /\ \A s \in Ranks : Block(s)' = Block(s)
  BY <1>1, SameBlocks
<1>5. pc'[r] = "collect" /\ \A s \in Ranks : s # r => pc'[s] = pc[s]
  BY <1>1, <1>3
<1>6. PICK out \in CompositePartials(Block(r)) : output' = [output EXCEPT ![r] = out]
  <2>1. partials[r] = Block(r)
    BY <1>1 DEF ImageInv, OwnerInv, Owned, Block
  <2>2. QED
    BY <2>1 DEF Composite
<1>7. Shows(out, Block(r))
  <2>1. pc[r] \in Exchanged
    BY <1>1 DEF Exchanged
  <2>2. Partitioned /\ Cardinality(Block(r)) # 1
    BY <2>1, BlocksPartition DEF ImageInv
  <2>3. Block(r) \subseteq Partials /\ IsFiniteSet(Block(r))
    BY <2>2 DEF Partitioned
  <2>4. QED
    BY <1>6, <2>2, <2>3, CompositeShows
<1>8. Known' /\ Held'
  BY <1>1, <1>3, <1>4, <1>6 DEF ImageInv, Known, Held
<1>9. Spread' /\ Fits' /\ AllSent'
  BY <1>1, <1>4, <1>5 DEF ImageInv, Spread, Fits, Exchanged, AllSent
<1>10. Outputs'
  <2>1. output'[r] = out /\ \A s \in Ranks : s # r => output'[s] = output[s]
    BY <1>3, <1>6
  <2>2. QED
    BY <1>4, <1>5, <1>7, <2>1 DEF ImageInv, Outputs
<1>11. Gathered'
  <2> SUFFICES ASSUME pc'[0] \in {"composite", "collect"} PROVE Gathered'
    BY DEF Gathered
  <2>1. pc[0] \in {"composite", "collect"}
    BY <1>1, <1>5, RanksFinite
  <2>2. /\ \A m \in queue[0] : Collected(m)
        /\ \A m, n \in queue[0] : m.from = n.from => m = n
    BY <2>1 DEF ImageInv, Gathered
  <2>3. ASSUME NEW m \in queue[0] PROVE Collected(m)'
    <3>1. Collected(m)
      BY <2>2
    <3>2. m.from # r /\ pc'[m.from] = "done" /\ Block(m.from)' = Block(m.from)
      BY <1>1, <1>4, <1>5, <3>1 DEF Collected
    <3>3. QED
      BY <3>1, <3>2 DEF Collected
  <2>4. QED
    BY <1>1, <2>2, <2>3 DEF Gathered
<1>12. QED
  BY <1>2, <1>8, <1>9, <1>10, <1>11 DEF ImageInv

LEMMA CollectSendImage ==
  ASSUME ImageInv, NEW r \in Ranks, CollectSend(r)
  PROVE  ImageInv'
<1>0. PICK sent : sent = [from |-> r, output |-> output[r]]
  OBVIOUS
<1>1. /\ UNCHANGED <<rendered, bounds, partials>>
      /\ pc[r] = "collect" /\ r # 0 /\ pc' = [pc EXCEPT ![r] = "done"]
      /\ queue' = [queue EXCEPT ![0] = @ \cup {sent}]
      /\ output' = [output EXCEPT ![r] = <<>>]
  BY <1>0 DEF CollectSend, GoTo
<1>2. OwnerInv'
  BY OutsideKeeps DEF ImageInv
<1>3. DOMAIN pc = Ranks /\ DOMAIN queue = Ranks /\ DOMAIN output = Ranks
  BY DEF ImageInv, OwnerInv, Shapes, Known
<1>4. /\ AllRendered' = AllRendered /\ PixelRange' = PixelRange
      /\ \A s \in Ranks : Block(s)' = Block(s)
  BY <1>1, SameBlocks
<1>5. pc'[r] = "done" /\ \A s \in Ranks : s # r => pc'[s] = pc[s]
  BY <1>1, <1>3
<1>6. sent.from = r /\ sent.output = output[r] /\ Shows(output[r], Block(r))
  BY <1>0, <1>1 DEF ImageInv, Outputs
<1>7. queue'[0] = queue[0] \cup {sent} /\ \A s \in Ranks : s # 0 => queue'[s] = queue[s]
  BY <1>1, <1>3, RanksFinite
<1>8. Known' /\ Held'
  BY <1>1, <1>3, <1>4, <1>6, <1>7 DEF ImageInv, Known, Held
<1>9. Spread' /\ Fits' /\ AllSent'
  BY <1>1, <1>4, <1>5 DEF ImageInv, Spread, Fits, Exchanged, AllSent
<1>10. Outputs'
  <2>1. output'[r] = <<>> /\ \A s \in Ranks : s # r => output'[s] = output[s]
    BY <1>1, <1>3
  <2>2. QED
    BY <1>1, <1>4, <1>5, <2>1 DEF ImageInv, Outputs
<1>11. Gathered'
  <2> SUFFICES ASSUME pc'[0] \in {"composite", "collect"} PROVE Gathered'
    BY DEF Gathered
  <2>1. pc[0] \in {"composite", "collect"}
    BY <1>1, <1>5, RanksFinite
  <2>2. /\ \A m \in queue[0] : Collected(m)
        /\ \A m, n \in queue[0] : m.from = n.from => m = n
    BY <2>1 DEF ImageInv, Gathered
  <2>3. ASSUME NEW m \in queue[0] PROVE m.from # r /\ Collected(m)'
    <3>1. Collected(m)
      BY <2>2
    <3>2. m.from # r /\ pc'[m.from] = "done" /\ Block(m.from)' = Block(m.from)
      BY <1>1, <1>4, <1>5, <3>1 DEF Collected
    <3>3. QED
      BY <3>1, <3>2 DEF Collected
  <2>4. Collected(sent)'
    BY <1>1, <1>4, <1>5, <1>6 DEF Collected
  <2>5. QED
    BY <1>6, <1>7, <2>2, <2>3, <2>4 DEF Gathered
<1>12. QED
  BY <1>2, <1>8, <1>9, <1>10, <1>11 DEF ImageInv

LEMMA CollectReceiveImage == ImageInv /\ CollectReceive => ImageInv'
<1> SUFFICES ASSUME ImageInv, CollectReceive PROVE ImageInv'
  OBVIOUS
<1> DEFINE from(s) == (CHOOSE m \in queue[0] : m.from = s).output
           rest == FlattenSeq([i \in 1 .. N - 1 |-> from(i)])
<1>1. /\ UNCHANGED <<rendered, bounds, partials>>
      /\ pc[0] = "collect" /\ pc' = [pc EXCEPT ![0] = "done"]
      /\ {m.from : m \in queue[0]} = Ranks \ {0}
      /\ queue' = [queue EXCEPT ![0] = {}]
      /\ output' = [output EXCEPT ![0] = @ \o rest]
  BY DEF CollectReceive, GoTo
<1>2. OwnerInv'
  BY RanksFinite, OutsideKeeps DEF ImageInv
<1>3. DOMAIN pc = Ranks /\ DOMAIN queue = Ranks /\ DOMAIN output = Ranks
  BY DEF ImageInv, OwnerInv, Shapes, Known
<1>4. /\ AllRendered' = AllRendered /\ PixelRange' = PixelRange
      /\ \A s \in Ranks : Block(s)' = Block(s)
  BY <1>1, SameBlocks
<1>5. pc'[0] = "done" /\ \A s \in Ranks : s # 0 => pc'[s] = pc[s]
  BY <1>1, <1>3, RanksFinite
<1>6. Partitioned
  BY <1>1, RanksFinite, BlocksPartition DEF ImageInv, Exchanged
<1>7. 1 .. N - 1 = Ranks \ {0} /\ N - 1 \in Nat
  BY PartialAssumption DEF Ranks
<1>8. \A s \in 1 .. N - 1 : Shows(from(s), Block(s))
  <2> SUFFICES ASSUME NEW s \in 1 .. N - 1 PROVE Shows(from(s), Block(s))
    OBVIOUS
  <2> DEFINE m == CHOOSE m \in queue[0] : m.from = s
  <2>1. \E n \in queue[0] : n.from = s
    BY <1>1, <1>7
  <2>2. m \in queue[0] /\ m.from = s
    BY <2>1
  <2> HIDE DEF m
  <2>3. Shows(m.output, Block(s))
    BY <1>1, <2>2 DEF ImageInv, Gathered, Collected
  <2>4. QED
    BY <2>3 DEF m
<1>9. Shows(output[0] \o rest, AllRendered)
  <2> DEFINE o == [s \in 1 .. N - 1 |-> from(s)]
             S == [s \in 1 .. N - 1 |-> Block(s)]
  <2>1. /\ \A i \in 1 .. N - 1 : Shows(o[i], S[i])
        /\ \A i, j \in 1 .. N - 1 : i # j => OtherPixels(S[i], S[j])
        /\ \A i \in 1 .. N - 1 : OtherPixels(Block(0), S[i])
    BY <1>6, <1>7, <1>8, RanksFinite DEF Partitioned
  <2>2. [s \in 1 .. N - 1 |-> o[s]] = [s \in 1 .. N - 1 |-> from(s)]
    OBVIOUS
  <2>3. Block(0) \cup UpTo(S, N - 1) = AllRendered
    <3>1. UpTo(S, N - 1) = UNION {Block(s) : s \in 1 .. N - 1}
      BY DEF UpTo
    <3>2. Ranks = {0} \cup (1 .. N - 1)
      BY <1>7, RanksFinite
    <3>3. QED
      BY <1>6, <3>1, <3>2 DEF Partitioned
  <2> HIDE DEF o, S, from
  <2>4. Shows(rest, UpTo(S, N - 1))
    BY <1>7, <2>1, <2>2, FlattenShows
  <2>5. OtherPixels(Block(0), UpTo(S, N - 1))
    BY <2>1 DEF OtherPixels, UpTo
  <2>6. Shows(output[0], Block(0))
    BY <1>1, RanksFinite DEF ImageInv, Outputs
  <2> HIDE DEF rest
  <2>7. QED
    BY <2>3, <2>4, <2>5, <2>6, ShowsBoth
<1> HIDE DEF rest, from
<1>10. Known' /\ Held'
  BY <1>1, <1>3, <1>4 DEF ImageInv, Known, Held
<1>11. Spread' /\ Fits' /\ AllSent'
  BY <1>1, <1>4, <1>5 DEF ImageInv, Spread, Fits, Exchanged, AllSent
<1>12. Gathered'
  BY <1>5 DEF Gathered
<1>13. Outputs'
  <2>1. output'[0] = output[0] \o rest /\ \A s \in Ranks : s # 0 => output'[s] = output[s]
    BY <1>1, <1>3, RanksFinite
  <2>2. QED
    BY <1>4, <1>5, <1>9, <2>1 DEF ImageInv, Outputs
<1>14. QED
  BY <1>2, <1>10, <1>11, <1>12, <1>13 DEF ImageInv

LEMMA ImageNext ==
  ASSUME ImageInv, AllSeveral, [Next]_vars
  PROVE  ImageInv'
<1>1. CASE Merge
  BY <1>1, MergeImage
<1>2. ASSUME NEW r \in Ranks, Decompose(r) \/ Send(r) \/ Receive(r) PROVE ImageInv'
  BY <1>2, ExchangeImage
<1>3. ASSUME NEW r \in Ranks, Composite(r) PROVE ImageInv'
  BY <1>3, CompositeImage
<1>4. ASSUME NEW r \in Ranks, CollectSend(r) PROVE ImageInv'
  BY <1>4, CollectSendImage
<1>5. CASE CollectReceive
  BY <1>5, CollectReceiveImage
<1>6. CASE UNCHANGED vars
  <2>1. OwnerInv'
    BY OwnerNext DEF ImageInv
  <2>2. /\ AllRendered' = AllRendered /\ PixelRange' = PixelRange
        /\ \A s \in Ranks : Block(s)' = Block(s)
    BY <1>6, SameBlocks DEF vars
  <2>3. Known' /\ Held' /\ Spread' /\ Fits' /\ AllSent'
    BY <1>6, <2>2 DEF vars, ImageInv, Known, Held, Spread, Fits, AllSent
  <2>4. Outputs'
    BY <1>6, <2>2 DEF vars, ImageInv, Outputs
  <2>5. \A m : Collected(m) => Collected(m)'
    BY <1>6, <2>2 DEF vars, Collected
  <2>6. Gathered'
    BY <1>6, <2>5 DEF vars, ImageInv, Gathered
  <2>7. QED
    BY <2>1, <2>3, <2>4, <2>6 DEF ImageInv
<1>7. QED
  BY <1>1, <1>2, <1>3, <1>4, <1>5, <1>6 DEF Next, Terminating

LEMMA ImageInvariant == AllSeveral /\ Spec => []ImageInv
<1> SUFFICES ASSUME AllSeveral PROVE Spec => []ImageInv
  OBVIOUS
<1>1. ImageInv /\ [Next]_vars => ImageInv'
  BY ImageNext
<1>2. QED
  BY <1>1, ImageInit, PTL DEF Spec

LEMMA ShownParts ==
  ASSUME NEW out, NEW S, IsFiniteSet(S), Shows(out, S)
  PROVE  /\ DOMAIN out = 1 .. Len(out)
         /\ \A i \in DOMAIN out : out[i].parts \in Seq(S)
<1>1. DOMAIN out = 1 .. Len(out)
  BY DEF Shows
<1>2. ASSUME NEW i \in DOMAIN out PROVE out[i].parts \in Seq(S)
  <2> DEFINE T == OfPixel(S, out[i].pixel)
             n == Cardinality(T)
  <2>1. T \in SUBSET S
    BY DEF OfPixel
  <2>2. IsFiniteSet(T)
    BY <2>1, FS_Subset
  <2>3. n \in Nat
    BY <2>2, FS_CardinalityType
  <2>4. out[i].parts \in [1 .. n -> T]
    BY <1>1, <1>2 DEF Shows, Sortings
  <2> HIDE DEF T, n
  <2>5. out[i].parts \in [1 .. n -> S]
    BY <2>1, <2>4
  <2>6. QED
    BY <2>3, <2>5
<1>3. QED
  BY <1>1, <1>2

LEMMA ImageType == ImageInv => TypeOK
<1> SUFFICES ASSUME ImageInv PROVE TypeOK
  OBVIOUS
<1>1. pc \in [Ranks -> Labels]
  BY DEF ImageInv, OwnerInv, Shapes
<1>2. IsFiniteSet(AllRendered)
  BY RenderedTypes DEF ImageInv, Known
<1>3. ASSUME NEW r \in Ranks, NEW i \in DOMAIN output[r]
      PROVE  output[r][i].parts \in Seq(AllRendered)
  <2>1. CASE output[r] = <<>>
    BY <1>3, <2>1
  <2>2. CASE Shows(output[r], AllRendered)
    BY <1>2, <1>3, <2>2, ShownParts
  <2>3. CASE pc[r] = "collect" /\ Shows(output[r], Block(r))
    <3>1. Partitioned
      BY <2>3, BlocksPartition DEF ImageInv, Exchanged
    <3>2. IsFiniteSet(Block(r)) /\ Block(r) \subseteq AllRendered
      BY <3>1 DEF Partitioned
    <3>3. output[r][i].parts \in Seq(Block(r))
      BY <1>3, <2>3, <3>2, ShownParts
    <3>4. QED
      BY <3>2, <3>3, SeqMonotonic
  <2>4. QED
    BY <2>1, <2>2, <2>3 DEF ImageInv, Outputs
<1>4. QED
  BY <1>1, <1>3 DEF ImageInv, Held, TypeOK, Labels

LEMMA ImageImplies == ImageInv => ImageComplete
<1> SUFFICES ASSUME ImageInv, pc[0] = "done" PROVE ImageComplete
  BY DEF ImageComplete
<1> DEFINE out == output[0]
<1>1. Shows(out, AllRendered)
  BY RanksFinite DEF ImageInv, Outputs
<1>2. IsFiniteSet(AllRendered)
  BY RenderedTypes DEF ImageInv, Known
<1> HIDE DEF out
<1>3. DOMAIN out = 1 .. Len(out)
  BY <1>1, <1>2, ShownParts
<1>4. \A i, j \in DOMAIN out : out[i].pixel = out[j].pixel => i = j
  BY <1>1, <1>3 DEF Shows
<1>5. {out[i].pixel : i \in DOMAIN out} = {p.pixel : p \in AllRendered}
  <2>1. /\ \A p \in AllRendered : \E i \in DOMAIN out : out[i].pixel = p.pixel
        /\ \A i \in DOMAIN out : \E p \in AllRendered : out[i].pixel = p.pixel
    BY <1>1, <1>3 DEF Shows
  <2>2. QED
    BY <2>1
<1>6. \A i \in DOMAIN out : out[i].parts \in Sortings(PixelParts(out[i].pixel))
  BY <1>1, <1>3 DEF Shows, OfPixel, PixelParts
<1>7. QED
  BY <1>4, <1>5, <1>6 DEF ImageComplete, out

(* The ranks hold, send, blend and collect partials that were rendered and *)
(* nothing from outside their arrays, if none has just one to blend        *)
(* (PartialCompositor.cpp:355-487).                                        *)
THEOREM TypeCorrect == AllSeveral /\ Spec => []TypeOK
BY ImageInvariant, ImageType, PTL

(* Rank 0 ends with every pixel some rank rendered, once, and with all the *)
(* partials of that pixel from front to back, for any number of ranks, any *)
(* partials and any split of them, if no rank has just one to blend        *)
(* (PartialCompositor.cpp:331-542).                                        *)
THEOREM ImageIsComplete == AllSeveral /\ Spec => []ImageComplete
BY ImageInvariant, ImageImplies, PTL
=============================================================================
