------------------------- MODULE VolumeUpdateProofs -------------------------
(***************************************************************************)
(* Theorems about VolumeUpdate, for any number of ranks, domains, renders  *)
(* and any fields: type correctness, that all ranks which leave            *)
(* GetGlobalRange use the range of the field over all domains, and that    *)
(* matching collectives cannot leave the ranks waiting for each other.     *)
(*                                                                         *)
(* On data the ranks do not decide differently about (Uniform) all ranks   *)
(* make the same collectives, nobody is left waiting, and the orders they  *)
(* blend by number the domains from front to back.  The argument: there is *)
(* one sequence of places, a place being a call and the iteration of the   *)
(* loop it is made in, that depends on the data set alone, and every rank  *)
(* goes through that sequence.                                             *)
(***************************************************************************)
EXTENDS VolumeUpdate, ListLemmas

-----------------------------------------------------------------------------
(* What remains of the numbers of components once a conflict has thrown.   *)
LEMMA OneKind ==
  ASSUME NEW K, K \subseteq Nat, IsFiniteSet(K), ~(Cardinality(K) > 1)
  PROVE  \/ K = {} /\ MaxOver(K, 0) = 0
         \/ \E k \in Nat : K = {k} /\ MaxOver(K, 0) = k
<1>1. Cardinality(K) \in Nat
  BY FS_CardinalityType
<1>2. CASE Cardinality(K) = 0
  <2>1. K = {}
    BY <1>2, FS_EmptySet
  <2>2. Max({0}) = 0
    BY MaxIs
  <2>3. K \cup {0} = {0}
    BY <2>1
  <2>4. QED
    BY <2>1, <2>2, <2>3 DEF MaxOver
<1>3. CASE Cardinality(K) = 1
  <2>1. PICK k : K = {k}
    BY <1>3, FS_Singleton
  <2>2. k \in Nat
    BY <2>1
  <2>3. Max({k, 0}) = k
    BY <2>2, MaxIs
  <2>4. K \cup {0} = {k, 0}
    BY <2>1
  <2>5. QED
    BY <2>1, <2>2, <2>3, <2>4 DEF MaxOver
<1>4. QED
  BY <1>1, <1>2, <1>3

-----------------------------------------------------------------------------
(* The field, on one rank and on all.                                      *)

Values == -Inf .. Inf

Domain == [cells : BOOLEAN, structured : BOOLEAN, comps : Nat,
           min : Values, max : Values, depth : Int, pixels : SUBSET (0 .. Inf)]

Distributed == domains \in [Ranks -> Seq(Domain)]

GlobalMin == Min({d.min : d \in AllWithField})
GlobalMax == Max({d.max : d \in AllWithField})

(* The number of components of the field on rank r. *)
Kinds(r) == {d.comps : d \in WithField(r)}
LocalComps(r) == MaxOver(Kinds(r), 0)

LEMMA InfType == Inf \in Nat \ {0} /\ Values \subseteq Int /\ Inf \in Values /\ -Inf \in Values
BY UpdateAssumption DEF Values

LEMMA FieldTypes ==
  ASSUME Distributed, NEW r \in Ranks
  PROVE  WithField(r) \subseteq Domain /\ IsFiniteSet(WithField(r))
<1>1. domains[r] \in Seq(Domain)
  BY DEF Distributed
<1>2. Len(domains[r]) \in Nat /\ DOMAIN domains[r] = 1 .. Len(domains[r])
  BY <1>1, LenProperties
<1>3. IsFiniteSet(DOMAIN domains[r])
  BY <1>2, FS_Interval
<1>4. IsFiniteSet(Doms(r))
  BY <1>3, FunctionImageFinite DEF Doms
<1>5. Doms(r) \subseteq Domain
  BY <1>1, <1>2, ElementOfSeq DEF Doms
<1>6. QED
  BY <1>4, <1>5, FS_Subset DEF WithField

LEMMA KindsType ==
  ASSUME Distributed, NEW r \in Ranks
  PROVE  Kinds(r) \subseteq Nat /\ IsFiniteSet(Kinds(r))
<1>1. WithField(r) \subseteq Domain /\ IsFiniteSet(WithField(r))
  BY FieldTypes
<1> DEFINE f == [d \in WithField(r) |-> d.comps]
<1>2. IsFiniteSet({f[d] : d \in WithField(r)})
  BY <1>1, FunctionImageFinite
<1>3. {f[d] : d \in WithField(r)} = Kinds(r)
  BY DEF Kinds
<1>4. QED
  BY <1>1, <1>2, <1>3 DEF Kinds, Domain

LEMMA CompsFromField ==
  ASSUME NEW r \in Ranks, LocalComps(r) # 0
  PROVE  WithField(r) # {}
<1>1. SUFFICES ASSUME WithField(r) = {} PROVE FALSE
  OBVIOUS
<1>2. Kinds(r) \cup {0} = {0}
  BY <1>1 DEF Kinds
<1>3. Max({0}) = 0
  BY MaxIs
<1>4. QED
  BY <1>2, <1>3 DEF LocalComps, MaxOver

LEMMA LocalRange ==
  ASSUME Distributed, NEW r \in Ranks
  PROVE  /\ RangeMin(r) \in {d.min : d \in WithField(r)} \cup {Inf}
         /\ \A d \in WithField(r) : RangeMin(r) <= d.min
         /\ RangeMax(r) \in {d.max : d \in WithField(r)} \cup {-Inf}
         /\ \A d \in WithField(r) : d.max <= RangeMax(r)
<1> DEFINE A == {d.min : d \in WithField(r)} \cup {Inf}
           B == {d.max : d \in WithField(r)} \cup {-Inf}
<1>1. \A d \in WithField(r) : d.min \in Values /\ d.max \in Values
  BY FieldTypes DEF Domain
<1>2. A \subseteq Values /\ B \subseteq Values /\ A # {} /\ B # {}
  BY <1>1, InfType
<1>3. /\ A \subseteq Int /\ \A x \in A : -Inf <= x
      /\ B \subseteq Int /\ \A x \in B : x <= Inf
  BY <1>2, InfType DEF Values
<1> HIDE DEF A, B
<1>4. Min(A) \in A /\ \A x \in A : Min(A) <= x
  BY <1>2, <1>3, InfType, MinBounded
<1>5. Max(B) \in B /\ \A x \in B : x <= Max(B)
  BY <1>2, <1>3, InfType, MaxBounded
<1>6. QED
  BY <1>4, <1>5 DEF A, B, RangeMin, RangeMax, MinOver, MaxOver

(* The reduction over the ranks is the range over all domains: a rank      *)
(* without the field contributes an end that is no smaller, or no greater, *)
(* than any value.                                                         *)
LEMMA ReducedRange ==
  ASSUME Distributed, AllWithField # {}
  PROVE  /\ Min({RangeMin(s) : s \in Ranks}) = GlobalMin
         /\ Max({RangeMax(s) : s \in Ranks}) = GlobalMax
         /\ GlobalMin \in Values /\ GlobalMax \in Values
<1> DEFINE A == {d.min : d \in AllWithField}
           B == {RangeMin(s) : s \in Ranks}
           C == {d.max : d \in AllWithField}
           D == {RangeMax(s) : s \in Ranks}
<1>1. \A d \in AllWithField : d.min \in Values /\ d.max \in Values
  BY FieldTypes DEF Domain, AllWithField
<1>2. A \subseteq Values /\ A # {} /\ C \subseteq Values /\ C # {}
  BY <1>1
<1>3. \A s \in Ranks :
        /\ RangeMin(s) \in A \cup {Inf} /\ RangeMax(s) \in C \cup {-Inf}
        /\ \A d \in WithField(s) : RangeMin(s) <= d.min /\ d.max <= RangeMax(s)
  BY LocalRange DEF AllWithField
<1>4. B \subseteq Values /\ D \subseteq Values
  BY <1>2, <1>3, InfType
<1>5. \A a \in A : \E b \in B : b <= a
  BY <1>3 DEF AllWithField
<1>6. \A c \in C : \E d \in D : c <= d
  BY <1>3 DEF AllWithField
<1>7. \A b \in B : b \in A \/ b = Inf
  BY <1>3
<1>8. \A d \in D : d \in C \/ d = -Inf
  BY <1>3
<1>9. GlobalMin = Min(A) /\ GlobalMax = Max(C)
  BY DEF GlobalMin, GlobalMax
<1> HIDE DEF A, B, C, D
<1>10. /\ A \subseteq Int /\ \A x \in A : -Inf <= x /\ x <= Inf
       /\ B \subseteq Int /\ \A x \in B : -Inf <= x
       /\ C \subseteq Int /\ \A x \in C : x <= Inf /\ -Inf <= x
       /\ D \subseteq Int /\ \A x \in D : x <= Inf
  BY <1>2, <1>4, InfType DEF Values
<1>11. Min(A) \in A /\ \A x \in A : Min(A) <= x
  BY <1>2, <1>10, InfType, MinBounded
<1>12. Max(C) \in C /\ \A x \in C : x <= Max(C)
  BY <1>2, <1>10, InfType, MaxBounded
<1>13. \A b \in B : Min(A) <= b
  BY <1>7, <1>10, <1>11
<1>14. \A d \in D : d <= Max(C)
  BY <1>8, <1>10, <1>12
<1>15. Min(A) \in B
  <2>1. PICK b \in B : b <= Min(A)
    BY <1>5, <1>11
  <2>2. b \in Int /\ Min(A) \in Int /\ Min(A) <= b
    BY <1>10, <1>11, <1>13
  <2>3. b = Min(A)
    BY <2>1, <2>2
  <2>4. QED
    BY <2>3
<1>16. Max(C) \in D
  <2>1. PICK d \in D : Max(C) <= d
    BY <1>6, <1>12
  <2>2. d \in Int /\ Max(C) \in Int /\ d <= Max(C)
    BY <1>10, <1>12, <1>14
  <2>3. d = Max(C)
    BY <2>1, <2>2
  <2>4. QED
    BY <2>3
<1>17. Min(B) = Min(A) /\ Max(D) = Max(C)
  BY <1>10, <1>13, <1>14, <1>15, <1>16, MinIs, MaxIs
<1>18. QED
  BY <1>2, <1>9, <1>11, <1>12, <1>17 DEF B, D

-----------------------------------------------------------------------------
(* The inductive invariant.                                                *)

(* The calls of a rank are a sequence (of whatever values). *)
CallsTypes ==
  /\ DOMAIN calls = Ranks
  /\ \A r \in Ranks : \E S : calls[r] \in Seq(S)

Types ==
  /\ Distributed
  /\ pc \in [Ranks -> Sites \cup Terminated \cup {"GetRange"}]
  /\ step \in [Ranks -> Nat \ {0}]
  /\ comps \in [Ranks -> Nat]
  /\ m_range \in [Ranks -> [min : Values, max : Values]]
  /\ inCall \in [Ranks -> BOOLEAN]
  /\ CallsTypes

(* A rank in a collective is in the one pc names. *)
InItsCall ==
  \A r \in Ranks : inCall[r] =>
    /\ pc[r] \in Sites
    /\ Len(calls[r]) # 0
    /\ calls[r][Len(calls[r])].site = pc[r]

PixelMin(r) == MinOver(Pixels(r), Inf)
PixelMax(r) == MaxOver(Pixels(r), -Inf)
Depths(r) == [i \in DOMAIN domains[r] |-> domains[r][i].depth]

(* What a rank has contributed it has taken from its own domains. *)
Honest(r, call) ==
  /\ call.site \in Sites
  /\ call.site = "components" => call.value = LocalComps(r) /\ call.value \in Nat
  /\ call.site = "min" => call.value = RangeMin(r)
  /\ call.site = "max" => call.value = RangeMax(r)
  /\ call.site = "exists" => call.value = FieldExists(r)
  /\ call.site = "one" => call.value = (Len(domains[r]) = 1)
  /\ call.site = "pixelMin" => call.value = PixelMin(r)
  /\ call.site = "pixelMax" => call.value = PixelMax(r)
  /\ call.site = "depths" => call.value = Depths(r)

Contributions == \A r \in Ranks : \A i \in 1 .. Len(calls[r]) : Honest(r, calls[r][i])

(* The parts of Update after GetGlobalRange. *)
Later == (Sites \ {"exists", "components", "min", "max"}) \cup {"done"}

UserMin == IF UserRange.min # Inf THEN UserRange.min ELSE GlobalMin
UserMax == IF UserRange.max # -Inf THEN UserRange.max ELSE GlobalMax

Given == UserRange.min <= UserRange.max

(* How far the range of a rank has come in each part of Update. *)
RangeOfRank(r) ==
  /\ pc[r] = "exists" => m_range[r] = UserRange
  /\ pc[r] \in {"GetRange", "components", "min"} => m_range[r] = UserRange /\ ~Given
  /\ pc[r] = "max" =>
       /\ ~Given
       /\ m_range[r].max = UserRange.max
       /\ m_range[r].min = IF comps[r] = 1 THEN UserMin ELSE UserRange.min
  /\ pc[r] = "components" => comps[r] = LocalComps(r)
  /\ pc[r] \in {"min", "max"} /\ comps[r] = 1 => AllWithField # {}
  /\ pc[r] \in Later =>
       IF Given THEN m_range[r] = UserRange
       ELSE m_range[r].min = UserMin /\ m_range[r].max = UserMax

RangeInv ==
  /\ Types
  /\ InItsCall
  /\ Contributions
  /\ \A r \in Ranks : RangeOfRank(r)

LEMMA RangeInit == Init => RangeInv
<1> SUFFICES ASSUME Init PROVE RangeInv
  OBVIOUS
<1>1. Distributed
  BY InputAssumption DEF Init, Distributed, Domain, Values
<1>2. CallsTypes /\ \A r \in Ranks : Len(calls[r]) = 0
  <2>1. calls = [r \in Ranks |-> <<>>]
    BY DEF Init, MPI!CollectivesInit
  <2>2. \A r \in Ranks : calls[r] \in Seq({}) /\ Len(calls[r]) = 0
    BY <2>1, EmptySeq
  <2>3. QED
    BY <2>1, <2>2 DEF CallsTypes
<1>3. inCall = [r \in Ranks |-> FALSE]
  BY DEF Init, MPI!CollectivesInit
<1>4. Types
  BY <1>1, <1>2, <1>3, UpdateAssumption DEF Init, Types, Sites, Values
<1>5. \A r \in Ranks : RangeOfRank(r)
  BY DEF Init, RangeOfRank, Later, Sites
<1>6. QED
  BY <1>2, <1>3, <1>4, <1>5 DEF RangeInv, InItsCall, Contributions

(* What the field is does not change. *)
LEMMA SameField ==
  ASSUME UNCHANGED domains
  PROVE  /\ AllWithField' = AllWithField
         /\ GlobalMin' = GlobalMin /\ GlobalMax' = GlobalMax
         /\ UserMin' = UserMin /\ UserMax' = UserMax
         /\ \A r \in Ranks : /\ LocalComps(r)' = LocalComps(r)
                             /\ RangeMin(r)' = RangeMin(r)
                             /\ RangeMax(r)' = RangeMax(r)
                             /\ FieldExists(r)' = FieldExists(r)
                             /\ PixelMin(r)' = PixelMin(r)
                             /\ PixelMax(r)' = PixelMax(r)
                             /\ Depths(r)' = Depths(r)
BY DEF AllWithField, GlobalMin, GlobalMax, UserMin, UserMax, LocalComps, Kinds,
       RangeMin, RangeMax, WithField, Doms, FieldExists, PixelMin, PixelMax,
       Pixels, Wrapped, Depths

(* A step that leaves the domains, the other ranks and what has been       *)
(* called, and takes rank r out of its call or leaves it outside.          *)
LEMMA RankStep ==
  ASSUME RangeInv, NEW r \in Ranks, UNCHANGED <<domains, calls>>,
         NEW l \in Sites \cup Terminated \cup {"GetRange"},
         pc' = [pc EXCEPT ![r] = l],
         NEW n \in Nat \ {0}, step' = [step EXCEPT ![r] = n],
         NEW c \in Nat, comps' = [comps EXCEPT ![r] = c],
         NEW m \in [min : Values, max : Values],
         m_range' = [m_range EXCEPT ![r] = m],
         inCall' = [inCall EXCEPT ![r] = FALSE],
         RangeOfRank(r)'
  PROVE  RangeInv'
<1>1. Types'
  BY DEF RangeInv, Types, Distributed, CallsTypes
<1>2. InItsCall'
  BY DEF RangeInv, Types, InItsCall
<1>3. Contributions'
  <2>1. \A s \in Ranks : \A call : Honest(s, call)' <=> Honest(s, call)
    BY SameField DEF Honest
  <2>2. QED
    BY <2>1 DEF RangeInv, Contributions
<1>4. \A s \in Ranks : RangeOfRank(s)'
  <2>1. SUFFICES ASSUME NEW s \in Ranks, s # r PROVE RangeOfRank(s)'
    OBVIOUS
  <2>2. pc'[s] = pc[s] /\ comps'[s] = comps[s] /\ m_range'[s] = m_range[s]
    BY <2>1 DEF RangeInv, Types
  <2>3. RangeOfRank(s)
    BY DEF RangeInv
  <2>4. QED
    BY <2>2, <2>3, SameField DEF RangeOfRank
<1>5. QED
  BY <1>1, <1>2, <1>3, <1>4 DEF RangeInv

(* Returning from a collective. *)
LEMMA Returned ==
  ASSUME RangeInv, NEW r \in Ranks, NEW site \in Sites, MPI!Return(r, site)
  PROVE  /\ pc[r] = site
         /\ inCall' = [inCall EXCEPT ![r] = FALSE]
         /\ UNCHANGED calls
BY DEF RangeInv, InItsCall, MPI!Return

(* Returning from one that waits for all: what the others contributed.     *)
LEMMA Heard ==
  ASSUME RangeInv, NEW r \in Ranks,
         NEW site \in {"components", "min", "max", "exists", "one", "pixelMax"},
         MPI!Return(r, site)
  PROVE  \A s \in Ranks :
           LET v == MPI!Contributed(r)[s]
           IN  /\ site = "components" => v = LocalComps(s) /\ v \in Nat
               /\ site = "min" => v = RangeMin(s)
               /\ site = "max" => v = RangeMax(s)
               /\ site = "exists" => v = FieldExists(s)
               /\ site = "one" => v = (Len(domains[s]) = 1)
               /\ site = "pixelMax" => v = PixelMax(s)
<1> DEFINE i == Len(calls[r])
<1>1. \A s \in Ranks : MPI!Joined(s, r)
  BY DEF MPI!Return, MPI!Awaited
<1>2. inCall[r] /\ calls[r][i].site = site
  BY DEF MPI!Return
<1>3. i # 0
  BY <1>2 DEF RangeInv, InItsCall
<1>4. \A s \in Ranks : Len(calls[s]) \in Nat
  BY LenProperties DEF RangeInv, Types, CallsTypes
<1>5. i \in Nat \ {0} /\ \A s \in Ranks : i <= Len(calls[s])
  BY <1>1, <1>3, <1>4 DEF MPI!Joined
<1>6. \A s \in Ranks : i \in 1 .. Len(calls[s])
  BY <1>4, <1>5
<1>7. \A s \in Ranks : Honest(s, calls[s][i])
  BY <1>6 DEF RangeInv, Contributions
<1>8. \A s \in Ranks : calls[s][i].site = site
  BY <1>1, <1>2 DEF MPI!Joined
<1>9. \A s \in Ranks : MPI!Contributed(r)[s] = calls[s][i].value
  BY <1>1 DEF MPI!Contributed
<1> HIDE DEF i
<1>10. QED
  BY <1>7, <1>8, <1>9 DEF Honest

-----------------------------------------------------------------------------
(* One lemma per step that has to do with the range.                       *)

LEMMA CallKeeps ==
  ASSUME RangeInv, NEW r \in Ranks, Call(r)
  PROVE  RangeInv'
<1> DEFINE call == [site |-> pc[r], value |-> Contribution(r)]
<1>1. /\ pc[r] \in Sites
      /\ ~inCall[r]
      /\ calls' = [calls EXCEPT ![r] = Append(calls[r], call)]
      /\ inCall' = [inCall EXCEPT ![r] = TRUE]
      /\ UNCHANGED <<domains, pc, step, comps, m_range>>
  BY DEF Call, MPI!Enter
<1>2. Honest(r, call)
  <2>1. pc[r] = "components" => Contribution(r) = comps[r]
    BY DEF Contribution
  <2>2. pc[r] = "min" => Contribution(r) = RangeMin(r)
    BY DEF Contribution
  <2>3. pc[r] = "max" => Contribution(r) = RangeMax(r)
    BY DEF Contribution
  <2>4. pc[r] = "components" => comps[r] = LocalComps(r) /\ comps[r] \in Nat
    BY DEF RangeInv, Types, RangeOfRank
  <2>5. pc[r] = "exists" => Contribution(r) = FieldExists(r)
    BY DEF Contribution
  <2>6. pc[r] = "one" => Contribution(r) = (Len(domains[r]) = 1)
    BY DEF Contribution
  <2>7. /\ pc[r] = "pixelMin" => Contribution(r) = PixelMin(r)
        /\ pc[r] = "pixelMax" => Contribution(r) = PixelMax(r)
    BY DEF Contribution, PixelMin, PixelMax
  <2>8. pc[r] = "depths" => Contribution(r) = Depths(r)
    BY DEF Contribution, Depths
  <2>9. QED
    BY <1>1, <2>1, <2>2, <2>3, <2>4, <2>5, <2>6, <2>7, <2>8 DEF Honest
<1>3. call.site = pc[r]
  OBVIOUS
<1> HIDE DEF call
<1>4. DOMAIN calls = Ranks /\ \E S : calls[r] \in Seq(S)
  BY DEF RangeInv, Types, CallsTypes
<1>5. calls'[r] = Append(calls[r], call) /\ \A s \in Ranks \ {r} : calls'[s] = calls[s]
  BY <1>1, <1>4
<1>6. /\ \E S : calls'[r] \in Seq(S)
      /\ Len(calls[r]) \in Nat /\ Len(calls'[r]) = Len(calls[r]) + 1
      /\ \A i \in 1 .. Len(calls[r]) : calls'[r][i] = calls[r][i]
      /\ calls'[r][Len(calls[r]) + 1] = call
  <2> DEFINE old == calls[r]
  <2>1. \E S : old \in Seq(S)
    BY <1>4
  <2> HIDE DEF old
  <2>2. \E S : Append(old, call) \in Seq(S)
    BY <2>1, AppendAny
  <2>3. Len(old) \in Nat /\ Len(Append(old, call)) = Len(old) + 1
    BY <2>1, AppendAny
  <2>4. \A i \in 1 .. Len(old) : Append(old, call)[i] = old[i]
    BY <2>1, AppendAny
  <2>5. Append(old, call)[Len(old) + 1] = call
    BY <2>1, AppendAny
  <2>6. QED
    BY <1>5, <2>2, <2>3, <2>4, <2>5 DEF old
<1>7. Types'
  <2>1. DOMAIN calls' = Ranks
    BY <1>1, <1>4
  <2>2. \A s \in Ranks : \E S : calls'[s] \in Seq(S)
    BY <1>5, <1>6 DEF RangeInv, Types, CallsTypes
  <2>3. QED
    BY <1>1, <2>1, <2>2 DEF RangeInv, Types, Distributed, CallsTypes
<1>8. InItsCall'
  <2>1. SUFFICES ASSUME NEW s \in Ranks, inCall'[s]
                 PROVE  /\ pc[s] \in Sites
                        /\ Len(calls'[s]) # 0
                        /\ calls'[s][Len(calls'[s])].site = pc[s]
    BY <1>1 DEF InItsCall
  <2>2. CASE s = r
    BY <1>1, <1>3, <1>6, <2>2
  <2>3. CASE s # r
    BY <1>1, <1>5, <2>1, <2>3 DEF RangeInv, Types, InItsCall
  <2>4. QED
    BY <2>2, <2>3
<1>9. Contributions'
  <2>1. \A s \in Ranks : \A e : Honest(s, e)' <=> Honest(s, e)
    BY <1>1, SameField DEF Honest
  <2>2. SUFFICES ASSUME NEW s \in Ranks, NEW i \in 1 .. Len(calls'[s])
                 PROVE  Honest(s, calls'[s][i])
    BY <2>1 DEF Contributions
  <2>3. CASE s # r
    BY <1>5, <2>3 DEF RangeInv, Contributions
  <2>4. CASE s = r /\ i \in 1 .. Len(calls[r])
    BY <1>6, <2>4 DEF RangeInv, Contributions
  <2>5. CASE s = r /\ i = Len(calls[r]) + 1
    BY <1>2, <1>6, <2>5
  <2>6. QED
    BY <1>6, <2>3, <2>4, <2>5
<1>10. \A s \in Ranks : RangeOfRank(s)'
  BY <1>1, SameField DEF RangeInv, RangeOfRank
<1>11. QED
  BY <1>7, <1>8, <1>9, <1>10 DEF RangeInv

LEMMA CheckKeeps ==
  ASSUME RangeInv, NEW r \in Ranks, CheckForRequiredField(r), UNCHANGED domains
  PROVE  RangeInv'
<1>1. pc[r] = "exists" /\ inCall' = [inCall EXCEPT ![r] = FALSE] /\ UNCHANGED calls
  BY Returned DEF CheckForRequiredField, Sites
<1>2. PICK l \in {"error", "bounds", "GetRange"} :
        /\ pc' = [pc EXCEPT ![r] = l]
        /\ step' = [step EXCEPT ![r] = 1]
        /\ l = "bounds" => Given
        /\ l = "GetRange" => ~Given
  <2>1. m_range[r] = UserRange
    BY <1>1 DEF RangeInv, RangeOfRank
  <2>2. QED
    BY <2>1 DEF CheckForRequiredField, Throw, GoToLoop, GoTo, SetStep, Given
<1>3. comps' = [comps EXCEPT ![r] = comps[r]] /\ comps[r] \in Nat
  BY DEF CheckForRequiredField, RangeInv, Types
<1>4. /\ m_range' = [m_range EXCEPT ![r] = m_range[r]]
      /\ m_range[r] \in [min : Values, max : Values]
  BY DEF CheckForRequiredField, RangeInv, Types
<1>5. RangeOfRank(r)'
  <2>1. pc'[r] = l /\ m_range'[r] = UserRange
    BY <1>1, <1>2, <1>4 DEF RangeInv, Types, RangeOfRank
  <2>2. QED
    BY <1>2, <2>1 DEF RangeOfRank, Later, Sites, Terminated
<1>6. QED
  <2>1. {"exists", "GetRange", "components", "min", "max", "bounds", "error"}
          \subseteq Sites \cup Terminated \cup {"GetRange"}
    BY DEF Sites, Terminated
  <2>2. 1 \in Nat \ {0}
    OBVIOUS
  <2>3. QED
    BY <2>2, <1>1, <1>2, <1>3, <1>4, <1>5, <2>1, RankStep

LEMMA GetRangeKeeps ==
  ASSUME RangeInv, NEW r \in Ranks, GetRange(r), UNCHANGED domains
  PROVE  RangeInv'
<1>1. /\ pc[r] = "GetRange"
      /\ UNCHANGED <<m_range, calls, inCall>>
  BY DEF GetRange
<1>2. inCall' = [inCall EXCEPT ![r] = FALSE]
  BY <1>1 DEF RangeInv, Types, InItsCall, Sites
<1>3. /\ m_range' = [m_range EXCEPT ![r] = m_range[r]]
      /\ m_range[r] \in [min : Values, max : Values]
      /\ m_range[r] = UserRange /\ ~Given
  BY <1>1 DEF RangeInv, Types, RangeOfRank
<1>4. PICK l \in {"error", "components"}, c \in Nat :
        /\ pc' = [pc EXCEPT ![r] = l]
        /\ step' = [step EXCEPT ![r] = 1]
        /\ comps' = [comps EXCEPT ![r] = c]
        /\ l = "components" => c = LocalComps(r)
  <2>1. CASE Cardinality(Kinds(r)) > 1
    <3>1. comps' = [comps EXCEPT ![r] = comps[r]] /\ comps[r] \in Nat
      BY <2>1 DEF GetRange, Kinds, RangeInv, Types
    <3>2. QED
      BY <2>1, <3>1 DEF GetRange, Kinds, Throw, GoToLoop, GoTo, SetStep
  <2>2. CASE ~(Cardinality(Kinds(r)) > 1)
    <3>1. LocalComps(r) \in Nat
      BY <2>2, KindsType, OneKind DEF RangeInv, Types, LocalComps
    <3>2. QED
      BY <2>2, <3>1 DEF GetRange, Kinds, LocalComps, GoToLoop, GoTo, SetStep
  <2>3. QED
    BY <2>1, <2>2
<1>5. RangeOfRank(r)'
  <2>1. pc'[r] = l /\ comps'[r] = c /\ m_range'[r] = UserRange
    BY <1>3, <1>4 DEF RangeInv, Types
  <2>2. QED
    BY <1>3, <1>4, <2>1, SameField DEF RangeOfRank, Later, Sites, Terminated
<1>6. QED
  <2>1. {"exists", "GetRange", "components", "min", "max", "bounds", "error"}
          \subseteq Sites \cup Terminated \cup {"GetRange"}
    BY DEF Sites, Terminated
  <2>2. 1 \in Nat \ {0}
    OBVIOUS
  <2>3. QED
    BY <2>2, <1>1, <1>2, <1>3, <1>4, <1>5, <2>1, RankStep

LEMMA AllgatherKeeps ==
  ASSUME RangeInv, NEW r \in Ranks, AllgatherComponents(r), UNCHANGED domains
  PROVE  RangeInv'
<1> DEFINE kinds == {MPI!Contributed(r)[s] : s \in Ranks} \ {0}
<1>1. /\ pc[r] = "components" /\ inCall' = [inCall EXCEPT ![r] = FALSE]
      /\ UNCHANGED <<calls, m_range>>
  BY Returned DEF AllgatherComponents, Sites
<1>2. /\ m_range' = [m_range EXCEPT ![r] = m_range[r]]
      /\ m_range[r] \in [min : Values, max : Values]
      /\ m_range[r] = UserRange /\ ~Given
  BY <1>1 DEF RangeInv, Types, RangeOfRank
<1>3. \A s \in Ranks :
        MPI!Contributed(r)[s] = LocalComps(s) /\ MPI!Contributed(r)[s] \in Nat
  BY Heard DEF AllgatherComponents
<1>4. kinds \subseteq Nat /\ IsFiniteSet(kinds)
  <2> DEFINE f == [s \in Ranks |-> MPI!Contributed(r)[s]]
  <2>1. IsFiniteSet({f[s] : s \in Ranks})
    BY UpdateAssumption, FunctionImageFinite
  <2>2. kinds \subseteq {f[s] : s \in Ranks}
    OBVIOUS
  <2>3. IsFiniteSet(kinds)
    <3> HIDE DEF f, kinds
    <3> QED BY <2>1, <2>2, FS_Subset
  <2>4. QED
    BY <1>3, <2>3
<1>5. 1 \in kinds => AllWithField # {}
  <2> SUFFICES ASSUME 1 \in kinds PROVE AllWithField # {}
    OBVIOUS
  <2>1. PICK s \in Ranks : LocalComps(s) = 1
    BY <1>3
  <2>2. WithField(s) # {}
    BY <2>1, CompsFromField
  <2>3. QED
    BY <2>2 DEF AllWithField
<1>6. PICK l \in {"error", "min"}, c \in Nat :
        /\ pc' = [pc EXCEPT ![r] = l]
        /\ step' = [step EXCEPT ![r] = 1]
        /\ comps' = [comps EXCEPT ![r] = c]
        /\ l = "min" /\ c = 1 => AllWithField # {}
  <2>1. CASE Cardinality(kinds) > 1
    <3>1. comps' = [comps EXCEPT ![r] = comps[r]] /\ comps[r] \in Nat
      BY <2>1 DEF AllgatherComponents, RangeInv, Types
    <3>2. QED
      BY <2>1, <3>1 DEF AllgatherComponents, Throw, GoToLoop, GoTo, SetStep
  <2>2. CASE ~(Cardinality(kinds) > 1)
    <3>1. /\ pc' = [pc EXCEPT ![r] = "min"]
          /\ step' = [step EXCEPT ![r] = 1]
          /\ comps' = [comps EXCEPT ![r] = MaxOver(kinds, 0)]
      BY <2>2 DEF AllgatherComponents, GoToLoop, GoTo, SetStep
    <3> HIDE DEF kinds
    <3>2. \/ kinds = {} /\ MaxOver(kinds, 0) = 0
          \/ \E k \in Nat : kinds = {k} /\ MaxOver(kinds, 0) = k
      BY <1>4, <2>2, OneKind
    <3>3. MaxOver(kinds, 0) \in Nat /\ (MaxOver(kinds, 0) = 1 => 1 \in kinds)
      BY <3>2
    <3>4. QED
      BY <1>5, <3>1, <3>3
  <2>3. QED
    BY <2>1, <2>2
<1> HIDE DEF kinds
<1>7. RangeOfRank(r)'
  <2>1. pc'[r] = l /\ comps'[r] = c /\ m_range'[r] = UserRange
    BY <1>2, <1>6 DEF RangeInv, Types
  <2>2. QED
    BY <1>2, <1>6, <2>1, SameField DEF RangeOfRank, Later, Sites, Terminated
<1>8. QED
  <2>1. {"exists", "GetRange", "components", "min", "max", "bounds", "error"}
          \subseteq Sites \cup Terminated \cup {"GetRange"}
    BY DEF Sites, Terminated
  <2>2. 1 \in Nat \ {0}
    OBVIOUS
  <2>3. QED
    BY <2>2, <1>1, <1>2, <1>6, <1>7, <2>1, RankStep

LEMMA ReduceMinKeeps ==
  ASSUME RangeInv, NEW r \in Ranks, ReduceMin(r), UNCHANGED domains
  PROVE  RangeInv'
<1>1. /\ pc[r] = "min" /\ inCall' = [inCall EXCEPT ![r] = FALSE]
      /\ UNCHANGED <<calls, step, comps>> /\ pc' = [pc EXCEPT ![r] = "max"]
  BY Returned DEF ReduceMin, Sites, GoTo
<1>2. /\ step' = [step EXCEPT ![r] = step[r]] /\ step[r] \in Nat \ {0}
      /\ comps' = [comps EXCEPT ![r] = comps[r]] /\ comps[r] \in Nat
  BY <1>1 DEF RangeInv, Types
<1>3. /\ m_range[r] \in [min : Values, max : Values]
      /\ m_range[r] = UserRange /\ ~Given
      /\ comps[r] = 1 => AllWithField # {}
  BY <1>1 DEF RangeInv, Types, RangeOfRank
<1>4. {MPI!Contributed(r)[s] : s \in Ranks} = {RangeMin(s) : s \in Ranks}
  <2>1. \A s \in Ranks : MPI!Contributed(r)[s] = RangeMin(s)
    BY Heard DEF ReduceMin
  <2>2. QED
    BY <2>1
<1> DEFINE v == IF comps[r] = 1 THEN UserMin ELSE UserRange.min
           m == [min |-> v, max |-> UserRange.max]
<1>5. m_range' = [m_range EXCEPT ![r].min =
                    IF comps[r] = 1 /\ @ = Inf
                    THEN Min({RangeMin(s) : s \in Ranks}) ELSE @]
  BY <1>4 DEF ReduceMin
<1>6. comps[r] = 1 => Min({RangeMin(s) : s \in Ranks}) = GlobalMin /\ GlobalMin \in Values
  BY <1>3, ReducedRange DEF RangeInv, Types
<1>7. m_range' = [m_range EXCEPT ![r] = m] /\ m \in [min : Values, max : Values]
  <2>1. v \in Values /\ UserRange.max \in Values /\ UserRange.min = m_range[r].min
    BY <1>3, <1>6 DEF UserMin
  <2>2. v = IF comps[r] = 1 /\ m_range[r].min = Inf
            THEN Min({RangeMin(s) : s \in Ranks}) ELSE m_range[r].min
    BY <1>6, <2>1 DEF UserMin
  <2>3. m = [m_range[r] EXCEPT !.min = v]
    BY <1>3
  <2> HIDE DEF v
  <2>4. QED
    BY <1>5, <2>1, <2>2, <2>3
<1>8. RangeOfRank(r)'
  <2>1. pc'[r] = "max" /\ comps'[r] = comps[r] /\ m_range'[r] = m
    BY <1>1, <1>7 DEF RangeInv, Types
  <2>2. QED
    BY <1>3, <2>1, SameField DEF RangeOfRank, Later, Sites, Terminated
<1> HIDE DEF m
<1>9. QED
  <2>1. {"exists", "GetRange", "components", "min", "max", "bounds", "error"}
          \subseteq Sites \cup Terminated \cup {"GetRange"}
    BY DEF Sites, Terminated
  <2>2. QED
    BY <1>1, <1>2, <1>7, <1>8, <2>1, RankStep

LEMMA ReduceMaxKeeps ==
  ASSUME RangeInv, NEW r \in Ranks, ReduceMax(r), UNCHANGED domains
  PROVE  RangeInv'
<1>1. /\ pc[r] = "max" /\ inCall' = [inCall EXCEPT ![r] = FALSE]
      /\ UNCHANGED <<calls, comps>>
  BY Returned DEF ReduceMax, Sites
<1>2. comps' = [comps EXCEPT ![r] = comps[r]] /\ comps[r] \in Nat
  BY <1>1 DEF RangeInv, Types
<1>3. /\ m_range[r] \in [min : Values, max : Values]
      /\ ~Given
      /\ m_range[r].max = UserRange.max
      /\ m_range[r].min = IF comps[r] = 1 THEN UserMin ELSE UserRange.min
      /\ comps[r] = 1 => AllWithField # {}
  BY <1>1 DEF RangeInv, Types, RangeOfRank
<1>4. {MPI!Contributed(r)[s] : s \in Ranks} = {RangeMax(s) : s \in Ranks}
  <2>1. \A s \in Ranks : MPI!Contributed(r)[s] = RangeMax(s)
    BY Heard DEF ReduceMax
  <2>2. QED
    BY <2>1
<1> DEFINE v == IF comps[r] = 1 THEN UserMax ELSE UserRange.max
           m == [min |-> m_range[r].min, max |-> v]
<1>5. m_range' = [m_range EXCEPT ![r].max =
                    IF comps[r] = 1 /\ @ = -Inf
                    THEN Max({RangeMax(s) : s \in Ranks}) ELSE @]
  BY <1>4 DEF ReduceMax
<1>6. comps[r] = 1 => Max({RangeMax(s) : s \in Ranks}) = GlobalMax /\ GlobalMax \in Values
  BY <1>3, ReducedRange DEF RangeInv, Types
<1>7. m_range' = [m_range EXCEPT ![r] = m] /\ m \in [min : Values, max : Values]
  <2>1. v \in Values /\ m_range[r].min \in Values
    BY <1>3, <1>6, UpdateAssumption DEF UserMax, Values
  <2>2. v = IF comps[r] = 1 /\ m_range[r].max = -Inf
            THEN Max({RangeMax(s) : s \in Ranks}) ELSE m_range[r].max
    BY <1>3, <1>6 DEF UserMax
  <2>3. m = [m_range[r] EXCEPT !.max = v]
    BY <1>3
  <2> HIDE DEF v
  <2>4. QED
    BY <1>5, <2>1, <2>2, <2>3
<1>8. PICK l \in {"min", "bounds", "error"}, n \in Nat \ {0} :
        /\ pc' = [pc EXCEPT ![r] = l]
        /\ step' = [step EXCEPT ![r] = n]
        /\ l = "bounds" => comps[r] = 1
        /\ l = "min" => comps[r] # 1
  <2>1. step[r] \in Nat \ {0}
    BY DEF RangeInv, Types
  <2>2. CASE step[r] < comps[r]
    <3>1. comps[r] # 1 /\ step[r] + 1 \in Nat \ {0}
      BY <1>2, <2>1, <2>2
    <3>2. pc' = [pc EXCEPT ![r] = "min"] /\ step' = [step EXCEPT ![r] = step[r] + 1]
      BY <2>2 DEF ReduceMax, Again, GoTo, SetStep
    <3>3. QED
      BY <3>1, <3>2
  <2>3. CASE ~(step[r] < comps[r])
    BY <2>3 DEF ReduceMax, Again, GoToLoop, GoTo, SetStep
  <2>4. QED
    BY <2>2, <2>3
<1>9. RangeOfRank(r)'
  <2>1. pc'[r] = l /\ comps'[r] = comps[r] /\ m_range'[r] = m
    BY <1>1, <1>7, <1>8 DEF RangeInv, Types
  <2>2. l = "min" => m = UserRange
    <3>1. UserRange = [min |-> UserRange.min, max |-> UserRange.max]
      BY UpdateAssumption
    <3>2. QED
      BY <1>3, <1>8, <3>1
  <2>3. l = "bounds" => m.min = UserMin /\ m.max = UserMax
    BY <1>3, <1>8
  <2> HIDE DEF m
  <2>4. QED
    BY <1>3, <1>8, <2>1, <2>2, <2>3, SameField
       DEF RangeOfRank, Later, Sites, Terminated
<1> HIDE DEF m
<1>10. QED
  <2>1. {"exists", "GetRange", "components", "min", "max", "bounds", "error"}
          \subseteq Sites \cup Terminated \cup {"GetRange"}
    BY DEF Sites, Terminated
  <2>2. QED
    BY <1>1, <1>2, <1>7, <1>8, <1>9, <2>1, RankStep

-----------------------------------------------------------------------------
(* After GetGlobalRange no step touches the range.                         *)

LEMMA LaterStep ==
  ASSUME RangeInv, NEW r \in Ranks, UNCHANGED <<domains, calls, comps, m_range>>,
         pc[r] \in Later,
         NEW l \in Later \cup {"error"}, pc' = [pc EXCEPT ![r] = l],
         NEW n \in Nat \ {0}, step' = [step EXCEPT ![r] = n],
         inCall' = [inCall EXCEPT ![r] = FALSE]
  PROVE  RangeInv'
<1>1. /\ comps' = [comps EXCEPT ![r] = comps[r]] /\ comps[r] \in Nat
      /\ m_range' = [m_range EXCEPT ![r] = m_range[r]]
      /\ m_range[r] \in [min : Values, max : Values]
  BY DEF RangeInv, Types
<1>2. l \in Sites \cup Terminated \cup {"GetRange"}
  BY DEF Later, Terminated
<1>3. RangeOfRank(r)'
  <2>1. pc'[r] = l /\ m_range'[r] = m_range[r]
    BY DEF RangeInv, Types
  <2>2. RangeOfRank(r)
    BY DEF RangeInv
  <2>3. l \notin {"exists", "GetRange", "components", "min", "max"}
    BY DEF Later, Sites
  <2>4. QED
    BY <2>1, <2>2, <2>3, SameField DEF RangeOfRank, Later
<1>4. QED
  BY <1>1, <1>2, <1>3, RankStep

LEMMA AgainSteps ==
  ASSUME RangeInv, NEW r \in Ranks, NEW n, NEW first, NEW after,
         Again(r, n, first, after)
  PROVE  \E l \in {first, after}, k \in Nat \ {0} :
           pc' = [pc EXCEPT ![r] = l] /\ step' = [step EXCEPT ![r] = k]
<1>1. step[r] + 1 \in Nat \ {0} /\ 1 \in Nat \ {0}
  BY DEF RangeInv, Types
<1>2. CASE step[r] < n
  BY <1>1, <1>2 DEF Again, GoTo, SetStep
<1>3. CASE ~(step[r] < n)
  BY <1>1, <1>3 DEF Again, GoToLoop, GoTo, SetStep
<1>4. QED
  BY <1>2, <1>3

LEMMA LaterLabels ==
  {"bounds", "one", "counts", "depths", "order", "send", "sent", "gather",
   "images", "pixelMin", "pixelMax", "redistribute", "redistributed",
   "collect", "collected", "done"} \subseteq Later
BY DEF Later, Sites

LEMMA ThenKeeps ==
  ASSUME RangeInv, NEW r \in Ranks, UNCHANGED domains,
         NEW from \in Later \cap Sites, NEW to \in Later, Then(r, from, to)
  PROVE  RangeInv'
<1>1. pc[r] = from /\ inCall' = [inCall EXCEPT ![r] = FALSE] /\ UNCHANGED calls
  BY Returned DEF Then
<1>2. /\ pc' = [pc EXCEPT ![r] = to] /\ UNCHANGED <<comps, m_range>>
      /\ step' = [step EXCEPT ![r] = step[r]] /\ step[r] \in Nat \ {0}
  BY DEF Then, GoTo, RangeInv, Types
<1>3. QED
  BY <1>1, <1>2, LaterStep

(* The last call of a loop over the renders, or over the bounds. *)
LEMMA LoopKeeps ==
  ASSUME RangeInv, NEW r \in Ranks, UNCHANGED <<domains, comps, m_range>>,
         NEW site \in Later \cap Sites, MPI!Return(r, site),
         NEW n, NEW first \in Later, NEW after \in Later, Again(r, n, first, after)
  PROVE  RangeInv'
<1>1. pc[r] = site /\ inCall' = [inCall EXCEPT ![r] = FALSE] /\ UNCHANGED calls
  BY Returned
<1>2. PICK l \in {first, after}, k \in Nat \ {0} :
        pc' = [pc EXCEPT ![r] = l] /\ step' = [step EXCEPT ![r] = k]
  BY AgainSteps
<1>3. QED
  BY <1>1, <1>2, LaterStep

LEMMA LoopsKeep ==
  ASSUME RangeInv, NEW r \in Ranks, UNCHANGED domains,
         \/ GlobalBounds(r)
         \/ GatherCounts(r)
         \/ ScatterOrder(r)
         \/ CompositeImage(r)
         \/ CompositePartials(r)
  PROVE  RangeInv'
<1> USE LaterLabels
<1>1. {"bounds", "counts", "order", "send", "sent", "gather", "images", "pixelMin",
       "redistribute", "redistributed", "collect", "collected"} \subseteq Later \cap Sites
  BY DEF Later, Sites
<1>2. CASE GlobalBounds(r)
  BY <1>1, <1>2, LoopKeeps DEF GlobalBounds
<1>3. CASE GatherCounts(r)
  BY <1>1, <1>3, ThenKeeps DEF GatherCounts
<1>4. CASE ScatterOrder(r)
  BY <1>1, <1>4, LoopKeeps DEF ScatterOrder
<1>5. CASE CompositeImage(r)
  <2>1. CASE Then(r, "send", "sent") \/ Then(r, "sent", "gather")
    BY <1>1, <2>1, ThenKeeps
  <2>2. CASE MPI!Return(r, "gather") /\ Again(r, NumRenders, "send", "done")
             /\ UNCHANGED <<comps, m_range>>
    BY <1>1, <2>2, LoopKeeps
  <2>3. QED
    BY <1>5, <2>1, <2>2 DEF CompositeImage
<1>6. CASE CompositePartials(r)
  <2>1. CASE \/ Then(r, "images", "pixelMin") \/ Then(r, "pixelMin", "pixelMax")
             \/ Then(r, "redistribute", "redistributed")
             \/ Then(r, "redistributed", "collect") \/ Then(r, "collect", "collected")
    BY <1>1, <2>1, ThenKeeps
  <2>2. CASE MPI!Return(r, "collected") /\ Again(r, NumRenders, "images", "done")
             /\ UNCHANGED <<comps, m_range>>
    BY <1>1, <2>2, LoopKeeps
  <2>3. QED
    BY <1>6, <2>1, <2>2 DEF CompositePartials
<1>7. QED
  BY <1>2, <1>3, <1>4, <1>5, <1>6

LEMMA DoExecuteKeeps ==
  ASSUME RangeInv, NEW r \in Ranks, UNCHANGED domains, DoExecute(r)
  PROVE  RangeInv'
<1>1. /\ pc[r] = "one" /\ inCall' = [inCall EXCEPT ![r] = FALSE]
      /\ UNCHANGED <<calls, comps, m_range>>
  BY Returned DEF DoExecute, Sites
<1>2. \E l \in {"counts", "done", "error", "images"} :
        pc' = [pc EXCEPT ![r] = l] /\ step' = [step EXCEPT ![r] = 1]
  BY DEF DoExecute, Throw, GoToLoop, GoTo, SetStep
<1>3. 1 \in Nat \ {0}
  OBVIOUS
<1>4. QED
  BY <1>1, <1>2, <1>3, LaterStep, LaterLabels

LEMMA DepthsKeep ==
  ASSUME RangeInv, NEW r \in Ranks, UNCHANGED domains, GatherDepths(r)
  PROVE  RangeInv'
<1>1. /\ pc[r] = "depths" /\ inCall' = [inCall EXCEPT ![r] = FALSE]
      /\ UNCHANGED <<calls, comps, m_range>> /\ pc' = [pc EXCEPT ![r] = "order"]
  BY Returned DEF GatherDepths, Sites, GoTo
<1>2. step' = [step EXCEPT ![r] = step[r]] /\ step[r] \in Nat \ {0}
  BY DEF GatherDepths, RangeInv, Types
<1>3. QED
  BY <1>1, <1>2, LaterStep, LaterLabels

LEMMA PixelsKeep ==
  ASSUME RangeInv, NEW r \in Ranks, UNCHANGED domains, MergePixels(r)
  PROVE  RangeInv'
<1>1. /\ pc[r] = "pixelMax" /\ inCall' = [inCall EXCEPT ![r] = FALSE]
      /\ UNCHANGED <<calls, comps, m_range>>
  BY Returned DEF MergePixels, Sites
<1>2. \/ Again(r, NumRenders, "images", "done")
      \/ pc' = [pc EXCEPT ![r] = "redistribute"] /\ UNCHANGED step
  BY DEF MergePixels, GoTo
<1>3. \E l \in {"images", "done", "redistribute"}, k \in Nat \ {0} :
        pc' = [pc EXCEPT ![r] = l] /\ step' = [step EXCEPT ![r] = k]
  <2>1. step[r] \in Nat \ {0} /\ (UNCHANGED step => step' = [step EXCEPT ![r] = step[r]])
    BY DEF RangeInv, Types
  <2>2. QED
    BY <1>2, <2>1, AgainSteps
<1>4. QED
  BY <1>1, <1>3, LaterStep, LaterLabels

LEMMA RangeNext == RangeInv /\ [Next]_vars => RangeInv'
<1> SUFFICES ASSUME RangeInv, [Next]_vars PROVE RangeInv'
  OBVIOUS
<1>1. CASE UNCHANGED vars
  <2>1. Types' /\ InItsCall'
    BY <1>1 DEF vars, RangeInv, Types, Distributed, CallsTypes, InItsCall
  <2>2. UNCHANGED <<domains, calls, pc, comps, m_range>>
    BY <1>1 DEF vars
  <2>3. \A s \in Ranks : \A e : Honest(s, e)' <=> Honest(s, e)
    BY <2>2, SameField DEF Honest
  <2>4. Contributions'
    BY <2>2, <2>3 DEF RangeInv, Contributions
  <2>5. \A s \in Ranks : RangeOfRank(s)'
    BY <2>2, SameField DEF RangeInv, RangeOfRank
  <2>6. QED
    BY <2>1, <2>4, <2>5 DEF RangeInv
<1>2. ASSUME NEW r \in Ranks, Call(r) PROVE RangeInv'
  BY <1>2, CallKeeps
<1>3. ASSUME NEW r \in Ranks, Update(r), UNCHANGED domains PROVE RangeInv'
  BY <1>3, CheckKeeps, GetRangeKeeps, AllgatherKeeps, ReduceMinKeeps,
     ReduceMaxKeeps, LoopsKeep, DoExecuteKeeps, DepthsKeep, PixelsKeep DEF Update
<1>4. QED
  BY <1>1, <1>2, <1>3 DEF Next, Terminating

LEMMA RangeInvariant == Spec => []RangeInv
BY RangeInit, RangeNext, PTL DEF Spec

(* Every variable of Update keeps its type, whatever the domains are: the  *)
(* numbers of components a rank reads, hears of and loops over are natural *)
(* numbers and the range is one of values, with ranks that lack the field. *)
THEOREM TypeCorrect == Spec => []TypeOK
<1>1. RangeInv => TypeOK
  BY DEF RangeInv, Types, InItsCall, TypeOK, Values
<1>2. QED
  BY <1>1, RangeInvariant, PTL

(* DataSet.cpp:450-480 and Renderer.cpp:130-163: every rank that gets past *)
(* GetGlobalRange scales by the range of the field over all domains of all *)
(* ranks, but for what the user has given: the ranks agree on the colors.  *)
THEOREM RangeAgreed == Spec => []RangeIsGlobal
<1>1. RangeInv => RangeIsGlobal
  <2> SUFFICES ASSUME RangeInv, NEW r \in Ranks,
                      pc[r] \notin {"exists", "GetRange", "components", "min",
                                    "max", "error"}
               PROVE  IF UserRange.min <= UserRange.max THEN m_range[r] = UserRange
                      ELSE m_range[r].min = UserMin /\ m_range[r].max = UserMax
    BY DEF RangeIsGlobal, UserMin, UserMax, GlobalMin, GlobalMax
  <2>1. pc[r] \in Later
    BY DEF RangeInv, Types, Later, Terminated
  <2>2. QED
    BY <2>1 DEF RangeInv, RangeOfRank, Given
<1>2. QED
  BY <1>1, RangeInvariant, PTL

-----------------------------------------------------------------------------
(* Why the collectives have to match.                                      *)

(* Some rank waits in a collective, every other waits too or has left      *)
(* Update, and none of the collectives can return.                         *)
Stuck ==
  /\ \E r \in Ranks : inCall[r]
  /\ \A r \in Ranks : inCall[r] \/ pc[r] \in Terminated
  /\ \A r \in Ranks : inCall[r] =>
       \E s \in MPI!Awaited(r, calls[r][Len(calls[r])].site) : ~MPI!Joined(s, r)

LEMMA MatchingIsEnough ==
  ASSUME RangeInv, CollectivesMatch, NoRankLeftBehind
  PROVE  ~Stuck
<1> SUFFICES ASSUME Stuck PROVE FALSE
  OBVIOUS
<1> DEFINE T == {Len(calls[r]) : r \in {q \in Ranks : inCall[q]}}
<1>1. \A r \in Ranks : Len(calls[r]) \in Nat /\ DOMAIN calls[r] = 1 .. Len(calls[r])
  BY LenProperties DEF RangeInv, Types, CallsTypes
<1>2. T \subseteq Nat /\ T # {}
  BY <1>1 DEF Stuck
<1>3. PICK t \in T : \A u \in T : t <= u
  BY <1>2, LeastNat
<1>4. PICK r \in Ranks : inCall[r] /\ t = Len(calls[r])
  OBVIOUS
<1>5. \A s \in Ranks : Len(calls[r]) <= Len(calls[s])
  <2>1. SUFFICES ASSUME NEW s \in Ranks PROVE Len(calls[r]) <= Len(calls[s])
    OBVIOUS
  <2>2. CASE inCall[s]
    BY <1>3, <1>4, <2>2
  <2>3. CASE pc[s] \in Terminated
    BY <2>3 DEF NoRankLeftBehind
  <2>4. QED
    BY <2>2, <2>3 DEF Stuck
<1>6. Len(calls[r]) # 0
  BY <1>4 DEF RangeInv, InItsCall
<1>7. \A s \in Ranks : Len(calls[r]) \in DOMAIN calls[s]
  BY <1>1, <1>5, <1>6
<1>8. \A s \in Ranks : MPI!Joined(s, r)
  BY <1>1, <1>5, <1>7 DEF CollectivesMatch, MPI!CallsMatch, MPI!Joined
<1>9. MPI!Awaited(r, calls[r][Len(calls[r])].site) \subseteq Ranks
  BY UpdateAssumption DEF MPI!Awaited
<1>10. QED
  BY <1>4, <1>8, <1>9 DEF Stuck

(* As long as all ranks make the same collectives and none leaves Update   *)
(* before a collective the others have entered, the ranks are never all    *)
(* waiting for each other: the rank with the fewest calls can return.      *)
THEOREM MatchingPreventsDeadlock ==
  Spec => [](CollectivesMatch /\ NoRankLeftBehind => ~Stuck)
<1>1. RangeInv => (CollectivesMatch /\ NoRankLeftBehind => ~Stuck)
  BY MatchingIsEnough
<1>2. QED
  BY <1>1, RangeInvariant, PTL

-----------------------------------------------------------------------------
(* A sequence of iterates, without an operator as a parameter.             *)

(* g is the first n iterates of f from a on. *)
Chain(f, a, n, g) ==
  g[0] = a /\ \A i \in Nat : i < n => g[i + 1] = f[g[i]]

LEMMA ChainsAgree ==
  ASSUME NEW f, NEW a, NEW n \in Nat, NEW m \in Nat, NEW g, NEW h,
         Chain(f, a, n, g), Chain(f, a, m, h)
  PROVE  \A i \in Nat : i <= n /\ i <= m => g[i] = h[i]
<1> DEFINE T == {i \in Nat : i <= n /\ i <= m => g[i] = h[i]}
<1>1. 0 \in T
  BY DEF Chain
<1>2. \A i \in T : i + 1 \in T
  BY DEF Chain
<1>3. T \subseteq Nat
  OBVIOUS
<1> HIDE DEF T
<1>4. T = Nat
  BY <1>1, <1>2, <1>3, NatInductionSet
<1>5. QED
  BY <1>4 DEF T

Iterated(D) ==
  \A f \in [D -> D] : \A a \in D :
    \E g \in [Nat -> D] : g[0] = a /\ \A i \in Nat : g[i + 1] = f[g[i]]

LEMMA Iterates ==
  ASSUME NEW D
  PROVE  Iterated(D)
<1> SUFFICES ASSUME NEW f \in [D -> D], NEW a \in D
             PROVE  \E g \in [Nat -> D] : g[0] = a /\ \A i \in Nat : g[i + 1] = f[g[i]]
  BY DEF Iterated
<1> DEFINE T == {n \in Nat : \E g \in [Nat -> D] : Chain(f, a, n, g)}
<1>1. 0 \in T
  <2>1. [i \in Nat |-> a] \in [Nat -> D] /\ Chain(f, a, 0, [i \in Nat |-> a])
    BY DEF Chain
  <2>2. QED
    BY <2>1
<1>2. \A n \in T : n + 1 \in T
  <2>1. SUFFICES ASSUME NEW n \in T PROVE n + 1 \in T
    OBVIOUS
  <2>2. PICK g \in [Nat -> D] : Chain(f, a, n, g)
    OBVIOUS
  <2> DEFINE h == [i \in Nat |-> IF i <= n THEN g[i] ELSE f[g[n]]]
  <2>3. h \in [Nat -> D]
    OBVIOUS
  <2>4. \A i \in Nat : i < n + 1 => h[i + 1] = f[h[i]]
    <3>1. SUFFICES ASSUME NEW i \in Nat, i < n + 1 PROVE h[i + 1] = f[h[i]]
      OBVIOUS
    <3>2. CASE i < n
      BY <2>2, <3>2 DEF Chain
    <3>3. CASE i = n
      BY <3>3
    <3>4. QED
      BY <3>1, <3>2, <3>3
  <2>5. h[0] = a
    BY <2>2 DEF Chain
  <2> HIDE DEF h
  <2>6. Chain(f, a, n + 1, h) /\ n + 1 \in Nat
    BY <2>4, <2>5 DEF Chain
  <2>7. QED
    BY <2>3, <2>6
<1>3. T = Nat
  <2>1. T \subseteq Nat
    OBVIOUS
  <2> HIDE DEF T
  <2>2. QED
    BY <1>1, <1>2, <2>1, NatInductionSet
<1> DEFINE C(n) == CHOOSE g \in [Nat -> D] : Chain(f, a, n, g)
           G == [n \in Nat |-> C(n)[n]]
<1>4. \A n \in Nat : C(n) \in [Nat -> D] /\ Chain(f, a, n, C(n))
  BY <1>3
<1> HIDE DEF C
<1>5. G \in [Nat -> D]
  BY <1>4
<1>6. G[0] = a
  BY <1>4 DEF Chain
<1>7. \A i \in Nat : G[i + 1] = f[G[i]]
  <2>1. SUFFICES ASSUME NEW i \in Nat PROVE G[i + 1] = f[G[i]]
    OBVIOUS
  <2>2. C(i + 1)[i + 1] = f[C(i + 1)[i]]
    BY <1>4 DEF Chain
  <2>3. C(i + 1)[i] = C(i)[i]
    BY <1>4, ChainsAgree
  <2>4. QED
    BY <2>2, <2>3
<1>8. QED
  BY <1>5, <1>6, <1>7

-----------------------------------------------------------------------------
(* The places.                                                             *)

Places == (Sites \cup Terminated) \X (Nat \ {0})

(* What the ranks learn from the collectives, seen from above. *)
Exists == \E s \in Ranks : FieldExists(s)
OneEach == \A s \in Ranks : Len(domains[s]) = 1
Structured == OneEach /\ \A s \in Ranks : ~HasUnstructured(s)
AllKinds == {LocalComps(s) : s \in Ranks} \ {0}
AllComps == MaxOver(AllKinds, 0)
NoPixels == Min({PixelMin(s) : s \in Ranks}) > Max({PixelMax(s) : s \in Ranks})

(* On such data no rank decides otherwise than the others: the field has   *)
(* one number of components on each rank; with one domain on every rank,   *)
(* all of them or none are structured; and where partial images are        *)
(* composited every domain with cells has the field.                       *)
Uniform ==
  /\ \A r \in Ranks : ~(Cardinality(Kinds(r)) > 1)
  /\ OneEach => \A r, s \in Ranks : HasUnstructured(r) => HasUnstructured(s)
  /\ ~Structured => \A r \in Ranks : \A d \in Wrapped(r) : d.comps # 0

Loop(k, n, first, after) == IF k < n THEN <<first, k + 1>> ELSE <<after, 1>>

PlaceAfter(p) ==
  LET k == p[2]
  IN  CASE p[1] = "exists" -> IF ~Exists THEN <<"error", 1>>
                              ELSE IF Given THEN <<"bounds", 1>>
                              ELSE <<"components", 1>>
        [] p[1] = "components" -> IF Cardinality(AllKinds) > 1 THEN <<"error", 1>>
                                  ELSE <<"min", 1>>
        [] p[1] = "min" -> <<"max", k>>
        [] p[1] = "max" -> Loop(k, AllComps, "min",
                                IF AllComps = 1 THEN "bounds" ELSE "error")
        [] p[1] = "bounds" -> Loop(k, 6, "bounds", "one")
        [] p[1] = "one" -> IF ~Structured THEN <<"images", 1>>
                           ELSE IF DoComposite THEN <<"counts", 1>>
                           ELSE <<"done", 1>>
        [] p[1] = "counts" -> <<"depths", k>>
        [] p[1] = "depths" -> <<"order", k>>
        [] p[1] = "order" -> Loop(k, NumRenders, "counts", "send")
        [] p[1] = "send" -> <<"sent", k>>
        [] p[1] = "sent" -> <<"gather", k>>
        [] p[1] = "gather" -> Loop(k, NumRenders, "send", "done")
        [] p[1] = "images" -> <<"pixelMin", k>>
        [] p[1] = "pixelMin" -> <<"pixelMax", k>>
        [] p[1] = "pixelMax" -> IF NoPixels THEN Loop(k, NumRenders, "images", "done")
                                ELSE <<"redistribute", k>>
        [] p[1] = "redistribute" -> <<"redistributed", k>>
        [] p[1] = "redistributed" -> <<"collect", k>>
        [] p[1] = "collect" -> <<"collected", k>>
        [] p[1] = "collected" -> Loop(k, NumRenders, "images", "done")
        [] OTHER -> p

LEMMA PlacesType ==
  ASSUME NEW p \in Places
  PROVE  PlaceAfter(p) \in Places
<1>1. PICK l \in Sites \cup Terminated, k \in Nat \ {0} : p = <<l, k>>
  BY DEF Places
<1>2. k + 1 \in Nat \ {0} /\ 1 \in Nat \ {0}
  OBVIOUS
<1>3. \A n : \A first, after \in Sites \cup Terminated :
        Loop(k, n, first, after) \in Places
  BY <1>2 DEF Loop, Places
<1>4. \A q \in Sites \cup Terminated : <<q, k>> \in Places /\ <<q, 1>> \in Places
  BY <1>2 DEF Places
<1>5. QED
  BY <1>1, <1>3, <1>4 DEF PlaceAfter, Sites, Terminated

(* The plan of Update: the places from the first call on. *)
IsPlan(plan) ==
  /\ plan \in [Nat -> Places]
  /\ plan[0] = <<"exists", 1>>
  /\ \A n \in Nat : plan[n + 1] = PlaceAfter(plan[n])

LEMMA PlanExists == \E plan : IsPlan(plan)
<1> DEFINE f == [p \in Places |-> PlaceAfter(p)]
           first == <<"exists", 1>>
<1>1. f \in [Places -> Places]
  BY PlacesType
<1>2. \A p \in Places : f[p] = PlaceAfter(p)
  OBVIOUS
<1>3. first \in Places
  BY DEF Places, Sites
<1> HIDE DEF f, first
<1>4. PICK g \in [Nat -> Places] : g[0] = first /\ \A i \in Nat : g[i + 1] = f[g[i]]
  <2>1. Iterated(Places)
    BY Iterates
  <2>2. QED
    BY <1>1, <1>3, <2>1 DEF Iterated
<1>5. \A i \in Nat : g[i + 1] = PlaceAfter(g[i])
  BY <1>2, <1>4
<1>6. QED
  BY <1>4, <1>5 DEF IsPlan, first

(* The plan depends on the data set alone. *)
LEMMA SamePlan ==
  ASSUME UNCHANGED domains
  PROVE  /\ \A plan : IsPlan(plan)' <=> IsPlan(plan)
         /\ Uniform => Uniform'
         /\ AllComps' = AllComps
<1>1. /\ Exists' = Exists /\ OneEach' = OneEach /\ Structured' = Structured
      /\ AllKinds' = AllKinds
  BY DEF Exists, OneEach, Structured, AllKinds, LocalComps, Kinds, WithField, Doms,
         FieldExists, HasUnstructured, Wrapped
<1>2. NoPixels' = NoPixels
  BY DEF NoPixels, PixelMin, PixelMax, Pixels, Wrapped, Doms
<1>3. AllComps' = AllComps
  BY <1>1 DEF AllComps
<1>4. \A p : PlaceAfter(p)' = PlaceAfter(p)
  BY <1>1, <1>2, <1>3 DEF PlaceAfter
<1>5. \A plan : IsPlan(plan)' <=> IsPlan(plan)
  BY <1>4 DEF IsPlan
<1>6. Uniform => Uniform'
  BY <1>1 DEF Uniform, OneEach, HasUnstructured, Wrapped, Kinds, WithField, Doms
<1>7. QED
  BY <1>3, <1>5, <1>6

-----------------------------------------------------------------------------
(* Every rank is on the plan.                                              *)

(* GetRange is a part of Update without a collective. *)
Place(r) == IF pc[r] = "GetRange" THEN <<"components", 1>> ELSE <<pc[r], step[r]>>

OnPlan(plan, r) ==
  /\ \A i \in 1 .. Len(calls[r]) : calls[r][i].site = plan[i - 1][1]
  /\ inCall[r] => plan[Len(calls[r]) - 1] = <<pc[r], step[r]>>
  /\ ~inCall[r] => plan[Len(calls[r])] = Place(r)

(* The ranks go through the components of the field of all ranks. *)
KnowsComps(r) == pc[r] \in {"min", "max"} => comps[r] = AllComps

OrderInv ==
  /\ RangeInv
  /\ Uniform
  /\ \A r \in Ranks : KnowsComps(r)
  /\ \E plan : IsPlan(plan) /\ \A r \in Ranks : OnPlan(plan, r)

LEMMA OrderInit == Init /\ Uniform => OrderInv
<1> SUFFICES ASSUME Init, Uniform PROVE OrderInv
  OBVIOUS
<1>1. PICK plan : IsPlan(plan)
  BY PlanExists
<1>2. ASSUME NEW r \in Ranks PROVE OnPlan(plan, r) /\ KnowsComps(r)
  <2>1. pc[r] = "exists" /\ step[r] = 1 /\ calls[r] = <<>> /\ ~inCall[r]
    BY DEF Init, MPI!CollectivesInit
  <2>2. Len(calls[r]) = 0
    BY <2>1
  <2>3. plan[0] = <<"exists", 1>>
    BY <1>1 DEF IsPlan
  <2>4. QED
    BY <2>1, <2>2, <2>3 DEF OnPlan, Place, KnowsComps
<1>3. QED
  BY <1>1, <1>2, RangeInit DEF OrderInv

LEMMA CallCounts ==
  ASSUME RangeInv
  PROVE  \A r \in Ranks : /\ Len(calls[r]) \in Nat
                          /\ DOMAIN calls[r] = 1 .. Len(calls[r])
                          /\ inCall[r] => Len(calls[r]) \in Nat \ {0}
BY LenProperties DEF RangeInv, Types, CallsTypes, InItsCall

(* A rank that returns from its call goes where the plan says. *)
LEMMA ReturnStep ==
  ASSUME OrderInv, RangeInv', NEW r \in Ranks, UNCHANGED <<domains, calls>>,
         inCall[r], inCall' = [inCall EXCEPT ![r] = FALSE],
         NEW l, pc' = [pc EXCEPT ![r] = l],
         NEW k, step' = [step EXCEPT ![r] = k],
         NEW c, comps' = [comps EXCEPT ![r] = c],
         l \in {"min", "max"} => c = AllComps,
         (IF l = "GetRange" THEN <<"components", 1>> ELSE <<l, k>>)
           = PlaceAfter(<<pc[r], step[r]>>)
  PROVE  OrderInv'
<1>1. PICK plan : IsPlan(plan) /\ \A s \in Ranks : OnPlan(plan, s)
  BY DEF OrderInv
<1>2. /\ pc'[r] = l /\ step'[r] = k /\ ~inCall'[r] /\ comps'[r] = c
      /\ \A s \in Ranks \ {r} : /\ pc'[s] = pc[s] /\ step'[s] = step[s]
                                /\ inCall'[s] = inCall[s] /\ comps'[s] = comps[s]
  BY DEF OrderInv, RangeInv, Types
<1>3. OnPlan(plan, r)'
  <2>1. Len(calls[r]) \in Nat \ {0}
    BY CallCounts DEF OrderInv
  <2> DEFINE n == Len(calls[r]) - 1
  <2>2. n \in Nat /\ n + 1 = Len(calls[r])
    BY <2>1
  <2>3. plan[n] = <<pc[r], step[r]>>
    BY <1>1 DEF OnPlan
  <2>4. plan[n + 1] = PlaceAfter(plan[n])
    BY <1>1, <2>2 DEF IsPlan
  <2>5. Place(r)' = PlaceAfter(<<pc[r], step[r]>>)
    BY <1>2 DEF Place
  <2>6. plan[Len(calls[r])] = Place(r)'
    BY <2>2, <2>3, <2>4, <2>5
  <2>7. QED
    BY <1>1, <1>2, <2>6 DEF OnPlan
<1>4. \A s \in Ranks \ {r} : OnPlan(plan, s)'
  <2>1. SUFFICES ASSUME NEW s \in Ranks \ {r} PROVE OnPlan(plan, s)'
    OBVIOUS
  <2>2. /\ OnPlan(plan, s) /\ calls'[s] = calls[s] /\ inCall'[s] = inCall[s]
        /\ pc'[s] = pc[s] /\ step'[s] = step[s]
    BY <1>1, <1>2
  <2>3. QED
    BY <2>2 DEF OnPlan, Place
<1>5. \A s \in Ranks : KnowsComps(s)'
  BY <1>2, SamePlan DEF OrderInv, KnowsComps
<1>6. IsPlan(plan)' /\ Uniform'
  BY <1>1, SamePlan DEF OrderInv
<1>7. QED
  BY <1>3, <1>4, <1>5, <1>6 DEF OrderInv

(* The call of a rank is the one the plan has. *)
LEMMA CallOnPlan ==
  ASSUME OrderInv, RangeInv', NEW r \in Ranks, Call(r)
  PROVE  OrderInv'
<1>1. PICK plan : IsPlan(plan) /\ \A s \in Ranks : OnPlan(plan, s)
  BY DEF OrderInv
<1> DEFINE call == [site |-> pc[r], value |-> Contribution(r)]
<1>2. /\ pc[r] \in Sites
      /\ ~inCall[r]
      /\ calls' = [calls EXCEPT ![r] = Append(calls[r], call)]
      /\ inCall' = [inCall EXCEPT ![r] = TRUE]
      /\ UNCHANGED <<domains, pc, step, comps, m_range>>
  BY DEF Call, MPI!Enter
<1>3. call.site = pc[r]
  OBVIOUS
<1> HIDE DEF call
<1>4. DOMAIN calls = Ranks /\ \E S : calls[r] \in Seq(S)
  BY DEF OrderInv, RangeInv, Types, CallsTypes
<1>5. calls'[r] = Append(calls[r], call) /\ \A s \in Ranks \ {r} : calls'[s] = calls[s]
  BY <1>2, <1>4
<1>6. /\ Len(calls[r]) \in Nat /\ Len(calls'[r]) = Len(calls[r]) + 1
      /\ \A i \in 1 .. Len(calls[r]) : calls'[r][i] = calls[r][i]
      /\ calls'[r][Len(calls[r]) + 1] = call
  <2> DEFINE old == calls[r]
  <2>1. \E S : old \in Seq(S)
    BY <1>4
  <2> HIDE DEF old
  <2>2. Len(old) \in Nat /\ Len(Append(old, call)) = Len(old) + 1
    BY <2>1, AppendAny
  <2>3. \A i \in 1 .. Len(old) : Append(old, call)[i] = old[i]
    BY <2>1, AppendAny
  <2>4. Append(old, call)[Len(old) + 1] = call
    BY <2>1, AppendAny
  <2>5. QED
    BY <1>5, <2>2, <2>3, <2>4 DEF old
<1>7. OnPlan(plan, r)'
  <2>1. plan[Len(calls[r])] = <<pc[r], step[r]>>
    BY <1>1, <1>2 DEF OnPlan, Place, Sites
  <2>2. inCall'[r]
    BY <1>2 DEF OrderInv, RangeInv, Types
  <2>3. \A i \in 1 .. Len(calls[r]) : calls[r][i].site = plan[i - 1][1]
    BY <1>1 DEF OnPlan
  <2>4. \A i \in 1 .. Len(calls'[r]) : calls'[r][i].site = plan[i - 1][1]
    <3>1. SUFFICES ASSUME NEW i \in 1 .. Len(calls[r]) + 1
                   PROVE  calls'[r][i].site = plan[i - 1][1]
      BY <1>6
    <3>2. CASE i \in 1 .. Len(calls[r])
      BY <1>6, <2>3, <3>2
    <3>3. CASE i = Len(calls[r]) + 1
      <4>1. i - 1 = Len(calls[r])
        BY <1>6, <3>3
      <4>2. QED
        BY <1>3, <1>6, <2>1, <3>3, <4>1
    <3>4. QED
      BY <1>6, <3>1, <3>2, <3>3
  <2>5. plan[Len(calls'[r]) - 1] = <<pc[r], step[r]>>
    <3>1. Len(calls'[r]) - 1 = Len(calls[r])
      BY <1>6
    <3>2. QED
      BY <2>1, <3>1
  <2>6. QED
    BY <1>2, <2>2, <2>4, <2>5 DEF OnPlan
<1>8. \A s \in Ranks \ {r} : OnPlan(plan, s)'
  <2>1. \A s \in Ranks \ {r} : inCall'[s] = inCall[s]
    BY <1>2 DEF OrderInv, RangeInv, Types
  <2>2. QED
    BY <1>1, <1>2, <1>5, <2>1 DEF OnPlan, Place
<1>9. \A s \in Ranks : KnowsComps(s)'
  BY <1>2, SamePlan DEF OrderInv, KnowsComps
<1>10. IsPlan(plan)' /\ Uniform'
  BY <1>1, <1>2, SamePlan DEF OrderInv
<1>11. QED
  BY <1>7, <1>8, <1>9, <1>10 DEF OrderInv

(* GetRange makes no call: the place of the rank stays. *)
LEMMA GetRangeOnPlan ==
  ASSUME OrderInv, RangeInv', NEW r \in Ranks, GetRange(r), UNCHANGED domains
  PROVE  OrderInv'
<1>1. PICK plan : IsPlan(plan) /\ \A s \in Ranks : OnPlan(plan, s)
  BY DEF OrderInv
<1>2. /\ pc[r] = "GetRange"
      /\ pc' = [pc EXCEPT ![r] = "components"]
      /\ step' = [step EXCEPT ![r] = 1]
      /\ UNCHANGED <<calls, inCall>>
      /\ \A s \in Ranks \ {r} : comps'[s] = comps[s]
  BY DEF GetRange, Kinds, Throw, GoToLoop, GoTo, SetStep, OrderInv, Uniform,
         RangeInv, Types
<1>3. /\ pc'[r] = "components" /\ step'[r] = 1
      /\ \A s \in Ranks \ {r} : pc'[s] = pc[s] /\ step'[s] = step[s]
  BY <1>2 DEF OrderInv, RangeInv, Types
<1>4. ~inCall[r]
  BY <1>2 DEF OrderInv, RangeInv, InItsCall, Sites
<1>5. \A s \in Ranks : OnPlan(plan, s)'
  <2>1. SUFFICES ASSUME NEW s \in Ranks PROVE OnPlan(plan, s)'
    OBVIOUS
  <2>2. OnPlan(plan, s) /\ calls'[s] = calls[s] /\ inCall'[s] = inCall[s]
    BY <1>1, <1>2
  <2>3. CASE s = r
    BY <1>2, <1>3, <1>4, <2>2, <2>3 DEF OnPlan, Place
  <2>4. CASE s # r
    BY <1>3, <2>2, <2>4 DEF OnPlan, Place
  <2>5. QED
    BY <2>3, <2>4
<1>6. \A s \in Ranks : KnowsComps(s)'
  BY <1>2, <1>3, SamePlan DEF OrderInv, KnowsComps
<1>7. IsPlan(plan)' /\ Uniform'
  BY <1>1, SamePlan DEF OrderInv
<1>8. QED
  BY <1>5, <1>6, <1>7 DEF OrderInv

-----------------------------------------------------------------------------
(* One lemma per step that returns from a collective.                      *)

(* A step that leaves the number of components. *)
LEMMA LaterOnPlan ==
  ASSUME OrderInv, RangeInv', NEW r \in Ranks, UNCHANGED <<domains, calls, comps>>,
         inCall[r], inCall' = [inCall EXCEPT ![r] = FALSE],
         NEW l \in Later \cup {"error"}, pc' = [pc EXCEPT ![r] = l],
         NEW k, step' = [step EXCEPT ![r] = k],
         PlaceAfter(<<pc[r], step[r]>>) = <<l, k>>
  PROVE  OrderInv'
<1>1. comps' = [comps EXCEPT ![r] = comps[r]]
  BY DEF OrderInv, RangeInv, Types
<1>2. l \notin {"min", "max", "GetRange"}
  BY DEF Later, Sites
<1>3. QED
  BY <1>1, <1>2, ReturnStep

LEMMA CheckOnPlan ==
  ASSUME OrderInv, RangeInv', NEW r \in Ranks, CheckForRequiredField(r),
         UNCHANGED domains
  PROVE  OrderInv'
<1>1. /\ pc[r] = "exists" /\ inCall[r] /\ inCall' = [inCall EXCEPT ![r] = FALSE]
      /\ UNCHANGED <<calls, comps>>
  BY Returned DEF CheckForRequiredField, Sites, OrderInv, MPI!Return
<1>2. m_range[r] = UserRange
  BY <1>1 DEF OrderInv, RangeInv, RangeOfRank
<1>3. (\A s \in Ranks : ~MPI!Contributed(r)[s]) <=> ~Exists
  <2>1. \A s \in Ranks : MPI!Contributed(r)[s] = FieldExists(s)
    BY Heard DEF CheckForRequiredField, OrderInv
  <2>2. QED
    BY <2>1 DEF Exists
<1>4. comps' = [comps EXCEPT ![r] = comps[r]]
  BY <1>1 DEF OrderInv, RangeInv, Types
<1>5. CASE ~Exists
  <2>1. pc' = [pc EXCEPT ![r] = "error"] /\ step' = [step EXCEPT ![r] = 1]
    BY <1>3, <1>5 DEF CheckForRequiredField, Throw, GoToLoop, GoTo, SetStep
  <2>2. PlaceAfter(<<pc[r], step[r]>>) = <<"error", 1>>
    BY <1>1, <1>5 DEF PlaceAfter
  <2>3. QED
    BY <1>1, <2>1, <2>2, LaterOnPlan
<1>6. CASE Exists /\ Given
  <2>1. pc' = [pc EXCEPT ![r] = "bounds"] /\ step' = [step EXCEPT ![r] = 1]
    BY <1>2, <1>3, <1>6 DEF CheckForRequiredField, GoToLoop, GoTo, SetStep, Given
  <2>2. PlaceAfter(<<pc[r], step[r]>>) = <<"bounds", 1>>
    BY <1>1, <1>6 DEF PlaceAfter
  <2>3. QED
    BY <1>1, <2>1, <2>2, LaterLabels, LaterOnPlan
<1>7. CASE Exists /\ ~Given
  <2>1. pc' = [pc EXCEPT ![r] = "GetRange"] /\ step' = [step EXCEPT ![r] = 1]
    BY <1>2, <1>3, <1>7 DEF CheckForRequiredField, GoToLoop, GoTo, SetStep, Given
  <2>2. PlaceAfter(<<pc[r], step[r]>>) = <<"components", 1>>
    BY <1>1, <1>7 DEF PlaceAfter
  <2> DEFINE l == "GetRange"
  <2>3. /\ pc' = [pc EXCEPT ![r] = l]
        /\ (IF l = "GetRange" THEN <<"components", 1>> ELSE <<l, 1>>)
             = PlaceAfter(<<pc[r], step[r]>>)
        /\ l \notin {"min", "max"}
    BY <2>1, <2>2
  <2> HIDE DEF l
  <2>4. QED
    BY <1>1, <1>4, <2>1, <2>3, ReturnStep
<1>8. QED
  BY <1>5, <1>6, <1>7

LEMMA AllgatherOnPlan ==
  ASSUME OrderInv, RangeInv', NEW r \in Ranks, AllgatherComponents(r),
         UNCHANGED domains
  PROVE  OrderInv'
<1>1. /\ pc[r] = "components" /\ inCall[r]
      /\ inCall' = [inCall EXCEPT ![r] = FALSE] /\ UNCHANGED calls
  BY Returned DEF AllgatherComponents, Sites, OrderInv, MPI!Return
<1>2. {MPI!Contributed(r)[s] : s \in Ranks} \ {0} = AllKinds
  <2>1. \A s \in Ranks : MPI!Contributed(r)[s] = LocalComps(s)
    BY Heard DEF AllgatherComponents, OrderInv
  <2>2. QED
    BY <2>1 DEF AllKinds
<1>3. CASE Cardinality(AllKinds) > 1
  <2>1. /\ pc' = [pc EXCEPT ![r] = "error"] /\ step' = [step EXCEPT ![r] = 1]
        /\ UNCHANGED comps
    BY <1>2, <1>3 DEF AllgatherComponents, Throw, GoToLoop, GoTo, SetStep
  <2>2. PlaceAfter(<<pc[r], step[r]>>) = <<"error", 1>>
    BY <1>1, <1>3 DEF PlaceAfter
  <2>3. QED
    BY <1>1, <2>1, <2>2, LaterOnPlan
<1>4. CASE ~(Cardinality(AllKinds) > 1)
  <2>1. /\ pc' = [pc EXCEPT ![r] = "min"] /\ step' = [step EXCEPT ![r] = 1]
        /\ comps' = [comps EXCEPT ![r] = AllComps]
    BY <1>2, <1>4 DEF AllgatherComponents, GoToLoop, GoTo, SetStep, AllComps
  <2>2. PlaceAfter(<<pc[r], step[r]>>) = <<"min", 1>>
    BY <1>1, <1>4 DEF PlaceAfter
  <2>3. QED
    BY <1>1, <2>1, <2>2, ReturnStep
<1>5. QED
  BY <1>3, <1>4

LEMMA ReducesOnPlan ==
  ASSUME OrderInv, RangeInv', NEW r \in Ranks, ReduceMin(r) \/ ReduceMax(r),
         UNCHANGED domains
  PROVE  OrderInv'
<1>1. /\ inCall[r] /\ inCall' = [inCall EXCEPT ![r] = FALSE] /\ UNCHANGED calls
      /\ ReduceMin(r) => pc[r] = "min"
      /\ ReduceMax(r) => pc[r] = "max"
  BY Returned DEF ReduceMin, ReduceMax, Sites, OrderInv, MPI!Return
<1>2. comps' = [comps EXCEPT ![r] = comps[r]] /\ comps[r] = AllComps
  BY <1>1 DEF ReduceMin, ReduceMax, OrderInv, KnowsComps, RangeInv, Types
<1>3. CASE ReduceMin(r)
  <2>1. pc' = [pc EXCEPT ![r] = "max"] /\ step' = [step EXCEPT ![r] = step[r]]
    BY <1>3 DEF ReduceMin, GoTo, OrderInv, RangeInv, Types
  <2>2. PlaceAfter(<<pc[r], step[r]>>) = <<"max", step[r]>>
    BY <1>1, <1>3 DEF PlaceAfter
  <2>3. QED
    BY <1>1, <1>2, <2>1, <2>2, ReturnStep
<1>4. CASE ReduceMax(r)
  <2> DEFINE after == IF AllComps = 1 THEN "bounds" ELSE "error"
  <2>1. PlaceAfter(<<pc[r], step[r]>>) = Loop(step[r], AllComps, "min", after)
    BY <1>1, <1>4 DEF PlaceAfter
  <2>2. Again(r, AllComps, "min", after)
    BY <1>2, <1>4 DEF ReduceMax
  <2>3. CASE step[r] < AllComps
    <3>1. /\ pc' = [pc EXCEPT ![r] = "min"]
          /\ step' = [step EXCEPT ![r] = step[r] + 1]
      BY <2>2, <2>3 DEF Again, GoTo, SetStep
    <3>2. PlaceAfter(<<pc[r], step[r]>>) = <<"min", step[r] + 1>>
      BY <2>1, <2>3 DEF Loop
    <3>3. QED
      BY <1>1, <1>2, <3>1, <3>2, ReturnStep
  <2>4. CASE ~(step[r] < AllComps)
    <3>1. pc' = [pc EXCEPT ![r] = after] /\ step' = [step EXCEPT ![r] = 1]
      BY <2>2, <2>4 DEF Again, GoToLoop, GoTo, SetStep
    <3>2. PlaceAfter(<<pc[r], step[r]>>) = <<after, 1>>
      BY <2>1, <2>4 DEF Loop
    <3>3. after \notin {"min", "max", "GetRange"}
      OBVIOUS
    <3> HIDE DEF after
    <3>4. QED
      BY <1>1, <1>2, <3>1, <3>2, <3>3, ReturnStep
  <2>5. QED
    BY <2>3, <2>4
<1>5. QED
  BY <1>3, <1>4

(* Once the range is known, a step is on to the next call of the same      *)
(* iteration, around a loop, or into a branch.                             *)
LEMMA ThenOnPlan ==
  ASSUME OrderInv, RangeInv', NEW r \in Ranks, UNCHANGED domains,
         NEW from \in Later \cap Sites, NEW to \in Later, Then(r, from, to),
         PlaceAfter(<<from, step[r]>>) = <<to, step[r]>>
  PROVE  OrderInv'
<1>1. /\ pc[r] = from /\ inCall[r] /\ inCall' = [inCall EXCEPT ![r] = FALSE]
      /\ UNCHANGED <<calls, comps>>
  BY Returned DEF Then, OrderInv, MPI!Return
<1>2. pc' = [pc EXCEPT ![r] = to] /\ step' = [step EXCEPT ![r] = step[r]]
  BY DEF Then, GoTo, OrderInv, RangeInv, Types
<1>3. QED
  BY <1>1, <1>2, LaterOnPlan

LEMMA LoopOnPlan ==
  ASSUME OrderInv, RangeInv', NEW r \in Ranks, UNCHANGED <<domains, comps>>,
         NEW site \in Later \cap Sites, MPI!Return(r, site),
         NEW n, NEW first \in Later, NEW after \in Later, Again(r, n, first, after),
         PlaceAfter(<<site, step[r]>>) = Loop(step[r], n, first, after)
  PROVE  OrderInv'
<1>1. /\ pc[r] = site /\ inCall[r] /\ inCall' = [inCall EXCEPT ![r] = FALSE]
      /\ UNCHANGED calls
  BY Returned DEF OrderInv, MPI!Return
<1>2. CASE step[r] < n
  <2>1. pc' = [pc EXCEPT ![r] = first] /\ step' = [step EXCEPT ![r] = step[r] + 1]
    BY <1>2 DEF Again, GoTo, SetStep
  <2>2. PlaceAfter(<<pc[r], step[r]>>) = <<first, step[r] + 1>>
    BY <1>1, <1>2 DEF Loop
  <2>3. QED
    BY <1>1, <2>1, <2>2, LaterOnPlan
<1>3. CASE ~(step[r] < n)
  <2>1. pc' = [pc EXCEPT ![r] = after] /\ step' = [step EXCEPT ![r] = 1]
    BY <1>3 DEF Again, GoToLoop, GoTo, SetStep
  <2>2. PlaceAfter(<<pc[r], step[r]>>) = <<after, 1>>
    BY <1>1, <1>3 DEF Loop
  <2>3. QED
    BY <1>1, <2>1, <2>2, LaterOnPlan
<1>4. QED
  BY <1>2, <1>3

LEMMA LoopsOnPlan ==
  ASSUME OrderInv, RangeInv', NEW r \in Ranks, UNCHANGED domains,
         \/ GlobalBounds(r)
         \/ GatherCounts(r)
         \/ ScatterOrder(r)
         \/ CompositeImage(r)
         \/ CompositePartials(r)
  PROVE  OrderInv'
<1> USE LaterLabels
<1>1. {"bounds", "counts", "order", "send", "sent", "gather", "images", "pixelMin",
       "redistribute", "redistributed", "collect", "collected"} \subseteq Later \cap Sites
  BY DEF Later, Sites
<1>2. \A k : /\ PlaceAfter(<<"bounds", k>>) = Loop(k, 6, "bounds", "one")
             /\ PlaceAfter(<<"counts", k>>) = <<"depths", k>>
             /\ PlaceAfter(<<"order", k>>) = Loop(k, NumRenders, "counts", "send")
             /\ PlaceAfter(<<"send", k>>) = <<"sent", k>>
             /\ PlaceAfter(<<"sent", k>>) = <<"gather", k>>
             /\ PlaceAfter(<<"gather", k>>) = Loop(k, NumRenders, "send", "done")
  BY DEF PlaceAfter
<1>3. \A k : /\ PlaceAfter(<<"images", k>>) = <<"pixelMin", k>>
             /\ PlaceAfter(<<"pixelMin", k>>) = <<"pixelMax", k>>
             /\ PlaceAfter(<<"redistribute", k>>) = <<"redistributed", k>>
             /\ PlaceAfter(<<"redistributed", k>>) = <<"collect", k>>
             /\ PlaceAfter(<<"collect", k>>) = <<"collected", k>>
             /\ PlaceAfter(<<"collected", k>>) = Loop(k, NumRenders, "images", "done")
  BY DEF PlaceAfter
<1>4. CASE GlobalBounds(r)
  BY <1>1, <1>2, <1>4, LoopOnPlan DEF GlobalBounds
<1>5. CASE GatherCounts(r)
  BY <1>1, <1>2, <1>5, ThenOnPlan DEF GatherCounts
<1>6. CASE ScatterOrder(r)
  BY <1>1, <1>2, <1>6, LoopOnPlan DEF ScatterOrder
<1>7. CASE CompositeImage(r)
  <2>1. CASE Then(r, "send", "sent") \/ Then(r, "sent", "gather")
    BY <1>1, <1>2, <2>1, ThenOnPlan
  <2>2. CASE MPI!Return(r, "gather") /\ Again(r, NumRenders, "send", "done")
             /\ UNCHANGED comps
    BY <1>1, <1>2, <2>2, LoopOnPlan
  <2>3. QED
    BY <1>7, <2>1, <2>2 DEF CompositeImage
<1>8. CASE CompositePartials(r)
  <2>1. CASE \/ Then(r, "images", "pixelMin") \/ Then(r, "pixelMin", "pixelMax")
             \/ Then(r, "redistribute", "redistributed")
             \/ Then(r, "redistributed", "collect") \/ Then(r, "collect", "collected")
    BY <1>1, <1>3, <2>1, ThenOnPlan
  <2>2. CASE MPI!Return(r, "collected") /\ Again(r, NumRenders, "images", "done")
             /\ UNCHANGED comps
    BY <1>1, <1>3, <2>2, LoopOnPlan
  <2>3. QED
    BY <1>8, <2>1, <2>2 DEF CompositePartials
<1>9. QED
  BY <1>4, <1>5, <1>6, <1>7, <1>8

LEMMA DoExecuteOnPlan ==
  ASSUME OrderInv, RangeInv', NEW r \in Ranks, UNCHANGED domains, DoExecute(r)
  PROVE  OrderInv'
<1> USE LaterLabels
<1>1. /\ pc[r] = "one" /\ inCall[r] /\ inCall' = [inCall EXCEPT ![r] = FALSE]
      /\ UNCHANGED <<calls, comps>>
  BY Returned DEF DoExecute, Sites, OrderInv, MPI!Return
<1>2. (\A s \in Ranks : MPI!Contributed(r)[s]) <=> OneEach
  <2>1. \A s \in Ranks : MPI!Contributed(r)[s] = (Len(domains[s]) = 1)
    BY Heard DEF DoExecute, OrderInv
  <2>2. QED
    BY <2>1 DEF OneEach
<1>3. OneEach /\ ~HasUnstructured(r) <=> Structured
  BY DEF OrderInv, Uniform, Structured
<1>4. CASE Structured /\ DoComposite
  <2>1. pc' = [pc EXCEPT ![r] = "counts"] /\ step' = [step EXCEPT ![r] = 1]
    BY <1>2, <1>3, <1>4 DEF DoExecute, GoToLoop, GoTo, SetStep
  <2>2. PlaceAfter(<<pc[r], step[r]>>) = <<"counts", 1>>
    BY <1>1, <1>4 DEF PlaceAfter
  <2>3. QED
    BY <1>1, <2>1, <2>2, LaterOnPlan
<1>5. CASE Structured /\ ~DoComposite
  <2>1. pc' = [pc EXCEPT ![r] = "done"] /\ step' = [step EXCEPT ![r] = 1]
    BY <1>2, <1>3, <1>5 DEF DoExecute, GoToLoop, GoTo, SetStep
  <2>2. PlaceAfter(<<pc[r], step[r]>>) = <<"done", 1>>
    BY <1>1, <1>5 DEF PlaceAfter
  <2>3. QED
    BY <1>1, <2>1, <2>2, LaterOnPlan
<1>6. CASE ~Structured
  <2>1. \A d \in Wrapped(r) : d.comps # 0
    BY <1>6 DEF OrderInv, Uniform
  <2>2. pc' = [pc EXCEPT ![r] = "images"] /\ step' = [step EXCEPT ![r] = 1]
    BY <1>2, <1>3, <1>6, <2>1 DEF DoExecute, Throw, GoToLoop, GoTo, SetStep
  <2>3. PlaceAfter(<<pc[r], step[r]>>) = <<"images", 1>>
    BY <1>1, <1>6 DEF PlaceAfter
  <2>4. QED
    BY <1>1, <2>2, <2>3, LaterOnPlan
<1>7. QED
  BY <1>4, <1>5, <1>6

LEMMA DepthsOnPlan ==
  ASSUME OrderInv, RangeInv', NEW r \in Ranks, UNCHANGED domains, GatherDepths(r)
  PROVE  OrderInv'
<1>1. /\ pc[r] = "depths" /\ inCall[r] /\ inCall' = [inCall EXCEPT ![r] = FALSE]
      /\ UNCHANGED <<calls, comps>> /\ pc' = [pc EXCEPT ![r] = "order"]
  BY Returned DEF GatherDepths, GoTo, Sites, OrderInv, MPI!Return
<1>2. step' = [step EXCEPT ![r] = step[r]]
  BY DEF GatherDepths, OrderInv, RangeInv, Types
<1>3. PlaceAfter(<<pc[r], step[r]>>) = <<"order", step[r]>>
  BY <1>1 DEF PlaceAfter
<1>4. QED
  BY <1>1, <1>2, <1>3, LaterLabels, LaterOnPlan

(* The call before pixelMax is pixelMin, for every rank. *)
LEMMA PixelMinBefore ==
  ASSUME NEW plan, IsPlan(plan), NEW n \in Nat, plan[n][1] = "pixelMax"
  PROVE  n - 1 \in Nat /\ plan[n - 1][1] = "pixelMin"
<1>1. n # 0
  BY DEF IsPlan
<1>2. n - 1 \in Nat /\ (n - 1) + 1 = n
  BY <1>1
<1>3. plan[n] = PlaceAfter(plan[n - 1]) /\ plan[n - 1] \in Places
  BY <1>2 DEF IsPlan
<1>4. PICK l \in Sites \cup Terminated, k \in Nat \ {0} : plan[n - 1] = <<l, k>>
  BY <1>3 DEF Places
<1>5. PlaceAfter(<<l, k>>)[1] = "pixelMax"
  BY <1>3, <1>4
<1>6. \A m : \A first, after : Loop(k, m, first, after)[1] \in {first, after}
  BY DEF Loop
<1>7. l = "pixelMin"
  BY <1>5, <1>6 DEF PlaceAfter, Sites, Terminated
<1>8. QED
  BY <1>2, <1>4, <1>7

LEMMA PixelsOnPlan ==
  ASSUME OrderInv, RangeInv', NEW r \in Ranks, UNCHANGED domains, MergePixels(r)
  PROVE  OrderInv'
<1> USE LaterLabels
<1> DEFINE n == Len(calls[r])
<1>1. /\ pc[r] = "pixelMax" /\ inCall[r] /\ inCall' = [inCall EXCEPT ![r] = FALSE]
      /\ UNCHANGED <<calls, comps>>
      /\ \A s \in Ranks : MPI!Joined(s, r)
  BY Returned DEF MergePixels, Sites, OrderInv, MPI!Return, MPI!Awaited
<1>2. \A s \in Ranks : calls[s][n - 1].value = PixelMin(s)
  <2>1. PICK plan : IsPlan(plan) /\ \A s \in Ranks : OnPlan(plan, s)
    BY DEF OrderInv
  <2>2. n \in Nat \ {0} /\ n - 1 \in Nat
    BY <1>1, CallCounts DEF OrderInv
  <2>3. plan[n - 1][1] = "pixelMax"
    BY <1>1, <2>1 DEF OnPlan
  <2>4. (n - 1) - 1 \in Nat /\ plan[(n - 1) - 1][1] = "pixelMin"
    BY <2>1, <2>2, <2>3, PixelMinBefore
  <2>5. \A s \in Ranks : Len(calls[s]) \in Nat /\ n <= Len(calls[s])
    BY <1>1, CallCounts DEF MPI!Joined, OrderInv
  <2>6. \A s \in Ranks : n - 1 \in 1 .. Len(calls[s])
    BY <2>2, <2>4, <2>5
  <2>7. \A s \in Ranks : calls[s][n - 1].site = "pixelMin"
    BY <2>1, <2>4, <2>6 DEF OnPlan
  <2>8. \A s \in Ranks : Honest(s, calls[s][n - 1])
    BY <2>6 DEF OrderInv, RangeInv, Contributions
  <2>9. QED
    BY <2>7, <2>8 DEF Honest
<1>3. \A s \in Ranks : MPI!Contributed(r)[s] = PixelMax(s)
  BY Heard DEF MergePixels, OrderInv
<1>4. /\ {calls[s][n - 1].value : s \in Ranks} = {PixelMin(s) : s \in Ranks}
      /\ {MPI!Contributed(r)[s] : s \in Ranks} = {PixelMax(s) : s \in Ranks}
  BY <1>2, <1>3
<1>5. IF NoPixels THEN Again(r, NumRenders, "images", "done")
      ELSE GoTo(r, "redistribute") /\ UNCHANGED step
  BY <1>4 DEF MergePixels, NoPixels
<1> HIDE DEF n
<1>6. CASE NoPixels
  <2>1. PlaceAfter(<<"pixelMax", step[r]>>) = Loop(step[r], NumRenders, "images", "done")
    BY <1>6 DEF PlaceAfter
  <2>2. MPI!Return(r, "pixelMax") /\ Again(r, NumRenders, "images", "done")
    BY <1>5, <1>6 DEF MergePixels
  <2>3. "pixelMax" \in Later \cap Sites
    BY DEF Later, Sites
  <2>4. QED
    BY <1>1, <2>1, <2>2, <2>3, LoopOnPlan
<1>7. CASE ~NoPixels
  <2>1. PlaceAfter(<<pc[r], step[r]>>) = <<"redistribute", step[r]>>
    BY <1>1, <1>7 DEF PlaceAfter
  <2>2. pc' = [pc EXCEPT ![r] = "redistribute"] /\ step' = [step EXCEPT ![r] = step[r]]
    BY <1>5, <1>7 DEF GoTo, OrderInv, RangeInv, Types
  <2>3. QED
    BY <1>1, <2>1, <2>2, LaterOnPlan
<1>8. QED
  BY <1>6, <1>7

LEMMA OrderNext == OrderInv /\ [Next]_vars => OrderInv'
<1> SUFFICES ASSUME OrderInv, [Next]_vars PROVE OrderInv'
  OBVIOUS
<1>1. RangeInv'
  BY RangeNext DEF OrderInv
<1>2. CASE UNCHANGED vars
  <2>1. UNCHANGED <<domains, pc, step, comps, calls, inCall>>
    BY <1>2 DEF vars
  <2>2. PICK plan : IsPlan(plan) /\ \A s \in Ranks : OnPlan(plan, s)
    BY DEF OrderInv
  <2>3. IsPlan(plan)' /\ Uniform' /\ AllComps' = AllComps
    BY <2>1, <2>2, SamePlan DEF OrderInv
  <2>4. \A s \in Ranks : OnPlan(plan, s)' /\ KnowsComps(s)'
    BY <2>1, <2>2, <2>3 DEF OnPlan, Place, KnowsComps, OrderInv
  <2>5. QED
    BY <1>1, <2>3, <2>4 DEF OrderInv
<1>3. ASSUME NEW r \in Ranks, Call(r) PROVE OrderInv'
  BY <1>1, <1>3, CallOnPlan
<1>4. ASSUME NEW r \in Ranks, Update(r), UNCHANGED domains PROVE OrderInv'
  BY <1>1, <1>4, CheckOnPlan, GetRangeOnPlan, AllgatherOnPlan, ReducesOnPlan,
     LoopsOnPlan, DoExecuteOnPlan, DepthsOnPlan, PixelsOnPlan DEF Update
<1>5. QED
  BY <1>2, <1>3, <1>4 DEF Next, Terminating

LEMMA OrderInvariant == Spec /\ Uniform => []OrderInv
BY OrderInit, OrderNext, PTL DEF Spec

LEMMA CallTogether == OrderInv => CollectivesMatch
<1> SUFFICES ASSUME OrderInv, NEW r \in Ranks, NEW s \in Ranks,
                    NEW i \in DOMAIN calls[r] \cap DOMAIN calls[s]
             PROVE  calls[r][i].site = calls[s][i].site
  BY DEF CollectivesMatch, MPI!CallsMatch
<1>1. i \in 1 .. Len(calls[r]) /\ i \in 1 .. Len(calls[s])
  BY CallCounts DEF OrderInv
<1>2. QED
  BY <1>1 DEF OrderInv, OnPlan

(* VolumeRenderer.cpp:416-440 and all it calls: on uniform data the i-th   *)
(* collective of a rank is the i-th of every other, whatever the ranks     *)
(* have among their own domains, the field or the mesh they lack included. *)
THEOREM CollectivesAgree == Spec /\ Uniform => []CollectivesMatch
BY CallTogether, OrderInvariant, PTL

(* A rank that leaves Update, by its end or by an exception, leaves it     *)
(* where the others do: none is left behind in a collective.               *)
LEMMA LeaveTogether == OrderInv => NoRankLeftBehind
<1> SUFFICES ASSUME OrderInv, NEW r \in Ranks, NEW s \in Ranks,
                    pc[r] \in Terminated, Len(calls[s]) > Len(calls[r])
             PROVE  FALSE
  <2>1. \A r, s \in Ranks : Len(calls[r]) \in Nat /\ Len(calls[s]) \in Nat
    BY CallCounts DEF OrderInv
  <2>2. QED
    BY <2>1 DEF NoRankLeftBehind
<1>1. PICK plan : IsPlan(plan) /\ \A q \in Ranks : OnPlan(plan, q)
  BY DEF OrderInv
<1>2. Len(calls[r]) \in Nat /\ Len(calls[s]) \in Nat
  BY CallCounts DEF OrderInv
<1> DEFINE n == Len(calls[r])
<1>3. n + 1 \in 1 .. Len(calls[s]) /\ (n + 1) - 1 = n
  BY <1>2
<1>4. ~inCall[r]
  BY DEF OrderInv, RangeInv, InItsCall, Sites, Terminated
<1>5. plan[n] = <<pc[r], step[r]>>
  BY <1>1, <1>4 DEF OnPlan, Place, Terminated
<1>6. calls[s][n + 1].site = pc[r]
  BY <1>1, <1>3, <1>5 DEF OnPlan
<1>7. calls[s][n + 1].site \in Sites
  BY <1>3 DEF OrderInv, RangeInv, Contributions, Honest
<1>8. QED
  BY <1>6, <1>7 DEF Sites, Terminated

(* So a rank waits in vain neither for one that calls something else nor   *)
(* for one that has left.                                                  *)
THEOREM NobodyLeftBehind == Spec /\ Uniform => [](NoRankLeftBehind /\ ~Stuck)
<1>1. OrderInv => ~Stuck
  BY CallTogether, LeaveTogether, MatchingIsEnough DEF OrderInv
<1>2. QED
  BY <1>1, LeaveTogether, OrderInvariant, PTL

-----------------------------------------------------------------------------
(* The orders the domains are blended in.                                  *)

OrderSites == {"counts", "depths", "order"}
SendSites == {"send", "sent", "gather"}

(* The plan is one: the ranks count its places alike. *)
LEMMA PlansAgree ==
  ASSUME NEW p, NEW q, IsPlan(p), IsPlan(q)
  PROVE  \A n \in Nat : p[n] = q[n]
<1> DEFINE T == {n \in Nat : p[n] = q[n]}
<1>1. 0 \in T
  BY DEF IsPlan
<1>2. \A n \in T : n + 1 \in T
  BY DEF IsPlan
<1>3. T \subseteq Nat
  OBVIOUS
<1> HIDE DEF T
<1>4. T = Nat
  BY <1>1, <1>2, <1>3, NatInductionSet
<1>5. QED
  BY <1>4 DEF T

LEMMA AfterOrders ==
  ASSUME NEW l \in OrderSites \cup SendSites \cup {"done"}, NEW k \in Nat \ {0}
  PROVE  \E m \in OrderSites \cup SendSites \cup {"done"} : \E j \in Nat :
           /\ PlaceAfter(<<l, k>>) = <<m, j>>
           /\ m \in OrderSites => /\ l \in OrderSites
                                  /\ j = k \/ (j = k + 1 /\ k < NumRenders)
<1> DEFINE Good(m, j) == /\ m \in OrderSites \cup SendSites \cup {"done"}
                         /\ j \in Nat
                         /\ m \in OrderSites => /\ l \in OrderSites
                                                /\ j = k \/ (j = k + 1 /\ k < NumRenders)
<1>1. CASE l = "counts"
  <2>1. PlaceAfter(<<l, k>>) = <<"depths", k>> /\ Good("depths", k)
    BY <1>1 DEF PlaceAfter, OrderSites
  <2>2. QED
    BY <2>1
<1>2. CASE l = "depths"
  <2>1. PlaceAfter(<<l, k>>) = <<"order", k>> /\ Good("order", k)
    BY <1>2 DEF PlaceAfter, OrderSites
  <2>2. QED
    BY <2>1
<1>3. CASE l = "order"
  <2>1. PlaceAfter(<<l, k>>) = Loop(k, NumRenders, "counts", "send")
    BY <1>3 DEF PlaceAfter
  <2>2. Good("send", 1) /\ (k < NumRenders => Good("counts", k + 1))
    BY <1>3 DEF OrderSites, SendSites
  <2>3. QED
    BY <2>1, <2>2 DEF Loop
<1>4. CASE l = "send"
  <2>1. PlaceAfter(<<l, k>>) = <<"sent", k>> /\ Good("sent", k)
    BY <1>4 DEF PlaceAfter, OrderSites, SendSites
  <2>2. QED
    BY <2>1
<1>5. CASE l = "sent"
  <2>1. PlaceAfter(<<l, k>>) = <<"gather", k>> /\ Good("gather", k)
    BY <1>5 DEF PlaceAfter, OrderSites, SendSites
  <2>2. QED
    BY <2>1
<1>6. CASE l = "gather"
  <2>1. PlaceAfter(<<l, k>>) = Loop(k, NumRenders, "send", "done")
    BY <1>6 DEF PlaceAfter
  <2>2. Good("done", 1) /\ Good("send", k + 1)
    BY <1>6 DEF OrderSites, SendSites
  <2>3. QED
    BY <2>1, <2>2 DEF Loop
<1>7. CASE l = "done"
  <2>1. PlaceAfter(<<l, k>>) = <<"done", k>> /\ Good("done", k)
    BY <1>7 DEF PlaceAfter, OrderSites, SendSites
  <2>2. QED
    BY <2>1
<1>8. QED
  BY <1>1, <1>2, <1>3, <1>4, <1>5, <1>6, <1>7 DEF OrderSites, SendSites

(* Images are composited, and orders made, only where every rank has one   *)
(* structured domain, and orders are made once for each render.            *)
LEMMA PlanFacts ==
  ASSUME NEW plan, IsPlan(plan)
  PROVE  \A n \in Nat :
           /\ plan[n][1] \in OrderSites \cup SendSites => Structured
           /\ plan[n][1] \in OrderSites => plan[n][2] \in 1 .. NumRenders
<1> DEFINE Fact(p) ==
             /\ p[1] \in OrderSites \cup SendSites => Structured
             /\ p[1] \in OrderSites => p[2] \in 1 .. NumRenders
           T == {n \in Nat : Fact(plan[n])}
<1>1. 0 \in T
  BY DEF IsPlan, OrderSites, SendSites
<1>2. \A p \in Places : Fact(p) => Fact(PlaceAfter(p))
  <2>1. SUFFICES ASSUME NEW l \in Sites \cup Terminated, NEW k \in Nat \ {0},
                        Fact(<<l, k>>)
                 PROVE  Fact(PlaceAfter(<<l, k>>))
    BY DEF Places
  <2>2. NumRenders \in Nat \ {0}
    BY UpdateAssumption
  <2>3. CASE l \in OrderSites \cup SendSites
    <3>1. Structured /\ (l \in OrderSites => k \in 1 .. NumRenders)
      BY <2>1, <2>3
    <3>2. PICK m \in OrderSites \cup SendSites \cup {"done"}, j \in Nat :
            /\ PlaceAfter(<<l, k>>) = <<m, j>>
            /\ m \in OrderSites => /\ l \in OrderSites
                                   /\ j = k \/ (j = k + 1 /\ k < NumRenders)
      BY <2>3, AfterOrders
    <3>3. m \in OrderSites => j \in 1 .. NumRenders
      BY <2>2, <3>1, <3>2
    <3>4. QED
      BY <3>1, <3>2, <3>3
  <2>4. CASE l \notin OrderSites \cup SendSites
    <3>1. \A m : \A first, after : Loop(k, m, first, after)[1] \in {first, after}
      BY DEF Loop
    <3>2. PlaceAfter(<<l, k>>)[1] \notin SendSites
      BY <2>4, <3>1 DEF PlaceAfter, OrderSites, SendSites, Sites, Terminated
    <3>3. PlaceAfter(<<l, k>>)[1] \in OrderSites =>
            Structured /\ PlaceAfter(<<l, k>>) = <<"counts", 1>>
      BY <2>4, <3>1 DEF PlaceAfter, OrderSites, SendSites, Sites, Terminated
    <3>4. QED
      BY <2>2, <3>2, <3>3
  <2>5. QED
    BY <2>3, <2>4
<1>3. \A n \in T : n + 1 \in T
  BY <1>2 DEF IsPlan
<1>4. T \subseteq Nat
  OBVIOUS
<1> HIDE DEF T, Fact
<1>5. T = Nat
  BY <1>1, <1>3, <1>4, NatInductionSet
<1>6. QED
  BY <1>5 DEF T, Fact

(* The orders of a render are scattered once: what comes later on the plan *)
(* is for later renders, or comes after the loop.                          *)
PastOrder(i) ==
  {p \in Places : \/ p[1] \in OrderSites /\ p[2] > i
                  \/ p[1] \in SendSites \cup {"done"}}

LEMMA PastStays ==
  ASSUME NEW plan, IsPlan(plan), NEW i \in Nat \ {0}, NEW a \in Nat,
         plan[a] = <<"order", i>>
  PROVE  \A b \in Nat : a < b => plan[b] \in PastOrder(i)
<1>1. NumRenders \in Nat
  BY UpdateAssumption
<1>2. \A n \in Nat : plan[n] \in Places /\ plan[n + 1] = PlaceAfter(plan[n])
  BY DEF IsPlan
<1>3. PlaceAfter(<<"order", i>>) \in PastOrder(i)
  <2>1. PlaceAfter(<<"order", i>>) = Loop(i, NumRenders, "counts", "send")
    BY DEF PlaceAfter
  <2>2. <<"order", i>> \in Places
    BY DEF Places, Sites
  <2>3. PlaceAfter(<<"order", i>>) \in Places
    BY <2>2, PlacesType
  <2>4. QED
    BY <2>1, <2>3 DEF PastOrder, Loop, OrderSites, SendSites
<1>4. \A p \in PastOrder(i) : PlaceAfter(p) \in PastOrder(i)
  <2>1. SUFFICES ASSUME NEW l \in OrderSites \cup SendSites \cup {"done"},
                        NEW k \in Nat \ {0}, l \in OrderSites => k > i
                 PROVE  \/ PlaceAfter(<<l, k>>)[1] \in OrderSites
                           /\ PlaceAfter(<<l, k>>)[2] > i
                        \/ PlaceAfter(<<l, k>>)[1] \in SendSites \cup {"done"}
    <3>1. \A p \in PastOrder(i) : PlaceAfter(p) \in Places
      BY PlacesType DEF PastOrder
    <3>2. \A p \in PastOrder(i) :
            \E l \in OrderSites \cup SendSites \cup {"done"} : \E k \in Nat \ {0} :
              p = <<l, k>> /\ (l \in OrderSites => k > i)
      BY DEF PastOrder, Places, OrderSites, SendSites
    <3>3. QED
      BY <3>1, <3>2 DEF PastOrder
  <2>2. PICK m \in OrderSites \cup SendSites \cup {"done"}, j \in Nat :
          /\ PlaceAfter(<<l, k>>) = <<m, j>>
          /\ m \in OrderSites => /\ l \in OrderSites
                                 /\ j = k \/ (j = k + 1 /\ k < NumRenders)
    BY AfterOrders
  <2>3. m \in OrderSites => j > i
    BY <2>1, <2>2
  <2>4. QED
    BY <2>2, <2>3
<1> DEFINE T == {n \in Nat : plan[a + 1 + n] \in PastOrder(i)}
<1>5. 0 \in T
  <2>1. plan[a + 1] \in PastOrder(i)
    BY <1>2, <1>3
  <2>2. a + 1 + 0 = a + 1
    OBVIOUS
  <2>3. QED
    BY <2>1, <2>2
<1>6. \A n \in T : n + 1 \in T
  <2>1. SUFFICES ASSUME NEW n \in Nat, plan[a + 1 + n] \in PastOrder(i)
                 PROVE  plan[a + 1 + (n + 1)] \in PastOrder(i)
    OBVIOUS
  <2>2. a + 1 + n \in Nat /\ a + 1 + (n + 1) = (a + 1 + n) + 1
    OBVIOUS
  <2>3. QED
    BY <1>2, <1>4, <2>1, <2>2
<1>7. T \subseteq Nat
  OBVIOUS
<1> HIDE DEF T
<1>8. T = Nat
  BY <1>5, <1>6, <1>7, NatInductionSet
<1>9. SUFFICES ASSUME NEW b \in Nat, a < b PROVE plan[b] \in PastOrder(i)
  OBVIOUS
<1>10. b - (a + 1) \in Nat /\ a + 1 + (b - (a + 1)) = b
  BY <1>9
<1>11. QED
  BY <1>8, <1>10 DEF T

LEMMA OrderOnce ==
  ASSUME NEW plan, IsPlan(plan), NEW i \in Nat \ {0}, NEW a \in Nat, NEW b \in Nat,
         plan[a] = <<"order", i>>, plan[b] = <<"order", i>>
  PROVE  a = b
<1>1. <<"order", i>> \notin PastOrder(i)
  BY DEF PastOrder, SendSites
<1>2. QED
  BY <1>1, PastStays

(* What the root scatters: the domains numbered by their depths. *)
AllDepths == [s \in Ranks |-> Depths(s)]

NumbersBy(depths, orders) ==
  \E order \in Numberings(depths) :
    orders = [s \in Ranks |-> [c \in DOMAIN depths[s] |-> order[<<s, c>>]]]

IsNumbering(orders) == NumbersBy(AllDepths, orders)

LEMMA NumberingOfOne ==
  ASSUME Distributed, OneEach, NEW orders, IsNumbering(orders),
         NEW r \in Ranks, NEW s \in Ranks
  PROVE  /\ orders[r][1] \in 0 .. Cardinality(Ranks) - 1
         /\ orders[r][1] = orders[s][1] => r = s
         /\ domains[r][1].depth < domains[s][1].depth => orders[r][1] < orders[s][1]
<1>1. \A q \in Ranks : DOMAIN domains[q] = {1}
  <2>1. SUFFICES ASSUME NEW q \in Ranks PROVE DOMAIN domains[q] = {1}
    OBVIOUS
  <2>2. domains[q] \in Seq(Domain) /\ Len(domains[q]) = 1
    BY DEF Distributed, OneEach
  <2>3. DOMAIN domains[q] = 1 .. 1
    BY <2>2, LenProperties
  <2>4. QED
    BY <2>3
<1>2. \A q \in Ranks : /\ DOMAIN AllDepths[q] = {1}
                       /\ AllDepths[q][1] = domains[q][1].depth
  BY <1>1 DEF AllDepths, Depths
<1> DEFINE slots == {slot \in Ranks \X UNION {DOMAIN AllDepths[q] : q \in Ranks} :
                       slot[2] \in DOMAIN AllDepths[slot[1]]}
<1>3. slots = Ranks \X {1}
  <2>1. UNION {DOMAIN AllDepths[q] : q \in Ranks} = {1}
    BY <1>2
  <2>2. QED
    BY <1>2, <2>1
<1>4. Cardinality(slots) = Cardinality(Ranks) /\ Cardinality(Ranks) \in Nat
  <2>1. IsFiniteSet(Ranks) /\ IsFiniteSet({1}) /\ Cardinality({1}) = 1
    BY UpdateAssumption, FS_Singleton
  <2>2. Cardinality(Ranks \X {1}) = Cardinality(Ranks) * Cardinality({1})
    BY <2>1, FS_Product
  <2>3. Cardinality(Ranks) \in Nat
    BY <2>1, FS_CardinalityType
  <2> HIDE DEF slots
  <2>4. QED
    BY <1>3, <2>1, <2>2, <2>3
<1>5. PICK order \in Numberings(AllDepths) :
        orders = [q \in Ranks |-> [c \in DOMAIN AllDepths[q] |-> order[<<q, c>>]]]
  BY DEF IsNumbering, NumbersBy
<1>6. /\ order \in [slots -> 0 .. Cardinality(slots) - 1]
      /\ \A a, b \in slots :
           /\ AllDepths[a[1]][a[2]] < AllDepths[b[1]][b[2]] => order[a] < order[b]
           /\ order[a] = order[b] => a = b
  BY <1>5 DEF Numberings
<1>7. \A q \in Ranks : orders[q][1] = order[<<q, 1>>] /\ <<q, 1>> \in slots
  BY <1>2, <1>3, <1>5
<1> HIDE DEF slots
<1>8. orders[r][1] \in 0 .. Cardinality(Ranks) - 1
  BY <1>4, <1>6, <1>7
<1>9. orders[r][1] = orders[s][1] => r = s
  <2> DEFINE a == <<r, 1>>
             b == <<s, 1>>
  <2>1. a \in slots /\ b \in slots /\ (a = b => r = s)
    BY <1>7
  <2>2. orders[r][1] = order[a] /\ orders[s][1] = order[b]
    BY <1>7
  <2> HIDE DEF a, b
  <2>3. QED
    BY <1>6, <2>1, <2>2
<1>10. domains[r][1].depth < domains[s][1].depth => orders[r][1] < orders[s][1]
  <2>1. AllDepths[r][1] < AllDepths[s][1] => order[<<r, 1>>] < order[<<s, 1>>]
    <3> DEFINE a == <<r, 1>>
               b == <<s, 1>>
    <3>1. a \in slots /\ b \in slots /\ a[1] = r /\ a[2] = 1 /\ b[1] = s /\ b[2] = 1
      BY <1>7
    <3> HIDE DEF a, b
    <3>2. AllDepths[a[1]][a[2]] < AllDepths[b[1]][b[2]] => order[a] < order[b]
      BY <1>6, <3>1
    <3>3. AllDepths[r][1] < AllDepths[s][1] => order[a] < order[b]
      BY <3>1, <3>2
    <3>4. QED
      BY <3>3 DEF a, b
  <2>2. QED
    BY <1>2, <1>7, <2>1
<1>11. QED
  BY <1>8, <1>9, <1>10

-----------------------------------------------------------------------------
(* The orders the ranks hold are the ones the root has scattered.          *)

(* How many a rank holds: one more after each iteration of DepthSort. *)
Held(p) ==
  IF p[1] \in OrderSites THEN p[2] - 1
  ELSE IF p[1] \in SendSites THEN NumRenders
  ELSE 0

HoldsOrders(r) ==
  /\ \E S : m_visibility_orders[r] \in Seq(S)
  /\ Place(r)[1] # "done" => Len(m_visibility_orders[r]) = Held(Place(r))
  /\ \A plan : IsPlan(plan) =>
       \A i \in 1 .. Len(m_visibility_orders[r]) : \E n \in Nat :
         /\ plan[n] = <<"order", i>>
         /\ n + 1 \in 1 .. Len(calls[Root])
         /\ m_visibility_orders[r][i] = calls[Root][n + 1].value[r]

RootNumbers ==
  /\ pc[Root] = "order" => IsNumbering(vis_order)
  /\ \A i \in 1 .. Len(calls[Root]) :
       calls[Root][i].site = "order" => IsNumbering(calls[Root][i].value)

BlendInv ==
  /\ OrderInv
  /\ DOMAIN m_visibility_orders = Ranks
  /\ \A r \in Ranks : HoldsOrders(r)
  /\ RootNumbers

LEMMA BlendInit == Init /\ Uniform => BlendInv
<1> SUFFICES ASSUME Init, Uniform PROVE BlendInv
  OBVIOUS
<1>1. OrderInv
  BY OrderInit
<1>2. \A r \in Ranks : m_visibility_orders[r] = <<>> /\ pc[r] = "exists" /\ calls[r] = <<>>
  BY DEF Init, MPI!CollectivesInit
<1>3. Len(<<>>) = 0 /\ <<>> \in Seq({})
  BY EmptySeq
<1>4. \A r \in Ranks : HoldsOrders(r)
  <2>1. SUFFICES ASSUME NEW r \in Ranks PROVE HoldsOrders(r)
    OBVIOUS
  <2>2. /\ \E S : m_visibility_orders[r] \in Seq(S)
        /\ Len(m_visibility_orders[r]) = 0
    BY <1>2, <1>3
  <2>3. Held(Place(r)) = 0
    BY <1>2 DEF Held, Place, OrderSites, SendSites
  <2>4. \A i \in 1 .. Len(m_visibility_orders[r]) : FALSE
    BY <2>2
  <2>5. QED
    BY <2>2, <2>3, <2>4 DEF HoldsOrders
<1>5. RootNumbers
  BY <1>2, <1>3, UpdateAssumption DEF RootNumbers
<1>6. QED
  BY <1>1, <1>4, <1>5 DEF BlendInv, Init

LEMMA RootNumbersNext ==
  ASSUME UNCHANGED domains,
         pc'[Root] = "order" => IsNumbering(vis_order'),
         \A i \in 1 .. Len(calls'[Root]) :
           calls'[Root][i].site = "order" => IsNumbering(calls'[Root][i].value)
  PROVE  RootNumbers'
<1>1. AllDepths' = AllDepths
  BY DEF AllDepths, Depths
<1>2. QED
  BY <1>1 DEF RootNumbers, IsNumbering

(* Apart from GetRange every step of Update returns from a collective, and *)
(* no step of a rank touches what another holds.                           *)
LEMMA UpdateReturns ==
  ASSUME BlendInv, NEW r \in Ranks, Update(r)
  PROVE  /\ UNCHANGED calls
         /\ \/ GetRange(r)
            \/ /\ pc[r] \in Sites /\ inCall[r]
               /\ inCall' = [inCall EXCEPT ![r] = FALSE]
<1>1. CASE GetRange(r)
  BY <1>1 DEF GetRange
<1>2. ASSUME NEW site \in Sites, MPI!Return(r, site)
      PROVE  /\ UNCHANGED calls /\ pc[r] \in Sites /\ inCall[r]
             /\ inCall' = [inCall EXCEPT ![r] = FALSE]
  BY <1>2, Returned DEF BlendInv, OrderInv, MPI!Return
<1>3. CASE ~GetRange(r)
  <2>1. \E site \in Sites : MPI!Return(r, site)
    BY <1>3 DEF Update, CheckForRequiredField, AllgatherComponents, ReduceMin, ReduceMax,
       GlobalBounds, DoExecute, GatherCounts, GatherDepths, ScatterOrder,
       CompositeImage, CompositePartials, MergePixels, Then, Sites
  <2>2. QED
    BY <1>2, <2>1
<1>4. QED
  BY <1>1, <1>3

LEMMA UpdateIsLocal ==
  ASSUME BlendInv, NEW r \in Ranks, Update(r)
  PROVE  \A s \in Ranks \ {r} :
           pc'[s] = pc[s] /\ step'[s] = step[s]
<1>1. \A l : GoTo(r, l) => \A s \in Ranks \ {r} : pc'[s] = pc[s]
  BY DEF GoTo, BlendInv, OrderInv, RangeInv, Types
<1>2. \A n : SetStep(r, n) => \A s \in Ranks \ {r} : step'[s] = step[s]
  BY DEF SetStep, BlendInv, OrderInv, RangeInv, Types
<1>3. \A l : GoToLoop(r, l) => \A s \in Ranks \ {r} : pc'[s] = pc[s] /\ step'[s] = step[s]
  BY <1>1, <1>2 DEF GoToLoop
<1>4. \A n, first, after : Again(r, n, first, after) =>
        \A s \in Ranks \ {r} : pc'[s] = pc[s] /\ step'[s] = step[s]
  BY <1>1, <1>2, <1>3 DEF Again
<1>5. \A from, to : Then(r, from, to) =>
        \A s \in Ranks \ {r} : pc'[s] = pc[s] /\ step'[s] = step[s]
  BY <1>1 DEF Then
<1>6. Throw(r) => \A s \in Ranks \ {r} : pc'[s] = pc[s] /\ step'[s] = step[s]
  BY <1>3 DEF Throw
<1>7. CASE CheckForRequiredField(r) \/ GetRange(r) \/ AllgatherComponents(r) \/ DoExecute(r)
  BY <1>3, <1>6, <1>7 DEF CheckForRequiredField, GetRange, AllgatherComponents, DoExecute
<1>8. CASE ReduceMin(r) \/ GatherDepths(r)
  BY <1>1, <1>8 DEF ReduceMin, GatherDepths
<1>9. CASE ReduceMax(r) \/ GlobalBounds(r) \/ ScatterOrder(r)
  BY <1>4, <1>9 DEF ReduceMax, GlobalBounds, ScatterOrder
<1>10. CASE GatherCounts(r) \/ CompositeImage(r) \/ CompositePartials(r)
  BY <1>4, <1>5, <1>10 DEF GatherCounts, CompositeImage, CompositePartials
<1>11. CASE MergePixels(r)
  BY <1>1, <1>4, <1>11 DEF MergePixels
<1>12. QED
  BY <1>7, <1>8, <1>9, <1>10, <1>11 DEF Update

(* A step of Update takes the rank to the next place. *)
LEMMA NextPlace ==
  ASSUME BlendInv, OrderInv', NEW r \in Ranks, Update(r), UNCHANGED domains
  PROVE  \/ GetRange(r) /\ Place(r)' = Place(r)
         \/ pc[r] \in Sites /\ inCall[r] /\ Place(r)' = PlaceAfter(<<pc[r], step[r]>>)
<1>1. PICK plan : IsPlan(plan) /\ OnPlan(plan, r)
  BY DEF BlendInv, OrderInv
<1>2. PICK plan2 : IsPlan(plan2)' /\ OnPlan(plan2, r)'
  BY DEF OrderInv
<1>3. IsPlan(plan2)
  BY <1>2, SamePlan
<1>4. \A n \in Nat : plan[n] = plan2[n]
  BY <1>1, <1>3, PlansAgree
<1>5. UNCHANGED calls
  BY UpdateReturns
<1>6. Len(calls[r]) \in Nat /\ (inCall[r] => Len(calls[r]) \in Nat \ {0})
  BY CallCounts DEF BlendInv, OrderInv
<1>7. CASE GetRange(r)
  <2>1. pc[r] = "GetRange" /\ UNCHANGED inCall
    BY <1>7 DEF GetRange
  <2>2. ~inCall[r]
    BY <2>1 DEF BlendInv, OrderInv, RangeInv, InItsCall, Sites
  <2>3. plan[Len(calls[r])] = Place(r) /\ plan2[Len(calls[r])] = Place(r)'
    BY <1>1, <1>2, <1>5, <2>1, <2>2 DEF OnPlan
  <2>4. QED
    BY <1>4, <1>6, <1>7, <2>3
<1>8. CASE ~GetRange(r)
  <2>1. pc[r] \in Sites /\ inCall[r] /\ inCall' = [inCall EXCEPT ![r] = FALSE]
    BY <1>8, UpdateReturns
  <2>2. ~inCall'[r]
    BY <2>1 DEF BlendInv, OrderInv, RangeInv, Types
  <2> DEFINE n == Len(calls[r]) - 1
  <2>3. n \in Nat /\ n + 1 = Len(calls[r])
    BY <1>6, <2>1
  <2>4. plan[n] = <<pc[r], step[r]>> /\ plan[n + 1] = PlaceAfter(plan[n])
    BY <1>1, <2>1, <2>3 DEF OnPlan, IsPlan
  <2>5. plan2[Len(calls[r])] = Place(r)'
    BY <1>2, <1>5, <2>2 DEF OnPlan
  <2>6. QED
    BY <1>4, <1>6, <2>1, <2>3, <2>4, <2>5
<1>9. QED
  BY <1>7, <1>8

(* Only DepthSort makes and keeps orders. *)
LEMMA OtherSteps ==
  ASSUME NEW r \in Ranks, Update(r)
  PROVE  /\ ~GatherDepths(r) => UNCHANGED vis_order
         /\ ~ScatterOrder(r) => UNCHANGED m_visibility_orders
BY DEF Update, CheckForRequiredField, GetRange, AllgatherComponents, ReduceMin, ReduceMax,
       GlobalBounds, DoExecute, GatherCounts, GatherDepths, ScatterOrder,
       CompositeImage, CompositePartials, MergePixels, Then

LEMMA StepAt ==
  ASSUME BlendInv, NEW r \in Ranks, Update(r)
  PROVE  /\ pc[r] = "depths" => GatherDepths(r)
         /\ pc[r] = "order" => ScatterOrder(r)
<1>1. ASSUME NEW site \in Sites, MPI!Return(r, site) PROVE pc[r] = site
  BY <1>1, Returned DEF BlendInv, OrderInv
<1>2. CASE GetRange(r)
  BY <1>2 DEF GetRange
<1>3. CASE GatherDepths(r) \/ ScatterOrder(r)
  <2>1. /\ GatherDepths(r) => pc[r] = "depths"
        /\ ScatterOrder(r) => pc[r] = "order"
    BY <1>1 DEF GatherDepths, ScatterOrder, Sites
  <2>2. QED
    BY <1>3, <2>1
<1>4. CASE ~GetRange(r) /\ ~GatherDepths(r) /\ ~ScatterOrder(r)
  <2>1. \E site \in Sites \ {"depths", "order"} : MPI!Return(r, site)
    BY <1>4 DEF Update, CheckForRequiredField, AllgatherComponents, ReduceMin, ReduceMax,
       GlobalBounds, DoExecute, GatherCounts, CompositeImage, CompositePartials,
       MergePixels, Then, Sites
  <2>2. QED
    BY <1>1, <2>1
<1>5. QED
  BY <1>2, <1>3, <1>4

(* The number of orders goes with the place. *)
LEMMA HeldAfter ==
  ASSUME NEW l \in Sites \ {"order"}, NEW k \in Nat \ {0},
         PlaceAfter(<<l, k>>)[1] # "done"
  PROVE  Held(PlaceAfter(<<l, k>>)) = Held(<<l, k>>)
<1>1. CASE l \in {"counts", "depths", "send", "sent"}
  <2>1. /\ l = "counts" => PlaceAfter(<<l, k>>) = <<"depths", k>>
        /\ l = "depths" => PlaceAfter(<<l, k>>) = <<"order", k>>
        /\ l = "send" => PlaceAfter(<<l, k>>) = <<"sent", k>>
        /\ l = "sent" => PlaceAfter(<<l, k>>) = <<"gather", k>>
    BY DEF PlaceAfter
  <2>2. CASE l \in {"counts", "depths"}
    BY <2>1, <2>2 DEF Held, OrderSites
  <2>3. CASE l \in {"send", "sent"}
    BY <2>1, <2>3 DEF Held, OrderSites, SendSites
  <2>4. QED
    BY <1>1, <2>2, <2>3
<1>2. CASE l = "gather"
  <2>1. PlaceAfter(<<l, k>>) = Loop(k, NumRenders, "send", "done")
    BY <1>2 DEF PlaceAfter
  <2>2. PlaceAfter(<<l, k>>) = <<"send", k + 1>>
    BY <2>1 DEF Loop
  <2>3. QED
    BY <1>2, <2>2 DEF Held, OrderSites, SendSites
<1>3. CASE l \notin OrderSites \cup SendSites
  <2>1. Held(<<l, k>>) = 0
    BY <1>3 DEF Held
  <2>2. CASE l = "one"
    <3>1. PlaceAfter(<<l, k>>) \in {<<"images", 1>>, <<"counts", 1>>, <<"done", 1>>}
      BY <2>2 DEF PlaceAfter
    <3>2. QED
      BY <2>1, <3>1 DEF Held, OrderSites, SendSites
  <2>3. CASE l # "one"
    <3>1. \A n : \A first, after : Loop(k, n, first, after)[1] \in {first, after}
      BY DEF Loop
    <3>2. PlaceAfter(<<l, k>>)[1] \notin OrderSites \cup SendSites
      BY <1>3, <2>3, <3>1 DEF PlaceAfter, OrderSites, SendSites, Sites
    <3>3. QED
      BY <2>1, <3>2 DEF Held
  <2>4. QED
    BY <2>2, <2>3
<1>4. QED
  BY <1>1, <1>2, <1>3 DEF OrderSites, SendSites

(* Orders kept as they are stay what the root has scattered. *)
LEMMA StillHolds ==
  ASSUME BlendInv, UNCHANGED <<domains, calls>>, NEW s \in Ranks,
         m_visibility_orders'[s] = m_visibility_orders[s],
         Place(s)'[1] # "done" => /\ Place(s)[1] # "done"
                                  /\ Held(Place(s)') = Held(Place(s))
  PROVE  HoldsOrders(s)'
<1>1. HoldsOrders(s)
  BY DEF BlendInv
<1>2. \A plan : IsPlan(plan)' <=> IsPlan(plan)
  BY SamePlan
<1>3. Held(Place(s))' = Held(Place(s)')
  BY DEF Held
<1> DEFINE old == m_visibility_orders[s]
<1>4. (\E S : old \in Seq(S)) /\ (Place(s)'[1] # "done" => Len(old) = Held(Place(s))')
  BY <1>1, <1>3 DEF HoldsOrders
<1>5. \A plan : IsPlan(plan)' =>
        \A i \in 1 .. Len(old) : \E n \in Nat :
          /\ plan[n] = <<"order", i>>
          /\ n + 1 \in 1 .. Len(calls'[Root])
          /\ old[i] = calls'[Root][n + 1].value[s]
  BY <1>1, <1>2 DEF HoldsOrders
<1>6. m_visibility_orders'[s] = old
  OBVIOUS
<1> HIDE DEF old
<1>7. QED
  BY <1>4, <1>5, <1>6 DEF HoldsOrders

LEMMA ScatterHolds ==
  ASSUME BlendInv, OrderInv', NEW r \in Ranks, ScatterOrder(r), Update(r),
         UNCHANGED domains
  PROVE  HoldsOrders(r)'
<1> DEFINE held == m_visibility_orders[r]
           j == Len(calls[r])
           new == calls[Root][j].value[r]
<1>1. /\ pc[r] = "order" /\ inCall[r] /\ UNCHANGED calls
      /\ MPI!Joined(Root, r)
  BY Returned, UpdateAssumption DEF ScatterOrder, Sites, BlendInv, OrderInv,
     MPI!Return, MPI!Awaited
<1>2. /\ m_visibility_orders' = [m_visibility_orders EXCEPT ![r] = Append(held, new)]
      /\ m_visibility_orders'[r] = Append(held, new)
  <2>1. MPI!Contributed(r)[Root] = calls[Root][j].value
    BY <1>1, UpdateAssumption DEF MPI!Contributed
  <2>2. QED
    BY <2>1 DEF ScatterOrder, BlendInv
<1>3. HoldsOrders(r)
  BY DEF BlendInv
<1>4. Place(r) = <<"order", step[r]>> /\ Held(Place(r)) = step[r] - 1
  BY <1>1 DEF Place, Held, OrderSites
<1>5. Len(held) = step[r] - 1 /\ (\E S : held \in Seq(S))
  BY <1>3, <1>4 DEF HoldsOrders
<1>6. PICK plan : IsPlan(plan) /\ OnPlan(plan, r)
  BY DEF BlendInv, OrderInv
<1>7. j \in Nat \ {0} /\ j - 1 \in Nat /\ (j - 1) + 1 = j
  BY <1>1, CallCounts DEF BlendInv, OrderInv
<1>8. plan[j - 1] = <<"order", step[r]>>
  BY <1>1, <1>6 DEF OnPlan
<1>9. step[r] \in 1 .. NumRenders
  <2>1. plan[j - 1][1] \in OrderSites /\ plan[j - 1][2] = step[r]
    BY <1>8 DEF OrderSites
  <2>2. QED
    BY <1>6, <1>7, <2>1, PlanFacts
<1>10. j \in 1 .. Len(calls[Root])
  <2>1. Len(calls[Root]) \in Nat /\ j <= Len(calls[Root])
    BY <1>1, UpdateAssumption, CallCounts DEF MPI!Joined, BlendInv, OrderInv
  <2>2. QED
    BY <1>7, <2>1
<1>11. \A q : IsPlan(q) => \A i \in 1 .. Len(held) :
         \E n \in Nat : /\ q[n] = <<"order", i>>
                       /\ n + 1 \in 1 .. Len(calls[Root])
                       /\ held[i] = calls[Root][n + 1].value[r]
  BY <1>3 DEF HoldsOrders
<1> HIDE DEF held, j
<1>12. /\ \E S : Append(held, new) \in Seq(S)
       /\ Len(Append(held, new)) = step[r]
       /\ \A i \in 1 .. step[r] - 1 : Append(held, new)[i] = held[i]
       /\ Append(held, new)[step[r]] = new
  <2> HIDE DEF new
  <2>1. \E S : held \in Seq(S)
    BY <1>5
  <2>2. \E S : Append(held, new) \in Seq(S)
    BY <2>1, AppendAny
  <2>3. Len(Append(held, new)) = Len(held) + 1
    BY <2>1, AppendAny
  <2>4. \A i \in 1 .. Len(held) : Append(held, new)[i] = held[i]
    BY <2>1, AppendAny
  <2>5. Append(held, new)[Len(held) + 1] = new
    BY <2>1, AppendAny
  <2>6. Len(held) + 1 = step[r]
    BY <1>5, <1>9
  <2>7. QED
    BY <1>5, <2>2, <2>3, <2>4, <2>5, <2>6
<1>13. Held(Place(r))' = step[r]
  <2>1. Place(r)' = PlaceAfter(<<"order", step[r]>>)
    BY <1>1, NextPlace DEF GetRange
  <2>2. Place(r)' = Loop(step[r], NumRenders, "counts", "send")
    BY <2>1 DEF PlaceAfter
  <2>3. CASE step[r] < NumRenders
    BY <1>9, <2>2, <2>3 DEF Loop, Held, OrderSites
  <2>4. CASE ~(step[r] < NumRenders)
    <3>1. step[r] = NumRenders
      BY <1>9, <2>4, UpdateAssumption
    <3>2. QED
      BY <2>2, <2>4, <3>1 DEF Loop, Held, OrderSites, SendSites
  <2>5. QED
    BY <2>3, <2>4
<1>14. ASSUME NEW q, IsPlan(q)', NEW i \in 1 .. Len(m_visibility_orders'[r])
       PROVE  \E n \in Nat : /\ q[n] = <<"order", i>>
                             /\ n + 1 \in 1 .. Len(calls'[Root])
                             /\ m_visibility_orders'[r][i] = calls'[Root][n + 1].value[r]
  <2>1. IsPlan(q)
    BY <1>14, SamePlan
  <2>2. CASE i = step[r]
    <3>1. q[j - 1] = <<"order", i>>
      BY <1>6, <1>7, <1>8, <2>1, <2>2, PlansAgree
    <3>2. m_visibility_orders'[r][i] = new
      BY <1>2, <1>12, <2>2
    <3>3. QED
      BY <1>1, <1>7, <1>10, <3>1, <3>2
  <2>3. CASE i \in 1 .. step[r] - 1
    <3>1. PICK n \in Nat : /\ q[n] = <<"order", i>>
                           /\ n + 1 \in 1 .. Len(calls[Root])
                           /\ held[i] = calls[Root][n + 1].value[r]
      <4>1. i \in 1 .. Len(held)
        BY <1>5, <2>3
      <4>2. QED
        BY <1>11, <2>1, <4>1, Zenon
    <3>2. m_visibility_orders'[r][i] = held[i]
      BY <1>2, <1>12, <2>3
    <3>3. QED
      BY <1>1, <3>1, <3>2
  <2>4. i \in 1 .. step[r]
    BY <1>2, <1>12, <1>14
  <2>5. QED
    BY <1>9, <2>2, <2>3, <2>4
<1>15. QED
  BY <1>2, <1>12, <1>13, <1>14 DEF HoldsOrders

(* DepthSort on the root has the depths of all domains. *)
LEMMA DepthsNumber ==
  ASSUME BlendInv, GatherDepths(Root), UNCHANGED domains
  PROVE  IsNumbering(vis_order')
<1> DEFINE heard == MPI!Contributed(Root)
           j == Len(calls[Root])
<1>1. Root \in Ranks
  BY UpdateAssumption
<1>2. /\ inCall[Root] /\ calls[Root][j].site = "depths"
      /\ \A s \in Ranks : MPI!Joined(s, Root)
  BY DEF GatherDepths, MPI!Return, MPI!Awaited
<1>3. \A s \in Ranks : calls[s][j].value = Depths(s)
  <2>1. \A s \in Ranks : j \in 1 .. Len(calls[s]) /\ calls[s][j].site = "depths"
    <3>1. j \in Nat \ {0} /\ \A s \in Ranks : Len(calls[s]) \in Nat /\ j <= Len(calls[s])
      BY <1>1, <1>2, CallCounts DEF MPI!Joined, BlendInv, OrderInv
    <3>2. QED
      BY <1>2, <3>1 DEF MPI!Joined
  <2>2. \A s \in Ranks : Honest(s, calls[s][j])
    BY <2>1 DEF BlendInv, OrderInv, RangeInv, Contributions
  <2>3. QED
    BY <2>1, <2>2 DEF Honest
<1>4. heard = AllDepths
  <2>1. {q \in Ranks : MPI!Joined(q, Root)} = Ranks
    BY <1>2
  <2>2. heard = [s \in Ranks |-> calls[s][j].value]
    BY <2>1 DEF MPI!Contributed
  <2>3. QED
    BY <1>3, <2>2 DEF AllDepths
<1>5. \E order \in Numberings(heard) :
        vis_order' = [s \in Ranks |-> [c \in DOMAIN heard[s] |-> order[<<s, c>>]]]
  BY DEF GatherDepths
<1> HIDE DEF heard
<1>6. QED
  BY <1>4, <1>5 DEF IsNumbering, NumbersBy

LEMMA BeforeOrder ==
  ASSUME NEW l \in Sites, NEW k \in Nat \ {0}, PlaceAfter(<<l, k>>)[1] = "order"
  PROVE  l = "depths"
<1>1. \A n : \A first, after : Loop(k, n, first, after)[1] \in {first, after}
  BY DEF Loop
<1>2. QED
  BY <1>1 DEF PlaceAfter, Sites

LEMMA UpdateBlends ==
  ASSUME BlendInv, OrderInv', NEW r \in Ranks, Update(r), UNCHANGED domains
  PROVE  BlendInv'
<1>1. UNCHANGED calls
  BY UpdateReturns
<1>2. step[r] \in Nat \ {0}
  BY DEF BlendInv, OrderInv, RangeInv, Types
<1>3. /\ DOMAIN m_visibility_orders' = Ranks
      /\ \A s \in Ranks \ {r} : m_visibility_orders'[s] = m_visibility_orders[s]
      /\ ~ScatterOrder(r) => m_visibility_orders'[r] = m_visibility_orders[r]
  BY OtherSteps DEF BlendInv, ScatterOrder
<1>4. ASSUME NEW s \in Ranks \ {r} PROVE HoldsOrders(s)'
  <2>1. Place(s)' = Place(s)
    BY UpdateIsLocal DEF Place
  <2>2. Place(s)'[1] # "done" => /\ Place(s)[1] # "done"
                                 /\ Held(Place(s)') = Held(Place(s))
    BY <2>1
  <2>3. QED
    BY <1>1, <1>3, <2>2, StillHolds
<1>5. HoldsOrders(r)'
  <2>1. CASE ScatterOrder(r)
    BY <2>1, ScatterHolds
  <2>2. CASE ~ScatterOrder(r)
    <3>1. CASE Place(r)' = Place(r)
      BY <1>1, <1>3, <2>2, <3>1, StillHolds
    <3>2. CASE pc[r] \in Sites /\ Place(r)' = PlaceAfter(<<pc[r], step[r]>>)
      <4>1. pc[r] # "order" /\ Place(r) = <<pc[r], step[r]>> /\ Place(r)[1] # "done"
        BY <2>2, <3>2, StepAt DEF Place, Sites
      <4>2. Place(r)'[1] # "done" => Held(Place(r)') = Held(Place(r))
        BY <1>2, <3>2, <4>1, HeldAfter
      <4>3. QED
        BY <1>1, <1>3, <2>2, <4>1, <4>2, StillHolds
    <3>3. QED
      BY <3>1, <3>2, NextPlace
  <2>3. QED
    BY <2>1, <2>2
<1>6. RootNumbers'
  <2>1. Root \in Ranks
    BY UpdateAssumption
  <2>2. \A i \in 1 .. Len(calls'[Root]) :
          calls'[Root][i].site = "order" => IsNumbering(calls'[Root][i].value)
    BY <1>1 DEF BlendInv, RootNumbers
  <2>3. ASSUME pc'[Root] = "order" PROVE IsNumbering(vis_order')
    <3>1. CASE r = Root /\ GatherDepths(r)
      BY <3>1, DepthsNumber
    <3>2. CASE r = Root /\ ~GatherDepths(r)
      <4>1. Place(Root)'[1] = "order"
        BY <2>3 DEF Place
      <4>2. CASE GetRange(r) /\ Place(r)' = Place(r)
        BY <3>2, <4>1, <4>2 DEF GetRange, Place
      <4>3. CASE pc[r] \in Sites /\ Place(r)' = PlaceAfter(<<pc[r], step[r]>>)
        <5>1. pc[r] = "depths"
          BY <1>2, <3>2, <4>1, <4>3, BeforeOrder
        <5>2. QED
          BY <3>2, <5>1, StepAt
      <4>4. QED
        BY <4>2, <4>3, NextPlace
    <3>3. CASE r # Root
      <4>1. UNCHANGED vis_order
        BY <3>3, OtherSteps DEF GatherDepths
      <4>2. pc[Root] = "order"
        BY <2>1, <2>3, <3>3, UpdateIsLocal
      <4>3. IsNumbering(vis_order)
        BY <4>2 DEF BlendInv, RootNumbers
      <4>4. QED
        BY <4>1, <4>3
    <3>4. QED
      BY <3>1, <3>2, <3>3
  <2>4. QED
    BY <2>2, <2>3, RootNumbersNext
<1>7. QED
  BY <1>3, <1>4, <1>5, <1>6 DEF BlendInv

LEMMA CallBlends ==
  ASSUME BlendInv, OrderInv', NEW r \in Ranks, Call(r)
  PROVE  BlendInv'
<1> DEFINE call == [site |-> pc[r], value |-> Contribution(r)]
<1>1. /\ calls' = [calls EXCEPT ![r] = Append(calls[r], call)]
      /\ UNCHANGED <<domains, pc, step, vis_order, m_visibility_orders>>
  BY DEF Call, MPI!Enter
<1>2. call.site = pc[r] /\ (pc[r] = "order" => call.value = vis_order)
  BY DEF Contribution
<1> HIDE DEF call
<1>3. DOMAIN calls = Ranks /\ (\E S : calls[r] \in Seq(S)) /\ Root \in Ranks
  BY UpdateAssumption DEF BlendInv, OrderInv, RangeInv, Types, CallsTypes
<1>4. calls'[r] = Append(calls[r], call) /\ (r # Root => calls'[Root] = calls[Root])
  BY <1>1, <1>3
<1>5. /\ Len(calls[r]) \in Nat /\ Len(calls'[r]) = Len(calls[r]) + 1
      /\ \A i \in 1 .. Len(calls[r]) : calls'[r][i] = calls[r][i]
      /\ calls'[r][Len(calls[r]) + 1] = call
  <2> DEFINE old == calls[r]
  <2>1. \E S : old \in Seq(S)
    BY <1>3
  <2> HIDE DEF old
  <2>2. Len(old) \in Nat /\ Len(Append(old, call)) = Len(old) + 1
    BY <2>1, AppendAny
  <2>3. \A i \in 1 .. Len(old) : Append(old, call)[i] = old[i]
    BY <2>1, AppendAny
  <2>4. Append(old, call)[Len(old) + 1] = call
    BY <2>1, AppendAny
  <2>5. QED
    BY <1>4, <2>2, <2>3, <2>4 DEF old
<1>6. \A i \in 1 .. Len(calls[Root]) :
        i \in 1 .. Len(calls'[Root]) /\ calls'[Root][i] = calls[Root][i]
  <2>1. CASE r = Root
    BY <1>5, <2>1
  <2>2. CASE r # Root
    BY <1>4, <2>2
  <2>3. QED
    BY <2>1, <2>2
<1>7. \A s \in Ranks : HoldsOrders(s)'
  <2>1. SUFFICES ASSUME NEW s \in Ranks PROVE HoldsOrders(s)'
    OBVIOUS
  <2>2. HoldsOrders(s)
    BY DEF BlendInv
  <2>3. Held(Place(s))' = Held(Place(s)) /\ Place(s)' = Place(s)
    BY <1>1 DEF Held, Place
  <2>4. ASSUME NEW q, IsPlan(q)', NEW i \in 1 .. Len(m_visibility_orders[s])
        PROVE  \E n \in Nat : /\ q[n] = <<"order", i>>
                              /\ n + 1 \in 1 .. Len(calls'[Root])
                              /\ m_visibility_orders[s][i] = calls'[Root][n + 1].value[s]
    <3>1. IsPlan(q)
      BY <1>1, <2>4, SamePlan
    <3>2. PICK n \in Nat : /\ q[n] = <<"order", i>>
                           /\ n + 1 \in 1 .. Len(calls[Root])
                           /\ m_visibility_orders[s][i] = calls[Root][n + 1].value[s]
      BY <2>2, <2>4, <3>1 DEF HoldsOrders
    <3>3. QED
      BY <1>6, <3>2
  <2>5. m_visibility_orders' = m_visibility_orders
    BY <1>1
  <2>6. /\ \E S : m_visibility_orders[s] \in Seq(S)
        /\ Place(s)[1] # "done" => Len(m_visibility_orders[s]) = Held(Place(s))
    BY <2>2 DEF HoldsOrders
  <2>7. QED
    BY <2>3, <2>4, <2>5, <2>6 DEF HoldsOrders
<1>8. RootNumbers'
  <2>1. pc'[Root] = "order" => IsNumbering(vis_order')
    BY <1>1 DEF BlendInv, RootNumbers
  <2>2. ASSUME NEW i \in 1 .. Len(calls'[Root]), calls'[Root][i].site = "order"
        PROVE  IsNumbering(calls'[Root][i].value)
    <3>1. CASE i \in 1 .. Len(calls[Root])
      BY <1>1, <1>6, <2>2, <3>1 DEF BlendInv, RootNumbers
    <3>2. CASE r = Root /\ i = Len(calls[Root]) + 1
      <4>1. calls'[Root][i] = call
        BY <1>5, <3>2
      <4>2. pc[Root] = "order" /\ calls'[Root][i].value = vis_order
        BY <1>2, <2>2, <3>2, <4>1
      <4>3. QED
        BY <1>1, <4>2 DEF BlendInv, RootNumbers
    <3>3. i \in 1 .. Len(calls[Root]) \/ (r = Root /\ i = Len(calls[Root]) + 1)
      BY <1>4, <1>5, <2>2
    <3>4. QED
      BY <3>1, <3>2, <3>3
  <2>3. QED
    BY <1>1, <2>1, <2>2, RootNumbersNext
<1>9. QED
  BY <1>1, <1>7, <1>8 DEF BlendInv

LEMMA BlendNext == BlendInv /\ [Next]_vars => BlendInv'
<1> SUFFICES ASSUME BlendInv, [Next]_vars PROVE BlendInv'
  OBVIOUS
<1>1. OrderInv'
  BY OrderNext DEF BlendInv
<1>2. CASE UNCHANGED vars
  <2>1. UNCHANGED <<domains, pc, step, calls, vis_order, m_visibility_orders>>
    BY <1>2 DEF vars
  <2>2. \A s \in Ranks : HoldsOrders(s)'
    <3>1. SUFFICES ASSUME NEW s \in Ranks PROVE HoldsOrders(s)'
      OBVIOUS
    <3>2. Place(s)' = Place(s) /\ m_visibility_orders'[s] = m_visibility_orders[s]
      BY <2>1 DEF Place
    <3>3. Place(s)'[1] # "done" => /\ Place(s)[1] # "done"
                                   /\ Held(Place(s)') = Held(Place(s))
      BY <3>2
    <3>4. QED
      BY <2>1, <3>2, <3>3, StillHolds
  <2>3. RootNumbers'
    BY <2>1, RootNumbersNext DEF BlendInv, RootNumbers
  <2>4. QED
    BY <1>1, <2>1, <2>2, <2>3 DEF BlendInv
<1>3. ASSUME NEW r \in Ranks, Call(r) PROVE BlendInv'
  BY <1>1, <1>3, CallBlends
<1>4. ASSUME NEW r \in Ranks, Update(r), UNCHANGED domains PROVE BlendInv'
  BY <1>1, <1>4, UpdateBlends
<1>5. QED
  BY <1>2, <1>3, <1>4 DEF Next, Terminating

LEMMA BlendInvariant == Spec /\ Uniform => []BlendInv
BY BlendInit, BlendNext, PTL DEF Spec

(* VolumeRenderer.cpp:691-865: while the images are composited the orders  *)
(* the ranks hold for a render are those of one sort: no two ranks have    *)
(* the same, none is skipped, and the nearer domain is blended first.      *)
THEOREM OrdersFrontToBack == Spec /\ Uniform => []FrontToBack
<1>1. BlendInv => FrontToBack
  <2> SUFFICES ASSUME BlendInv,
                      NEW r \in Ranks, pc[r] = "send", inCall[r],
                      NEW s \in Ranks, pc[s] \in {"send", "sent", "gather"},
                      NEW i \in 1 .. NumRenders
               PROVE  /\ m_visibility_orders[r][i][1] \in 0 .. Cardinality(Ranks) - 1
                      /\ m_visibility_orders[r][i][1] = m_visibility_orders[s][i][1] => r = s
                      /\ domains[r][1].depth < domains[s][1].depth =>
                           m_visibility_orders[r][i][1] < m_visibility_orders[s][i][1]
    BY DEF FrontToBack
  <2>1. PICK plan : IsPlan(plan) /\ OnPlan(plan, r)
    BY DEF BlendInv, OrderInv
  <2>2. OneEach /\ Distributed
    <3>1. Len(calls[r]) - 1 \in Nat
      BY CallCounts DEF BlendInv, OrderInv
    <3>2. plan[Len(calls[r]) - 1][1] = "send"
      BY <2>1 DEF OnPlan
    <3>3. Structured
      BY <2>1, <3>1, <3>2, PlanFacts DEF SendSites
    <3>4. QED
      BY <3>3 DEF Structured, BlendInv, OrderInv, RangeInv, Types
  <2>3. /\ Len(m_visibility_orders[r]) = NumRenders
        /\ Len(m_visibility_orders[s]) = NumRenders
    BY DEF BlendInv, HoldsOrders, Place, Held, OrderSites, SendSites
  <2> DEFINE held == m_visibility_orders[r]
             others == m_visibility_orders[s]
  <2>4. HoldsOrders(r) /\ HoldsOrders(s)
    BY DEF BlendInv
  <2>5. \A j \in 1 .. Len(held) : \E n \in Nat :
           /\ plan[n] = <<"order", j>>
           /\ n + 1 \in 1 .. Len(calls[Root])
           /\ held[j] = calls[Root][n + 1].value[r]
    BY <2>1, <2>4 DEF HoldsOrders
  <2>6. \A j \in 1 .. Len(others) : \E n \in Nat :
           /\ plan[n] = <<"order", j>>
           /\ n + 1 \in 1 .. Len(calls[Root])
           /\ others[j] = calls[Root][n + 1].value[s]
    BY <2>1, <2>4 DEF HoldsOrders
  <2>7. Len(held) = NumRenders /\ Len(others) = NumRenders
    BY <2>3
  <2>8. PICK a \in Nat : /\ plan[a] = <<"order", i>>
                         /\ a + 1 \in 1 .. Len(calls[Root])
                         /\ m_visibility_orders[r][i] = calls[Root][a + 1].value[r]
    BY <2>7, <2>5
  <2>9. PICK b \in Nat : /\ plan[b] = <<"order", i>>
                         /\ m_visibility_orders[s][i] = calls[Root][b + 1].value[s]
    BY <2>7, <2>6
  <2>10. a = b
    BY <2>1, <2>8, <2>9, OrderOnce
  <2> DEFINE orders == calls[Root][a + 1].value
  <2>11. IsNumbering(orders)
    <3>1. PICK plan2 : IsPlan(plan2) /\ OnPlan(plan2, Root)
      BY UpdateAssumption DEF BlendInv, OrderInv
    <3>2. plan2[a] = <<"order", i>>
      BY <2>1, <2>8, <3>1, PlansAgree
    <3>3. (a + 1) - 1 = a
      OBVIOUS
    <3>4. calls[Root][a + 1].site = "order"
      BY <2>8, <3>1, <3>2, <3>3 DEF OnPlan
    <3>5. QED
      BY <2>8, <3>4 DEF BlendInv, RootNumbers
  <2>12. m_visibility_orders[r][i] = orders[r] /\ m_visibility_orders[s][i] = orders[s]
    BY <2>8, <2>9, <2>10
  <2> HIDE DEF orders
  <2>13. QED
    BY <2>2, <2>11, <2>12, NumberingOfOne
<1>2. QED
  BY <1>1, BlendInvariant, PTL
=============================================================================
