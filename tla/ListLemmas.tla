----------------------------- MODULE ListLemmas -----------------------------
(***************************************************************************)
(* Facts about numbers, finite sets and sequences that the proofs of       *)
(* several components rest on.                                             *)
(***************************************************************************)
EXTENDS Integers, FiniteSetsExt, SequencesExt, FiniteSetTheorems,
        SequenceTheorems, WellFoundedInduction, TLAPS

-----------------------------------------------------------------------------
(* Numbers: a bounded set has a least and a greatest element.              *)

LEMMA LeastNat ==
  ASSUME NEW T, T \subseteq Nat, T # {}
  PROVE  \E x \in T : \A y \in T : x <= y
<1> DEFINE R == OpToRel(<, Nat)
<1>1. \A x, y \in Nat : <<x, y>> \in R <=> x < y
  BY DEF OpToRel
<1>2. IsWellFoundedOn(R, Nat)
  BY NatLessThanWellFounded
<1> HIDE DEF R
<1>3. PICK x \in T : \A y \in T : ~ (<<y, x>> \in R)
  BY <1>2, WFMin
<1>4. \A y \in T : ~(y < x)
  BY <1>1, <1>3
<1>5. \A y \in T : y \in Nat /\ x \in Nat
  OBVIOUS
<1>6. QED
  BY <1>4, <1>5

LEMMA MinBounded ==
  ASSUME NEW b \in Int, NEW S, S \subseteq Int, S # {}, \A x \in S : b <= x
  PROVE  Min(S) \in S /\ \A y \in S : Min(S) <= y
<1> DEFINE T == {x - b : x \in S}
<1>1. T \subseteq Nat /\ T # {}
  <2>1. \A x \in S : x \in Int /\ x - b \in Nat
    OBVIOUS
  <2>2. QED
    BY <2>1
<1>2. PICK t \in T : \A u \in T : t <= u
  BY <1>1, LeastNat
<1>3. PICK x \in S : t = x - b
  OBVIOUS
<1>4. \A y \in S : y - b \in T
  OBVIOUS
<1>5. \A y \in S : y \in Int /\ x \in Int /\ x - b <= y - b
  BY <1>2, <1>3, <1>4
<1>6. \A y \in S : x <= y
  BY <1>5
<1> HIDE DEF T
<1>7. QED
  BY <1>6 DEF Min

LEMMA MaxBounded ==
  ASSUME NEW b \in Int, NEW S, S \subseteq Int, S # {}, \A x \in S : x <= b
  PROVE  Max(S) \in S /\ \A y \in S : y <= Max(S)
<1> DEFINE T == {b - x : x \in S}
<1>1. T \subseteq Nat /\ T # {}
  <2>1. \A x \in S : x \in Int /\ b - x \in Nat
    OBVIOUS
  <2>2. QED
    BY <2>1
<1>2. PICK t \in T : \A u \in T : t <= u
  BY <1>1, LeastNat
<1>3. PICK x \in S : t = b - x
  OBVIOUS
<1>4. \A y \in S : b - y \in T
  OBVIOUS
<1>5. \A y \in S : y \in Int /\ x \in Int /\ b - x <= b - y
  BY <1>2, <1>3, <1>4
<1>6. \A y \in S : y <= x
  BY <1>5
<1> HIDE DEF T
<1>7. QED
  BY <1>6 DEF Max

LEMMA MinIs ==
  ASSUME NEW S, S \subseteq Int, NEW m \in S, \A x \in S : m <= x
  PROVE  Min(S) = m
<1>1. Min(S) \in S /\ Min(S) <= m
  BY DEF Min
<1>2. m <= Min(S) /\ m \in Int /\ Min(S) \in Int
  BY <1>1
<1>3. QED
  BY <1>1, <1>2

LEMMA MaxIs ==
  ASSUME NEW S, S \subseteq Int, NEW m \in S, \A x \in S : x <= m
  PROVE  Max(S) = m
<1>1. Max(S) \in S /\ m <= Max(S)
  BY DEF Max
<1>2. Max(S) <= m /\ m \in Int /\ Max(S) \in Int
  BY <1>1
<1>3. QED
  BY <1>1, <1>2

(* Induction over the numbers, with a set for the predicate. *)
LEMMA NatInductionSet ==
  ASSUME NEW T, 0 \in T, \A n \in Nat : n \in T => n + 1 \in T
  PROVE  Nat \subseteq T
<1> DEFINE Rest == Nat \ T
<1>1. SUFFICES ASSUME Rest # {} PROVE FALSE
  OBVIOUS
<1>2. PICK x \in Rest : \A y \in Rest : x <= y
  BY <1>1, LeastNat
<1>3. x # 0 /\ x - 1 \in Nat /\ (x - 1) + 1 = x
  BY <1>2
<1>4. x - 1 \notin Rest
  BY <1>2, <1>3
<1>5. QED
  BY <1>2, <1>3, <1>4

-----------------------------------------------------------------------------
(* Finite sets.                                                            *)

LEMMA FunctionImageFinite ==
  ASSUME NEW S, IsFiniteSet(S), NEW f, DOMAIN f = S
  PROVE  IsFiniteSet({f[x] : x \in S})
<1> DEFINE T == {f[x] : x \in S}
           g == [x \in S |-> f[x]]
<1>1. g \in Surjection(S, T)
  BY DEF Surjection
<1> HIDE DEF T, g
<1>2. IsFiniteSet(T)
  BY <1>1, FS_Surjection
<1>3. QED
  BY <1>2 DEF T

(* A finite set of numbers has a least and a greatest element. *)
HasEnds(S) ==
  \E l, g \in S : \A x \in S : l <= x /\ x <= g

LEMMA FiniteEnds ==
  ASSUME NEW S, S \subseteq Int, IsFiniteSet(S), S # {}
  PROVE  HasEnds(S)
<1> DEFINE P(n) == \A U : U \subseteq Int /\ IsFiniteSet(U) /\ Cardinality(U) = n + 1
                            => HasEnds(U)
           T == {n \in Nat : P(n)}
<1>1. 0 \in T
  <2> SUFFICES ASSUME NEW U, U \subseteq Int, IsFiniteSet(U), Cardinality(U) = 1
               PROVE  HasEnds(U)
    OBVIOUS
  <2>1. PICK x : U = {x}
    BY FS_Singleton
  <2>2. QED
    BY <2>1 DEF HasEnds
<1>2. ASSUME NEW n \in Nat, n \in T PROVE n + 1 \in T
  <2> SUFFICES ASSUME NEW U, U \subseteq Int, IsFiniteSet(U), Cardinality(U) = (n + 1) + 1
               PROVE  HasEnds(U)
    OBVIOUS
  <2>1. U # {}
    BY FS_EmptySet
  <2>2. PICK x : x \in U
    BY <2>1
  <2> DEFINE V == U \ {x}
  <2>3. IsFiniteSet(V) /\ Cardinality(V) = n + 1 /\ V \subseteq Int
    BY <2>2, FS_RemoveElement
  <2>4. HasEnds(V)
    BY <1>2, <2>3
  <2>5. PICK l, g \in V : \A y \in V : l <= y /\ y <= g
    BY <2>4 DEF HasEnds
  <2>6. x \in Int /\ l \in Int /\ g \in Int /\ l \in U /\ g \in U
    BY <2>2, <2>5
  <2> DEFINE least == IF x <= l THEN x ELSE l
             greatest == IF g <= x THEN x ELSE g
  <2>7. least \in U /\ greatest \in U
    BY <2>2, <2>6
  <2>8. \A y \in U : y \in Int /\ (y = x \/ (l <= y /\ y <= g))
    BY <2>5
  <2>9. \A y \in U : least <= y /\ y <= greatest
    BY <2>6, <2>8
  <2> HIDE DEF least, greatest
  <2>10. QED
    BY <2>7, <2>9 DEF HasEnds
<1> HIDE DEF T
<1>3. Nat \subseteq T
  BY <1>1, <1>2, NatInductionSet
<1>4. Cardinality(S) \in Nat /\ Cardinality(S) # 0
  BY FS_CardinalityType, FS_EmptySet
<1>5. Cardinality(S) - 1 \in Nat /\ (Cardinality(S) - 1) + 1 = Cardinality(S)
  BY <1>4
<1>6. P(Cardinality(S) - 1)
  BY <1>3, <1>5 DEF T
<1>7. QED
  BY <1>5, <1>6

LEMMA FiniteMinMax ==
  ASSUME NEW S, S \subseteq Int, IsFiniteSet(S), S # {}
  PROVE  /\ Min(S) \in S /\ \A x \in S : Min(S) <= x
         /\ Max(S) \in S /\ \A x \in S : x <= Max(S)
<1>1. PICK l, g \in S : \A x \in S : l <= x /\ x <= g
  BY FiniteEnds DEF HasEnds
<1>2. Min(S) = l
  BY <1>1, MinIs
<1>3. Max(S) = g
  BY <1>1, MaxIs
<1>4. QED
  BY <1>1, <1>2, <1>3

(* The elements of a finite set of numbers, counted from the least one:    *)
(* each has a number, and each number one element.                         *)
Smaller(S, x) == {y \in S : y < x}

LEMMA SmallerCounts ==
  ASSUME NEW S, S \subseteq Int, IsFiniteSet(S)
  PROVE  /\ Cardinality(S) \in Nat
         /\ \A x \in S : Cardinality(Smaller(S, x)) \in 0 .. (Cardinality(S) - 1)
         /\ \A x, y \in S : Cardinality(Smaller(S, x)) = Cardinality(Smaller(S, y)) => x = y
         /\ \A k \in 0 .. (Cardinality(S) - 1) :
              \E x \in S : Cardinality(Smaller(S, x)) = k
<1> DEFINE n == Cardinality(S)
           count(x) == Cardinality(Smaller(S, x))
<1>1. n \in Nat
  BY FS_CardinalityType
<1>2. ASSUME NEW x \in S
      PROVE  IsFiniteSet(Smaller(S, x)) /\ count(x) \in Nat /\ count(x) < n
  <2>1. Smaller(S, x) \in SUBSET S /\ x \notin Smaller(S, x)
    BY DEF Smaller
  <2>2. /\ IsFiniteSet(Smaller(S, x)) /\ count(x) <= n
        /\ count(x) = n => Smaller(S, x) = S
    BY <2>1, FS_Subset
  <2>3. count(x) \in Nat
    BY <2>2, FS_CardinalityType
  <2>4. count(x) # n
    BY <2>1, <2>2
  <2>5. QED
    BY <1>1, <2>2, <2>3, <2>4
<1>3. ASSUME NEW x \in S, NEW y \in S, x < y PROVE count(x) < count(y)
  <2>1. /\ Smaller(S, x) \in SUBSET Smaller(S, y)
        /\ x \in Smaller(S, y) /\ x \notin Smaller(S, x)
    <3>1. x \in Int /\ y \in Int /\ ~(x < x)
      OBVIOUS
    <3>2. \A z \in S : z \in Int /\ (z < x => z < y)
      BY <1>3, <3>1
    <3>3. QED
      BY <1>3, <3>1, <3>2 DEF Smaller
  <2>2. /\ count(x) <= count(y)
        /\ count(x) = count(y) => Smaller(S, x) = Smaller(S, y)
    BY <1>2, <2>1, FS_Subset
  <2>3. QED
    BY <1>2, <2>1, <2>2
<1>4. \A x, y \in S : count(x) = count(y) => x = y
  <2> SUFFICES ASSUME NEW x \in S, NEW y \in S, count(x) = count(y) PROVE x = y
    OBVIOUS
  <2>1. count(x) \in Nat /\ count(y) \in Nat /\ x \in Int /\ y \in Int
    BY <1>2
  <2>2. ~(x < y) /\ ~(y < x)
    BY <1>3, <2>1
  <2>3. QED
    BY <2>1, <2>2
<1>5. \A x \in S : count(x) \in 0 .. (n - 1)
  BY <1>1, <1>2
<1>6. \A k \in 0 .. (n - 1) : \E x \in S : count(x) = k
  <2> DEFINE f == [x \in S |-> count(x)]
             C == {count(x) : x \in S}
  <2>1. f \in Injection(S, 0 .. (n - 1))
    <3>1. f \in [S -> 0 .. (n - 1)]
      BY <1>5
    <3>2. \A x, y \in S : f[x] = f[y] => x = y
      BY <1>4
    <3>3. QED
      BY <3>1, <3>2 DEF Injection, IsInjective
  <2>2. n - 1 \in Int /\ 0 \in Int
    BY <1>1
  <2>3. IsFiniteSet(0 .. (n - 1)) /\ Cardinality(0 .. (n - 1)) = n
    <3>1. /\ IsFiniteSet(0 .. (n - 1))
          /\ Cardinality(0 .. (n - 1)) = IF 0 > n - 1 THEN 0 ELSE (n - 1) - 0 + 1
      BY <2>2, FS_Interval
    <3>2. QED
      BY <1>1, <3>1
  <2>4. f \in Surjection(S, 0 .. (n - 1))
    <3> HIDE DEF f
    <3> DEFINE D == 0 .. (n - 1)
    <3>1. IsFiniteSet(D) /\ Cardinality(D) = Cardinality(S) /\ f \in Injection(S, D)
      BY <2>1, <2>3
    <3> HIDE DEF D
    <3>2. f \in Surjection(S, D)
      BY <3>1, FS_Injection
    <3>3. QED
      BY <3>2 DEF D
  <2>5. \A k \in 0 .. (n - 1) : \E x \in S : f[x] = k
    BY <2>4 DEF Surjection
  <2>6. QED
    BY <2>5
<1>7. QED
  BY <1>1, <1>4, <1>5, <1>6

-----------------------------------------------------------------------------
(* Sequences.                                                              *)

LEMMA AppendAny ==
  ASSUME NEW s, \E S : s \in Seq(S), NEW e
  PROVE  /\ \E S : Append(s, e) \in Seq(S)
         /\ Len(s) \in Nat /\ Len(Append(s, e)) = Len(s) + 1
         /\ DOMAIN s = 1 .. Len(s)
         /\ \A i \in 1 .. Len(s) : Append(s, e)[i] = s[i]
         /\ Append(s, e)[Len(s) + 1] = e
<1>1. PICK S : s \in Seq(S)
  OBVIOUS
<1>2. s \in Seq(S \cup {e}) /\ e \in S \cup {e}
  BY <1>1, SeqMonotonic
<1>3. Append(s, e) \in Seq(S \cup {e})
  BY <1>2
<1>4. QED
  BY <1>2, <1>3

(* What FlattenSeq computes, as the function its definition chooses.       *)
LEMMA FlattenChoice ==
  ASSUME NEW s, Len(s) # 0
  PROVE  FlattenSeq(s) =
           (CHOOSE g : g = [i \in 1 .. Len(s) |->
                              IF i = 1 THEN s[i] ELSE g[i - 1] \o s[i]])[Len(s)]
BY DEF FlattenSeq

Joins(h, s, n) ==
  /\ h = [i \in 1 .. n |-> h[i]]
  /\ \A i \in 1 .. n : h[i] = IF i = 1 THEN s[i] ELSE h[i - 1] \o s[i]

(* A function that joins one element more at each place is the one chosen. *)
LEMMA FlattenIs ==
  ASSUME NEW s, NEW n \in Nat \ {0}, Len(s) = n, NEW h, Joins(h, s, n)
  PROVE  FlattenSeq(s) = h[n]
<1> DEFINE joins(g) == g = [i \in 1 .. n |-> IF i = 1 THEN s[i] ELSE g[i - 1] \o s[i]]
           c == CHOOSE g : joins(g)
<1>1. joins(h)
  BY DEF Joins
<1>2. joins(c)
  <2> HIDE DEF joins
  <2>1. QED
    BY <1>1
<1>3. FlattenSeq(s) = c[n]
  BY FlattenChoice
<1> HIDE DEF c
<1>4. \A i \in 1 .. n : c[i] = IF i = 1 THEN s[i] ELSE c[i - 1] \o s[i]
  BY <1>2
<1>5. \A i \in 1 .. n : h[i] = IF i = 1 THEN s[i] ELSE h[i - 1] \o s[i]
  BY <1>1
<1> HIDE DEF joins
<1> DEFINE T == {i \in Nat : i \in 1 .. n => c[i] = h[i]}
<1>6. 0 \in T
  OBVIOUS
<1>7. ASSUME NEW i \in Nat, i \in T PROVE i + 1 \in T
  <2> SUFFICES ASSUME i + 1 \in 1 .. n PROVE c[i + 1] = h[i + 1]
    OBVIOUS
  <2>1. CASE i = 0
    <3>1. i + 1 = 1 /\ 1 \in 1 .. n
      BY <2>1
    <3>2. c[1] = s[1] /\ h[1] = s[1]
      BY <1>4, <1>5, <3>1
    <3>3. QED
      BY <3>1, <3>2
  <2>2. CASE i # 0
    <3>1. i \in 1 .. n /\ i + 1 # 1 /\ (i + 1) - 1 = i
      BY <2>2
    <3>2. c[i] = h[i]
      BY <1>7, <3>1
    <3>3. c[i + 1] = c[i] \o s[i + 1] /\ h[i + 1] = h[i] \o s[i + 1]
      BY <1>4, <1>5, <3>1
    <3>4. QED
      BY <3>2, <3>3
  <2>3. QED
    BY <2>1, <2>2
<1>8. n \in T
  <2> HIDE DEF T
  <2>1. Nat \subseteq T
    BY <1>6, <1>7, NatInductionSet
  <2>2. QED
    BY <2>1
<1>9. QED
  BY <1>3, <1>8

LEMMA JoinsExist ==
  ASSUME NEW s, NEW n \in Nat
  PROVE  \E h : Joins(h, s, n)
<1> DEFINE T == {k \in Nat : \E h : Joins(h, s, k)}
<1>1. 0 \in T
  <2>1. Joins([i \in 1 .. 0 |-> s[i]], s, 0)
    BY DEF Joins
  <2>2. QED
    BY <2>1
<1>2. ASSUME NEW k \in Nat, k \in T PROVE k + 1 \in T
  <2>1. PICK h : Joins(h, s, k)
    BY <1>2
  <2> DEFINE last == IF k + 1 = 1 THEN s[k + 1] ELSE h[k] \o s[k + 1]
             g == [i \in 1 .. k + 1 |-> IF i = k + 1 THEN last ELSE h[i]]
  <2> HIDE DEF last
  <2>2. /\ g = [i \in 1 .. k + 1 |-> g[i]]
        /\ g[k + 1] = last
        /\ \A i \in 1 .. k : g[i] = h[i]
    <3>1. k + 1 \in 1 .. k + 1 /\ \A i \in 1 .. k : i \in 1 .. k + 1 /\ i # k + 1
      OBVIOUS
    <3>2. QED
      BY <3>1
  <2>3. ASSUME NEW i \in 1 .. k + 1
        PROVE  g[i] = IF i = 1 THEN s[i] ELSE g[i - 1] \o s[i]
    <3> HIDE DEF g
    <3>1. CASE i = k + 1
      <4>1. k # 0 => k \in 1 .. k
        OBVIOUS
      <4>2. i - 1 = k /\ (i # 1 => k # 0)
        BY <3>1
      <4>3. i # 1 => g[i - 1] = h[k]
        BY <2>2, <4>1, <4>2
      <4>4. g[i] = IF i = 1 THEN s[i] ELSE h[k] \o s[i]
        BY <2>2, <3>1 DEF last
      <4>5. QED
        BY <4>3, <4>4
    <3>2. CASE i # k + 1
      <4>1. i \in 1 .. k /\ (i # 1 => i - 1 \in 1 .. k)
        BY <3>2
      <4>2. h[i] = IF i = 1 THEN s[i] ELSE h[i - 1] \o s[i]
        BY <2>1, <4>1 DEF Joins
      <4>3. QED
        BY <2>2, <4>1, <4>2
    <3>3. QED
      BY <3>1, <3>2
  <2> HIDE DEF g
  <2>4. Joins(g, s, k + 1)
    BY <2>2, <2>3 DEF Joins
  <2>5. QED
    BY <2>4
<1> HIDE DEF T
<1>3. n \in T
  BY <1>1, <1>2, NatInductionSet
<1>4. QED
  BY <1>3 DEF T

-----------------------------------------------------------------------------
(* Recursive functions.  m is a measure that decreases in a recursive call. *)

LEMMA MeasureInduction ==
  ASSUME NEW D, NEW m \in [D -> Nat], NEW T,
         \A x \in D : (\A y \in D : m[y] < m[x] => y \in T) => x \in T
  PROVE  D \subseteq T
<1> DEFINE Rest == {m[x] : x \in D \ T}
<1>1. SUFFICES ASSUME Rest # {} PROVE FALSE
  OBVIOUS
<1>2. Rest \subseteq Nat
  OBVIOUS
<1>3. PICK b \in Rest : \A c \in Rest : b <= c
  BY <1>1, <1>2, LeastNat
<1>4. PICK x \in D \ T : m[x] = b
  BY <1>3
<1>5. \A y \in D : m[y] < m[x] => y \in T
  <2> SUFFICES ASSUME NEW y \in D, m[y] < m[x], y \notin T PROVE FALSE
    OBVIOUS
  <2>1. b <= m[y]
    BY <1>3
  <2>2. m[y] \in Nat /\ m[x] \in Nat
    OBVIOUS
  <2>3. QED
    BY <1>4, <2>1, <2>2
<1>6. QED
  BY <1>4, <1>5

(* g[x] is what the recursive definition says. *)
Unfolds(g, x, Stop, base, step, next) ==
  g[x] = IF x \in Stop THEN base[x] ELSE step[<<x, g[next[x]]>>]

LEMMA RecursionExists ==
  ASSUME NEW D, NEW S, NEW m \in [D -> Nat], NEW next \in [D -> D], NEW Stop,
         NEW base \in [D -> S], NEW step \in [D \X S -> S],
         \A x \in D \ Stop : m[next[x]] < m[x]
  PROVE  \E g \in [D -> S] : \A x \in D : Unfolds(g, x, Stop, base, step, next)
<1> DEFINE Eq(g, x) == Unfolds(g, x, Stop, base, step, next)
           Sol(g, n) == g \in [D -> S] /\ \A x \in D : m[x] <= n => Eq(g, x)
           T == {n \in Nat : \E g : Sol(g, n)}
<1>1. \A x \in D : m[x] \in Nat /\ next[x] \in D
  OBVIOUS
<1>2. 0 \in T
  <2>1. \A x \in D : m[x] <= 0 => x \in Stop
    <3> SUFFICES ASSUME NEW x \in D, m[x] <= 0, x \notin Stop PROVE FALSE
      OBVIOUS
    <3>1. m[next[x]] < m[x] /\ m[x] \in Nat /\ m[next[x]] \in Nat
      BY <1>1
    <3>2. QED
      BY <3>1
  <2>2. Sol(base, 0)
    BY <2>1 DEF Unfolds
  <2>3. QED
    BY <2>2
<1>3. ASSUME NEW n \in Nat, n \in T PROVE n + 1 \in T
  <2>1. PICK g : Sol(g, n)
    BY <1>3
  <2> DEFINE h == [x \in D |-> IF x \in Stop THEN base[x] ELSE step[<<x, g[next[x]]>>]]
  <2>2. h \in [D -> S]
    BY <2>1
  <2>3. \A x \in D : h[x] = IF x \in Stop THEN base[x] ELSE step[<<x, g[next[x]]>>]
    OBVIOUS
  <2> HIDE DEF h
  <2>4. \A x \in D : m[x] <= n => h[x] = g[x]
    BY <2>1, <2>3 DEF Unfolds
  <2>5. ASSUME NEW x \in D, m[x] <= n + 1 PROVE Eq(h, x)
    <3>1. CASE x \in Stop
      BY <2>3, <3>1 DEF Unfolds
    <3>2. CASE x \notin Stop
      <4>1. m[next[x]] < m[x] /\ m[x] \in Nat /\ m[next[x]] \in Nat
        BY <1>1, <3>2
      <4>2. h[next[x]] = g[next[x]]
        BY <1>1, <2>4, <2>5, <4>1
      <4>3. QED
        BY <2>3, <3>2, <4>2 DEF Unfolds
    <3>3. QED
      BY <3>1, <3>2
  <2>6. QED
    BY <2>2, <2>5
<1>4. Nat \subseteq T
  <2> HIDE DEF T
  <2>1. QED
    BY <1>2, <1>3, NatInductionSet
<1> DEFINE F == [n \in Nat |-> CHOOSE g : Sol(g, n)]
<1>5. \A n \in Nat : Sol(F[n], n)
  <2> HIDE DEF Sol
  <2> SUFFICES ASSUME NEW n \in Nat PROVE Sol(F[n], n)
    OBVIOUS
  <2>1. \E g : Sol(g, n)
    BY <1>4
  <2>2. Sol(CHOOSE g : Sol(g, n), n)
    BY <2>1
  <2>3. QED
    BY <2>2
<1> HIDE DEF F, T
<1> DEFINE U == {x \in D : \A p, q \in Nat : m[x] <= p /\ m[x] <= q => F[p][x] = F[q][x]}
<1>6. D \subseteq U
  <2>1. ASSUME NEW x \in D, \A y \in D : m[y] < m[x] => y \in U PROVE x \in U
    <3> SUFFICES ASSUME NEW p \in Nat, NEW q \in Nat, m[x] <= p, m[x] <= q
                 PROVE  F[p][x] = F[q][x]
      OBVIOUS
    <3>1. Eq(F[p], x) /\ Eq(F[q], x)
      BY <1>5
    <3>2. CASE x \in Stop
      BY <3>1, <3>2 DEF Unfolds
    <3>3. CASE x \notin Stop
      <4>1. m[next[x]] < m[x] /\ m[x] \in Nat /\ m[next[x]] \in Nat
        BY <1>1, <3>3
      <4>2. next[x] \in U /\ m[next[x]] <= p /\ m[next[x]] <= q
        BY <1>1, <2>1, <4>1
      <4>3. F[p][next[x]] = F[q][next[x]]
        BY <4>2
      <4>4. QED
        BY <3>1, <3>3, <4>3 DEF Unfolds
    <3>4. QED
      BY <3>2, <3>3
  <2> HIDE DEF U
  <2>2. QED
    BY <2>1, MeasureInduction
<1> DEFINE G == [x \in D |-> F[m[x]][x]]
<1>7. G \in [D -> S]
  BY <1>1, <1>5
<1>8. \A x \in D : G[x] = F[m[x]][x]
  OBVIOUS
<1> HIDE DEF G
<1>9. ASSUME NEW x \in D PROVE Eq(G, x)
  <2>1. Eq(F[m[x]], x)
    <3>1. m[x] <= m[x]
      BY <1>1
    <3>2. QED
      BY <1>1, <1>5, <3>1
  <2>2. CASE x \in Stop
    BY <1>8, <2>1, <2>2 DEF Unfolds
  <2>3. CASE x \notin Stop
    <3>1. m[next[x]] < m[x] /\ m[x] \in Nat /\ m[next[x]] \in Nat /\ next[x] \in D
      BY <1>1, <2>3
    <3>2. next[x] \in U /\ m[next[x]] <= m[x] /\ m[next[x]] <= m[next[x]]
      BY <1>6, <3>1
    <3>3. F[m[x]][next[x]] = F[m[next[x]]][next[x]]
      BY <3>1, <3>2
    <3>4. QED
      BY <1>8, <2>1, <2>3, <3>1, <3>3 DEF Unfolds
  <2>4. QED
    BY <2>2, <2>3
<1>10. QED
  BY <1>7, <1>9

LEMMA StrongInduction ==
  ASSUME NEW T, \A n \in Nat : (\A k \in Nat : k < n => k \in T) => n \in T
  PROVE  Nat \subseteq T
<1> DEFINE Rest == Nat \ T
<1>1. SUFFICES ASSUME Rest # {} PROVE FALSE
  OBVIOUS
<1>2. PICK x \in Rest : \A y \in Rest : x <= y
  BY <1>1, LeastNat
<1>3. \A y \in Nat : y < x => y \notin Rest
  BY <1>2
<1>4. QED
  BY <1>2, <1>3

LEMMA MinNat ==
  ASSUME NEW S, S \subseteq Nat, S # {}
  PROVE  Min(S) \in S /\ \A y \in S : Min(S) <= y
<1>1. \E x \in S : \A y \in S : x <= y
  BY LeastNat
<1>2. QED
  BY <1>1 DEF Min

LEMMA DivMod ==
  ASSUME NEW a \in Int, NEW b \in Nat \ {0}
  PROVE  /\ a \div b \in Int /\ a % b \in 0 .. (b - 1)
         /\ a = b * (a \div b) + (a % b)
OBVIOUS

LEMMA DivTimesInt ==
  ASSUME NEW a \in Int, NEW b \in Nat \ {0}
  PROVE  b * (a \div b) <= a
OBVIOUS

LEMMA LessTimes ==
  ASSUME NEW b \in Nat \ {0}, NEW p \in Int, NEW q \in Int, p < q
  PROVE  b * p + b <= b * q
OBVIOUS

LEMMA DivModIs ==
  ASSUME NEW b \in Nat \ {0}, NEW q \in Int, NEW t \in 0 .. (b - 1)
  PROVE  (b * q + t) \div b = q /\ (b * q + t) % b = t
<1> DEFINE a == b * q + t
           p == a \div b
           u == a % b
<1>1. a \in Int
  OBVIOUS
<1>2. p \in Int /\ u \in 0 .. (b - 1) /\ a = b * p + u
  BY <1>1, DivMod
<1> HIDE DEF p, u
<1>3. b * p \in Int /\ b * q \in Int /\ a = b * q + t
  BY <1>2
<1> HIDE DEF a
<1>4. ~(p < q)
  <2> SUFFICES ASSUME p < q PROVE FALSE
    OBVIOUS
  <2>1. b * p + b <= b * q
    BY <1>2, LessTimes
  <2>2. QED
    BY <1>1, <1>2, <1>3, <2>1
<1>5. ~(q < p)
  <2> SUFFICES ASSUME q < p PROVE FALSE
    OBVIOUS
  <2>1. b * q + b <= b * p
    BY <1>2, LessTimes
  <2>2. QED
    BY <1>1, <1>2, <1>3, <2>1
<1>6. p = q
  BY <1>2, <1>4, <1>5
<1>7. u = t
  BY <1>1, <1>2, <1>3, <1>6
<1>8. QED
  BY <1>6, <1>7 DEF a, p, u

(* A block of b * c numbers is c blocks of b numbers. *)
LEMMA DivTwice ==
  ASSUME NEW a \in Nat, NEW b \in Nat \ {0}, NEW c \in Nat \ {0}
  PROVE  /\ b * c \in Nat \ {0}
         /\ a \div (b * c) = (a \div b) \div c
         /\ a = (b * c) * (a \div (b * c)) + b * ((a \div b) % c) + (a % b)
<1> DEFINE q == a \div b
           t == a % b
           p == q \div c
           u == q % c
<1>1. q \in Int /\ t \in 0 .. (b - 1) /\ a = b * q + t
  BY DivMod
<1>2. p \in Int /\ u \in 0 .. (c - 1) /\ q = c * p + u
  BY <1>1, DivMod
<1> HIDE DEF q, t, p, u
<1>3. b * c \in Nat \ {0}
  OBVIOUS
<1>4. b * q = (b * c) * p + b * u /\ b * u \in Nat
  <2>1. b * (c * p + u) = b * (c * p) + b * u
    BY <1>2
  <2>2. b * (c * p) = (b * c) * p
    BY <1>2
  <2>3. QED
    BY <1>2, <2>1, <2>2
<1>5. b * u + t \in 0 .. (b * c - 1)
  <2>1. b * u + b <= b * c
    BY <1>2, LessTimes
  <2>2. b * c \in Int /\ b * u \in Nat
    BY <1>3, <1>4
  <2>3. QED
    BY <1>1, <2>1, <2>2
<1>6. a = (b * c) * p + (b * u + t)
  <2>1. (b * c) * p \in Int
    BY <1>2, <1>3
  <2>2. QED
    BY <1>1, <1>4, <2>1
<1> DEFINE d == b * c
           v == b * u + t
<1>7. d \in Nat \ {0} /\ v \in 0 .. (d - 1) /\ a = d * p + v
  BY <1>3, <1>5, <1>6
<1> HIDE DEF d, v
<1>8. a \div d = p
  BY <1>2, <1>7, DivModIs
<1>9. a = d * p + b * u + t
  <2>1. d * p \in Int /\ b * u \in Nat
    BY <1>2, <1>4, <1>7
  <2>2. \A x, y, z \in Int : x + (y + z) = x + y + z
    OBVIOUS
  <2>3. t \in Int
    BY <1>1
  <2>4. d * p + (b * u + t) = d * p + b * u + t
    BY <2>1, <2>2, <2>3
  <2>5. QED
    BY <1>7, <2>4 DEF v
<1>10. QED
  BY <1>3, <1>8, <1>9 DEF d, q, t, p, u

LEMMA DivOfProduct ==
  ASSUME NEW a \in Nat, NEW b \in Nat \ {0}, NEW c \in Nat \ {0}
  PROVE  a \div (b * c) = (a \div b) \div c
<1>1. /\ b * c \in Nat \ {0}
      /\ a \div (b * c) = (a \div b) \div c
      /\ a = (b * c) * (a \div (b * c)) + b * ((a \div b) % c) + (a % b)
  BY DivTwice
<1>2. QED
  BY <1>1, Zenon

LEMMA ModOfProduct ==
  ASSUME NEW a \in Nat, NEW b \in Nat \ {0}, NEW c \in Nat \ {0}
  PROVE  a % (c * b) = b * ((a \div b) % c) + (a % b)
<1> DEFINE m == b * c
           k == b * ((a \div b) % c)
<1>1. m \in Nat \ {0} /\ a = m * (a \div m) + k + (a % b)
  BY DivTwice
<1>5. m = c * b
  OBVIOUS
<1> HIDE DEF m, k
<1>2. a = m * (a \div m) + (a % m) /\ a \div m \in Int /\ a % m \in Int
  BY <1>1, DivMod
<1>3. (a \div b) % c \in Int /\ a % b \in Int
  <2>1. a \div b \in Int
    BY DivMod
  <2>2. QED
    BY <2>1, DivMod
<1>4. k \in Int /\ m * (a \div m) \in Int
  BY <1>1, <1>2, <1>3 DEF k
<1>6. a % m = k + (a % b)
  BY <1>1, <1>2, <1>3, <1>4
<1>7. QED
  BY <1>5, <1>6 DEF k

(* A value that each step makes from the one before. *)
StepsFrom(g, a, step) ==
  g[0] = a /\ \A n \in Nat \ {0} : g[n] = step[<<n, g[n - 1]>>]

LEMMA IterationExists ==
  ASSUME NEW S, NEW a \in S, NEW step \in [Nat \X S -> S]
  PROVE  \E g \in [Nat -> S] : StepsFrom(g, a, step)
<1> DEFINE m == [n \in Nat |-> n]
           next == [n \in Nat |-> IF n = 0 THEN 0 ELSE n - 1]
           Stop == {0}
           base == [n \in Nat |-> a]
<1>1. m \in [Nat -> Nat] /\ next \in [Nat -> Nat] /\ base \in [Nat -> S]
  OBVIOUS
<1>2. \A n \in Nat \ Stop : m[next[n]] < m[n]
  OBVIOUS
<1>3. /\ \A n \in Nat \ {0} : next[n] = n - 1
      /\ base[0] = a
  OBVIOUS
<1> HIDE DEF m, next, base
<1>4. PICK g \in [Nat -> S] : \A n \in Nat : Unfolds(g, n, Stop, base, step, next)
  BY <1>1, <1>2, RecursionExists
<1>5. g[0] = a
  BY <1>3, <1>4 DEF Unfolds
<1>6. \A n \in Nat \ {0} : g[n] = step[<<n, g[n - 1]>>]
  BY <1>3, <1>4 DEF Unfolds
<1>7. QED
  BY <1>5, <1>6 DEF StepsFrom

(* What a sequence has but for one of its places. *)
LEMMA RemoveAtIs ==
  ASSUME NEW S, NEW s \in Seq(S), NEW i \in 1 .. Len(s),
         \A j, k \in 1 .. Len(s) : s[j] = s[k] => j = k
  PROVE  /\ RemoveAt(s, i) \in Seq(S)
         /\ Len(RemoveAt(s, i)) = Len(s) - 1
         /\ ToSet(RemoveAt(s, i)) = ToSet(s) \ {s[i]}
<1> DEFINE t == RemoveAt(s, i)
           n == Len(s)
<1>1. n \in Nat /\ i \in 1 .. n
  OBVIOUS
<1>2. SubSeq(s, 1, i - 1) \in Seq(S) /\ SubSeq(s, i + 1, n) \in Seq(S)
  OBVIOUS
<1> DEFINE p == SubSeq(s, 1, i - 1)
           q == SubSeq(s, i + 1, n)
<1>3. /\ Len(p) = i - 1 /\ Len(q) = n - i
      /\ \A j \in 1 .. (i - 1) : p[j] = s[j]
      /\ \A j \in 1 .. (n - i) : q[j] = s[i + j]
  <2>1. i - 1 \in Int /\ i + 1 \in Int /\ n \in Int /\ 1 \in Int
    BY <1>1
  <2>2. (\A j \in 1 .. (i - 1) : s[j] \in S) /\ (\A j \in (i + 1) .. n : s[j] \in S)
    BY <1>1
  <2>3. /\ Len(p) = (IF 1 <= i - 1 THEN (i - 1) - 1 + 1 ELSE 0)
        /\ \A j \in 1 .. ((i - 1) - 1 + 1) : p[j] = s[1 + j - 1]
    BY <2>1, <2>2, SubSeqProperties
  <2>4. /\ Len(q) = (IF i + 1 <= n THEN n - (i + 1) + 1 ELSE 0)
        /\ \A j \in 1 .. (n - (i + 1) + 1) : q[j] = s[(i + 1) + j - 1]
    BY <2>1, <2>2, SubSeqProperties
  <2> HIDE DEF p, q
  <2>5. \A j \in 1 .. (n - i) : (i + 1) + j - 1 = i + j
    BY <1>1
  <2>6. (i - 1) - 1 + 1 = i - 1 /\ n - (i + 1) + 1 = n - i /\ \A j \in Int : 1 + j - 1 = j
    BY <1>1
  <2>7. \A j \in 1 .. (n - i) : q[j] = s[i + j]
    BY <2>4, <2>5, <2>6
  <2>8. \A j \in 1 .. (i - 1) : p[j] = s[j]
    BY <2>3, <2>6
  <2>9. Len(p) = i - 1 /\ Len(q) = n - i
    <3>1. (1 <= i - 1 \/ i - 1 = 0) /\ (i + 1 <= n \/ n - i = 0)
          /\ ~(1 <= i - 1 /\ i - 1 = 0) /\ ~(i + 1 <= n /\ n - i = 0)
      BY <1>1
    <3>2. QED
      BY <2>3, <2>4, <2>6, <3>1
  <2>10. QED
    BY <2>7, <2>8, <2>9
<1>4. t = p \o q
  BY DEF RemoveAt
<1> HIDE DEF p, q, t
<1>5. t \in Seq(S) /\ Len(t) = n - 1
  <2>1. p \in Seq(S) /\ q \in Seq(S)
    BY <1>2 DEF p, q
  <2>2. p \o q \in Seq(S) /\ Len(p \o q) = Len(p) + Len(q)
    BY <2>1, ConcatProperties
  <2>3. (i - 1) + (n - i) = n - 1
    BY <1>1
  <2>4. QED
    BY <1>3, <1>4, <2>2, <2>3
<1>6. \A j \in 1 .. (n - 1) : t[j] = IF j < i THEN s[j] ELSE s[j + 1]
  <2> SUFFICES ASSUME NEW j \in 1 .. (n - 1) PROVE t[j] = IF j < i THEN s[j] ELSE s[j + 1]
    OBVIOUS
  <2>0. p \in Seq(S) /\ q \in Seq(S)
    BY <1>2 DEF p, q
  <2>1. CASE j < i
    <3>1. j \in 1 .. (i - 1)
      BY <1>1, <2>1
    <3>2. t[j] = p[j]
      BY <1>1, <1>3, <1>4, <2>0, <3>1
    <3>3. QED
      BY <1>3, <2>1, <3>1, <3>2
  <2>2. CASE ~(j < i)
    <3>1. t[j] = q[j - (i - 1)]
      BY <1>1, <1>3, <1>4, <2>0, <2>2
    <3>2. j - (i - 1) \in 1 .. (n - i) /\ i + (j - (i - 1)) = j + 1
      BY <1>1, <2>2
    <3>3. QED
      BY <1>3, <2>2, <3>1, <3>2
  <2>3. QED
    BY <2>1, <2>2
<1>7. ToSet(s) = {s[j] : j \in 1 .. n} /\ ToSet(t) = {t[j] : j \in 1 .. (n - 1)}
  BY <1>5 DEF ToSet
<1>8. \A x \in ToSet(t) : x \in ToSet(s) \ {s[i]}
  <2> SUFFICES ASSUME NEW j \in 1 .. (n - 1) PROVE t[j] \in ToSet(s) \ {s[i]}
    BY <1>7
  <2>1. CASE j < i
    <3>1. t[j] = s[j] /\ j \in 1 .. n /\ j # i
      BY <1>1, <1>6, <2>1
    <3>2. QED
      BY <1>7, <3>1
  <2>2. CASE ~(j < i)
    <3>1. t[j] = s[j + 1] /\ j + 1 \in 1 .. n /\ j + 1 # i
      BY <1>1, <1>6, <2>2
    <3>2. QED
      BY <1>7, <3>1
  <2>3. QED
    BY <2>1, <2>2
<1>9. \A x \in ToSet(s) \ {s[i]} : x \in ToSet(t)
  <2> SUFFICES ASSUME NEW j \in 1 .. n, s[j] # s[i] PROVE s[j] \in ToSet(t)
    BY <1>7
  <2>1. CASE j < i
    <3>1. j \in 1 .. (n - 1) /\ t[j] = s[j]
      BY <1>1, <1>6, <2>1
    <3>2. QED
      BY <1>7, <3>1
  <2>2. CASE ~(j < i)
    <3>1. j # i
      OBVIOUS
    <3>2. j - 1 \in 1 .. (n - 1) /\ ~(j - 1 < i) /\ (j - 1) + 1 = j
      BY <1>1, <2>2, <3>1
    <3>3. t[j - 1] = s[j]
      BY <1>6, <3>2
    <3>4. QED
      BY <1>7, <3>2, <3>3
  <2>3. QED
    BY <2>1, <2>2
<1>10. ToSet(t) = ToSet(s) \ {s[i]}
  BY <1>8, <1>9
<1>11. QED
  BY <1>5, <1>10 DEF t

-----------------------------------------------------------------------------
(* Sequences of whatever elements. *)

IsList(s) == \E S : s \in Seq(S)

(* A sequence has a length and a domain up to it. *)
LEMMA ListIs ==
  ASSUME NEW s, IsList(s)
  PROVE  Len(s) \in Nat /\ DOMAIN s = 1 .. Len(s) /\ (s = <<>> <=> Len(s) = 0)
<1>1. PICK S : s \in Seq(S)
  BY DEF IsList
<1>2. QED
  BY <1>1, LenProperties, EmptySeq

(* A function on 1 .. n is a sequence of length n. *)
LEMMA ListOf ==
  ASSUME NEW n \in Nat, NEW s, s = [i \in 1 .. n |-> s[i]]
  PROVE  IsList(s) /\ Len(s) = n
<1> DEFINE S == {s[i] : i \in 1 .. n}
<1>1. s \in [1 .. n -> S]
  OBVIOUS
<1> HIDE DEF S
<1>2. s \in Seq(S)
  <2>1. \A f \in [1 .. n -> S] : f \in Seq(S)
    OBVIOUS
  <2>2. QED
    BY <1>1, <2>1
<1>3. QED
  BY <1>1, <1>2 DEF IsList

LEMMA NoList == IsList(<<>>) /\ Len(<<>>) = 0
BY EmptySeq DEF IsList

(* Two sequences with the same elements are equal. *)
LEMMA ListEqual ==
  ASSUME NEW s, NEW t, IsList(s), IsList(t), Len(s) = Len(t),
         \A i \in 1 .. Len(s) : s[i] = t[i]
  PROVE  s = t
<1>1. PICK S : s \in Seq(S)
  BY DEF IsList
<1>2. PICK T : t \in Seq(T)
  BY DEF IsList
<1>3. s \in Seq(S \cup T) /\ t \in Seq(S \cup T)
  BY <1>1, <1>2, SeqMonotonic
<1>4. QED
  BY <1>3, SeqEqual

LEMMA Appended ==
  ASSUME NEW s, IsList(s), NEW e
  PROVE  /\ IsList(Append(s, e)) /\ Len(Append(s, e)) = Len(s) + 1
         /\ \A i \in 1 .. Len(s) : Append(s, e)[i] = s[i]
         /\ Append(s, e)[Len(s) + 1] = e
BY AppendAny DEF IsList

LEMMA Joined2 ==
  ASSUME NEW s, NEW t, IsList(s), IsList(t)
  PROVE  /\ IsList(s \o t) /\ Len(s \o t) = Len(s) + Len(t)
         /\ \A i \in 1 .. Len(s) + Len(t) :
              (s \o t)[i] = IF i <= Len(s) THEN s[i] ELSE t[i - Len(s)]
<1>1. PICK S : s \in Seq(S)
  BY DEF IsList
<1>2. PICK T : t \in Seq(T)
  BY DEF IsList
<1>3. s \in Seq(S \cup T) /\ t \in Seq(S \cup T)
  BY <1>1, <1>2, SeqMonotonic
<1>4. QED
  BY <1>3, ConcatProperties DEF IsList

LEMMA OneIsList ==
  ASSUME NEW e
  PROVE  IsList(<<e>>) /\ Len(<<e>>) = 1 /\ <<e>>[1] = e
<1>1. <<e>> \in Seq({e})
  OBVIOUS
<1>2. QED
  BY <1>1 DEF IsList

LEMMA HeadTail ==
  ASSUME NEW s, IsList(s), s # <<>>
  PROVE  /\ Len(s) \in Nat \ {0} /\ Head(s) = s[1]
         /\ IsList(Tail(s)) /\ Len(Tail(s)) = Len(s) - 1
         /\ \A i \in 1 .. Len(s) - 1 : Tail(s)[i] = s[i + 1]
<1>1. PICK S : s \in Seq(S)
  BY DEF IsList
<1>2. QED
  BY <1>1, HeadTailProperties, EmptySeq DEF IsList

(* A list with its last element replaced. *)
LEMMA LastReplaced ==
  ASSUME NEW s, IsList(s), s # <<>>, NEW e
  PROVE  /\ Last(s) = s[Len(s)] /\ Len(s) \in Nat \ {0}
         /\ IsList(Append(Front(s), e)) /\ Len(Append(Front(s), e)) = Len(s)
         /\ \A i \in 1 .. Len(s) - 1 : Append(Front(s), e)[i] = s[i]
         /\ Append(Front(s), e)[Len(s)] = e
         /\ IsList(Front(s)) /\ Len(Front(s)) = Len(s) - 1
         /\ \A i \in 1 .. Len(s) - 1 : Front(s)[i] = s[i]
<1>1. PICK S : s \in Seq(S)
  BY DEF IsList
<1>2. Len(s) \in Nat \ {0} /\ Len(s) - 1 \in Nat
  BY ListIs
<1>3. /\ Front(s) \in Seq(S) /\ Len(Front(s)) = Len(s) - 1
      /\ \A i \in 1 .. Len(s) - 1 : Front(s)[i] = s[i]
  <2> DEFINE n == Len(s) - 1
             f == SubSeq(s, 1, n)
  <2>1. n \in Nat /\ \A i \in 1 .. n : s[i] \in S
    BY <1>1, <1>2
  <2> HIDE DEF n
  <2>2. /\ f \in Seq(S)
        /\ Len(f) = IF 1 <= n THEN n - 1 + 1 ELSE 0
        /\ \A i \in 1 .. n - 1 + 1 : f[i] = s[1 + i - 1]
    BY <2>1, SubSeqProperties
  <2> HIDE DEF f
  <2>3. Len(f) = n
    BY <2>1, <2>2
  <2>4. ASSUME NEW i \in 1 .. n
        PROVE  f[i] = s[i]
    <3>1. i \in 1 .. n - 1 + 1 /\ 1 + i - 1 = i
      BY <2>1
    <3>2. QED
      BY <2>2, <3>1
  <2>5. Front(s) = f
    BY DEF Front, f, n
  <2>6. QED
    BY <2>2, <2>3, <2>4, <2>5 DEF n
<1>4. IsList(Front(s))
  BY <1>3 DEF IsList
<1>5. QED
  BY <1>2, <1>3, <1>4, Appended DEF Last

(* A list with an element put before it. *)
LEMMA Fronted ==
  ASSUME NEW e, NEW s, IsList(s)
  PROVE  /\ IsList(<<e>> \o s) /\ <<e>> \o s # <<>>
         /\ Head(<<e>> \o s) = e /\ Tail(<<e>> \o s) = s
<1>1. PICK S : s \in Seq(S)
  BY DEF IsList
<1>2. <<e>> \in Seq(S \cup {e}) /\ s \in Seq(S \cup {e})
  BY <1>1, SeqMonotonic
<1> DEFINE t == <<e>> \o s
<1>3. /\ t \in Seq(S \cup {e}) /\ Len(t) = 1 + Len(s) /\ t[1] = e
      /\ \A i \in 1 .. Len(s) : t[i + 1] = s[i]
  <2>1. Len(<<e>>) = 1 /\ <<e>>[1] = e
    OBVIOUS
  <2>2. /\ t \in Seq(S \cup {e}) /\ Len(t) = Len(<<e>>) + Len(s)
        /\ \A i \in 1 .. Len(<<e>>) + Len(s) :
             t[i] = IF i <= Len(<<e>>) THEN <<e>>[i] ELSE s[i - Len(<<e>>)]
    BY <1>2, ConcatProperties
  <2>3. Len(s) \in Nat
    BY <1>1, LenProperties
  <2> HIDE DEF t
  <2>4. t[1] = e
    BY <2>1, <2>2, <2>3
  <2>5. \A i \in 1 .. Len(s) : t[i + 1] = s[i]
    <3>1. \A i \in 1 .. Len(s) : i + 1 \in 1 .. 1 + Len(s) /\ ~(i + 1 <= 1) /\ (i + 1) - 1 = i
      BY <2>3
    <3>2. QED
      BY <2>1, <2>2, <3>1
  <2>6. QED
    BY <2>1, <2>2, <2>4, <2>5
<1> HIDE DEF t
<1>4. t # <<>> /\ IsList(t) /\ Len(t) \in Nat
  <2>1. Len(s) \in Nat
    BY <1>1, LenProperties
  <2>2. IsList(t)
    BY <1>3 DEF IsList
  <2>3. QED
    BY <1>3, <2>1, <2>2, ListIs
<1>5. Head(t) = e /\ IsList(Tail(t)) /\ Len(Tail(t)) = Len(s)
      /\ \A i \in 1 .. Len(s) : Tail(t)[i] = s[i]
  <2>1. Len(s) \in Nat
    BY <1>1, LenProperties
  <2>2. /\ Head(t) = t[1] /\ IsList(Tail(t)) /\ Len(Tail(t)) = Len(t) - 1
        /\ \A i \in 1 .. Len(t) - 1 : Tail(t)[i] = t[i + 1]
    BY <1>4, HeadTail
  <2>3. Len(t) - 1 = Len(s)
    BY <1>3, <2>1
  <2>4. QED
    BY <1>3, <2>2, <2>3
<1>6. Tail(t) = s
  BY <1>5, ListEqual
<1>7. QED
  BY <1>4, <1>5, <1>6 DEF t

(* A list is its head and its tail. *)
LEMMA HeadThenTail ==
  ASSUME NEW s, IsList(s), s # <<>>
  PROVE  s = <<Head(s)>> \o Tail(s)
<1> DEFINE e == Head(s)
           rest == Tail(s)
           one == <<e>>
           t == one \o rest
<1>1. /\ Len(s) \in Nat \ {0} /\ e = s[1] /\ IsList(rest) /\ Len(rest) = Len(s) - 1
      /\ \A i \in 1 .. Len(s) - 1 : rest[i] = s[i + 1]
  BY HeadTail
<1> HIDE DEF e, rest
<1>2. IsList(one) /\ Len(one) = 1 /\ one[1] = e
  BY OneIsList
<1> HIDE DEF one
<1>3. /\ IsList(t) /\ Len(t) = Len(one) + Len(rest)
      /\ \A i \in 1 .. Len(one) + Len(rest) :
           t[i] = IF i <= Len(one) THEN one[i] ELSE rest[i - Len(one)]
  BY <1>1, <1>2, Joined2
<1> HIDE DEF t
<1>4. Len(t) = Len(s)
  BY <1>1, <1>2, <1>3
<1>5. ASSUME NEW i \in 1 .. Len(s)
      PROVE  s[i] = t[i]
  <2>1. CASE i = 1
    BY <1>1, <1>2, <1>3, <2>1
  <2>2. CASE i # 1
    <3>1. /\ i \in 1 .. Len(one) + Len(rest) /\ ~(i <= Len(one)) /\ i - Len(one) = i - 1
          /\ i - 1 \in 1 .. Len(s) - 1 /\ (i - 1) + 1 = i
      BY <1>1, <1>2, <2>2
    <3>2. QED
      BY <1>1, <1>3, <3>1
  <2>3. QED
    BY <2>1, <2>2
<1>6. s = t
  BY <1>3, <1>4, <1>5, ListEqual
<1>7. QED
  BY <1>6 DEF t, one, e, rest

(* t is s with e in place of its last element. *)
EndsWith(t, s, e) == t = Append(Front(s), e)

LEMMA WithLast ==
  ASSUME NEW s, IsList(s), s # <<>>, NEW e, NEW t, EndsWith(t, s, e)
  PROVE  /\ IsList(t) /\ Len(t) = Len(s) /\ t[Len(s)] = e
         /\ \A i \in 1 .. Len(s) - 1 : t[i] = s[i]
BY LastReplaced DEF EndsWith

(* F[t] is what a fold makes of the places in t, the greatest last. *)
FoldsTo(F, n, base, step) ==
  \A t \in SUBSET (1 .. n) :
    F[t] = IF t = {} THEN base ELSE step[<<F[t \ {Max(t)}], Max(t)>>]

LEMMA LastPlace ==
  ASSUME NEW n \in Nat, NEW t \in SUBSET (1 .. n), t # {}
  PROVE  Max(t) \in t /\ Max(t) \in 1 .. n /\ t \ {Max(t)} \in SUBSET (1 .. n)
<1>1. t \subseteq Int /\ \A x \in t : x <= n
  OBVIOUS
<1>0. n \in Int
  OBVIOUS
<1>2. Max(t) \in t
  BY <1>0, <1>1, MaxBounded
<1>3. QED
  BY <1>2

LEMMA FirstPlaces ==
  ASSUME NEW n \in Nat, NEW k \in 1 .. n
  PROVE  /\ 1 .. k \in SUBSET (1 .. n) /\ 1 .. k # {}
         /\ Max(1 .. k) = k /\ (1 .. k) \ {Max(1 .. k)} = 1 .. (k - 1)
<1>1. 1 .. k \in SUBSET (1 .. n) /\ k \in 1 .. k /\ 1 .. k \subseteq Int
  OBVIOUS
<1>2. \A x \in 1 .. k : x <= k
  OBVIOUS
<1>3. Max(1 .. k) = k
  BY <1>1, <1>2, MaxIs
<1>4. (1 .. k) \ {k} = 1 .. (k - 1)
  OBVIOUS
<1>5. QED
  BY <1>1, <1>3, <1>4

LEMMA FoldExists ==
  ASSUME NEW n \in Nat, NEW S, NEW base \in S, NEW step \in [S \X (1 .. n) -> S]
  PROVE  \E F \in [SUBSET (1 .. n) -> S] : FoldsTo(F, n, base, step)
<1> DEFINE D == SUBSET (1 .. n)
           m == [t \in D |-> Cardinality(t)]
           next == [t \in D |-> IF t = {} THEN t ELSE t \ {Max(t)}]
           Stop == {{}}
           start == [t \in D |-> base]
           st == [p \in D \X S |-> IF p[1] = {} THEN base ELSE step[<<p[2], Max(p[1])>>]]
<1>1. \A t \in D : /\ IsFiniteSet(t) /\ Cardinality(t) \in Nat
                   /\ t # {} => Max(t) \in t /\ t \ {Max(t)} \in D
  <2> SUFFICES ASSUME NEW t \in D
               PROVE  /\ IsFiniteSet(t) /\ Cardinality(t) \in Nat
                      /\ t # {} => Max(t) \in t /\ t \ {Max(t)} \in D
    OBVIOUS
  <2>1. IsFiniteSet(1 .. n) /\ t \in SUBSET (1 .. n)
    BY FS_Interval
  <2>2. IsFiniteSet(t)
    BY <2>1, FS_Subset
  <2>3. Cardinality(t) \in Nat
    BY <2>2, FS_CardinalityType
  <2>4. t # {} => Max(t) \in t
    BY LastPlace
  <2>5. QED
    BY <2>2, <2>3, <2>4
<1>2. m \in [D -> Nat] /\ next \in [D -> D] /\ start \in [D -> S]
  BY <1>1
<1>3. st \in [D \X S -> S]
  BY <1>1
<1>4. \A t \in D \ Stop : m[next[t]] < m[t]
  <2> SUFFICES ASSUME NEW t \in D, t # {} PROVE m[next[t]] < m[t]
    OBVIOUS
  <2>1. Max(t) \in t /\ t \ {Max(t)} \in D /\ IsFiniteSet(t) /\ Cardinality(t) \in Nat
    BY <1>1
  <2>2. Cardinality(t \ {Max(t)}) = Cardinality(t) - 1
    BY <2>1, FS_RemoveElement
  <2>4. m[t] = Cardinality(t) /\ m[next[t]] = Cardinality(t \ {Max(t)})
    BY <2>1
  <2> HIDE DEF m, next
  <2>3. QED
    BY <2>1, <2>2, <2>4
<1>5. \A t \in D : start[t] = base
  OBVIOUS
<1>6. \A t \in D, v \in S : t # {} => st[<<t, v>>] = step[<<v, Max(t)>>]
  OBVIOUS
<1>7. \A t \in D : t # {} => next[t] = t \ {Max(t)}
  OBVIOUS
<1> HIDE DEF m, next, start, st
<1>8. PICK F \in [D -> S] : \A t \in D : Unfolds(F, t, Stop, start, st, next)
  BY <1>2, <1>3, <1>4, RecursionExists
<1>9. FoldsTo(F, n, base, step)
  <2> SUFFICES ASSUME NEW t \in D
               PROVE  F[t] = IF t = {} THEN base ELSE step[<<F[t \ {Max(t)}], Max(t)>>]
    BY DEF FoldsTo
  <2>1. F[t] = IF t \in Stop THEN start[t] ELSE st[<<t, F[next[t]]>>]
    BY <1>8 DEF Unfolds
  <2>2. CASE t = {}
    BY <1>5, <2>1, <2>2
  <2>3. CASE t # {}
    <3>1. F[t] = st[<<t, F[t \ {Max(t)}]>>] /\ F[t \ {Max(t)}] \in S
      BY <1>1, <1>7, <2>1, <2>3
    <3>2. QED
      BY <1>6, <2>3, <3>1
  <2>4. QED
    BY <2>2, <2>3
<1>10. QED
  BY <1>9

(* Place after place. *)
LEMMA FoldUp ==
  ASSUME NEW n \in Nat, NEW base, NEW step, NEW F, FoldsTo(F, n, base, step)
  PROVE  /\ F[1 .. 0] = base
         /\ \A k \in 1 .. n : F[1 .. k] = step[<<F[1 .. (k - 1)], k>>]
<1>1. F[1 .. 0] = base
  <2>1. 1 .. 0 = {} /\ {} \in SUBSET (1 .. n)
    OBVIOUS
  <2>2. QED
    BY <2>1 DEF FoldsTo
<1>2. ASSUME NEW k \in 1 .. n
      PROVE  F[1 .. k] = step[<<F[1 .. (k - 1)], k>>]
  BY FirstPlaces DEF FoldsTo
<1>3. QED
  BY <1>1, <1>2

-----------------------------------------------------------------------------
(* Sums of lists of numbers. *)

=============================================================================
