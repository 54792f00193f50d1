-------------------------- MODULE CompositingProofs ---------------------------
(***************************************************************************)
(* What image compositing guarantees for images of any size, any number of *)
(* ranks and any group size.  In the order of the proofs:                  *)
(*  - blending stays within 8 bits, and blocks share out the pixels;       *)
(*  - the decomposer and the partners build a grid of non-empty blocks and *)
(*    rounds of groups that fit together (GoodGrid);                       *)
(*  - who is how far, and so what is in the mail (ExchangeInv);            *)
(*  - which piece of the image a rank has after some rounds, and from which *)
(*    ranks (Pieces, Shares);                                              *)
(*  - what the images of the ranks and those in the mail show (ImagesInv). *)
(***************************************************************************)
EXTENDS Compositing, ListLemmas

(* A channel weighted with its opacity. *)
Weighted(p) == p.alpha \in 0 .. 255 /\ p.color \in 0 .. p.alpha

LEMMA WeighedDown ==
  ASSUME NEW w \in 0 .. 255, NEW a \in 0 .. 255, NEW b \in 0 .. a
  PROVE  /\ (w * a) \div 255 \in 0 .. w
         /\ (w * b) \div 255 \in 0 .. ((w * a) \div 255)
<1>1. w * b \in Nat /\ w * a \in Nat /\ w * b <= w * a /\ w * a <= w * 255
  BY SMT
<1> DEFINE p == w * a
           q == w * b
<1>2. p \in Nat /\ q \in Nat /\ q <= p /\ p <= w * 255
  BY <1>1
<1> HIDE DEF p, q
<1>3. p \div 255 \in 0 .. w /\ q \div 255 \in 0 .. (p \div 255)
  BY <1>2, SMT
<1> QED
  BY <1>3 DEF p, q

LEMMA SumsFit ==
  ASSUME NEW f \in 0 .. 255, NEW g \in 0 .. f, NEW a \in 0 .. (255 - f), NEW c \in 0 .. a
  PROVE  f + a \in 0 .. 255 /\ g + c \in 0 .. (f + a)
OBVIOUS

(* Blending two pixels whose colors are weighted with their opacity yields *)
(* such a pixel: the unsigned char sums of ImageCompositor::Blend do not   *)
(* wrap around.                                                            *)
THEOREM BlendStaysWeighted ==
  ASSUME NEW front, NEW back, Weighted(front), Weighted(back)
  PROVE  Weighted(BlendPixel(front, back))
<1> DEFINE w == 255 - front.alpha
           c == (w * back.color) \div 255
           a == (w * back.alpha) \div 255
<1>1. w \in 0 .. 255
  BY SMT DEF Weighted
<1>2. a \in 0 .. w /\ c \in 0 .. a
  <2>1. back.alpha \in 0 .. 255 /\ back.color \in 0 .. back.alpha
    BY DEF Weighted
  <2> QED
    BY <1>1, <2>1, WeighedDown, ZenonT(60)
<1>3. /\ BlendPixel(front, back).alpha = (front.alpha + a) % 256
      /\ BlendPixel(front, back).color = (front.color + c) % 256
  BY DEF BlendPixel, BlendChannel
<1> HIDE DEF a, c
<1>4. /\ front.alpha + a \in 0 .. 255
      /\ front.color + c \in 0 .. (front.alpha + a)
  <2>1. front.alpha \in 0 .. 255 /\ front.color \in 0 .. front.alpha
    BY DEF Weighted
  <2>2. a \in 0 .. (255 - front.alpha) /\ c \in 0 .. a
    BY <1>2
  <2> QED
    BY <2>1, <2>2, SumsFit
<1>5. \A x \in 0 .. 255 : x % 256 = x
  BY SMT
<1>6. front.color + c \in 0 .. 255
  BY <1>4, SMT
<1>7. /\ BlendPixel(front, back).alpha = front.alpha + a
      /\ BlendPixel(front, back).color = front.color + c
  BY <1>3, <1>4, <1>5, <1>6
<1> QED
  BY <1>4, <1>7 DEF Weighted

-----------------------------------------------------------------------------
(* Blocks.                                                                 *)

(* Every place of lo .. hi lies in exactly one of its n blocks when there  *)
(* are at least n places, as RegularDecomposer ensures: what the ranks     *)
(* send to the blocks in Redistribute leaves no pixel out, and none goes   *)
(* to two of them.                                                         *)
THEOREM BlocksShareOut ==
  ASSUME NEW n \in Nat \ {0}, NEW lo \in Int, NEW hi \in Int, n <= hi - lo + 1
  PROVE  \A x \in lo .. hi :
           /\ \E i \in 0 .. n - 1 : x \in From(i, n, lo, hi) .. To(i, n, lo, hi)
           /\ \A i, j \in 0 .. n - 1 :
                /\ x \in From(i, n, lo, hi) .. To(i, n, lo, hi)
                /\ x \in From(j, n, lo, hi) .. To(j, n, lo, hi)
                => i = j
<1> DEFINE w == (hi - lo + 1) \div n
<1>1. w \in Nat \ {0} /\ n * w <= hi - lo + 1
  BY SMT
<1>2. \A i \in Nat : From(i, n, lo, hi) = lo + w * i
  BY DEF From
<1>3. \A i \in 0 .. n - 1 :
        To(i, n, lo, hi) = IF i = n - 1 THEN hi ELSE lo + w * (i + 1) - 1
  BY <1>2 DEF To
<1> HIDE DEF w
<1>4. \A i, j \in Nat : i < j => w * (i + 1) <= w * j
  BY <1>1, SMT
<1> SUFFICES ASSUME NEW x \in lo .. hi
             PROVE  /\ \E i \in 0 .. n - 1 : x \in From(i, n, lo, hi) .. To(i, n, lo, hi)
                    /\ \A i, j \in 0 .. n - 1 :
                         /\ x \in From(i, n, lo, hi) .. To(i, n, lo, hi)
                         /\ x \in From(j, n, lo, hi) .. To(j, n, lo, hi)
                         => i = j
  OBVIOUS
<1>5. \E i \in 0 .. n - 1 : x \in From(i, n, lo, hi) .. To(i, n, lo, hi)
  <2>1. CASE x < lo + w * (n - 1)
    <3> DEFINE i == (x - lo) \div w
    <3>1. i \in Nat /\ w * i <= x - lo /\ x - lo < w * (i + 1)
      BY <1>1, SMT
    <3> HIDE DEF i
    <3>2. i < n - 1
      <4>1. ~ (i > n - 1) /\ i # n - 1
        BY <2>1, <3>1, <1>4, <1>1, SMT
      <4> QED
        BY <3>1, <4>1, SMT
    <3>3. From(i, n, lo, hi) = lo + w * i /\ To(i, n, lo, hi) = lo + w * (i + 1) - 1
      BY <1>2, <1>3, <3>1, <3>2, SMT
    <3>4. w * i \in Int /\ w * (i + 1) \in Int
      BY <1>1, <3>1, SMT
    <3> QED
      BY <3>1, <3>2, <3>3, <3>4, SMT
  <2>2. CASE ~ (x < lo + w * (n - 1))
    <3>1. n - 1 \in Nat /\ w * (n - 1) \in Int
      BY <1>1, SMT
    <3>2. From(n - 1, n, lo, hi) = lo + w * (n - 1) /\ To(n - 1, n, lo, hi) = hi
      BY <1>2, <1>3, <3>1, SMT
    <3> QED
      BY <2>2, <3>1, <3>2, SMT
  <2> QED
    BY <2>1, <2>2
<1>6. ASSUME NEW i \in 0 .. n - 1, NEW j \in 0 .. n - 1, i < j,
             x \in From(i, n, lo, hi) .. To(i, n, lo, hi),
             x \in From(j, n, lo, hi) .. To(j, n, lo, hi)
      PROVE  FALSE
  <2>1. w * (i + 1) <= w * j /\ w * (i + 1) \in Int /\ w * j \in Int
    BY <1>1, <1>4, <1>6, SMT
  <2>2. To(i, n, lo, hi) = lo + w * (i + 1) - 1 /\ From(j, n, lo, hi) = lo + w * j
    BY <1>2, <1>3, <1>6, SMT
  <2> QED
    BY <1>6, <2>1, <2>2, SMT
<1> QED
  BY <1>5, <1>6, SMT

-----------------------------------------------------------------------------
(* The decomposition: blocks in each dimension, as many as there are ranks, *)
(* none of them empty.                                                     *)

Fits(bounds) == \A d \in Dims : /\ bounds.min[d] \in Int /\ bounds.max[d] \in Int
                                /\ bounds.min[d] <= bounds.max[d]

Divides(dv, bounds, n) ==
  /\ dv \in [Dims -> Nat \ {0}]
  /\ dv[1] * dv[2] = n
  /\ \A d \in Dims : dv[d] <= Extent(bounds, d)

LEMMA SmallestFactorIs ==
  ASSUME NEW n \in Nat, n > 1
  PROVE  /\ SmallestFactor(n) \in 2 .. n
         /\ n \div SmallestFactor(n) \in 1 .. (n - 1)
         /\ n = SmallestFactor(n) * (n \div SmallestFactor(n))
<1> DEFINE S == {i \in 2 .. n : n % i = 0}
           p == SmallestFactor(n)
           q == n \div p
<1>1. n \in S
  <2>1. n = n * 1 + 0
    OBVIOUS
  <2>2. n % n = 0
    BY <2>1, DivModIs
  <2>3. QED
    BY <2>2
<1>2. p \in S
  <2>1. p = Min(S)
    BY DEF SmallestFactor
  <2>2. S \subseteq Nat /\ S # {}
    BY <1>1
  <2> HIDE DEF S, p
  <2>3. QED
    BY <2>1, <2>2, MinNat
<1>3. p \in 2 .. n /\ n % p = 0
  BY <1>2
<1> HIDE DEF p, S
<1>4. q \in Int /\ n = p * q
  <2>1. q \in Int /\ n = p * q + (n % p)
    BY <1>3, DivMod
  <2>2. QED
    BY <1>3, <2>1
<1> HIDE DEF q
<1>5. q \in 1 .. (n - 1)
  <2>1. ~(q <= 0)
    <3>1. q <= 0 => p * q <= 0
      BY <1>3, <1>4
    <3>2. QED
      BY <1>4, <3>1
  <2>2. q < n
    <3>1. 2 * q <= p * q
      BY <1>3, <1>4, <2>1
    <3>2. QED
      BY <1>4, <2>1, <3>1
  <2>3. QED
    BY <1>4, <2>1, <2>2
<1>6. QED
  BY <1>3, <1>4, <1>5 DEF p, q

Division == [nb : Nat \ {0}, size : Int]

LEMMA WidestType ==
  ASSUME NEW dv \in [Dims -> Division]
  PROVE  Widest(dv) \in Dims
<1> DEFINE S == {d \in Dims : \A e \in Dims :
                   \/ dv[d].size > dv[e].size
                   \/ dv[d].size = dv[e].size /\ dv[d].nb <= dv[e].nb}
<1>1. /\ dv[1].size \in Int /\ dv[2].size \in Int
      /\ dv[1].nb \in Nat /\ dv[2].nb \in Nat /\ Dims = {1, 2}
  BY DEF Dims, Division
<1>2. 1 \in S \/ 2 \in S
  BY <1>1
<1>3. S \subseteq Nat /\ S # {}
  BY <1>1, <1>2
<1>4. S \subseteq Dims
  OBVIOUS
<1>5. Widest(dv) = Min(S)
  BY DEF Widest
<1> HIDE DEF S
<1>6. QED
  BY <1>3, <1>4, <1>5, MinNat

(* Dividing multiplies the blocks, and fails rather than leave one empty.  *)
LEMMA DivideByIs ==
  ASSUME NEW bounds, Fits(bounds), NEW f \in Nat \ {0}, NEW dv \in [Dims -> Division],
         DivideBy(bounds, f, dv) # <<>>
  PROVE  LET next == DivideBy(bounds, f, dv)
         IN  /\ next \in [Dims -> Division]
             /\ next[1].nb * next[2].nb = f * (dv[1].nb * dv[2].nb)
             /\ (\A d \in Dims : dv[d].nb <= Extent(bounds, d))
                  => \A d \in Dims : next[d].nb <= Extent(bounds, d)
<1> DEFINE w == Widest(dv)
           n == dv[w].nb * f
           lo == bounds.min[w]
           hi == bounds.max[w]
           size == To(0, n, lo, hi) - lo
           next == DivideBy(bounds, f, dv)
<1>1. w \in Dims
  BY WidestType
<1>2. dv[w].nb \in Nat \ {0} /\ lo \in Int /\ hi \in Int /\ lo <= hi
  BY <1>1 DEF Division, Fits
<1>3. n \in Nat \ {0}
  BY <1>2
<1>4. next = [dv EXCEPT ![w] = [nb |-> n, size |-> size]] /\ ~(size < 0)
  BY DEF DivideBy
<1> HIDE DEF w, n, next
<1>5. (hi - lo + 1) \div n \in Int
  BY <1>2, <1>3
<1> DEFINE q == (hi - lo + 1) \div n
<1>6. size = IF n = 1 THEN hi - lo ELSE q - 1
  <2>1. From(1, n, lo, hi) = lo + q
    <3>1. q * 1 = q
      BY <1>5
    <3>2. QED
      BY <3>1 DEF From
  <2>2. 0 = n - 1 <=> n = 1
    BY <1>3
  <2>3. 0 + 1 = 1
    OBVIOUS
  <2>4. To(0, n, lo, hi) = IF n = 1 THEN hi ELSE (lo + q) - 1
    <3> DEFINE x == lo + q
    <3>1. From(0 + 1, n, lo, hi) = x
      BY <2>1, <2>3
    <3> HIDE DEF x, lo, hi
    <3>2. To(0, n, lo, hi) = IF n = 1 THEN hi ELSE x - 1
      BY <2>2, <3>1 DEF To
    <3>3. QED
      BY <3>2 DEF x
  <2> HIDE DEF q, lo, hi
  <2>5. QED
    BY <1>2, <1>5, <2>4 DEF q
<1>7. size \in Int /\ n <= hi - lo + 1
  <2>1. n * q <= hi - lo + 1
    <3> DEFINE e == hi - lo + 1
    <3>1. e \in Int
      BY <1>2
    <3> HIDE DEF e
    <3>2. n * (e \div n) <= e
      BY <1>3, <3>1, DivTimesInt
    <3>3. QED
      BY <3>2 DEF e
  <2> HIDE DEF q, size
  <2>2. CASE n = 1
    BY <1>2, <1>6, <2>2
  <2>3. CASE n # 1
    <3>1. size = q - 1 /\ q \in Int
      BY <1>5, <1>6, <2>3 DEF q
    <3>2. q >= 1
      BY <1>4, <3>1
    <3>3. n <= n * q
      BY <1>3, <3>1, <3>2
    <3>4. n * q \in Int /\ hi - lo + 1 \in Int
      BY <1>2, <1>3, <3>1
    <3>5. QED
      BY <1>3, <2>1, <3>1, <3>3, <3>4
  <2>4. QED
    BY <2>2, <2>3
<1> HIDE DEF size, lo, hi
<1>8. next \in [Dims -> Division]
  BY <1>1, <1>3, <1>4, <1>7 DEF Division
<1>9. next[1].nb * next[2].nb = f * (dv[1].nb * dv[2].nb)
  <2>1. w = 1 \/ w = 2
    BY <1>1 DEF Dims
  <2>2. dv[1].nb \in Nat /\ dv[2].nb \in Nat
    BY DEF Dims, Division
  <2> DEFINE a == dv[1].nb
             b == dv[2].nb
  <2>3. CASE w = 1
    <3>1. next[1].nb = a * f /\ next[2].nb = b
      BY <1>4, <2>3 DEF n, Dims
    <3> HIDE DEF a, b
    <3>2. (a * f) * b = f * (a * b)
      BY <2>2 DEF a, b
    <3>3. QED
      BY <3>1, <3>2 DEF a, b
  <2>4. CASE w = 2
    <3>1. next[1].nb = a /\ next[2].nb = b * f
      BY <1>4, <2>4 DEF n, Dims
    <3> HIDE DEF a, b
    <3>2. a * (b * f) = f * (a * b)
      BY <2>2 DEF a, b
    <3>3. QED
      BY <3>1, <3>2 DEF a, b
  <2>5. QED
    BY <2>1, <2>3, <2>4
<1>10. ASSUME \A d \in Dims : dv[d].nb <= Extent(bounds, d)
       PROVE  \A d \in Dims : next[d].nb <= Extent(bounds, d)
  BY <1>1, <1>4, <1>7, <1>10 DEF Extent, lo, hi
<1>11. QED
  BY <1>8, <1>9, <1>10 DEF next

Undivided(bounds) == [d \in Dims |-> [nb |-> 1, size |-> bounds.max[d] - bounds.min[d]]]

(* divided, of Divisions. *)
Dividing(g, bounds) ==
  [m \in Nat |->
     IF m <= 1 THEN Undivided(bounds)
     ELSE IF g[m \div SmallestFactor(m)] = <<>> THEN <<>>
     ELSE DivideBy(bounds, SmallestFactor(m), g[m \div SmallestFactor(m)])]

LEMMA DividingExists ==
  ASSUME NEW bounds, Fits(bounds)
  PROVE  \E g : g = Dividing(g, bounds)
<1> DEFINE S == {<<>>} \cup [Dims -> Division]
           m == [n \in Nat |-> n]
           next == [n \in Nat |-> IF n <= 1 THEN 0 ELSE n \div SmallestFactor(n)]
           Stop == {0, 1}
           base == [n \in Nat |-> Undivided(bounds)]
           step == [x \in Nat \X S |->
                      IF x[1] <= 1 \/ x[2] = <<>> THEN <<>>
                      ELSE DivideBy(bounds, SmallestFactor(x[1]), x[2])]
<1>1. m \in [Nat -> Nat]
  OBVIOUS
<1>2. next \in [Nat -> Nat] /\ \A x \in Nat \ Stop : m[next[x]] < m[x]
  <2>1. \A n \in Nat : n > 1 => n \div SmallestFactor(n) \in 1 .. (n - 1)
    BY SmallestFactorIs
  <2>2. QED
    BY <2>1
<1>3. base \in [Nat -> S]
  BY DEF Undivided, Division, Fits
<1>4. step \in [Nat \X S -> S]
  <2>1. ASSUME NEW k \in Nat, k > 1, NEW v \in [Dims -> Division]
        PROVE  DivideBy(bounds, SmallestFactor(k), v) \in S
    <3>1. SmallestFactor(k) \in Nat \ {0}
      BY <2>1, SmallestFactorIs
    <3>2. CASE DivideBy(bounds, SmallestFactor(k), v) = <<>>
      BY <3>2
    <3>3. CASE DivideBy(bounds, SmallestFactor(k), v) # <<>>
      BY <3>1, <3>3, DivideByIs
    <3>4. QED
      BY <3>2, <3>3
  <2>2. ASSUME NEW x \in Nat \X S
        PROVE  (IF x[1] <= 1 \/ x[2] = <<>> THEN <<>>
                ELSE DivideBy(bounds, SmallestFactor(x[1]), x[2])) \in S
    <3>1. x[1] \in Nat /\ x[2] \in S
      OBVIOUS
    <3>2. CASE x[1] <= 1 \/ x[2] = <<>>
      BY <3>2
    <3>3. CASE ~(x[1] <= 1 \/ x[2] = <<>>)
      BY <2>1, <3>1, <3>3
    <3>4. QED
      BY <3>2, <3>3
  <2> HIDE DEF S
  <2>3. QED
    BY <2>2
<1>5. \A x \in Nat, v \in S :
        step[<<x, v>>] = IF x <= 1 \/ v = <<>> THEN <<>>
                         ELSE DivideBy(bounds, SmallestFactor(x), v)
  OBVIOUS
<1>6. \A x \in Nat : /\ x \in Stop <=> x <= 1
                     /\ base[x] = Undivided(bounds)
                     /\ x > 1 => next[x] = x \div SmallestFactor(x)
  OBVIOUS
<1> HIDE DEF S, m, next, Stop, base, step
<1>7. PICK g \in [Nat -> S] : \A x \in Nat : Unfolds(g, x, Stop, base, step, next)
  BY <1>1, <1>2, <1>3, <1>4, RecursionExists
<1>8. ASSUME NEW x \in Nat PROVE g[x] = Dividing(g, bounds)[x]
  <2>1. CASE x <= 1
    BY <1>6, <1>7, <2>1 DEF Unfolds, Dividing
  <2>2. CASE x > 1
    <3>1. g[x] = step[<<x, g[next[x]]>>] /\ next[x] = x \div SmallestFactor(x) /\ ~(x <= 1)
      BY <1>6, <1>7, <2>2 DEF Unfolds
    <3>2. next[x] \in Nat /\ g[next[x]] \in S
      BY <1>2, <1>7
    <3>3. QED
      BY <1>5, <3>1, <3>2 DEF Dividing
  <2>3. QED
    BY <2>1, <2>2
<1>9. g = Dividing(g, bounds)
  BY <1>7, <1>8 DEF Dividing
<1>10. QED
  BY <1>9

LEMMA DivisionsGood ==
  ASSUME NEW bounds, Fits(bounds), NEW n \in Nat \ {0}, Divisions(bounds, n) # <<>>
  PROVE  Divides(Divisions(bounds, n), bounds, n)
<1> DEFINE divided == CHOOSE g : g = Dividing(g, bounds)
           Good(x) == divided[x] # <<>> =>
                        /\ divided[x] \in [Dims -> Division]
                        /\ divided[x][1].nb * divided[x][2].nb = x
                        /\ \A d \in Dims : divided[x][d].nb <= Extent(bounds, d)
           T == {x \in Nat : x = 0 \/ Good(x)}
<1>1. Divisions(bounds, n) = IF divided[n] = <<>> THEN <<>>
                             ELSE [d \in Dims |-> divided[n][d].nb]
  BY DEF Divisions, Dividing, Undivided
<1>2. divided = Dividing(divided, bounds)
  BY DividingExists
<1> HIDE DEF divided
<1>3. ASSUME NEW x \in Nat, \A y \in Nat : y < x => y \in T PROVE x \in T
  <2>1. CASE x = 0
    BY <2>1
  <2>2. CASE x = 1
    <3>1. divided[x] = Undivided(bounds)
      BY <1>2, <2>2 DEF Dividing
    <3>2. Good(x)
      <4>1. \A d \in Dims : bounds.max[d] \in Int /\ bounds.min[d] \in Int
                             /\ bounds.min[d] <= bounds.max[d]
        BY DEF Fits
      <4>2. 1 \in Dims /\ 2 \in Dims
        BY DEF Dims
      <4>3. Undivided(bounds) \in [Dims -> Division]
        BY <4>1 DEF Undivided, Division
      <4>4. \A d \in Dims : Undivided(bounds)[d].nb = 1 /\ 1 <= Extent(bounds, d)
        BY <4>1 DEF Undivided, Extent
      <4>5. QED
        BY <2>2, <3>1, <4>2, <4>3, <4>4
    <3>3. QED
      BY <3>2
  <2>3. CASE x > 1
    <3> DEFINE f == SmallestFactor(x)
               y == x \div f
    <3>1. f \in Nat \ {0} /\ y \in 1 .. (x - 1) /\ x = f * y
      BY <2>3, SmallestFactorIs
    <3>2. divided[x] = IF divided[y] = <<>> THEN <<>> ELSE DivideBy(bounds, f, divided[y])
      BY <1>2, <2>3 DEF Dividing
    <3> HIDE DEF f, y
    <3>3. y \in T /\ y # 0
      BY <1>3, <3>1
    <3>4. SUFFICES ASSUME divided[x] # <<>> PROVE Good(x)
      OBVIOUS
    <3>5. divided[y] # <<>> /\ divided[x] = DivideBy(bounds, f, divided[y])
      BY <3>2, <3>4
    <3>6. Good(y)
      BY <3>3
    <3>7. divided[y] \in [Dims -> Division]
      BY <3>5, <3>6
    <3>8. /\ divided[x] \in [Dims -> Division]
          /\ divided[x][1].nb * divided[x][2].nb = f * (divided[y][1].nb * divided[y][2].nb)
          /\ (\A d \in Dims : divided[y][d].nb <= Extent(bounds, d))
               => \A d \in Dims : divided[x][d].nb <= Extent(bounds, d)
      BY <3>1, <3>4, <3>5, <3>7, DivideByIs
    <3>9. QED
      BY <3>1, <3>5, <3>6, <3>8
  <2>4. QED
    BY <2>1, <2>2, <2>3
<1>4. n \in T
  <2> HIDE DEF T
  <2>1. Nat \subseteq T
    BY <1>3, StrongInduction
  <2>2. QED
    BY <2>1
<1>5. divided[n] # <<>> /\ Good(n)
  BY <1>1, <1>4
<1>6. Divisions(bounds, n) = [d \in Dims |-> divided[n][d].nb]
  BY <1>1, <1>5
<1>7. 1 \in Dims /\ 2 \in Dims
  BY DEF Dims
<1>8. QED
  BY <1>5, <1>6, <1>7 DEF Divides, Division

-----------------------------------------------------------------------------
(* The rounds of the reduction.                                            *)

LEMMA DivExact ==
  ASSUME NEW n \in Nat \ {0}, NEW p \in Nat, p > 1, n % p = 0
  PROVE  /\ n \div p \in Nat \ {0} /\ n \div p < n
         /\ n = p * (n \div p)
<1> DEFINE q == n \div p
<1>1. q \in Int /\ n = p * q
  <2>1. q \in Int /\ n = p * q + (n % p)
    BY DivMod
  <2> HIDE DEF q
  <2>2. p * q \in Int
    BY <2>1
  <2>3. QED
    BY <2>1, <2>2
<1> HIDE DEF q
<1>2. q >= 1
  <2>1. q <= 0 => p * q <= 0
    BY <1>1
  <2>2. QED
    BY <1>1, <2>1
<1>3. q < n
  <2>1. 2 * q <= p * q
    BY <1>1, <1>2
  <2>2. QED
    BY <1>1, <1>2, <2>1
<1>4. QED
  BY <1>1, <1>2, <1>3 DEF q

(* A group size divides what is left, and is more than one. *)
LEMMA GroupSizeIs ==
  ASSUME NEW k \in Nat, k > 1, NEW n \in Nat, n > 1
  PROVE  /\ GroupSize(k, n) \in Nat /\ GroupSize(k, n) > 1
         /\ n \div GroupSize(k, n) \in Nat \ {0}
         /\ n \div GroupSize(k, n) < n
         /\ n = GroupSize(k, n) * (n \div GroupSize(k, n))
<1> DEFINE S == {j \in 2 .. (k - 1) : n % j = 0}
           g == GroupSize(k, n)
<1>1. g \in Nat /\ g > 1 /\ n % g = 0
  <2>1. CASE n % k = 0
    BY <2>1 DEF GroupSize
  <2>2. CASE n % k # 0 /\ S # {}
    <3>1. \A x \in S : x <= k
      OBVIOUS
    <3>2. S \subseteq Int /\ k \in Int
      OBVIOUS
    <3>3. Max(S) \in S
      <4> HIDE DEF S
      <4>1. QED
        BY <2>2, <3>1, <3>2, MaxBounded
    <3>4. g = Max(S)
      BY <2>2 DEF GroupSize
    <3> HIDE DEF g
    <3>5. g \in S
      BY <3>3, <3>4
    <3>6. QED
      BY <3>5
  <2>3. CASE n % k # 0 /\ S = {}
    <3>1. g = n
      BY <2>3 DEF GroupSize
    <3>2. n = n * 1 + 0
      OBVIOUS
    <3>3. n % n = 0
      BY <3>2, DivModIs
    <3> HIDE DEF g
    <3>4. QED
      BY <3>1, <3>3
  <2>4. QED
    BY <2>1, <2>2, <2>3
<1> HIDE DEF g
<1>2. n \in Nat \ {0}
  OBVIOUS
<1>3. QED
  BY <1>1, <1>2, DivExact DEF g

Round == [dim : Dims, size : Nat \ {0}, step : Nat \ {0}]

Left == [Dims -> Nat \ {0}]

AllOne(l) == \A d \in Dims : l[d] = 1

(* A round of group size and step shrinks what is left from l to next. *)
Shrinks(rd, l, next) ==
  /\ l[rd.dim] = rd.size * rd.step
  /\ next = [l EXCEPT ![rd.dim] = rd.step]

TurnOf(at) == IF at.left[at.turn] = 1 THEN 3 - at.turn ELSE at.turn

RoundOf(k, at) ==
  LET size == GroupSize(k, at.left[TurnOf(at)])
  IN  [dim |-> TurnOf(at), size |-> size, step |-> at.left[TurnOf(at)] \div size]

AfterRound(k, at) ==
  [left |-> [at.left EXCEPT ![TurnOf(at)] = RoundOf(k, at).step], turn |-> 3 - TurnOf(at)]

Turns == [left : Left, turn : Dims]

LEMMA RoundOfGood ==
  ASSUME NEW k \in Nat, k > 1, NEW at \in Turns, ~AllOne(at.left)
  PROVE  /\ RoundOf(k, at) \in Round
         /\ AfterRound(k, at) \in Turns
         /\ Shrinks(RoundOf(k, at), at.left, AfterRound(k, at).left)
         /\ AfterRound(k, at).left[1] + AfterRound(k, at).left[2] < at.left[1] + at.left[2]
<1> DEFINE d == TurnOf(at)
           n == at.left[d]
           g == GroupSize(k, n)
           q == n \div g
           l == at.left
<1>1. l \in [Dims -> Nat \ {0}] /\ at.turn \in Dims /\ Dims = {1, 2}
  BY DEF Turns, Left, Dims
<1>2. d \in Dims /\ 3 - d \in Dims
  BY <1>1 DEF TurnOf
<1>3. n > 1 /\ n \in Nat
  <2>1. n # 1
    <3>1. PICK e \in Dims : l[e] # 1
      BY DEF AllOne
    <3>2. l[at.turn] = 1 => e # at.turn /\ d = 3 - at.turn
      BY <3>1 DEF TurnOf
    <3>3. l[at.turn] # 1 => d = at.turn
      BY DEF TurnOf
    <3>4. l[at.turn] = 1 => e = d
      BY <1>1, <3>2
    <3> QED
      BY <3>1, <3>3, <3>4
  <2>2. n \in Nat \ {0}
    BY <1>1, <1>2
  <2>3. QED
    BY <2>1, <2>2
<1>4. g \in Nat /\ g > 1 /\ q \in Nat \ {0} /\ q < n /\ n = g * q
  BY <1>3, GroupSizeIs
<1>5. RoundOf(k, at) = [dim |-> d, size |-> g, step |-> q]
  BY DEF RoundOf
<1>6. AfterRound(k, at) = [left |-> [l EXCEPT ![d] = q], turn |-> 3 - d]
  BY <1>5 DEF AfterRound
<1> HIDE DEF d, n, g, q
<1>7. RoundOf(k, at) \in Round
  BY <1>2, <1>4, <1>5 DEF Round
<1>8. [l EXCEPT ![d] = q] \in Left
  BY <1>1, <1>4 DEF Left
<1>9. AfterRound(k, at) \in Turns
  BY <1>2, <1>6, <1>8 DEF Turns
<1>10. Shrinks(RoundOf(k, at), l, AfterRound(k, at).left)
  BY <1>4, <1>5, <1>6 DEF Shrinks, n
<1>11. [l EXCEPT ![d] = q][1] + [l EXCEPT ![d] = q][2] < l[1] + l[2]
  <2>1. l[d] = n /\ l[1] \in Nat /\ l[2] \in Nat
    BY <1>1 DEF n
  <2>2. CASE d = 1
    <3>1. [l EXCEPT ![d] = q][1] = q /\ [l EXCEPT ![d] = q][2] = l[2]
      BY <1>1, <2>2
    <3>2. QED
      BY <1>3, <1>4, <2>1, <2>2, <3>1
  <2>3. CASE d = 2
    <3>1. [l EXCEPT ![d] = q][2] = q /\ [l EXCEPT ![d] = q][1] = l[1]
      BY <1>1, <2>3
    <3>2. QED
      BY <1>3, <1>4, <2>1, <2>3, <3>1
  <2>4. QED
    BY <1>1, <1>2, <2>2, <2>3
<1>12. QED
  BY <1>6, <1>7, <1>9, <1>10, <1>11

(* rounds, of Rounds. *)
RoundsFrom(g, k) ==
  [at \in Turns |-> IF AllOne(at.left) THEN <<>>
                    ELSE <<RoundOf(k, at)>> \o g[AfterRound(k, at)]]

LEMMA RoundsFromExists ==
  ASSUME NEW k \in Nat, k > 1
  PROVE  \E g : g = RoundsFrom(g, k) /\ g \in [Turns -> Seq(Round)]
<1> DEFINE S == Seq(Round)
           m == [at \in Turns |-> at.left[1] + at.left[2]]
           next == [at \in Turns |-> IF AllOne(at.left) THEN at ELSE AfterRound(k, at)]
           Stop == {at \in Turns : AllOne(at.left)}
           base == [at \in Turns |-> <<>>]
           step == [x \in Turns \X S |-> IF AllOne(x[1].left) THEN <<>>
                                         ELSE <<RoundOf(k, x[1])>> \o x[2]]
<1>1. m \in [Turns -> Nat]
  <2>1. ASSUME NEW at \in Turns PROVE at.left[1] + at.left[2] \in Nat
    <3>1. at.left \in [Dims -> Nat \ {0}] /\ 1 \in Dims /\ 2 \in Dims
      BY DEF Turns, Left, Dims
    <3>2. QED
      BY <3>1
  <2>2. QED
    BY <2>1
<1>2. next \in [Turns -> Turns]
  BY RoundOfGood
<1>3. \A at \in Turns \ Stop : m[next[at]] < m[at]
  <2> SUFFICES ASSUME NEW at \in Turns \ Stop PROVE m[next[at]] < m[at]
    OBVIOUS
  <2>1. ~AllOne(at.left) /\ next[at] = AfterRound(k, at)
    OBVIOUS
  <2>2. /\ AfterRound(k, at) \in Turns
        /\ AfterRound(k, at).left[1] + AfterRound(k, at).left[2] < at.left[1] + at.left[2]
    BY <2>1, RoundOfGood
  <2>3. m[next[at]] = AfterRound(k, at).left[1] + AfterRound(k, at).left[2]
    BY <2>1, <2>2
  <2>4. m[at] = at.left[1] + at.left[2]
    OBVIOUS
  <2>5. QED
    BY <2>2, <2>3, <2>4
<1>4. base \in [Turns -> S]
  OBVIOUS
<1>5. step \in [Turns \X S -> S]
  <2> SUFFICES ASSUME NEW x \in Turns \X S
               PROVE  (IF AllOne(x[1].left) THEN <<>> ELSE <<RoundOf(k, x[1])>> \o x[2]) \in S
    OBVIOUS
  <2>1. CASE AllOne(x[1].left)
    BY <2>1
  <2>2. CASE ~AllOne(x[1].left)
    <3>1. RoundOf(k, x[1]) \in Round
      BY <2>2, RoundOfGood
    <3>2. QED
      BY <2>2, <3>1
  <2>3. QED
    BY <2>1, <2>2
<1>6. /\ \A at \in Turns, v \in S :
           step[<<at, v>>] = IF AllOne(at.left) THEN <<>> ELSE <<RoundOf(k, at)>> \o v
      /\ \A at \in Turns : /\ at \in Stop <=> AllOne(at.left)
                           /\ base[at] = <<>>
                           /\ ~AllOne(at.left) => next[at] = AfterRound(k, at)
  OBVIOUS
<1> HIDE DEF S, m, next, Stop, base, step
<1>7. PICK g \in [Turns -> S] : \A x \in Turns : Unfolds(g, x, Stop, base, step, next)
  <2>1. \A x \in Turns \ Stop : m[next[x]] < m[x]
    BY <1>3
  <2>2. QED
    BY <1>1, <1>2, <2>1, <1>4, <1>5, RecursionExists
<1>8. ASSUME NEW x \in Turns PROVE g[x] = RoundsFrom(g, k)[x]
  <2>1. CASE AllOne(x.left)
    BY <1>6, <1>7, <2>1 DEF Unfolds, RoundsFrom
  <2>2. CASE ~AllOne(x.left)
    <3>1. g[x] = step[<<x, g[next[x]]>>] /\ next[x] = AfterRound(k, x)
      BY <1>6, <1>7, <2>2 DEF Unfolds
    <3>2. g[next[x]] \in S
      BY <1>2, <1>7
    <3>3. QED
      BY <1>6, <2>2, <3>1, <3>2 DEF RoundsFrom
  <2>3. QED
    BY <2>1, <2>2
<1>9. g = RoundsFrom(g, k)
  BY <1>7, <1>8 DEF RoundsFrom
<1>10. QED
  BY <1>7, <1>9 DEF S

(* rem[n] is what is left in each dimension after n rounds. *)
Remains(rem, rs, dv) ==
  /\ rem \in [0 .. Len(rs) -> Left]
  /\ rem[0] = dv
  /\ AllOne(rem[Len(rs)])
  /\ \A n \in 1 .. Len(rs) : Shrinks(rs[n], rem[n - 1], rem[n])

LEMMA RoundsGood ==
  ASSUME NEW k \in Nat, k > 1, NEW dv \in Left
  PROVE  /\ Rounds(k, dv) \in Seq(Round)
         /\ \E rem : Remains(rem, Rounds(k, dv), dv)
<1> DEFINE g == CHOOSE g : g = RoundsFrom(g, k)
           m == [at \in Turns |-> at.left[1] + at.left[2]]
           Good(at) == /\ g[at] \in Seq(Round)
                       /\ \E rem : Remains(rem, g[at], at.left)
           T == {at \in Turns : Good(at)}
<1>1. Rounds(k, dv) = g[[left |-> dv, turn |-> 1]]
  BY ZenonT(90) DEF Rounds, RoundsFrom, RoundOf, AfterRound, TurnOf, AllOne, Turns, Left
<1>2. g = RoundsFrom(g, k)
  BY RoundsFromExists
<1> HIDE DEF g
<1>3. m \in [Turns -> Nat]
  <2>1. ASSUME NEW at \in Turns PROVE at.left[1] + at.left[2] \in Nat
    <3>1. at.left \in [Dims -> Nat \ {0}] /\ 1 \in Dims /\ 2 \in Dims
      BY DEF Turns, Left, Dims
    <3>2. QED
      BY <3>1
  <2>2. QED
    BY <2>1
<1>4. ASSUME NEW at \in Turns, \A y \in Turns : m[y] < m[at] => y \in T
      PROVE  at \in T
  <2>1. CASE AllOne(at.left)
    <3>1. g[at] = <<>>
      BY <1>2, <2>1 DEF RoundsFrom
    <3>2. at.left \in Left
      BY DEF Turns
    <3> DEFINE rem == [n \in 0 .. 0 |-> at.left]
    <3>3. rem \in [0 .. 0 -> Left] /\ rem[0] = at.left
      BY <3>2
    <3> HIDE DEF rem
    <3>4. Remains(rem, <<>>, at.left)
      BY <2>1, <3>3 DEF Remains
    <3>5. g[at] \in Seq(Round)
      BY <3>1
    <3>6. Remains(rem, g[at], at.left)
      BY <3>1, <3>4
    <3>7. Good(at)
      BY <3>5, <3>6, Zenon
    <3>8. QED
      BY <3>7
  <2>2. CASE ~AllOne(at.left)
    <3> DEFINE next == AfterRound(k, at)
               rd == RoundOf(k, at)
               s == g[next]
    <3>1. rd \in Round /\ next \in Turns /\ Shrinks(rd, at.left, next.left)
          /\ next.left[1] + next.left[2] < at.left[1] + at.left[2]
      BY <2>2, RoundOfGood
    <3>2. g[at] = <<rd>> \o s
      BY <1>2, <2>2 DEF RoundsFrom
    <3> HIDE DEF next, rd, g
    <3>3. Good(next)
      BY <1>4, <3>1
    <3>4. s \in Seq(Round)
      BY <3>3
    <3>5. PICK tail : Remains(tail, s, next.left)
      BY <3>3
    <3> HIDE DEF s
    <3> DEFINE n == Len(s)
               rem == [i \in 0 .. (n + 1) |-> IF i = 0 THEN at.left ELSE tail[i - 1]]
               all == <<rd>> \o s
    <3>6. n \in Nat /\ tail \in [0 .. n -> Left] /\ tail[0] = next.left /\ AllOne(tail[n])
          /\ \A i \in 1 .. n : Shrinks(s[i], tail[i - 1], tail[i])
      BY <3>4, <3>5 DEF Remains
    <3>7. all \in Seq(Round) /\ Len(all) = n + 1 /\ all[1] = rd
          /\ \A i \in 2 .. (n + 1) : all[i] = s[i - 1]
      BY <3>1, <3>4
    <3> HIDE DEF n, all
    <3>8. at.left \in Left
      BY DEF Turns
    <3>9. rem \in [0 .. (n + 1) -> Left] /\ rem[0] = at.left
          /\ \A i \in 1 .. (n + 1) : rem[i] = tail[i - 1]
      BY <3>6, <3>8
    <3> HIDE DEF rem
    <3>10. AllOne(rem[n + 1])
      BY <3>6, <3>9
    <3>11. ASSUME NEW i \in 1 .. (n + 1) PROVE Shrinks(all[i], rem[i - 1], rem[i])
      <4>1. CASE i = 1
        BY <3>1, <3>6, <3>7, <3>9, <4>1
      <4>2. CASE i # 1
        <5>1. i - 1 \in 1 .. n /\ i \in 2 .. (n + 1) /\ i \in 1 .. (n + 1)
              /\ i - 1 \in 1 .. (n + 1)
          BY <3>6, <4>2
        <5>2. Shrinks(s[i - 1], tail[i - 1 - 1], tail[i - 1])
          BY <3>6, <5>1
        <5>3. all[i] = s[i - 1] /\ rem[i] = tail[i - 1] /\ rem[i - 1] = tail[i - 1 - 1]
          BY <3>7, <3>9, <5>1
        <5>4. QED
          BY <5>2, <5>3
      <4>3. QED
        BY <4>1, <4>2
    <3>12. Remains(rem, all, at.left)
      BY <3>7, <3>9, <3>10, <3>11 DEF Remains
    <3>13. QED
      BY <3>2, <3>7, <3>12 DEF all
  <2>3. QED
    BY <2>1, <2>2
<1>5. Turns \subseteq T
  <2> HIDE DEF T, m
  <2>1. QED
    BY <1>3, <1>4, MeasureInduction
<1>6. [left |-> dv, turn |-> 1] \in Turns
  BY DEF Turns, Dims
<1>7. Good([left |-> dv, turn |-> 1])
  BY <1>5, <1>6
<1>8. QED
  BY <1>1, <1>7

-----------------------------------------------------------------------------
(* Coordinates of the blocks, and the groups of a round.                    *)

(* y is x moved to place j of its group, which changes nothing about where  *)
(* the group lies.                                                         *)
Moved(x, y, j, size, step, q) ==
  /\ y \in Nat /\ y < (size * step) * q
  /\ (y \div step) % size = j
  /\ y \div step = size * (x \div (size * step)) + j
  /\ y % step = x % step
  /\ y \div (size * step) = x \div (size * step)
  /\ y % (size * step) = step * j + (x % step)

LEMMA Shifted ==
  ASSUME NEW step \in Nat \ {0}, NEW size \in Nat \ {0}, NEW q \in Nat \ {0},
         NEW x \in Nat, x < (size * step) * q, NEW j \in 0 .. (size - 1)
  PROVE  Moved(x, x + (j - ((x \div step) % size)) * step, j, size, step, q)
<1> DEFINE m == size * step
           h == x \div m
           pos == (x \div step) % size
           low == x % step
           y == x + (j - pos) * step
           t == step * j + low
<1>1. step * size = m /\ m \in Nat \ {0}
  OBVIOUS
<1>2. x = (step * size) * (x \div (step * size)) + step * pos + low
  BY DivTwice
<1>3. x = m * h + step * pos + low
  BY <1>1, <1>2
<1>4. x \div step \in Int /\ low \in 0 .. (step - 1)
  BY DivMod
<1>5. pos \in 0 .. (size - 1)
  <2> DEFINE d == x \div step
  <2>1. d \in Int
    BY <1>4
  <2> HIDE DEF d
  <2>2. d % size \in 0 .. (size - 1)
    BY <2>1, DivMod
  <2>3. QED
    BY <2>2 DEF d
<1>6. h \in Int /\ x % m \in 0 .. (m - 1) /\ x = m * h + (x % m)
  <2> HIDE DEF m
  <2>1. QED
    BY <1>1, DivMod
<1> HIDE DEF h, pos, low
<1>7. t \in 0 .. (m - 1)
  <2>1. step * j + step <= step * size
    BY LessTimes
  <2>2. step * j \in Nat
    OBVIOUS
  <2> DEFINE sj == step * j
  <2> HIDE DEF sj, m
  <2>3. sj + step <= m /\ sj \in Nat
    BY <1>1, <2>1, <2>2 DEF sj
  <2>4. sj + low \in 0 .. (m - 1)
    BY <1>1, <1>4, <2>3
  <2>5. QED
    BY <2>4 DEF sj
<1>8. y = m * h + t
  <2>1. (j - pos) * step = step * j - step * pos
    BY <1>5
  <2>2. m * h \in Int /\ step * j \in Int /\ step * pos \in Int
    BY <1>5, <1>6
  <2> DEFINE mh == m * h
             sj == step * j
             sp == step * pos
  <2> HIDE DEF mh, sj, sp
  <2>3. x = mh + sp + low /\ mh \in Int /\ sj \in Int /\ sp \in Int /\ low \in Int
    BY <1>3, <1>4, <2>2 DEF mh, sj, sp
  <2>4. x + (sj - sp) = mh + (sj + low)
    BY <2>3
  <2>5. QED
    BY <2>1, <2>4 DEF mh, sj, sp
<1>9. y \div m = h /\ y % m = t
  <2> HIDE DEF m, t, y
  <2>1. (m * h + t) \div m = h /\ (m * h + t) % m = t
    BY <1>1, <1>6, <1>7, DivModIs
  <2>2. QED
    BY <1>8, <2>1
<1>10. 0 <= h /\ h < q
  <2> HIDE DEF m
  <2>1. 0 <= h
    <3> SUFFICES ASSUME h < 0 PROVE FALSE
      BY <1>6
    <3>1. m * h + m <= m * 0
      BY <1>1, <1>6, LessTimes
    <3>2. m * h \in Int /\ m * 0 = 0
      BY <1>1, <1>6
    <3>3. QED
      BY <1>1, <1>6, <3>1, <3>2
  <2>2. ~(q < h) /\ q # h
    <3>1. m * h <= x /\ m * h \in Int /\ m * q \in Int /\ x < m * q
      <4>1. m * h \in Int /\ m * q \in Int
        BY <1>1, <1>6
      <4>2. x < m * q
        BY DEF m
      <4>3. QED
        BY <1>6, <4>1, <4>2
    <3>2. ~(q < h)
      <4> SUFFICES ASSUME q < h PROVE FALSE
        OBVIOUS
      <4>1. m * q + m <= m * h
        BY <1>1, <1>6, LessTimes
      <4>2. QED
        BY <1>1, <3>1, <4>1
    <3>3. q # h
      BY <3>1
    <3>4. QED
      BY <3>2, <3>3
  <2>3. QED
    BY <1>6, <2>1, <2>2
<1>11. y \in Nat /\ y < m * q
  <2> HIDE DEF m, t, y
  <2>1. m * h + m <= m * q
    BY <1>1, <1>6, <1>10, LessTimes
  <2>2. m * h \in Nat /\ m * q \in Nat
    BY <1>1, <1>6, <1>10
  <2>3. QED
    BY <1>1, <1>7, <1>8, <2>1, <2>2
<1> DEFINE u == size * h + j
<1>12. u \in Int /\ y = step * u + low
  <2>1. m * h = step * (size * h)
    BY <1>6
  <2>2. step * (size * h + j) = step * (size * h) + step * j
    BY <1>6
  <2>3. size * h \in Int /\ step * (size * h) \in Int /\ step * j \in Int
    BY <1>6
  <2>4. u \in Int
    BY <2>3
  <2> HIDE DEF m, y
  <2>5. m * h + (step * j + low) = (m * h + step * j) + low
    BY <1>4, <2>1, <2>3
  <2>6. QED
    BY <1>8, <2>1, <2>2, <2>4, <2>5
<1>13. y \div step = u /\ y % step = low
  <2> HIDE DEF u, y
  <2>1. QED
    BY <1>4, <1>12, DivModIs
<1>14. u % size = j
  <2>1. (size * h + j) % size = j
    BY <1>6, DivModIs
  <2>2. QED
    BY <2>1
<1> HIDE DEF u, y, t, m
<1>15. QED
  BY <1>9, <1>11, <1>13, <1>14 DEF u, y, t, m, h, pos, low, Moved

Blocks(dv) == 0 .. (dv[1] * dv[2] - 1)

Places(dv) == {c \in [Dims -> Nat] : \A d \in Dims : c[d] < dv[d]}

LEMMA CoordsOf ==
  ASSUME NEW dv \in Left, NEW r \in Blocks(dv)
  PROVE  Coords(r, dv) \in Places(dv) /\ Gid(Coords(r, dv), dv) = r
<1> DEFINE a == dv[1]
           b == dv[2]
           h == r \div a
           l == r % a
<1>1. a \in Nat \ {0} /\ b \in Nat \ {0} /\ Dims = {1, 2}
  BY DEF Left, Dims
<1>2. r \in Nat /\ r < a * b
  BY <1>1 DEF Blocks
<1> HIDE DEF a, b
<1>3. h \in Int /\ l \in 0 .. (a - 1) /\ r = a * h + l
  BY <1>1, <1>2, DivMod
<1> HIDE DEF h, l
<1>4. 0 <= h /\ h < b
  <2>1. ~(h < 0)
    <3> SUFFICES ASSUME h < 0 PROVE FALSE
      OBVIOUS
    <3>1. a * h + a <= a * 0 /\ a * h \in Int /\ a * 0 = 0
      BY <1>1, <1>3, LessTimes
    <3>2. QED
      BY <1>1, <1>2, <1>3, <3>1
  <2>2. ~(b < h) /\ b # h
    <3>1. a * h \in Int /\ a * b \in Int
      BY <1>1, <1>3
    <3>2. b < h => a * b + a <= a * h
      BY <1>1, <1>3, LessTimes
    <3>3. QED
      BY <1>1, <1>2, <1>3, <3>1, <3>2
  <2>3. QED
    BY <1>1, <1>3, <2>1, <2>2
<1>5. h % b = h
  <2>1. h = b * 0 + h /\ h \in 0 .. (b - 1)
    BY <1>1, <1>3, <1>4
  <2>2. (b * 0 + h) % b = h
    BY <1>1, <2>1, DivModIs
  <2>3. QED
    BY <2>1, <2>2
<1>6. Coords(r, dv) = <<l, h>>
  BY <1>5 DEF Coords, a, b, h, l
<1>7. <<l, h>> \in [Dims -> Nat] /\ <<l, h>>[1] = l /\ <<l, h>>[2] = h
  BY <1>3, <1>4 DEF Dims
<1>8. \A d \in Dims : <<l, h>>[d] < dv[d]
  BY <1>1, <1>3, <1>4, <1>7 DEF a, b
<1>9. Gid(<<l, h>>, dv) = r
  <2>1. Gid(<<l, h>>, dv) = h * a + l
    BY <1>7 DEF Gid, a
  <2>2. h * a = a * h
    BY <1>1, <1>3
  <2>3. QED
    BY <1>3, <2>1, <2>2
<1>10. QED
  BY <1>6, <1>7, <1>8, <1>9 DEF Places

LEMMA GidOf ==
  ASSUME NEW dv \in Left, NEW c \in Places(dv)
  PROVE  Gid(c, dv) \in Blocks(dv) /\ Coords(Gid(c, dv), dv) = c
<1> DEFINE a == dv[1]
           b == dv[2]
           x == c[1]
           y == c[2]
           r == Gid(c, dv)
<1>1. a \in Nat \ {0} /\ b \in Nat \ {0} /\ Dims = {1, 2}
  BY DEF Left, Dims
<1>2. x \in 0 .. (a - 1) /\ y \in 0 .. (b - 1) /\ c \in [Dims -> Nat]
  BY <1>1 DEF Places
<1> HIDE DEF x, y
<1>3. r = a * y + x
  <2>1. r = y * a + x /\ y * a = a * y
    BY <1>1, <1>2 DEF Gid, x, y
  <2>2. QED
    BY <2>1
<1> HIDE DEF r, a, b
<1>4. a * y + a <= a * b /\ a * y \in Nat /\ a * b \in Nat
  BY <1>1, <1>2, LessTimes
<1>5. r \in Nat /\ r < a * b
  BY <1>1, <1>2, <1>3, <1>4
<1>6. r \div a = y /\ r % a = x
  BY <1>1, <1>2, <1>3, DivModIs
<1>7. y % b = y
  <2>1. y = b * 0 + y
    BY <1>1, <1>2
  <2>2. (b * 0 + y) % b = y
    BY <1>1, <1>2, DivModIs
  <2>3. QED
    BY <2>1, <2>2
<1>8. Coords(r, dv) = <<x, y>>
  BY <1>6, <1>7 DEF Coords, a, b
<1>9. <<x, y>> = c
  BY <1>1, <1>2 DEF x, y, Dims
<1>10. r \in Blocks(dv)
  BY <1>5, <1>4 DEF Blocks, a, b
<1>11. QED
  BY <1>8, <1>9, <1>10 DEF r

(* The place of a block in its group. *)
Pos(rd, dv, r) == (Coords(r, dv)[rd.dim] \div rd.step) % rd.size

(* Blocks r and s differ in the round's dimension at most, and there lie in *)
(* the same places but for their place in the group.                       *)
Related(rd, dv, r, s) ==
  /\ \A d \in Dims \ {rd.dim} : Coords(s, dv)[d] = Coords(r, dv)[d]
  /\ Coords(s, dv)[rd.dim] \div (rd.size * rd.step)
       = Coords(r, dv)[rd.dim] \div (rd.size * rd.step)
  /\ Coords(s, dv)[rd.dim] % rd.step = Coords(r, dv)[rd.dim] % rd.step
  /\ Coords(s, dv)[rd.dim] % (rd.size * rd.step)
       = rd.step * Pos(rd, dv, s) + (Coords(r, dv)[rd.dim] % rd.step)
  /\ Coords(s, dv)[rd.dim] \div rd.step
       = rd.size * (Coords(r, dv)[rd.dim] \div (rd.size * rd.step)) + Pos(rd, dv, s)

(* The groups of a round cut dimension dim into whole ones. *)
CutBy(rd, dv) == \E q \in Nat \ {0} : dv[rd.dim] = (rd.size * rd.step) * q

GroupOf(group, rd, dv, r) ==
  /\ group \in [1 .. rd.size -> Blocks(dv)]
  /\ Pos(rd, dv, r) \in 0 .. (rd.size - 1)
  /\ group[Pos(rd, dv, r) + 1] = r
  /\ \A j \in 1 .. rd.size :
       /\ Pos(rd, dv, group[j]) = j - 1
       /\ Related(rd, dv, r, group[j])
       /\ Coords(group[j], dv)
            = [Coords(r, dv) EXCEPT ![rd.dim] =
                 Coords(r, dv)[rd.dim] + ((j - 1) - Pos(rd, dv, r)) * rd.step]

LEMMA Members ==
  ASSUME NEW dv \in Left, NEW rd \in Round, CutBy(rd, dv), NEW r \in Blocks(dv)
  PROVE  GroupOf(Partners(rd, dv, r), rd, dv, r)
<1> DEFINE c == Coords(r, dv)
           dim == rd.dim
           x == c[dim]
           size == rd.size
           step == rd.step
           pos == Pos(rd, dv, r)
           y(j) == x + (j - pos) * step
           at(j) == [c EXCEPT ![dim] = y(j)]
           group == Partners(rd, dv, r)
<1>1. c \in Places(dv) /\ Gid(c, dv) = r
  BY CoordsOf
<1>2. size \in Nat \ {0} /\ step \in Nat \ {0} /\ dim \in Dims
  BY DEF Round
<1>3. PICK q \in Nat \ {0} : dv[dim] = (size * step) * q
  BY DEF CutBy
<1> HIDE DEF size, step, dim, c
<1>4. c \in [Dims -> Nat] /\ x \in Nat /\ x < (size * step) * q
  BY <1>1, <1>2, <1>3 DEF Places
<1>5. pos = (x \div step) % size
  BY DEF Pos, c, dim, step, size
<1> HIDE DEF pos, x
<1>6. pos \in 0 .. (size - 1)
  <2> DEFINE d == x \div step
  <2>1. d \in Int
    BY <1>2, <1>4, DivMod
  <2> HIDE DEF d
  <2>2. d % size \in 0 .. (size - 1)
    BY <1>2, <2>1, DivMod
  <2>3. QED
    BY <1>5, <2>2 DEF d
<1>7. \A j \in 1 .. size : group[j] = Gid(at(j - 1), dv)
  <2> SUFFICES ASSUME NEW j \in 1 .. size PROVE group[j] = Gid(at(j - 1), dv)
    OBVIOUS
  <2>1. group[j] = Gid([c EXCEPT ![dim] = c[dim] + (j - 1 - pos) * step], dv)
    BY DEF Partners, Pos, c, dim, size, step, pos
  <2>2. QED
    BY <2>1 DEF x
<1>8. ASSUME NEW j \in 0 .. (size - 1)
      PROVE  /\ y(j) \in Nat /\ y(j) < (size * step) * q
             /\ (y(j) \div step) % size = j
             /\ y(j) \div step = size * (x \div (size * step)) + j
             /\ y(j) % step = x % step
             /\ y(j) \div (size * step) = x \div (size * step)
             /\ y(j) % (size * step) = step * j + (x % step)
  <2>1. Moved(x, x + (j - ((x \div step) % size)) * step, j, size, step, q)
    BY <1>2, <1>4, Shifted
  <2>2. Moved(x, y(j), j, size, step, q)
    BY <1>5, <2>1
  <2> HIDE DEF y
  <2>3. QED
    BY <2>2 DEF Moved
<1> HIDE DEF y
<1>9. ASSUME NEW j \in 0 .. (size - 1)
      PROVE  at(j) \in Places(dv) /\ at(j)[dim] = y(j)
             /\ \A d \in Dims \ {dim} : at(j)[d] = c[d]
  <2>1. at(j) \in [Dims -> Nat]
    BY <1>4, <1>8
  <2>2. at(j)[dim] = y(j) /\ \A d \in Dims \ {dim} : at(j)[d] = c[d]
    BY <1>2, <1>4
  <2>3. \A d \in Dims : at(j)[d] < dv[d]
    BY <1>1, <1>3, <1>8, <2>2 DEF Places
  <2>4. QED
    BY <2>1, <2>2, <2>3 DEF Places
<1> HIDE DEF at
<1>10. ASSUME NEW j \in 1 .. size
       PROVE  group[j] \in Blocks(dv) /\ Coords(group[j], dv) = at(j - 1)
  <2>1. j - 1 \in 0 .. (size - 1)
    BY <1>2
  <2>2. QED
    BY <1>7, <1>9, <2>1, GidOf
<1>11. group \in [1 .. size -> Blocks(dv)]
  <2>1. group = [j \in 1 .. size |-> group[j]]
    BY DEF Partners, size
  <2> HIDE DEF group
  <2>2. QED
    BY <1>10, <2>1
<1>12. group[pos + 1] = r
  <2>1. pos + 1 \in 1 .. size /\ (pos + 1) - 1 = pos
    BY <1>2, <1>6
  <2>2. group[pos + 1] = Gid(at(pos), dv)
    BY <1>7, <2>1
  <2>3. y(pos) = x
    BY <1>2, <1>4, <1>6 DEF y
  <2>4. at(pos) = c
    BY <1>4, <2>3 DEF at, x
  <2>5. QED
    BY <1>1, <2>2, <2>4
<1>13. ASSUME NEW j \in 1 .. size
       PROVE  Pos(rd, dv, group[j]) = j - 1 /\ Related(rd, dv, r, group[j])
  <2> DEFINE i == j - 1
             s == group[j]
  <2>1. i \in 0 .. (size - 1)
    BY <1>2
  <2>2. Coords(s, dv) = at(i)
    BY <1>10
  <2> HIDE DEF i, s
  <2>3. Coords(s, dv)[dim] = y(i) /\ \A d \in Dims \ {dim} : Coords(s, dv)[d] = c[d]
    BY <1>9, <2>1, <2>2
  <2>4. Pos(rd, dv, s) = i
    BY <1>8, <2>1, <2>3 DEF Pos, dim, size, step
  <2>5. Related(rd, dv, r, s)
    BY <1>8, <2>1, <2>3, <2>4 DEF Related, dim, size, step, c, x
  <2>6. QED
    BY <2>4, <2>5 DEF i, s
<1>14. \A j \in 1 .. size : Coords(group[j], dv) = [c EXCEPT ![dim] = c[dim] + ((j - 1) - pos) * step]
  BY <1>10 DEF at, y, x
<1>15. QED
  BY <1>6, <1>11, <1>12, <1>13, <1>14 DEF size, step, dim, pos, c, x, GroupOf

(* Whoever is in the group has the same group. *)
LEMMA SameGroup ==
  ASSUME NEW dv \in Left, NEW rd \in Round, CutBy(rd, dv), NEW r \in Blocks(dv),
         NEW j \in 1 .. rd.size
  PROVE  Partners(rd, dv, Partners(rd, dv, r)[j]) = Partners(rd, dv, r)
<1> DEFINE group == Partners(rd, dv, r)
           s == group[j]
           c == Coords(r, dv)
           e == Coords(s, dv)
           dim == rd.dim
           size == rd.size
           step == rd.step
           p == Pos(rd, dv, r)
           x == c[dim]
           y == x + ((j - 1) - p) * step
<1>1. s \in Blocks(dv) /\ p \in 0 .. (size - 1) /\ Pos(rd, dv, s) = j - 1
      /\ e = [c EXCEPT ![dim] = y]
  <2>1. GroupOf(group, rd, dv, r)
    BY Members
  <2> HIDE DEF group
  <2>2. QED
    BY <2>1 DEF GroupOf
<1>2. c \in [Dims -> Nat] /\ e \in [Dims -> Nat]
  BY <1>1, CoordsOf DEF Places
<1>3. size \in Nat \ {0} /\ step \in Nat \ {0} /\ dim \in Dims
  BY DEF Round
<1>4. Partners(rd, dv, s) =
        [k \in 1 .. size |-> Gid([e EXCEPT ![dim] = e[dim] + (k - 1 - Pos(rd, dv, s)) * step], dv)]
  BY DEF Partners, Pos
<1>5. group = [k \in 1 .. size |-> Gid([c EXCEPT ![dim] = c[dim] + (k - 1 - p) * step], dv)]
  BY DEF Partners, Pos
<1> HIDE DEF group, c, e, dim, size, step, p, s
<1>6. ASSUME NEW k \in 1 .. size
      PROVE  [e EXCEPT ![dim] = e[dim] + (k - 1 - (j - 1)) * step]
               = [c EXCEPT ![dim] = c[dim] + (k - 1 - p) * step]
  <2>1. j \in Int /\ k \in Int /\ p \in Int /\ x \in Int /\ step \in Int
    BY <1>1, <1>2, <1>3
  <2>2. e[dim] = y
    BY <1>1, <1>2, <1>3
  <2>3. y + (k - 1 - (j - 1)) * step = x + (k - 1 - p) * step
    <3> HIDE DEF x
    <3>1. (k - 1 - p) * step = ((j - 1) - p) * step + (k - 1 - (j - 1)) * step
      BY <2>1
    <3>2. ((j - 1) - p) * step \in Int /\ (k - 1 - (j - 1)) * step \in Int
      BY <2>1
    <3>3. QED
      BY <2>1, <3>1, <3>2
  <2> HIDE DEF y
  <2>4. \A v : [e EXCEPT ![dim] = v] = [c EXCEPT ![dim] = v]
    BY <1>1, <1>2
  <2>5. QED
    BY <2>2, <2>3, <2>4
<1>7. QED
  BY <1>1, <1>4, <1>5, <1>6 DEF group, s

-----------------------------------------------------------------------------
(* What a rank knows of the others: with whom it exchanges, how far they    *)
(* are, and what is in the mail.                                           *)

Peers(rd, dv, r) == ToSet(Partners(rd, dv, r))

(* A grid of blocks and rounds as the decomposer and the partners build it. *)
GoodGrid(rs, dv) ==
  /\ dv \in Left /\ dv[1] * dv[2] = N
  /\ rs \in Seq(Round)
  /\ \E rem : Remains(rem, rs, dv)

SetupInv ==
  /\ input \in Inputs
  /\ divs = <<>> => rounds = <<>>
  /\ divs # <<>> => GoodGrid(rounds, divs) /\ Divides(divs, Whole, N)

Labels == {"start", "reduce", "redistribute", "blend", "barrier", "collect", "done", "error"}

PlaceInv ==
  /\ pc \in [Ranks -> Labels]
  /\ round \in [Ranks -> 0 .. Len(rounds)]
  /\ \A r \in Ranks :
       /\ divs = <<>> => pc[r] \in {"start", "error"}
       /\ divs # <<>> => pc[r] # "error"
       /\ pc[r] = "start" => round[r] = 0
       /\ input.mode = "surface" =>
            /\ pc[r] \notin {"redistribute", "blend", "barrier"}
            /\ pc[r] \in {"collect", "done"} => round[r] = Len(rounds)
       /\ input.mode = "volume" => pc[r] # "reduce" /\ round[r] = 0

(* Rank r has taken in what it gets in round n. *)
Passed(r, n) == round[r] > n \/ (round[r] = n /\ pc[r] \in {"collect", "done"})

(* Nobody takes in what a peer has not sent. *)
SurfaceOrder ==
  input.mode = "surface" =>
    \A n \in 1 .. Len(rounds) : \A r \in Ranks :
      Passed(r, n) => \A s \in Peers(rounds[n], divs, r) : round[s] >= n

VolumeOrder ==
  input.mode = "volume" =>
    \A r, s \in Ranks :
      /\ pc[r] \in {"barrier", "collect", "done"} => pc[s] \notin {"start", "redistribute"}
      /\ pc[r] \in {"collect", "done"} => pc[s] \in {"collect", "done"}

OrderInv ==
  /\ SurfaceOrder
  /\ VolumeOrder
  /\ pc[0] = "done" => \A s \in Ranks : pc[s] = "done"

(* What is in the mail: the pieces of a round, the blocks' parts of the     *)
(* images, and the pieces for rank 0, from sending to taking in.            *)
SurfaceMail(s, t, n) ==
  /\ input.mode = "surface" /\ n <= Len(rounds)
  /\ s # t /\ s \in Peers(rounds[n], divs, t)
  /\ round[s] >= n /\ ~Passed(t, n)

VolumeMail(s, t, n) ==
  /\ input.mode = "volume" /\ n = 1
  /\ pc[s] \notin {"start", "redistribute", "error"}
  /\ pc[t] \in {"start", "redistribute", "blend"}

CollectMail(s, t, n) ==
  /\ t = 0 /\ s # 0 /\ n = Len(rounds) + 1
  /\ pc[s] = "done" /\ pc[0] # "done"

InMail(s, t, n) == SurfaceMail(s, t, n) \/ VolumeMail(s, t, n) \/ CollectMail(s, t, n)

Slots == Ranks \X Ranks \X (1 .. (Len(rounds) + 1))

MailInv ==
  /\ DOMAIN mail \subseteq Slots
  /\ \A s, t \in Ranks : \A n \in 1 .. (Len(rounds) + 1) :
       <<s, t, n>> \in DOMAIN mail <=> InMail(s, t, n)

ExchangeInv == SetupInv /\ PlaceInv /\ OrderInv /\ MailInv

LEMMA ModeIs ==
  ASSUME NEW in \in Inputs
  PROVE  /\ in.mode \in {"surface", "volume"}
         /\ in.width \in Nat \ {0} /\ in.height \in Nat \ {0}
BY InputsAssumption

LEMMA RanksAre == 0 \in Ranks /\ Ranks \subseteq Nat /\ N \in Nat \ {0}
BY CompositingAssumption DEF Ranks

(* What is left after some rounds divides the number of blocks. *)
LEMMA RemainsDivides ==
  ASSUME NEW rs \in Seq(Round), NEW dv \in Left, NEW rem, Remains(rem, rs, dv)
  PROVE  \A n \in 0 .. Len(rs) : \A d \in Dims : \E q \in Nat \ {0} : dv[d] = rem[n][d] * q
<1> DEFINE Good(n) == \A d \in Dims : \E q \in Nat \ {0} : dv[d] = rem[n][d] * q
           T == {n \in Nat : n <= Len(rs) => Good(n)}
<1>1. /\ rem \in [0 .. Len(rs) -> Left] /\ rem[0] = dv
      /\ \A n \in 1 .. Len(rs) : Shrinks(rs[n], rem[n - 1], rem[n])
      /\ \A n \in 1 .. Len(rs) : rs[n] \in Round
      /\ Len(rs) \in Nat
  BY DEF Remains
<1>2. 0 \in T
  <2>1. \A d \in Dims : dv[d] \in Nat /\ dv[d] = dv[d] * 1
    BY DEF Left
  <2>2. QED
    BY <1>1, <2>1
<1>3. ASSUME NEW n \in Nat, n \in T PROVE n + 1 \in T
  <2> SUFFICES ASSUME n + 1 <= Len(rs), NEW d \in Dims
               PROVE  \E q \in Nat \ {0} : dv[d] = rem[n + 1][d] * q
    OBVIOUS
  <2>1. n <= Len(rs) /\ n + 1 \in 1 .. Len(rs) /\ (n + 1) - 1 = n /\ n \in 0 .. Len(rs)
        /\ n + 1 \in 0 .. Len(rs)
    BY <1>1
  <2>2. PICK q \in Nat \ {0} : dv[d] = rem[n][d] * q
    BY <1>3, <2>1
  <2> DEFINE rd == rs[n + 1]
             l == rem[n]
             next == rem[n + 1]
  <2>3. Shrinks(rd, l, next) /\ l \in Left /\ next \in Left /\ rd \in Round
    BY <1>1, <2>1
  <2> HIDE DEF rd, l, next
  <2>4. CASE d = rd.dim
    <3>1. l[d] = rd.size * rd.step /\ next[d] = rd.step
      BY <2>3, <2>4 DEF Shrinks, Left
    <3>2. rd.size \in Nat \ {0} /\ rd.step \in Nat \ {0}
      BY <2>3 DEF Round
    <3> DEFINE a == rd.size
               b == rd.step
    <3> HIDE DEF a, b
    <3>3. (a * b) * q = b * (a * q) /\ a * q \in Nat \ {0}
      BY <3>2 DEF a, b
    <3>4. dv[d] = b * (a * q)
      BY <2>2, <3>1, <3>3 DEF a, b, l
    <3>5. QED
      BY <3>1, <3>3, <3>4 DEF b, next
  <2>5. CASE d # rd.dim
    <3>1. next[d] = l[d]
      BY <2>3, <2>5 DEF Shrinks, Left
    <3>2. QED
      BY <2>2, <3>1 DEF next, l
  <2>6. QED
    BY <2>4, <2>5
<1>4. Nat \subseteq T
  <2> HIDE DEF T
  <2>1. QED
    BY <1>2, <1>3, NatInductionSet
<1>5. QED
  BY <1>1, <1>4

LEMMA GridFacts ==
  ASSUME NEW rs, NEW dv, GoodGrid(rs, dv)
  PROVE  /\ dv \in Left /\ Blocks(dv) = Ranks /\ Len(rs) \in Nat
         /\ \A n \in 1 .. Len(rs) : rs[n] \in Round /\ CutBy(rs[n], dv)
         /\ Len(rs) = 0 => N = 1
<1>1. dv \in Left /\ rs \in Seq(Round) /\ dv[1] * dv[2] = N
  BY DEF GoodGrid
<1>2. Blocks(dv) = Ranks
  BY <1>1 DEF Blocks, Ranks
<1>3. PICK rem : Remains(rem, rs, dv)
  BY DEF GoodGrid
<1>4. /\ rem \in [0 .. Len(rs) -> Left] /\ rem[0] = dv
      /\ \A n \in 1 .. Len(rs) : Shrinks(rs[n], rem[n - 1], rem[n])
      /\ AllOne(rem[Len(rs)])
  BY <1>3 DEF Remains
<1>5. ASSUME NEW n \in 1 .. Len(rs) PROVE rs[n] \in Round /\ CutBy(rs[n], dv)
  <2>1. rs[n] \in Round /\ rs[n].dim \in Dims /\ n - 1 \in 0 .. Len(rs)
    <3>1. rs[n] \in Round
      BY <1>1
    <3>2. Len(rs) \in Nat
      BY <1>1
    <3> HIDE DEF Round
    <3>3. n - 1 \in 0 .. Len(rs)
      BY <3>2
    <3>4. QED
      BY <3>1, <3>3 DEF Round
  <2>2. PICK q \in Nat \ {0} : dv[rs[n].dim] = rem[n - 1][rs[n].dim] * q
    BY <1>1, <1>3, <2>1, RemainsDivides
  <2>3. rem[n - 1][rs[n].dim] = rs[n].size * rs[n].step
    BY <1>4 DEF Shrinks
  <2>4. QED
    BY <2>1, <2>2, <2>3 DEF CutBy
<1>6. Len(rs) = 0 => N = 1
  BY <1>1, <1>4 DEF AllOne, Dims
<1>7. QED
  BY <1>1, <1>2, <1>5, <1>6

(* Ranks compute their groups apart, and agree on them. *)
LEMMA PeersAgree ==
  ASSUME NEW rs, NEW dv, GoodGrid(rs, dv), NEW n \in 1 .. Len(rs), NEW r \in Ranks
  PROVE  /\ Peers(rs[n], dv, r) \subseteq Ranks
         /\ r \in Peers(rs[n], dv, r)
         /\ \A s \in Peers(rs[n], dv, r) : /\ Partners(rs[n], dv, s) = Partners(rs[n], dv, r)
                                           /\ Peers(rs[n], dv, s) = Peers(rs[n], dv, r)
<1> DEFINE rd == rs[n]
           group == Partners(rd, dv, r)
<1>1. dv \in Left /\ r \in Blocks(dv) /\ rd \in Round /\ CutBy(rd, dv) /\ Blocks(dv) = Ranks
  BY GridFacts
<1> HIDE DEF rd
<1>2. GroupOf(group, rd, dv, r)
  BY <1>1, Members
<1>3. \A j \in 1 .. rd.size : Partners(rd, dv, group[j]) = group
  BY <1>1, SameGroup
<1> HIDE DEF group
<1>4. /\ group \in [1 .. rd.size -> Ranks]
      /\ Pos(rd, dv, r) + 1 \in 1 .. rd.size
      /\ group[Pos(rd, dv, r) + 1] = r
  <2>1. Pos(rd, dv, r) \in 0 .. (rd.size - 1) /\ rd.size \in Nat
    BY <1>1, <1>2 DEF GroupOf, Round
  <2>2. QED
    BY <1>1, <1>2, <2>1 DEF GroupOf
<1>5. Peers(rd, dv, r) = {group[j] : j \in 1 .. rd.size}
  BY <1>4 DEF Peers, ToSet, group
<1>6. Peers(rd, dv, r) \subseteq Ranks /\ r \in Peers(rd, dv, r)
  BY <1>4, <1>5
<1>7. \A s \in Peers(rd, dv, r) : Partners(rd, dv, s) = group
  BY <1>3, <1>5
<1>8. \A s \in Peers(rd, dv, r) : Peers(rd, dv, s) = Peers(rd, dv, r)
  BY <1>7 DEF Peers, group
<1>9. QED
  BY <1>6, <1>7, <1>8 DEF rd, group

LEMMA ExchangeInit == Init => ExchangeInv
<1> SUFFICES ASSUME Init PROVE ExchangeInv
  OBVIOUS
<1>1. /\ input \in Inputs /\ divs = Divisions(Whole, N) /\ mail = <<>>
      /\ rounds = IF divs = <<>> THEN <<>> ELSE Rounds(K, divs)
      /\ pc = [r \in Ranks |-> "start"] /\ round = [r \in Ranks |-> 0]
  BY DEF Init
<1>2. N \in Nat \ {0} /\ K \in Nat /\ K > 1
  BY CompositingAssumption
<1>3. Fits(Whole)
  <2>1. input.width \in Nat \ {0} /\ input.height \in Nat \ {0}
    BY <1>1, ModeIs
  <2>2. Whole.min[1] = 1 /\ Whole.min[2] = 1 /\ Whole.max[1] = input.width
        /\ Whole.max[2] = input.height /\ Dims = {1, 2}
    BY DEF Whole, Dims
  <2>3. QED
    BY <2>1, <2>2 DEF Fits
<1>4. ASSUME divs # <<>> PROVE GoodGrid(rounds, divs) /\ Divides(divs, Whole, N)
  <2>1. Divides(divs, Whole, N)
    BY <1>1, <1>2, <1>3, <1>4, DivisionsGood
  <2>2. divs \in Left /\ divs[1] * divs[2] = N
    BY <2>1 DEF Divides, Left
  <2>3. rounds = Rounds(K, divs)
    BY <1>1, <1>4
  <2>4. rounds \in Seq(Round) /\ \E rem : Remains(rem, rounds, divs)
    BY <1>2, <2>2, <2>3, RoundsGood
  <2>5. QED
    BY <2>1, <2>2, <2>4 DEF GoodGrid
<1>5. SetupInv
  BY <1>1, <1>4 DEF SetupInv
<1>6. Len(rounds) \in Nat
  <2>1. CASE divs = <<>>
    BY <1>1, <2>1
  <2>2. CASE divs # <<>>
    BY <1>4, <2>2, GridFacts
  <2>3. QED
    BY <2>1, <2>2
<1>7. PlaceInv
  BY <1>1, <1>6 DEF PlaceInv, Labels
<1>8. \A r \in Ranks : pc[r] = "start" /\ round[r] = 0
  BY <1>1
<1>9. OrderInv
  <2>1. \A n \in 1 .. Len(rounds) : \A r \in Ranks : ~Passed(r, n)
    BY <1>6, <1>8 DEF Passed
  <2>2. QED
    BY <1>8, <2>1, RanksAre DEF OrderInv, SurfaceOrder, VolumeOrder
<1>10. MailInv
  <2>1. DOMAIN mail = {}
    BY <1>1
  <2>2. \A s, t \in Ranks : \A n \in 1 .. (Len(rounds) + 1) : ~InMail(s, t, n)
    BY <1>6, <1>8 DEF InMail, SurfaceMail, VolumeMail, CollectMail
  <2>3. QED
    BY <2>1, <2>2 DEF MailInv
<1>11. QED
  BY <1>5, <1>7, <1>9, <1>10 DEF ExchangeInv

(* What the invariant says in one mode. *)
LEMMA ExchangeFacts ==
  ASSUME ExchangeInv
  PROVE  /\ input.mode \in {"surface", "volume"}
         /\ Len(rounds) \in Nat
         /\ Len(rounds) = 0 /\ divs # <<>> => N = 1
         /\ \A n \in 1 .. Len(rounds) : \A r \in Ranks :
              /\ Peers(rounds[n], divs, r) \subseteq Ranks
              /\ \A s \in Peers(rounds[n], divs, r) : r \in Peers(rounds[n], divs, s)
         /\ pc \in [Ranks -> Labels] /\ round \in [Ranks -> 0 .. Len(rounds)]
<1>1. SetupInv /\ PlaceInv
  BY DEF ExchangeInv
<1>2. input.mode \in {"surface", "volume"}
  BY <1>1, ModeIs DEF SetupInv
<1>3. pc \in [Ranks -> Labels] /\ round \in [Ranks -> 0 .. Len(rounds)]
  BY <1>1 DEF PlaceInv
<1>4. CASE divs = <<>>
  <2>1. Len(rounds) = 0
    BY <1>1, <1>4 DEF SetupInv
  <2>2. QED
    BY <1>2, <1>3, <1>4, <2>1
<1>5. CASE divs # <<>>
  <2>1. GoodGrid(rounds, divs)
    BY <1>1, <1>5 DEF SetupInv
  <2>2. Len(rounds) \in Nat /\ (Len(rounds) = 0 => N = 1)
    BY <2>1, GridFacts
  <2>3. ASSUME NEW n \in 1 .. Len(rounds), NEW r \in Ranks
        PROVE  /\ Peers(rounds[n], divs, r) \subseteq Ranks
               /\ \A s \in Peers(rounds[n], divs, r) : r \in Peers(rounds[n], divs, s)
    BY <2>1, PeersAgree
  <2>4. QED
    BY <1>2, <1>3, <2>2, <2>3
<1>6. QED
  BY <1>4, <1>5

LEMMA SetupStep ==
  ASSUME ExchangeInv, UNCHANGED setup
  PROVE  SetupInv' /\ Whole' = Whole /\ rounds' = rounds /\ divs' = divs /\ input' = input
<1>1. rounds' = rounds /\ divs' = divs /\ input' = input
  BY DEF setup
<1>2. Whole' = Whole
  BY <1>1 DEF Whole
<1>3. QED
  BY <1>1, <1>2 DEF ExchangeInv, SetupInv

(* The mail changes as the ranks' progress says it must. *)
LEMMA MailStep ==
  ASSUME ExchangeInv, UNCHANGED setup, DOMAIN mail' \subseteq Slots,
         \A s, t \in Ranks : \A n \in 1 .. (Len(rounds) + 1) :
           <<s, t, n>> \in DOMAIN mail' <=> InMail(s, t, n)'
  PROVE  MailInv'
BY SetupStep DEF MailInv, Slots

LEMMA Enqueued ==
  ASSUME NEW new, NEW queue
  PROVE  /\ DOMAIN Enqueue(new, queue) = DOMAIN new \cup DOMAIN queue
         /\ \A m \in DOMAIN new : Enqueue(new, queue)[m] = new[m]
         /\ \A m \in DOMAIN queue \ DOMAIN new : Enqueue(new, queue)[m] = queue[m]
BY DEF Enqueue

LEMMA StartExchange ==
  ASSUME ExchangeInv, NEW r \in Ranks, Start(r)
  PROVE  ExchangeInv'
<1>1. UNCHANGED setup /\ rounds' = rounds /\ divs' = divs /\ input' = input /\ SetupInv'
  BY SetupStep DEF Start
<1>2. PlaceInv /\ OrderInv /\ MailInv
  BY DEF ExchangeInv
<1>3. /\ pc[r] = "start" /\ mail' = mail /\ round' = round
      /\ pc' = [pc EXCEPT ![r] = IF divs = <<>> THEN "error"
                                 ELSE IF input.mode = "surface" THEN "reduce"
                                 ELSE "redistribute"]
  BY DEF Start, GoTo
<1>4. /\ input.mode \in {"surface", "volume"}
      /\ Len(rounds) \in Nat
      /\ pc \in [Ranks -> Labels] /\ round \in [Ranks -> 0 .. Len(rounds)]
  BY ExchangeFacts
<1>5. /\ pc'[r] = IF divs = <<>> THEN "error" ELSE IF input.mode = "surface" THEN "reduce"
                   ELSE "redistribute"
      /\ \A s \in Ranks : s # r => pc'[s] = pc[s]
  BY <1>3, <1>4
<1>6. round[r] = 0
  BY <1>2, <1>3 DEF PlaceInv
<1>7. PlaceInv'
  BY <1>1, <1>2, <1>3, <1>4, <1>5 DEF PlaceInv, Labels
<1>8. \A s \in Ranks : \A n \in 1 .. Len(rounds) : Passed(s, n)' <=> Passed(s, n)
  BY <1>3, <1>4, <1>5, <1>6 DEF Passed
<1>9. OrderInv'
  <2>1. SurfaceOrder'
    BY <1>1, <1>2, <1>3, <1>8 DEF OrderInv, SurfaceOrder
  <2>2. VolumeOrder'
    BY <1>1, <1>2, <1>3, <1>4, <1>5 DEF OrderInv, VolumeOrder
  <2>3. QED
    BY <1>2, <1>3, <1>5, <2>1, <2>2, RanksAre DEF OrderInv
<1>10. MailInv'
  <2>1. ASSUME NEW s \in Ranks, NEW t \in Ranks, NEW n \in 1 .. (Len(rounds) + 1)
        PROVE  InMail(s, t, n)' <=> InMail(s, t, n)
    <3>1. SurfaceMail(s, t, n)' <=> SurfaceMail(s, t, n)
      BY <1>1, <1>3, <1>4, <1>8 DEF SurfaceMail
    <3>2. VolumeMail(s, t, n)' <=> VolumeMail(s, t, n)
      BY <1>1, <1>2, <1>3, <1>4, <1>5 DEF VolumeMail, PlaceInv
    <3>3. CollectMail(s, t, n)' <=> CollectMail(s, t, n)
      BY <1>1, <1>3, <1>5, RanksAre DEF CollectMail
    <3>4. QED
      BY <3>1, <3>2, <3>3 DEF InMail
  <2>2. QED
    BY <1>1, <1>2, <1>3, <2>1, MailStep DEF MailInv
<1>11. QED
  BY <1>1, <1>7, <1>9, <1>10 DEF ExchangeInv

(* A rank of a surface takes in what it got and goes on. *)
LEMMA ReduceExchange ==
  ASSUME ExchangeInv, NEW r \in Ranks, Reduce(r)
  PROVE  ExchangeInv'
<1> DEFINE L == Len(rounds)
           n0 == round[r]
           peers(n, t) == Peers(rounds[n], divs, t)
<1>1. UNCHANGED setup /\ rounds' = rounds /\ divs' = divs /\ input' = input /\ SetupInv'
  BY SetupStep DEF Reduce
<1>2. PlaceInv /\ SurfaceOrder /\ VolumeOrder /\ MailInv
      /\ (pc[0] = "done" => \A s \in Ranks : pc[s] = "done")
  BY DEF ExchangeInv, OrderInv
<1>3. /\ input.mode \in {"surface", "volume"}
      /\ L \in Nat
      /\ pc \in [Ranks -> Labels] /\ round \in [Ranks -> 0 .. L]
      /\ \A n \in 1 .. L : \A t \in Ranks :
           /\ peers(n, t) \subseteq Ranks
           /\ \A s \in peers(n, t) : t \in peers(n, s)
  BY ExchangeFacts
<1>4. pc[r] = "reduce" /\ Arrived(r)
  BY DEF Reduce
<1>5. input.mode = "surface"
  BY <1>2, <1>3, <1>4 DEF PlaceInv
<1>6. n0 \in 0 .. L
  BY <1>3
<1>7. Expected(r) = IF n0 > 0 THEN {<<s, r, n0>> : s \in peers(n0, r) \ {r}} ELSE {}
  BY <1>4 DEF Expected, Peers
<1>8. n0 > 0 => \A s \in peers(n0, r) \ {r} : round[s] >= n0
  <2> SUFFICES ASSUME n0 > 0, NEW s \in peers(n0, r) \ {r} PROVE round[s] >= n0
    OBVIOUS
  <2>1. n0 \in 1 .. L /\ n0 \in 1 .. (L + 1) /\ s \in Ranks
    BY <1>3, <1>6
  <2>2. <<s, r, n0>> \in DOMAIN mail
    BY <1>4, <1>7 DEF Arrived
  <2>3. InMail(s, r, n0)
    BY <1>2, <2>1, <2>2 DEF MailInv
  <2>4. QED
    BY <1>5, <2>1, <2>3 DEF InMail, SurfaceMail, VolumeMail, CollectMail
<1>9. DOMAIN Rest(r) = DOMAIN mail \ Expected(r)
  BY DEF Rest, Restrict
<1>10. ASSUME NEW s \in Ranks, NEW t \in Ranks, NEW n \in 1 .. (L + 1)
       PROVE  <<s, t, n>> \in DOMAIN Rest(r)
                <=> InMail(s, t, n) /\ ~(t = r /\ n = n0)
  <2>1. <<s, t, n>> \in DOMAIN mail <=> InMail(s, t, n)
    BY <1>2 DEF MailInv
  <2>2. <<s, t, n>> \in Expected(r) <=> n0 > 0 /\ t = r /\ n = n0 /\ s # r /\ s \in peers(n0, r)
    BY <1>7
  <2>3. t = r /\ n = n0 /\ InMail(s, t, n) => n0 > 0 /\ s # r /\ s \in peers(n0, r)
    BY <1>5, <1>6 DEF InMail, SurfaceMail, VolumeMail, CollectMail
  <2>4. QED
    BY <1>9, <2>1, <2>2, <2>3
<1>11. DOMAIN Rest(r) \subseteq Slots
  BY <1>2, <1>9 DEF MailInv
<1>12. CASE n0 = L
  <2>1. /\ mail' = Rest(r) /\ round' = round
        /\ pc' = [pc EXCEPT ![r] = "collect"]
    BY <1>12 DEF Reduce, GoTo
  <2>2. pc'[r] = "collect" /\ \A s \in Ranks : s # r => pc'[s] = pc[s]
    BY <1>3, <2>1
  <2>3. divs # <<>>
    BY <1>2, <1>4 DEF PlaceInv
  <2>4. PlaceInv'
    BY <1>1, <1>2, <1>3, <1>5, <1>12, <2>1, <2>2, <2>3 DEF PlaceInv, Labels
  <2>5. \A s \in Ranks : \A n \in 1 .. L :
          Passed(s, n)' <=> Passed(s, n) \/ (s = r /\ n = n0)
    BY <1>3, <1>4, <1>12, <2>1, <2>2 DEF Passed
  <2>6. SurfaceOrder'
    <3> SUFFICES ASSUME NEW n \in 1 .. L, NEW t \in Ranks, Passed(t, n)',
                        NEW s \in peers(n, t)
                 PROVE  round[s] >= n
      BY <1>1, <1>5, <2>1 DEF SurfaceOrder
    <3>1. CASE Passed(t, n)
      BY <1>2, <1>5, <3>1 DEF SurfaceOrder
    <3>2. CASE t = r /\ n = n0
      BY <1>3, <1>6, <1>8, <3>2
    <3>3. QED
      BY <2>5, <3>1, <3>2
  <2>7. VolumeOrder'
    BY <1>1, <1>5 DEF VolumeOrder
  <2>8. pc'[0] # "done"
    BY <1>2, <1>4, <2>2, RanksAre
  <2>9. OrderInv'
    BY <2>6, <2>7, <2>8 DEF OrderInv
  <2>10. ASSUME NEW s \in Ranks, NEW t \in Ranks, NEW n \in 1 .. (L + 1)
         PROVE  <<s, t, n>> \in DOMAIN mail' <=> InMail(s, t, n)'
    <3>1. SurfaceMail(s, t, n)' <=> SurfaceMail(s, t, n) /\ ~(t = r /\ n = n0)
      BY <1>1, <1>3, <2>1, <2>5 DEF SurfaceMail
    <3>2. ~VolumeMail(s, t, n)' /\ ~VolumeMail(s, t, n)
      BY <1>1, <1>5 DEF VolumeMail
    <3>3. CollectMail(s, t, n)' <=> CollectMail(s, t, n) /\ ~(t = r /\ n = n0)
      BY <1>1, <1>3, <1>4, <1>6, <2>2, RanksAre DEF CollectMail
    <3>4. QED
      BY <1>10, <2>1, <3>1, <3>2, <3>3 DEF InMail
  <2>11. MailInv'
    BY <1>1, <1>11, <2>1, <2>10, MailStep
  <2>12. QED
    BY <1>1, <2>4, <2>9, <2>11 DEF ExchangeInv
<1>13. CASE n0 # L
  <2> DEFINE n1 == n0 + 1
             out == {<<r, s, n1>> : s \in peers(n1, r) \ {r}}
  <2>1. /\ DOMAIN mail' = out \cup DOMAIN Rest(r)
        /\ round' = [round EXCEPT ![r] = n1] /\ pc' = pc
    <3> DEFINE group == Partners(rounds[n1], divs, r)
               part(s) == SubsetFrom(Merged(r), Parts(Merged(r).bounds, rounds[n1].dim,
                                                      Len(group))[Place(s, group)])
    <3>1. /\ mail' = Enqueue([m \in out |-> part(m[2])], Rest(r))
          /\ round' = [round EXCEPT ![r] = n1] /\ pc' = pc
      BY <1>13 DEF Reduce, Peers
    <3>2. DOMAIN [m \in out |-> part(m[2])] = out
      OBVIOUS
    <3> DEFINE new == [m \in out |-> part(m[2])]
    <3> HIDE DEF new, out
    <3>3. QED
      BY <3>1, <3>2, Enqueued DEF new
  <2>2. n1 \in 1 .. L
    BY <1>3, <1>6, <1>13
  <2> HIDE DEF n1
  <2>3. round'[r] = n1 /\ \A s \in Ranks : s # r => round'[s] = round[s]
    BY <1>3, <2>1
  <2>4. n1 = n0 + 1
    BY DEF n1
  <2>5. PlaceInv'
    BY <1>1, <1>2, <1>3, <1>4, <1>5, <2>1, <2>2, <2>3 DEF PlaceInv, Labels
  <2>6. \A s \in Ranks : \A n \in 1 .. L :
          Passed(s, n)' <=> Passed(s, n) \/ (s = r /\ n = n0)
    BY <1>3, <1>4, <1>6, <2>1, <2>3, <2>4 DEF Passed
  <2>7. SurfaceOrder'
    <3> SUFFICES ASSUME NEW n \in 1 .. L, NEW t \in Ranks, Passed(t, n)',
                        NEW s \in peers(n, t)
                 PROVE  round'[s] >= n
      BY <1>1, <1>5 DEF SurfaceOrder
    <3>1. s \in Ranks /\ round[s] \in Nat /\ round'[s] >= round[s] /\ round'[s] \in Nat
      BY <1>3, <1>6, <2>2, <2>3, <2>4
    <3>2. round[s] >= n \/ (s = r /\ n = n0)
      <4>1. CASE Passed(t, n)
        BY <1>2, <1>5, <4>1 DEF SurfaceOrder
      <4>2. CASE t = r /\ n = n0
        BY <1>3, <1>6, <1>8, <4>2
      <4>3. QED
        BY <2>6, <4>1, <4>2
    <3>3. QED
      BY <1>3, <1>6, <3>1, <3>2
  <2>8. VolumeOrder'
    BY <1>1, <1>5 DEF VolumeOrder
  <2>9. OrderInv'
    BY <1>2, <2>1, <2>7, <2>8 DEF OrderInv
  <2>10. ASSUME NEW s \in Ranks, NEW t \in Ranks, NEW n \in 1 .. (L + 1)
         PROVE  <<s, t, n>> \in DOMAIN mail' <=> InMail(s, t, n)'
    <3>1. <<s, t, n>> \in out <=> s = r /\ n = n1 /\ t # r /\ t \in peers(n1, r)
      OBVIOUS
    <3>2. SurfaceMail(s, t, n)' <=> \/ SurfaceMail(s, t, n) /\ ~(t = r /\ n = n0)
                                    \/ s = r /\ n = n1 /\ t # r /\ t \in peers(n1, r)
      <4>1. CASE n <= L
        <5>1. n \in 1 .. L
          BY <1>3, <4>1
        <5>2. Passed(t, n)' <=> Passed(t, n) \/ (t = r /\ n = n0)
          BY <2>6, <5>1
        <5>3. CASE s = r
          <6>1. round'[s] >= n <=> round[s] >= n \/ n = n1
            BY <1>6, <2>2, <2>3, <2>4, <5>1, <5>3
          <6>2. n = n1 /\ s \in peers(n, t) => ~Passed(t, n)
            <7> SUFFICES ASSUME n = n1, s \in peers(n, t), Passed(t, n) PROVE FALSE
              OBVIOUS
            <7>1. round[s] >= n
              BY <1>2, <1>5, <5>1 DEF SurfaceOrder
            <7>2. QED
              BY <1>6, <2>4, <5>3, <7>1
          <6>3. s \in peers(n, t) <=> t \in peers(n, r)
            BY <1>3, <5>1, <5>3
          <6>4. n = n1 => n # n0 /\ ~(round[s] >= n)
            BY <1>6, <2>4, <5>3
          <6>5. QED
            BY <1>1, <1>5, <4>1, <5>2, <5>3, <6>1, <6>2, <6>3, <6>4 DEF SurfaceMail
        <5>4. CASE s # r
          BY <1>1, <2>3, <4>1, <5>2, <5>4 DEF SurfaceMail
        <5>5. QED
          BY <5>3, <5>4
      <4>2. CASE ~(n <= L)
        BY <1>1, <1>3, <2>2, <4>2 DEF SurfaceMail
      <4>3. QED
        BY <4>1, <4>2
    <3>3. ~VolumeMail(s, t, n)' /\ ~VolumeMail(s, t, n)
      BY <1>1, <1>5 DEF VolumeMail
    <3>4. CollectMail(s, t, n)' <=> CollectMail(s, t, n) /\ ~(t = r /\ n = n0)
      BY <1>1, <1>3, <1>6, <2>1 DEF CollectMail
    <3>5. QED
      BY <1>10, <2>1, <3>1, <3>2, <3>3, <3>4 DEF InMail
  <2>11. MailInv'
    <3>1. out \subseteq Slots
      BY <1>3, <2>2 DEF Slots
    <3>2. QED
      BY <1>1, <1>11, <2>1, <2>10, <3>1, MailStep
  <2>12. QED
    BY <1>1, <2>5, <2>9, <2>11 DEF ExchangeInv
<1>14. QED
  BY <1>12, <1>13

(* Without rounds to come there is no message of a surface to change. *)
LEMMA RedistributeExchange ==
  ASSUME ExchangeInv, NEW r \in Ranks, Redistribute(r)
  PROVE  ExchangeInv'
<1> DEFINE L == Len(rounds)
           out == {<<r, s, 1>> : s \in Ranks}
<1>1. UNCHANGED setup /\ rounds' = rounds /\ divs' = divs /\ input' = input /\ SetupInv'
  BY SetupStep DEF Redistribute
<1>2. /\ PlaceInv /\ SurfaceOrder /\ VolumeOrder /\ MailInv
      /\ (pc[0] = "done" => \A s \in Ranks : pc[s] = "done")
  BY DEF ExchangeInv, OrderInv
<1>3. /\ input.mode \in {"surface", "volume"}
      /\ L \in Nat
      /\ pc \in [Ranks -> Labels] /\ round \in [Ranks -> 0 .. L]
  BY ExchangeFacts
<1>4. /\ pc[r] = "redistribute" /\ round' = round
      /\ pc' = [pc EXCEPT ![r] = "blend"]
  BY DEF Redistribute, GoTo
<1>5. pc'[r] = "blend" /\ \A s \in Ranks : s # r => pc'[s] = pc[s]
  BY <1>3, <1>4
<1>6. input.mode = "volume"
  BY <1>2, <1>3, <1>4 DEF PlaceInv
<1>7. DOMAIN mail' = out \cup DOMAIN mail
  <2> DEFINE part(s) == SubsetFrom(image[r], BlockBounds(Whole, divs, s))
             new == [m \in out |-> part(m[2])]
  <2>1. mail' = Enqueue(new, mail)
    BY DEF Redistribute
  <2>2. DOMAIN new = out
    OBVIOUS
  <2> HIDE DEF new, out
  <2>3. QED
    BY <2>1, <2>2, Enqueued
<1>8. divs # <<>>
  BY <1>2, <1>4 DEF PlaceInv
<1>9. PlaceInv'
  BY <1>1, <1>2, <1>3, <1>4, <1>5, <1>6, <1>8 DEF PlaceInv, Labels
<1>10. \A t \in Ranks : pc[t] \in {"start", "redistribute", "blend"}
  <2> SUFFICES ASSUME NEW t \in Ranks PROVE pc[t] \in {"start", "redistribute", "blend"}
    OBVIOUS
  <2>1. pc[t] \notin {"barrier", "collect", "done"}
    BY <1>2, <1>4, <1>6 DEF VolumeOrder
  <2>2. pc[t] # "reduce" /\ pc[t] # "error" /\ pc[t] \in Labels
    BY <1>2, <1>3, <1>6, <1>8 DEF PlaceInv
  <2>3. QED
    BY <2>1, <2>2 DEF Labels
<1>11. \A t \in Ranks : pc'[t] \in {"start", "redistribute", "blend"}
  BY <1>5, <1>10
<1>12. OrderInv'
  <2>1. SurfaceOrder' /\ VolumeOrder'
    BY <1>1, <1>6, <1>11 DEF SurfaceOrder, VolumeOrder
  <2>2. pc'[0] # "done"
    BY <1>11, RanksAre
  <2>3. QED
    BY <2>1, <2>2 DEF OrderInv
<1>13. ASSUME NEW s \in Ranks, NEW t \in Ranks, NEW n \in 1 .. (L + 1)
       PROVE  <<s, t, n>> \in DOMAIN mail' <=> InMail(s, t, n)'
  <2>1. <<s, t, n>> \in DOMAIN mail <=> InMail(s, t, n)
    BY <1>2 DEF MailInv
  <2>2. <<s, t, n>> \in out <=> s = r /\ n = 1
    OBVIOUS
  <2>3. ~SurfaceMail(s, t, n) /\ ~SurfaceMail(s, t, n)'
    BY <1>1, <1>6 DEF SurfaceMail
  <2>4. ~CollectMail(s, t, n) /\ ~CollectMail(s, t, n)'
    BY <1>1, <1>10, <1>11 DEF CollectMail
  <2>5. VolumeMail(s, t, n)' <=> VolumeMail(s, t, n) \/ (s = r /\ n = 1)
    BY <1>1, <1>4, <1>5, <1>6, <1>10, <1>11 DEF VolumeMail
  <2>6. QED
    BY <1>7, <2>1, <2>2, <2>3, <2>4, <2>5 DEF InMail
<1>14. MailInv'
  <2>1. out \subseteq Slots
    BY <1>3 DEF Slots
  <2>2. DOMAIN mail' \subseteq Slots
    BY <1>2, <1>7, <2>1 DEF MailInv
  <2>3. QED
    BY <1>1, <1>13, <2>2, MailStep
<1>15. QED
  BY <1>1, <1>9, <1>12, <1>14 DEF ExchangeInv

LEMMA BlendExchange ==
  ASSUME ExchangeInv, NEW r \in Ranks, BlendParts(r)
  PROVE  ExchangeInv'
<1> DEFINE L == Len(rounds)
<1>1. UNCHANGED setup /\ rounds' = rounds /\ divs' = divs /\ input' = input /\ SetupInv'
  BY SetupStep DEF BlendParts
<1>2. /\ PlaceInv /\ SurfaceOrder /\ VolumeOrder /\ MailInv
      /\ (pc[0] = "done" => \A s \in Ranks : pc[s] = "done")
  BY DEF ExchangeInv, OrderInv
<1>3. /\ input.mode \in {"surface", "volume"}
      /\ L \in Nat
      /\ (L = 0 /\ divs # <<>> => N = 1)
      /\ pc \in [Ranks -> Labels] /\ round \in [Ranks -> 0 .. L]
  BY ExchangeFacts
<1>4. /\ pc[r] = "blend" /\ round' = round /\ Arrived(r)
      /\ pc' = [pc EXCEPT ![r] = "barrier"] /\ mail' = Rest(r)
  BY DEF BlendParts, GoTo
<1>5. pc'[r] = "barrier" /\ \A s \in Ranks : s # r => pc'[s] = pc[s]
  BY <1>3, <1>4
<1>6. input.mode = "volume" /\ divs # <<>>
  BY <1>2, <1>3, <1>4 DEF PlaceInv
<1>7. Expected(r) = {<<s, r, 1>> : s \in Ranks}
  BY <1>4 DEF Expected
<1>8. DOMAIN mail' = DOMAIN mail \ Expected(r)
  BY <1>4 DEF Rest, Restrict
<1>9. \A s \in Ranks : pc[s] \notin {"start", "redistribute", "error", "reduce"}
  <2> SUFFICES ASSUME NEW s \in Ranks
               PROVE  pc[s] \notin {"start", "redistribute", "error", "reduce"}
    OBVIOUS
  <2>1. <<s, r, 1>> \in DOMAIN mail
    BY <1>4, <1>7 DEF Arrived
  <2>2. 1 \in 1 .. (L + 1)
    BY <1>3
  <2>3. InMail(s, r, 1)
    BY <1>2, <2>1, <2>2 DEF MailInv
  <2>4. QED
    BY <1>2, <1>6, <2>3 DEF InMail, SurfaceMail, VolumeMail, CollectMail, PlaceInv
<1>10. PlaceInv'
  BY <1>1, <1>2, <1>3, <1>4, <1>5, <1>6 DEF PlaceInv, Labels
<1>11. \A s \in Ranks : pc[s] \notin {"collect", "done"}
  BY <1>2, <1>4, <1>6 DEF VolumeOrder
<1>12. OrderInv'
  <2>1. \A s \in Ranks : pc'[s] \notin {"start", "redistribute", "collect", "done"}
    BY <1>5, <1>9, <1>11
  <2>2. SurfaceOrder' /\ VolumeOrder'
    BY <1>1, <1>6, <2>1 DEF SurfaceOrder, VolumeOrder
  <2>3. pc'[0] # "done"
    BY <2>1, RanksAre
  <2>4. QED
    BY <2>2, <2>3 DEF OrderInv
<1>13. ASSUME NEW s \in Ranks, NEW t \in Ranks, NEW n \in 1 .. (L + 1)
       PROVE  <<s, t, n>> \in DOMAIN mail' <=> InMail(s, t, n)'
  <2>1. <<s, t, n>> \in DOMAIN mail <=> InMail(s, t, n)
    BY <1>2 DEF MailInv
  <2>2. <<s, t, n>> \in Expected(r) <=> t = r /\ n = 1
    BY <1>7
  <2>3. ~SurfaceMail(s, t, n) /\ ~SurfaceMail(s, t, n)'
    BY <1>1, <1>6 DEF SurfaceMail
  <2>4. ~CollectMail(s, t, n) /\ ~CollectMail(s, t, n)'
    BY <1>1, <1>5, <1>11 DEF CollectMail
  <2>5. VolumeMail(s, t, n)' <=> VolumeMail(s, t, n) /\ t # r
    BY <1>1, <1>4, <1>5, <1>6, <1>9 DEF VolumeMail
  <2>6. VolumeMail(s, t, n) => n = 1
    BY DEF VolumeMail
  <2>7. QED
    BY <1>8, <2>1, <2>2, <2>3, <2>4, <2>5, <2>6 DEF InMail
<1>14. MailInv'
  <2>1. DOMAIN mail' \subseteq Slots
    BY <1>2, <1>8 DEF MailInv
  <2>2. QED
    BY <1>1, <1>13, <2>1, MailStep
<1>15. QED
  BY <1>1, <1>10, <1>12, <1>14 DEF ExchangeInv

LEMMA BarrierExchange ==
  ASSUME ExchangeInv, Barrier
  PROVE  ExchangeInv'
<1> DEFINE L == Len(rounds)
<1>1. UNCHANGED setup /\ rounds' = rounds /\ divs' = divs /\ input' = input /\ SetupInv'
  BY SetupStep DEF Barrier
<1>2. PlaceInv /\ MailInv
  BY DEF ExchangeInv
<1>3. /\ input.mode \in {"surface", "volume"}
      /\ L \in Nat
      /\ pc \in [Ranks -> Labels] /\ round \in [Ranks -> 0 .. L]
  BY ExchangeFacts
<1>4. /\ \A r \in Ranks : pc[r] = "barrier"
      /\ round' = round /\ pc' = [r \in Ranks |-> "collect"] /\ mail' = mail
  BY DEF Barrier
<1>5. \A r \in Ranks : pc'[r] = "collect"
  BY <1>4
<1>6. input.mode = "volume" /\ divs # <<>>
  BY <1>2, <1>3, <1>4, RanksAre DEF PlaceInv
<1>7. PlaceInv'
  BY <1>1, <1>2, <1>3, <1>4, <1>5, <1>6 DEF PlaceInv, Labels
<1>8. OrderInv'
  <2>1. SurfaceOrder' /\ VolumeOrder'
    BY <1>1, <1>5, <1>6 DEF SurfaceOrder, VolumeOrder
  <2>2. pc'[0] # "done"
    BY <1>5, RanksAre
  <2>3. QED
    BY <2>1, <2>2 DEF OrderInv
<1>9. ASSUME NEW s \in Ranks, NEW t \in Ranks, NEW n \in 1 .. (L + 1)
      PROVE  ~InMail(s, t, n) /\ ~InMail(s, t, n)'
  <2>1. ~SurfaceMail(s, t, n) /\ ~SurfaceMail(s, t, n)'
    BY <1>1, <1>6 DEF SurfaceMail
  <2>2. ~VolumeMail(s, t, n) /\ ~VolumeMail(s, t, n)'
    BY <1>4, <1>5 DEF VolumeMail
  <2>3. ~CollectMail(s, t, n) /\ ~CollectMail(s, t, n)'
    BY <1>4, <1>5 DEF CollectMail
  <2>4. QED
    BY <2>1, <2>2, <2>3 DEF InMail
<1>10. MailInv'
  <2>1. \A s, t \in Ranks : \A n \in 1 .. (L + 1) :
          <<s, t, n>> \in DOMAIN mail' <=> InMail(s, t, n)'
    BY <1>2, <1>4, <1>9 DEF MailInv
  <2>2. DOMAIN mail' \subseteq Slots
    BY <1>2, <1>4 DEF MailInv
  <2>3. QED
    BY <1>1, <2>1, <2>2, MailStep
<1>11. QED
  BY <1>1, <1>7, <1>8, <1>10 DEF ExchangeInv

LEMMA SendExchange ==
  ASSUME ExchangeInv, NEW r \in Ranks, CollectSend(r)
  PROVE  ExchangeInv'
<1> DEFINE L == Len(rounds)
           out == {<<r, 0, L + 1>>}
<1>1. UNCHANGED setup /\ rounds' = rounds /\ divs' = divs /\ input' = input /\ SetupInv'
  BY SetupStep DEF CollectSend
<1>2. /\ PlaceInv /\ SurfaceOrder /\ VolumeOrder /\ MailInv
      /\ (pc[0] = "done" => \A s \in Ranks : pc[s] = "done")
  BY DEF ExchangeInv, OrderInv
<1>3. /\ input.mode \in {"surface", "volume"}
      /\ L \in Nat
      /\ pc \in [Ranks -> Labels] /\ round \in [Ranks -> 0 .. L]
  BY ExchangeFacts
<1>4. /\ pc[r] = "collect" /\ r # 0 /\ round' = round
      /\ pc' = [pc EXCEPT ![r] = "done"]
  BY DEF CollectSend, GoTo
<1>5. pc'[r] = "done" /\ \A s \in Ranks : s # r => pc'[s] = pc[s]
  BY <1>3, <1>4
<1>6. DOMAIN mail' = out \cup DOMAIN mail
  <2> DEFINE new == [m \in out |-> image[r]]
  <2>1. mail' = Enqueue(new, mail)
    BY DEF CollectSend
  <2>2. DOMAIN new = out
    OBVIOUS
  <2> HIDE DEF new, out
  <2>3. QED
    BY <2>1, <2>2, Enqueued
<1>7. divs # <<>>
  BY <1>2, <1>4 DEF PlaceInv
<1>8. PlaceInv'
  BY <1>1, <1>2, <1>3, <1>4, <1>5, <1>7 DEF PlaceInv, Labels
<1>9. pc[0] # "done" /\ pc'[0] # "done"
  BY <1>2, <1>4, <1>5, RanksAre
<1>10. \A s \in Ranks : \A n \in 1 .. L : Passed(s, n)' <=> Passed(s, n)
  BY <1>3, <1>4, <1>5 DEF Passed
<1>11. OrderInv'
  <2>1. SurfaceOrder'
    BY <1>1, <1>2, <1>4, <1>10 DEF SurfaceOrder
  <2>2. VolumeOrder'
    BY <1>1, <1>2, <1>4, <1>5 DEF VolumeOrder
  <2>3. QED
    BY <1>9, <2>1, <2>2 DEF OrderInv
<1>12. ASSUME NEW s \in Ranks, NEW t \in Ranks, NEW n \in 1 .. (L + 1)
       PROVE  <<s, t, n>> \in DOMAIN mail' <=> InMail(s, t, n)'
  <2>1. <<s, t, n>> \in DOMAIN mail <=> InMail(s, t, n)
    BY <1>2 DEF MailInv
  <2>2. <<s, t, n>> \in out <=> s = r /\ t = 0 /\ n = L + 1
    OBVIOUS
  <2>3. SurfaceMail(s, t, n)' <=> SurfaceMail(s, t, n)
    BY <1>1, <1>3, <1>4, <1>10 DEF SurfaceMail
  <2>4. VolumeMail(s, t, n)' <=> VolumeMail(s, t, n)
    BY <1>1, <1>4, <1>5 DEF VolumeMail
  <2>5. CollectMail(s, t, n)' <=> CollectMail(s, t, n) \/ (s = r /\ t = 0 /\ n = L + 1)
    BY <1>1, <1>4, <1>5, <1>9 DEF CollectMail
  <2>6. QED
    BY <1>6, <2>1, <2>2, <2>3, <2>4, <2>5 DEF InMail
<1>13. MailInv'
  <2>1. out \subseteq Slots
    BY <1>3, RanksAre DEF Slots
  <2>2. DOMAIN mail' \subseteq Slots
    BY <1>2, <1>6, <2>1 DEF MailInv
  <2>3. QED
    BY <1>1, <1>12, <2>2, MailStep
<1>14. QED
  BY <1>1, <1>8, <1>11, <1>13 DEF ExchangeInv

LEMMA ReceiveExchange ==
  ASSUME ExchangeInv, CollectReceive
  PROVE  ExchangeInv'
<1> DEFINE L == Len(rounds)
<1>1. UNCHANGED setup /\ rounds' = rounds /\ divs' = divs /\ input' = input /\ SetupInv'
  BY SetupStep DEF CollectReceive
<1>2. /\ PlaceInv /\ SurfaceOrder /\ VolumeOrder /\ MailInv
      /\ (pc[0] = "done" => \A s \in Ranks : pc[s] = "done")
  BY DEF ExchangeInv, OrderInv
<1>3. /\ input.mode \in {"surface", "volume"}
      /\ L \in Nat
      /\ (L = 0 /\ divs # <<>> => N = 1)
      /\ pc \in [Ranks -> Labels] /\ round \in [Ranks -> 0 .. L]
  BY ExchangeFacts
<1>4. /\ pc[0] = "collect" /\ round' = round /\ Arrived(0)
      /\ pc' = [pc EXCEPT ![0] = "done"] /\ mail' = Rest(0)
  BY DEF CollectReceive, GoTo
<1>5. pc'[0] = "done" /\ \A s \in Ranks : s # 0 => pc'[s] = pc[s]
  BY <1>3, <1>4, RanksAre
<1>6. divs # <<>>
  BY <1>2, <1>4, RanksAre DEF PlaceInv
<1>7. Expected(0) = {<<s, 0, L + 1>> : s \in Ranks \ {0}}
  BY <1>4 DEF Expected
<1>8. DOMAIN mail' = DOMAIN mail \ Expected(0)
  BY <1>4 DEF Rest, Restrict
<1>9. \A s \in Ranks \ {0} : pc[s] = "done"
  <2> SUFFICES ASSUME NEW s \in Ranks \ {0} PROVE pc[s] = "done"
    OBVIOUS
  <2>1. <<s, 0, L + 1>> \in DOMAIN mail
    BY <1>4, <1>7 DEF Arrived
  <2>2. L + 1 \in 1 .. (L + 1)
    BY <1>3
  <2>3. InMail(s, 0, L + 1)
    BY <1>2, <2>1, <2>2, RanksAre DEF MailInv
  <2>4. ~SurfaceMail(s, 0, L + 1)
    BY <1>3 DEF SurfaceMail
  <2>5. ~VolumeMail(s, 0, L + 1)
    BY <1>4 DEF VolumeMail
  <2>6. QED
    BY <2>3, <2>4, <2>5 DEF InMail, CollectMail
<1>10. \A s \in Ranks : pc'[s] = "done"
  BY <1>5, <1>9
<1>11. \A s \in Ranks : pc[s] \in {"collect", "done"}
  BY <1>4, <1>9
<1>12. PlaceInv'
  BY <1>1, <1>2, <1>3, <1>4, <1>6, <1>10, <1>11 DEF PlaceInv, Labels
<1>13. OrderInv'
  <2>1. VolumeOrder'
    BY <1>1, <1>10 DEF VolumeOrder
  <2>2. \A s \in Ranks : \A n \in 1 .. L : Passed(s, n)' <=> Passed(s, n)
    BY <1>4, <1>10, <1>11 DEF Passed
  <2>3. SurfaceOrder'
    BY <1>1, <1>2, <1>4, <2>2 DEF SurfaceOrder
  <2>4. QED
    BY <1>10, <2>1, <2>3 DEF OrderInv
<1>14. ASSUME NEW s \in Ranks, NEW t \in Ranks, NEW n \in 1 .. (L + 1)
       PROVE  <<s, t, n>> \in DOMAIN mail' <=> InMail(s, t, n)'
  <2>1. <<s, t, n>> \in DOMAIN mail <=> InMail(s, t, n)
    BY <1>2 DEF MailInv
  <2>2. <<s, t, n>> \in Expected(0) <=> s # 0 /\ t = 0 /\ n = L + 1
    BY <1>7
  <2>3. ~SurfaceMail(s, t, n) /\ ~SurfaceMail(s, t, n)'
    <3>1. input.mode = "surface" => round[t] = L
      BY <1>2, <1>11 DEF PlaceInv
    <3>2. ~SurfaceMail(s, t, n)
      BY <1>3, <1>11, <3>1 DEF SurfaceMail, Passed
    <3>3. ~SurfaceMail(s, t, n)'
      BY <1>1, <1>3, <1>4, <1>10, <3>1 DEF SurfaceMail, Passed
    <3>4. QED
      BY <3>2, <3>3
  <2>4. ~VolumeMail(s, t, n) /\ ~VolumeMail(s, t, n)'
    BY <1>10, <1>11 DEF VolumeMail
  <2>5. ~CollectMail(s, t, n)'
    BY <1>5 DEF CollectMail
  <2>6. CollectMail(s, t, n) => s # 0 /\ t = 0 /\ n = L + 1
    BY DEF CollectMail
  <2>7. QED
    BY <1>8, <2>1, <2>2, <2>3, <2>4, <2>5, <2>6 DEF InMail
<1>15. MailInv'
  <2>1. DOMAIN mail' \subseteq Slots
    BY <1>2, <1>8 DEF MailInv
  <2>2. QED
    BY <1>1, <1>14, <2>1, MailStep
<1>16. QED
  BY <1>1, <1>12, <1>13, <1>15 DEF ExchangeInv

(* A rank is never ahead of a peer it needs something from, and the mail     *)
(* holds what has been sent and not taken in, neither more nor less.        *)
THEOREM ExchangeHolds == Spec => []ExchangeInv
<1>1. Init => ExchangeInv
  BY ExchangeInit
<1>2. ExchangeInv /\ [Next]_vars => ExchangeInv'
  <2> SUFFICES ASSUME ExchangeInv, [Next]_vars PROVE ExchangeInv'
    OBVIOUS
  <2>1. ASSUME UNCHANGED vars PROVE ExchangeInv'
    <3>1. UNCHANGED setup /\ UNCHANGED <<input, divs, rounds, pc, round, mail>>
      BY <2>1 DEF vars, setup
    <3>2. SetupInv'
      BY <3>1, SetupStep
    <3>3. PlaceInv'
      BY <3>1 DEF ExchangeInv, PlaceInv
    <3>4. OrderInv'
      BY <3>1 DEF ExchangeInv, OrderInv, SurfaceOrder, VolumeOrder, Passed
    <3>5. MailInv'
      BY <3>1 DEF ExchangeInv, MailInv, InMail, SurfaceMail, VolumeMail, CollectMail, Passed, Slots
    <3>6. QED
      BY <3>2, <3>3, <3>4, <3>5 DEF ExchangeInv
  <2>2. ASSUME NEW r \in Ranks,
               Start(r) \/ Reduce(r) \/ Redistribute(r) \/ BlendParts(r) \/ CollectSend(r)
        PROVE  ExchangeInv'
    BY <2>2, StartExchange, ReduceExchange, RedistributeExchange, BlendExchange, SendExchange
  <2>3. QED
    BY <2>1, <2>2, BarrierExchange, ReceiveExchange DEF Next, Progress
<1>3. QED
  BY <1>1, <1>2, PTL DEF Spec

(* The groups the ranks compute from their own block fit together: nobody   *)
(* waits for what nobody sends, nobody goes on without a peer's piece, and *)
(* no piece is left over.                                                  *)
THEOREM GroupsAgree == Spec => []PartnersAgree
<1>1. ExchangeInv => PartnersAgree
  <2> SUFFICES ASSUME ExchangeInv PROVE PartnersAgree
    OBVIOUS
  <2> DEFINE L == Len(rounds)
  <2>1. PlaceInv /\ OrderInv /\ MailInv
    BY DEF ExchangeInv
  <2>2. /\ input.mode \in {"surface", "volume"}
        /\ L \in Nat
        /\ (L = 0 /\ divs # <<>> => N = 1)
        /\ \A n \in 1 .. L : \A r \in Ranks : Peers(rounds[n], divs, r) \subseteq Ranks
        /\ pc \in [Ranks -> Labels] /\ round \in [Ranks -> 0 .. L]
    BY ExchangeFacts
  <2>3. ASSUME NEW r \in Ranks, NEW m \in Expected(r) PROVE Sent(m) = (m \in DOMAIN mail)
    <3>1. CASE pc[r] = "reduce" /\ round[r] > 0
      <4> DEFINE n == round[r]
      <4>1. Expected(r) = {<<s, r, n>> : s \in Peers(rounds[n], divs, r) \ {r}}
        BY <3>1 DEF Expected, Peers
      <4>2. PICK s \in Peers(rounds[n], divs, r) \ {r} : m = <<s, r, n>>
        BY <4>1
      <4>3. n \in 1 .. L /\ s \in Ranks /\ n \in 1 .. (L + 1)
        BY <2>2, <3>1
      <4>4. input.mode = "surface"
        BY <2>1, <2>2, <3>1 DEF PlaceInv
      <4>5. m \in DOMAIN mail <=> InMail(s, r, n)
        BY <2>1, <4>2, <4>3 DEF MailInv
      <4>6. InMail(s, r, n) <=> round[s] >= n
        BY <2>2, <3>1, <4>2, <4>3, <4>4
           DEF InMail, SurfaceMail, VolumeMail, CollectMail, Passed
      <4>7. Sent(m) <=> round[s] >= n
        BY <2>2, <4>2, <4>3, <4>4 DEF Sent
      <4>8. QED
        BY <4>5, <4>6, <4>7 DEF Sent
    <3>2. CASE pc[r] = "blend"
      <4>1. Expected(r) = {<<s, r, 1>> : s \in Ranks}
        BY <3>2 DEF Expected
      <4>2. PICK s \in Ranks : m = <<s, r, 1>>
        BY <4>1
      <4>3. input.mode = "volume" /\ divs # <<>>
        BY <2>1, <2>2, <3>2 DEF PlaceInv
      <4>4. s # 0 => L # 0
        BY <2>2, <4>3 DEF Ranks
      <4>5. m \in DOMAIN mail <=> InMail(s, r, 1)
        BY <2>1, <2>2, <4>2 DEF MailInv
      <4>6. pc[s] # "error"
        BY <2>1, <4>3 DEF PlaceInv
      <4>7. InMail(s, r, 1) <=> pc[s] \notin {"start", "redistribute"}
        BY <2>2, <3>2, <4>3, <4>4, <4>6 DEF InMail, SurfaceMail, VolumeMail, CollectMail
      <4>8. Sent(m) <=> pc[s] \notin {"start", "redistribute"}
        BY <2>2, <4>2, <4>3, <4>4 DEF Sent
      <4>9. QED
        BY <4>5, <4>7, <4>8 DEF Sent
    <3>3. CASE pc[r] = "collect" /\ r = 0
      <4>1. Expected(r) = {<<s, 0, L + 1>> : s \in Ranks \ {0}}
        BY <3>3 DEF Expected
      <4>2. PICK s \in Ranks \ {0} : m = <<s, 0, L + 1>>
        BY <4>1
      <4>3. m \in DOMAIN mail <=> InMail(s, 0, L + 1)
        BY <2>1, <2>2, <4>2, RanksAre DEF MailInv
      <4>4. InMail(s, 0, L + 1) <=> pc[s] = "done"
        BY <2>2, <3>3, <4>2 DEF InMail, SurfaceMail, VolumeMail, CollectMail
      <4>5. Sent(m) <=> pc[s] = "done"
        BY <4>2 DEF Sent
      <4>6. QED
        BY <4>3, <4>4, <4>5 DEF Sent
    <3>4. QED
      BY <3>1, <3>2, <3>3 DEF Expected
  <2>4. ASSUME Terminated PROVE DOMAIN mail = {}
    <3>1. \A s, t \in Ranks : \A n \in 1 .. (L + 1) : ~InMail(s, t, n)
      <4> SUFFICES ASSUME NEW s \in Ranks, NEW t \in Ranks, NEW n \in 1 .. (L + 1)
                   PROVE  ~InMail(s, t, n)
        OBVIOUS
      <4>1. pc[s] \in {"done", "error"} /\ pc[t] \in {"done", "error"}
            /\ pc[0] \in {"done", "error"}
        BY <2>4, RanksAre DEF Terminated
      <4>2. ~VolumeMail(s, t, n)
        BY <4>1 DEF VolumeMail
      <4>3. ~CollectMail(s, t, n)
        BY <2>1, <4>1, RanksAre DEF CollectMail, PlaceInv
      <4>4. ~SurfaceMail(s, t, n)
        <5>1. CASE divs = <<>>
          <6>1. L = 0
            BY <5>1 DEF ExchangeInv, SetupInv
          <6>2. QED
            BY <6>1 DEF SurfaceMail
        <5>2. CASE divs # <<>>
          <6>1. pc[t] = "done"
            BY <2>1, <4>1, <5>2 DEF PlaceInv
          <6>2. input.mode = "surface" => round[t] = L
            BY <2>1, <6>1 DEF PlaceInv
          <6>3. QED
            BY <2>2, <6>1, <6>2 DEF SurfaceMail, Passed
        <5>3. QED
          BY <5>1, <5>2
      <4>5. QED
        BY <4>2, <4>3, <4>4 DEF InMail
    <3>2. \A m \in Slots : m \notin DOMAIN mail
      <4> SUFFICES ASSUME NEW m \in Slots PROVE m \notin DOMAIN mail
        OBVIOUS
      <4>1. PICK s \in Ranks, t \in Ranks, n \in 1 .. (L + 1) : m = <<s, t, n>>
        BY DEF Slots
      <4>2. QED
        BY <2>1, <3>1, <4>1 DEF MailInv
    <3>3. QED
      BY <2>1, <3>2 DEF MailInv
  <2>5. QED
    BY <2>3, <2>4 DEF PartnersAgree
<1>2. QED
  BY <1>1, ExchangeHolds, PTL

-----------------------------------------------------------------------------
(* Rectangles of pixels, and the images on them.                           *)

Rect == {b \in [min : [Dims -> Int], max : [Dims -> Int]] :
           \A d \in Dims : b.min[d] <= b.max[d]}

(* Rectangle c lies in b. *)
Within(c, b) == \A d \in Dims : b.min[d] <= c.min[d] /\ c.max[d] <= b.max[d]

Points == Int \X Int

LEMMA RectFacts ==
  ASSUME NEW b \in Rect
  PROVE  /\ \A d \in Dims : /\ b.min[d] \in Int /\ b.max[d] \in Int /\ b.min[d] <= b.max[d]
                            /\ Extent(b, d) \in Nat \ {0}
                            /\ b.max[d] = b.min[d] + Extent(b, d) - 1
         /\ 1 \in Dims /\ 2 \in Dims
         /\ Area(b) \in Nat \ {0}
<1>1. \A d \in Dims : b.min[d] \in Int /\ b.max[d] \in Int /\ b.min[d] <= b.max[d]
  BY DEF Rect
<1>2. \A d \in Dims : Extent(b, d) \in Nat \ {0} /\ b.max[d] = b.min[d] + Extent(b, d) - 1
  BY <1>1 DEF Extent
<1>3. 1 \in Dims /\ 2 \in Dims
  BY DEF Dims
<1>4. Area(b) \in Nat \ {0}
  <2>1. Extent(b, 1) \in Nat \ {0} /\ Extent(b, 2) \in Nat \ {0}
    BY <1>2, <1>3
  <2>2. QED
    BY <2>1 DEF Area
<1>5. QED
  BY <1>1, <1>2, <1>3, <1>4

(* The pixels of a rectangle and their places in an image correspond.      *)
LEMMA PointAt ==
  ASSUME NEW b \in Rect, NEW i \in 1 .. Area(b)
  PROVE  /\ At(b, i) \in Points /\ Inside(b, At(b, i))
         /\ Index(b, At(b, i)) = i
<1> DEFINE w == Extent(b, 1)
           h == Extent(b, 2)
           x == (i - 1) % w
           y == (i - 1) \div w
           mx == b.min[1]
           my == b.min[2]
<1>1. /\ w \in Nat \ {0} /\ h \in Nat \ {0} /\ mx \in Int /\ my \in Int
      /\ b.max[1] = mx + w - 1 /\ b.max[2] = my + h - 1
      /\ Area(b) \in Nat
  BY RectFacts
<1>2. Area(b) = w * h
  BY DEF Area
<1>3. i \in Int /\ i >= 1 /\ i <= w * h
  BY <1>1, <1>2
<1> HIDE DEF w, h
<1> DEFINE k == i - 1
<1>4. k \in Nat /\ k < w * h
  BY <1>3, <1>1
<1>5. k \div w \in Int /\ k % w \in 0 .. (w - 1) /\ k = w * (k \div w) + (k % w)
  <2>1. k \in Int /\ w \in Nat \ {0}
    BY <1>1, <1>4
  <2> HIDE DEF k
  <2>2. QED
    BY <2>1, DivMod
<1>6. y \in Int /\ x \in 0 .. (w - 1) /\ k = w * y + x
  BY <1>5
<1> HIDE DEF x, y, k, mx, my
<1>7. 0 <= y /\ y < h
  <2>1. ~(y < 0)
    <3> SUFFICES ASSUME y < 0 PROVE FALSE
      OBVIOUS
    <3>1. w * y + w <= w * 0 /\ w * y \in Int /\ w * 0 = 0
      BY <1>1, <1>6, LessTimes
    <3>2. QED
      BY <1>1, <1>4, <1>6, <3>1
  <2>2. ~(h < y) /\ h # y
    <3>1. w * y \in Int /\ w * h \in Int
      BY <1>1, <1>6
    <3>2. h < y => w * h + w <= w * y
      BY <1>1, <1>6, LessTimes
    <3>3. QED
      BY <1>1, <1>4, <1>6, <3>1, <3>2
  <2>3. QED
    BY <1>1, <1>6, <2>1, <2>2
<1>8. At(b, i) = <<mx + x, my + y>>
  BY DEF At, x, y, mx, my, w
<1>9. At(b, i) \in Points
  BY <1>1, <1>6, <1>8 DEF Points
<1>10. Inside(b, At(b, i))
  <2>1. At(b, i)[1] = mx + x /\ At(b, i)[2] = my + y
    BY <1>8
  <2>2. mx + x \in mx .. (mx + w - 1) /\ my + y \in my .. (my + h - 1)
    BY <1>1, <1>6, <1>7
  <2>3. QED
    BY <1>1, <2>1, <2>2 DEF Inside, Dims, mx, my
<1>11. Index(b, At(b, i)) = i
  <2>1. Index(b, At(b, i)) = ((my + y) - my) * w + (mx + x) - mx + 1
    BY <1>8 DEF Index, mx, my, w
  <2>2. (my + y) - my = y
    BY <1>1, <1>6
  <2>3. y * w = w * y /\ w * y \in Int
    BY <1>1, <1>6
  <2>4. w * y + (mx + x) - mx + 1 = k + 1
    BY <1>1, <1>6, <2>3
  <2>5. k + 1 = i
    BY <1>3 DEF k
  <2>6. QED
    BY <2>1, <2>2, <2>3, <2>4, <2>5
<1>12. QED
  BY <1>9, <1>10, <1>11

LEMMA PlaceOf ==
  ASSUME NEW b \in Rect, NEW p \in Points, Inside(b, p)
  PROVE  Index(b, p) \in 1 .. Area(b) /\ At(b, Index(b, p)) = p
<1> DEFINE w == Extent(b, 1)
           h == Extent(b, 2)
           mx == b.min[1]
           my == b.min[2]
           x == p[1] - mx
           y == p[2] - my
           i == Index(b, p)
<1>1. /\ w \in Nat \ {0} /\ h \in Nat \ {0} /\ mx \in Int /\ my \in Int
      /\ b.max[1] = mx + w - 1 /\ b.max[2] = my + h - 1
  BY RectFacts
<1>2. p[1] \in Int /\ p[2] \in Int /\ p = <<p[1], p[2]>>
  BY DEF Points
<1>3. p[1] \in mx .. b.max[1] /\ p[2] \in my .. b.max[2]
  BY DEF Inside, Dims
<1> HIDE DEF w, h, mx, my
<1>4. x \in 0 .. (w - 1) /\ y \in 0 .. (h - 1)
  BY <1>1, <1>2, <1>3
<1>5. i = w * y + x + 1
  <2>1. i = y * w + p[1] - mx + 1
    BY DEF Index, w, mx, my
  <2>2. y * w = w * y /\ w * y \in Int
    BY <1>1, <1>4
  <2>3. w * y + p[1] - mx + 1 = w * y + x + 1
    BY <1>1, <1>2, <2>2
  <2>4. QED
    BY <2>1, <2>2, <2>3
<1>6. Area(b) = w * h
  BY DEF Area, w, h
<1>7. p[1] = mx + x /\ p[2] = my + y
  BY <1>1, <1>2
<1> HIDE DEF x, y, i
<1>8. w * y + w <= w * h /\ w * y \in Nat /\ w * h \in Nat
  BY <1>1, <1>4, LessTimes
<1>9. i \in 1 .. Area(b)
  BY <1>1, <1>4, <1>5, <1>6, <1>8
<1>10. i - 1 = w * y + x
  BY <1>1, <1>4, <1>5, <1>8
<1>11. (i - 1) \div w = y /\ (i - 1) % w = x
  <2>1. w \in Nat \ {0} /\ y \in Int /\ x \in 0 .. (w - 1)
    BY <1>1, <1>4
  <2>2. (w * y + x) \div w = y /\ (w * y + x) % w = x
    BY <2>1, DivModIs
  <2>3. QED
    BY <1>10, <2>2
<1>12. At(b, i) = <<mx + x, my + y>>
  BY <1>11 DEF At, mx, my, w
<1>13. QED
  BY <1>2, <1>7, <1>9, <1>12 DEF i

(* Images of pixels out of P on rectangle b. *)
ImageSet(b, P) == [bounds : {b}, order : Int, pixels : [1 .. Area(b) -> P]]

(* The pixel of an image at a point. *)
PixelAt(img, p) == img.pixels[Index(img.bounds, p)]

LEMMA PixelAtType ==
  ASSUME NEW P, NEW b \in Rect, NEW img \in ImageSet(b, P), NEW p \in Points, Inside(b, p)
  PROVE  PixelAt(img, p) \in P
<1>1. img.bounds = b /\ img.pixels \in [1 .. Area(b) -> P]
  BY DEF ImageSet
<1>2. Index(b, p) \in 1 .. Area(b)
  BY PlaceOf
<1>3. QED
  BY <1>1, <1>2 DEF PixelAt

LEMMA WithinInside ==
  ASSUME NEW b \in Rect, NEW c \in Rect, Within(c, b), NEW p \in Points, Inside(c, p)
  PROVE  Inside(b, p)
<1>1. \A d \in Dims : p[d] \in c.min[d] .. c.max[d] /\ b.min[d] <= c.min[d] /\ c.max[d] <= b.max[d]
  BY DEF Inside, Within
<1>2. \A d \in Dims : /\ c.min[d] \in Int /\ c.max[d] \in Int
                      /\ b.min[d] \in Int /\ b.max[d] \in Int
  BY RectFacts
<1>3. QED
  BY <1>1, <1>2 DEF Inside

(* A part of an image shows what the image shows there. *)
LEMMA SubsetFromKeeps ==
  ASSUME NEW P, NEW b \in Rect, NEW c \in Rect, Within(c, b), NEW img \in ImageSet(b, P)
  PROVE  /\ SubsetFrom(img, c) \in ImageSet(c, P)
         /\ SubsetFrom(img, c).order = img.order
         /\ \A p \in Points : Inside(c, p) => PixelAt(SubsetFrom(img, c), p) = PixelAt(img, p)
<1> DEFINE sub == SubsetFrom(img, c)
<1>1. img.bounds = b /\ img.pixels \in [1 .. Area(b) -> P] /\ img.order \in Int
  BY DEF ImageSet
<1>2. /\ sub = [bounds |-> c, order |-> img.order,
                pixels |-> [i \in 1 .. Area(c) |-> img.pixels[Index(b, At(c, i))]]]
  BY <1>1 DEF SubsetFrom
<1>3. \A i \in 1 .. Area(c) : img.pixels[Index(b, At(c, i))] \in P
  <2> SUFFICES ASSUME NEW i \in 1 .. Area(c) PROVE img.pixels[Index(b, At(c, i))] \in P
    OBVIOUS
  <2>1. At(c, i) \in Points /\ Inside(b, At(c, i))
    BY PointAt, WithinInside
  <2>2. Index(b, At(c, i)) \in 1 .. Area(b)
    BY <2>1, PlaceOf
  <2>3. QED
    BY <1>1, <2>2
<1> DEFINE px == [i \in 1 .. Area(c) |-> img.pixels[Index(b, At(c, i))]]
<1>4. px \in [1 .. Area(c) -> P]
  BY <1>3
<1>5. \A i \in 1 .. Area(c) : px[i] = img.pixels[Index(b, At(c, i))]
  OBVIOUS
<1> HIDE DEF px
<1>6. sub = [bounds |-> c, order |-> img.order, pixels |-> px]
  BY <1>2 DEF px
<1> HIDE DEF sub
<1>7. sub.bounds = c /\ sub.order = img.order /\ sub.pixels = px
  BY <1>6
<1>8. sub \in ImageSet(c, P)
  BY <1>1, <1>4, <1>6 DEF ImageSet
<1>9. ASSUME NEW p \in Points, Inside(c, p) PROVE PixelAt(sub, p) = PixelAt(img, p)
  <2>1. Index(c, p) \in 1 .. Area(c) /\ At(c, Index(c, p)) = p
    BY <1>9, PlaceOf
  <2>2. px[Index(c, p)] = img.pixels[Index(b, p)]
    BY <1>5, <2>1
  <2>3. QED
    BY <1>1, <1>7, <2>2 DEF PixelAt
<1>10. QED
  BY <1>7, <1>8, <1>9 DEF sub

(* Writing an image into another changes this one where they meet.         *)
LEMMA SubsetToWrites ==
  ASSUME NEW P, NEW b \in Rect, NEW c \in Rect,
         NEW img \in ImageSet(c, P), NEW onto \in ImageSet(b, P)
  PROVE  /\ SubsetTo(img, onto) \in ImageSet(b, P)
         /\ \A p \in Points : Inside(b, p) =>
              PixelAt(SubsetTo(img, onto), p) =
                IF Inside(c, p) THEN PixelAt(img, p) ELSE PixelAt(onto, p)
<1> DEFINE pixel(p, old) == IF Inside(c, p) THEN img.pixels[Index(c, p)] ELSE old
           px == [k \in 1 .. Area(b) |-> pixel(At(b, k), onto.pixels[k])]
           res == SubsetTo(img, onto)
<1>1. /\ img.bounds = c /\ img.pixels \in [1 .. Area(c) -> P] /\ img.order \in Int
      /\ onto.bounds = b /\ onto.pixels \in [1 .. Area(b) -> P]
      /\ onto = [bounds |-> b, order |-> onto.order, pixels |-> onto.pixels]
  BY DEF ImageSet
<1>2. res = [bounds |-> b, order |-> img.order, pixels |-> px]
  <2> DEFINE old == [k \in DOMAIN onto.pixels |->
                       IF Inside(img.bounds, At(onto.bounds, k))
                       THEN img.pixels[Index(img.bounds, At(onto.bounds, k))]
                       ELSE onto.pixels[k]]
  <2>1. res = [onto EXCEPT !.order = img.order, !.pixels = old]
    BY DEF SubsetTo
  <2>2. DOMAIN onto.pixels = 1 .. Area(b)
    BY <1>1
  <2>3. old = px
    BY <1>1, <2>2
  <2> HIDE DEF old, px, res
  <2>4. QED
    BY <1>1, <2>1, <2>3
<1>3. \A k \in 1 .. Area(b) : px[k] = pixel(At(b, k), onto.pixels[k])
  OBVIOUS
<1>4. \A k \in 1 .. Area(b) : pixel(At(b, k), onto.pixels[k]) \in P
  <2> SUFFICES ASSUME NEW k \in 1 .. Area(b)
               PROVE  pixel(At(b, k), onto.pixels[k]) \in P
    OBVIOUS
  <2>1. CASE Inside(c, At(b, k))
    <3>1. Index(c, At(b, k)) \in 1 .. Area(c)
      BY <2>1, PointAt, PlaceOf
    <3>2. QED
      BY <1>1, <2>1, <3>1
  <2>2. CASE ~Inside(c, At(b, k))
    BY <1>1, <2>2
  <2>3. QED
    BY <2>1, <2>2
<1>5. px \in [1 .. Area(b) -> P]
  <2> HIDE DEF pixel
  <2>1. QED
    BY <1>4
<1> HIDE DEF px, res
<1>6. res \in ImageSet(b, P) /\ res.bounds = b /\ res.pixels = px
  BY <1>1, <1>2, <1>5 DEF ImageSet
<1>7. ASSUME NEW p \in Points, Inside(b, p)
      PROVE  PixelAt(res, p) = IF Inside(c, p) THEN PixelAt(img, p) ELSE PixelAt(onto, p)
  <2>1. Index(b, p) \in 1 .. Area(b) /\ At(b, Index(b, p)) = p
    BY <1>7, PlaceOf
  <2>2. px[Index(b, p)] = pixel(p, onto.pixels[Index(b, p)])
    BY <1>3, <2>1
  <2>3. QED
    BY <1>1, <1>6, <2>2 DEF PixelAt
<1>8. QED
  BY <1>6, <1>7 DEF res

LEMMA MinTwo ==
  ASSUME NEW a \in Int, NEW c \in Int
  PROVE  Min({a, c}) = IF a <= c THEN a ELSE c
<1>1. CASE a <= c
  <2>1. a \in {a, c} /\ {a, c} \subseteq Int /\ \A y \in {a, c} : a <= y
    BY <1>1
  <2>2. Min({a, c}) = a
    BY <2>1, MinIs
  <2>3. QED
    BY <1>1, <2>2
<1>2. CASE ~(a <= c)
  <2>1. c \in {a, c} /\ {a, c} \subseteq Int /\ \A y \in {a, c} : c <= y
    BY <1>2
  <2>2. Min({a, c}) = c
    BY <2>1, MinIs
  <2>3. QED
    BY <1>2, <2>2
<1>3. QED
  BY <1>1, <1>2

(* start, of Parts: where the parts of lo .. hi meet. *)
Cut(lo, hi, n, i) == lo + ((hi - lo) \div n) * i + Min({i, (hi - lo) % n})

LEMMA CutsGrow ==
  ASSUME NEW lo \in Int, NEW hi \in Int, lo <= hi, NEW n \in Nat \ {0}
  PROVE  /\ \A i \in 0 .. n : Cut(lo, hi, n, i) \in Int
         /\ Cut(lo, hi, n, 0) = lo /\ Cut(lo, hi, n, n) = hi
         /\ \A i, j \in 0 .. n : i <= j => Cut(lo, hi, n, i) <= Cut(lo, hi, n, j)
<1> DEFINE len == hi - lo
           q == len \div n
           m == len % n
           C(i) == Cut(lo, hi, n, i)
<1>1. len \in Nat
  OBVIOUS
<1>2. q \in Int /\ m \in 0 .. (n - 1) /\ len = n * q + m
  <2> HIDE DEF len
  <2>1. len \in Int
    BY <1>1
  <2>2. QED
    BY <2>1, DivMod
<1>3. \A i \in 0 .. n : C(i) = lo + q * i + (IF i <= m THEN i ELSE m)
  <2> SUFFICES ASSUME NEW i \in 0 .. n
               PROVE  C(i) = lo + q * i + (IF i <= m THEN i ELSE m)
    OBVIOUS
  <2>1. C(i) = lo + q * i + Min({i, m})
    BY DEF Cut
  <2> HIDE DEF m, q, len
  <2>2. Min({i, m}) = IF i <= m THEN i ELSE m
    BY <1>2, MinTwo
  <2>3. QED
    BY <2>1, <2>2
<1>4. len = hi - lo
  OBVIOUS
<1> HIDE DEF q, m, len, C
<1>5. q >= 0
  <2> SUFFICES ASSUME q < 0 PROVE FALSE
    BY <1>2
  <2>1. n * q + n <= n * 0 /\ n * 0 = 0 /\ n * q \in Int
    BY <1>2, LessTimes
  <2>2. QED
    BY <1>1, <1>2, <2>1
<1>6. \A i \in 0 .. n : q * i \in Int /\ C(i) \in Int
  <2>1. \A i \in 0 .. n : q * i \in Int
    BY <1>2
  <2>2. QED
    BY <1>2, <1>3, <2>1
<1>7. C(0) = lo
  <2>1. q * 0 = 0 /\ 0 \in 0 .. n
    BY <1>2
  <2>2. QED
    BY <1>2, <1>3, <2>1
<1>8. C(n) = hi
  <2>1. n \in 0 .. n /\ ~(n <= m)
    BY <1>2
  <2>2. C(n) = lo + q * n + m
    BY <1>3, <2>1
  <2>3. q * n = n * q /\ n * q \in Int
    BY <1>2
  <2>4. QED
    BY <1>2, <1>4, <2>2, <2>3
<1>9. ASSUME NEW i \in 0 .. n, NEW j \in 0 .. n, i <= j PROVE C(i) <= C(j)
  <2>1. q * i <= q * j
    <3> DEFINE e == j - i
    <3>1. e \in Nat /\ j = i + e /\ i \in Int
      BY <1>9
    <3> HIDE DEF e
    <3>2. q \in Nat
      BY <1>2, <1>5
    <3>3. q * e \in Nat /\ q * i \in Int /\ q * (i + e) = q * i + q * e
      BY <3>1, <3>2
    <3>4. QED
      BY <3>1, <3>3
  <2>2. (IF i <= m THEN i ELSE m) <= (IF j <= m THEN j ELSE m)
    BY <1>2, <1>9
  <2>3. C(i) = lo + q * i + (IF i <= m THEN i ELSE m) /\ C(j) = lo + q * j + (IF j <= m THEN j ELSE m)
    BY <1>3
  <2>4. (IF i <= m THEN i ELSE m) \in Int /\ (IF j <= m THEN j ELSE m) \in Int
    BY <1>2
  <2>5. q * i \in Int /\ q * j \in Int
    BY <1>6
  <2> DEFINE f(x) == IF x <= m THEN x ELSE m
             qi == q * i
             qj == q * j
  <2>6. /\ C(i) = lo + qi + f(i) /\ C(j) = lo + qj + f(j)
        /\ f(i) \in Int /\ f(j) \in Int /\ f(i) <= f(j)
        /\ qi \in Int /\ qj \in Int /\ qi <= qj
    BY <2>1, <2>2, <2>3, <2>4, <2>5
  <2> HIDE DEF f, qi, qj
  <2>7. QED
    BY <2>6
<1>10. QED
  BY <1>6, <1>7, <1>8, <1>9 DEF C

(* The parts of a rectangle are rectangles within it, and leave nothing out. *)
LEMMA PartsGood ==
  ASSUME NEW b \in Rect, NEW dim \in Dims, NEW n \in Nat \ {0}
  PROVE  /\ \A i \in 1 .. n : Parts(b, dim, n)[i] \in Rect /\ Within(Parts(b, dim, n)[i], b)
         /\ \A p \in Points : Inside(b, p) => \E i \in 1 .. n : Inside(Parts(b, dim, n)[i], p)
<1> DEFINE lo == b.min[dim]
           hi == b.max[dim]
           C(i) == Cut(lo, hi, n, i)
           part(i) == Parts(b, dim, n)[i]
<1>1. /\ \A d \in Dims : b.min[d] \in Int /\ b.max[d] \in Int /\ b.min[d] <= b.max[d]
      /\ b.min \in [Dims -> Int] /\ b.max \in [Dims -> Int]
  BY DEF Rect
<1>2. \A i \in 1 .. n : part(i) = [min |-> [b.min EXCEPT ![dim] = C(i - 1)],
                                   max |-> [b.max EXCEPT ![dim] = C(i)]]
  BY DEF Parts, Cut
<1>3. lo \in Int /\ hi \in Int /\ lo <= hi
  BY <1>1
<1> HIDE DEF lo, hi, part
<1>4. /\ \A i \in 0 .. n : C(i) \in Int
      /\ C(0) = lo /\ C(n) = hi
      /\ \A i, j \in 0 .. n : i <= j => C(i) <= C(j)
  BY <1>3, CutsGrow
<1> HIDE DEF C
<1>5. ASSUME NEW i \in 1 .. n PROVE part(i) \in Rect /\ Within(part(i), b)
  <2>1. i - 1 \in 0 .. n /\ i \in 0 .. n /\ i - 1 <= i /\ 0 \in 0 .. n /\ n \in 0 .. n
        /\ 0 <= i - 1 /\ i <= n
    OBVIOUS
  <2>2. C(i - 1) \in Int /\ C(i) \in Int /\ C(i - 1) <= C(i) /\ lo <= C(i - 1) /\ C(i) <= hi
    BY <1>4, <2>1
  <2>3. part(i).min = [b.min EXCEPT ![dim] = C(i - 1)] /\ part(i).max = [b.max EXCEPT ![dim] = C(i)]
    BY <1>2
  <2>4. part(i).min \in [Dims -> Int] /\ part(i).max \in [Dims -> Int]
    BY <1>1, <2>2, <2>3
  <2>5. \A d \in Dims : /\ part(i).min[d] = IF d = dim THEN C(i - 1) ELSE b.min[d]
                        /\ part(i).max[d] = IF d = dim THEN C(i) ELSE b.max[d]
    BY <1>1, <2>3
  <2>6. \A d \in Dims : part(i).min[d] <= part(i).max[d]
    BY <1>1, <2>2, <2>5
  <2>7. part(i) \in [min : [Dims -> Int], max : [Dims -> Int]]
    BY <1>2, <2>3, <2>4
  <2>8. Within(part(i), b)
    BY <1>1, <2>2, <2>5 DEF Within, lo, hi
  <2>9. QED
    BY <2>6, <2>7, <2>8 DEF Rect
<1>6. ASSUME NEW p \in Points, Inside(b, p) PROVE \E i \in 1 .. n : Inside(part(i), p)
  <2> DEFINE x == p[dim]
             S == {i \in 1 .. n : x <= C(i)}
             j == CHOOSE j \in S : \A y \in S : j <= y
  <2>1. \A d \in Dims : p[d] \in b.min[d] .. b.max[d]
    BY <1>6 DEF Inside
  <2>2. x \in Int /\ lo <= x /\ x <= hi
    BY <1>1, <2>1 DEF lo, hi
  <2> HIDE DEF x
  <2>3. n \in S
    BY <1>4, <2>2
  <2>4. \E k \in S : \A y \in S : k <= y
    <3>1. S \subseteq Nat /\ S # {}
      BY <2>3
    <3> HIDE DEF S
    <3>2. QED
      BY <3>1, LeastNat
  <2>5. j \in S /\ \A y \in S : j <= y
    BY <2>4
  <2> HIDE DEF j
  <2>6. j \in 1 .. n /\ x <= C(j)
    BY <2>5
  <2>7. C(j - 1) <= x
    <3>1. CASE j = 1
      BY <1>4, <2>2, <3>1
    <3>2. CASE j # 1
      <4>1. j - 1 \in 1 .. n /\ ~(j <= j - 1)
        BY <2>6, <3>2
      <4>2. j - 1 \notin S
        BY <2>5, <4>1
      <4>3. ~(x <= C(j - 1)) /\ C(j - 1) \in Int
        BY <1>4, <4>1, <4>2
      <4>4. QED
        BY <2>2, <4>3
    <3>3. QED
      BY <3>1, <3>2
  <2>8. Inside(part(j), p)
    <3>1. part(j).min = [b.min EXCEPT ![dim] = C(j - 1)] /\ part(j).max = [b.max EXCEPT ![dim] = C(j)]
      BY <1>2, <2>6
    <3>2. \A d \in Dims : /\ part(j).min[d] = IF d = dim THEN C(j - 1) ELSE b.min[d]
                          /\ part(j).max[d] = IF d = dim THEN C(j) ELSE b.max[d]
      BY <1>1, <3>1
    <3>3. C(j) \in Int /\ C(j - 1) \in Int
      BY <1>4, <2>6
    <3>4. x \in C(j - 1) .. C(j)
      BY <2>2, <2>6, <2>7, <3>3
    <3>5. QED
      BY <2>1, <3>2, <3>4 DEF Inside, x
  <2>9. QED
    BY <2>6, <2>8
<1>7. QED
  BY <1>5, <1>6 DEF part

(* The block of a rank. *)
LEMMA BlockGood ==
  ASSUME NEW b \in Rect, NEW dv, NEW n \in Nat, Divides(dv, b, n)
  PROVE  /\ \A r \in Blocks(dv) : BlockBounds(b, dv, r) \in Rect /\ Within(BlockBounds(b, dv, r), b)
         /\ \A p \in Points : Inside(b, p) =>
              \E r \in Blocks(dv) : Inside(BlockBounds(b, dv, r), p)
<1> DEFINE end1(c) == [d \in Dims |-> From(c[d], dv[d], b.min[d], b.max[d])]
           end2(c) == [d \in Dims |-> To(c[d], dv[d], b.min[d], b.max[d])]
           block(r) == BlockBounds(b, dv, r)
<1>1. /\ dv \in Left
      /\ \A d \in Dims : dv[d] \in Nat \ {0} /\ dv[d] <= Extent(b, d)
  BY DEF Divides, Left
<1>2. \A d \in Dims : b.min[d] \in Int /\ b.max[d] \in Int
                      /\ dv[d] <= b.max[d] - b.min[d] + 1
  BY <1>1, RectFacts DEF Extent
<1>3. \A r \in Blocks(dv) : block(r) = [min |-> end1(Coords(r, dv)), max |-> end2(Coords(r, dv))]
  BY DEF BlockBounds
<1>4. ASSUME NEW lo \in Int, NEW hi \in Int, NEW k \in Nat \ {0}, k <= hi - lo + 1,
             NEW i \in 0 .. (k - 1)
      PROVE  /\ From(i, k, lo, hi) \in Int /\ To(i, k, lo, hi) \in Int
             /\ lo <= From(i, k, lo, hi) /\ From(i, k, lo, hi) <= To(i, k, lo, hi)
             /\ To(i, k, lo, hi) <= hi
  <2> DEFINE e == hi - lo + 1
             w == e \div k
  <2>1. e \in Int /\ k <= e
    BY <1>4
  <2>2. w \in Int /\ k * w <= e /\ w >= 1
    <3> HIDE DEF e
    <3>1. w \in Int /\ k * w <= e
      BY <2>1, DivMod, DivTimesInt
    <3>2. e % k \in 0 .. (k - 1) /\ e = k * w + (e % k)
      BY <2>1, DivMod
    <3> HIDE DEF w
    <3>3. ~(w <= 0)
      <4> SUFFICES ASSUME w <= 0 PROVE FALSE
        OBVIOUS
      <4>1. k * w <= 0 /\ k * w \in Int
        BY <3>1
      <4>2. QED
        BY <2>1, <3>2, <4>1
    <3>4. QED
      BY <3>1, <3>3
  <2>3. From(i, k, lo, hi) = lo + w * i /\ From(i + 1, k, lo, hi) = lo + w * (i + 1)
    BY DEF From
  <2>4. To(i, k, lo, hi) = IF i = k - 1 THEN hi ELSE lo + w * (i + 1) - 1
    BY <2>3 DEF To
  <2>5. e = hi - lo + 1
    OBVIOUS
  <2> HIDE DEF w, e
  <2>6. w * (i + 1) = w * i + w /\ w * i \in Nat
    BY <2>2
  <2>7. w * i + w <= k * w /\ k * w \in Int
    <3>1. w * i + w <= w * k
      BY <2>2, LessTimes
    <3>2. QED
      BY <2>2, <3>1
  <2>8. QED
    BY <2>1, <2>2, <2>3, <2>4, <2>5, <2>6, <2>7
<1>5. ASSUME NEW r \in Blocks(dv) PROVE block(r) \in Rect /\ Within(block(r), b)
  <2> DEFINE c == Coords(r, dv)
  <2>1. \A d \in Dims : c[d] \in 0 .. (dv[d] - 1)
    <3>1. c \in Places(dv)
      BY <1>1, CoordsOf
    <3>2. QED
      BY <1>1, <3>1 DEF Places
  <2> HIDE DEF c
  <2>2. \A d \in Dims :
          LET f == From(c[d], dv[d], b.min[d], b.max[d])
              t == To(c[d], dv[d], b.min[d], b.max[d])
          IN  f \in Int /\ t \in Int /\ b.min[d] <= f /\ f <= t /\ t <= b.max[d]
    BY <1>1, <1>2, <1>4, <2>1
  <2>3. block(r).min = end1(c) /\ block(r).max = end2(c)
        /\ block(r) = [min |-> end1(c), max |-> end2(c)]
    BY <1>3 DEF c
  <2>4. end1(c) \in [Dims -> Int] /\ end2(c) \in [Dims -> Int]
    BY <2>2
  <2>5. \A d \in Dims : /\ end1(c)[d] = From(c[d], dv[d], b.min[d], b.max[d])
                        /\ end2(c)[d] = To(c[d], dv[d], b.min[d], b.max[d])
    OBVIOUS
  <2> HIDE DEF end1, end2, block
  <2>6. block(r) \in Rect
    BY <2>2, <2>3, <2>4, <2>5 DEF Rect
  <2>7. Within(block(r), b)
    BY <2>2, <2>3, <2>5 DEF Within
  <2>8. QED
    BY <2>6, <2>7
<1>6. ASSUME NEW p \in Points, Inside(b, p)
      PROVE  \E r \in Blocks(dv) : Inside(block(r), p)
  <2>1. \A d \in Dims : p[d] \in b.min[d] .. b.max[d]
    BY <1>6 DEF Inside
  <2>2. \A d \in Dims : \E i \in 0 .. (dv[d] - 1) :
          p[d] \in From(i, dv[d], b.min[d], b.max[d]) .. To(i, dv[d], b.min[d], b.max[d])
    <3> SUFFICES ASSUME NEW d \in Dims
                 PROVE  \E i \in 0 .. (dv[d] - 1) :
                          p[d] \in From(i, dv[d], b.min[d], b.max[d]) .. To(i, dv[d], b.min[d], b.max[d])
      OBVIOUS
    <3> DEFINE k == dv[d]
               lo == b.min[d]
               hi == b.max[d]
    <3>1. k \in Nat \ {0} /\ lo \in Int /\ hi \in Int /\ k <= hi - lo + 1 /\ p[d] \in lo .. hi
      BY <1>1, <1>2, <2>1
    <3> HIDE DEF k, lo, hi
    <3>2. \A x \in lo .. hi : \E i \in 0 .. k - 1 : x \in From(i, k, lo, hi) .. To(i, k, lo, hi)
      BY <3>1, BlocksShareOut
    <3>3. \E i \in 0 .. k - 1 : p[d] \in From(i, k, lo, hi) .. To(i, k, lo, hi)
      BY <3>1, <3>2
    <3>4. QED
      BY <3>3 DEF k, lo, hi
  <2> DEFINE c == [d \in Dims |-> CHOOSE i \in 0 .. (dv[d] - 1) :
                     p[d] \in From(i, dv[d], b.min[d], b.max[d]) .. To(i, dv[d], b.min[d], b.max[d])]
  <2>3. \A d \in Dims : /\ c[d] \in 0 .. (dv[d] - 1)
                        /\ p[d] \in From(c[d], dv[d], b.min[d], b.max[d])
                                      .. To(c[d], dv[d], b.min[d], b.max[d])
    BY <2>2
  <2>4. c \in [Dims -> Nat]
    BY <2>3
  <2> HIDE DEF c
  <2>5. c \in Places(dv)
    BY <1>1, <2>3, <2>4 DEF Places
  <2> DEFINE r == Gid(c, dv)
  <2>6. r \in Blocks(dv) /\ Coords(r, dv) = c
    BY <1>1, <2>5, GidOf
  <2> HIDE DEF r
  <2>7. block(r).min = end1(c) /\ block(r).max = end2(c)
    BY <1>3, <2>6
  <2>8. \A d \in Dims : /\ end1(c)[d] = From(c[d], dv[d], b.min[d], b.max[d])
                        /\ end2(c)[d] = To(c[d], dv[d], b.min[d], b.max[d])
    OBVIOUS
  <2> HIDE DEF end1, end2, block
  <2>9. Inside(block(r), p)
    BY <2>3, <2>7, <2>8 DEF Inside
  <2>10. QED
    BY <2>6, <2>9
<1>7. QED
  BY <1>5, <1>6

-----------------------------------------------------------------------------
(* What a rank holds after some rounds: which piece of the image, and from  *)
(* which ranks.                                                            *)

(* B[n][r]: the piece of w that rank r has after n rounds. *)
PiecesAre(B, rs, dv, w) ==
  /\ B \in [Nat -> [Ranks -> Rect]]
  /\ B[0] = [r \in Ranks |-> w]
  /\ \A n \in 1 .. Len(rs) : \A r \in Ranks :
       B[n][r] = Parts(B[n - 1][r], rs[n].dim, rs[n].size)[Pos(rs[n], dv, r) + 1]

(* A[n][r]: the ranks whose pixels rank r has composited in n rounds. *)
SharesAre(A, rs, dv) ==
  /\ A \in [Nat -> [Ranks -> SUBSET Ranks]]
  /\ A[0] = [r \in Ranks |-> {r}]
  /\ \A n \in 1 .. Len(rs) : \A r \in Ranks :
       A[n][r] = UNION {A[n - 1][s] : s \in Peers(rs[n], dv, r)}

Pieces(rs, dv, w) == CHOOSE B : PiecesAre(B, rs, dv, w)
Shares(rs, dv) == CHOOSE A : SharesAre(A, rs, dv)

LEMMA PosIs ==
  ASSUME NEW rs, NEW dv, GoodGrid(rs, dv), NEW n \in 1 .. Len(rs), NEW r \in Ranks
  PROVE  Pos(rs[n], dv, r) + 1 \in 1 .. rs[n].size
<1> DEFINE rd == rs[n]
<1>1. dv \in Left /\ r \in Blocks(dv) /\ rd \in Round /\ CutBy(rd, dv)
  BY GridFacts
<1> HIDE DEF rd
<1>2. Pos(rd, dv, r) \in 0 .. (rd.size - 1)
  BY <1>1, Members DEF GroupOf
<1>3. rd.size \in Nat
  BY <1>1 DEF Round
<1>4. QED
  BY <1>2, <1>3 DEF rd

LEMMA PiecesExist ==
  ASSUME NEW rs, NEW dv, GoodGrid(rs, dv), NEW w \in Rect
  PROVE  PiecesAre(Pieces(rs, dv, w), rs, dv, w)
<1> DEFINE S == [Ranks -> Rect]
           cut(n, f) == [r \in Ranks |->
                           Parts(f[r], rs[n].dim, rs[n].size)[Pos(rs[n], dv, r) + 1]]
           step == [x \in Nat \X S |-> IF x[1] \in 1 .. Len(rs) THEN cut(x[1], x[2]) ELSE x[2]]
           whole == [r \in Ranks |-> w]
<1>1. whole \in S
  OBVIOUS
<1>2. ASSUME NEW n \in 1 .. Len(rs), NEW f \in S PROVE cut(n, f) \in S
  <2> SUFFICES ASSUME NEW r \in Ranks
               PROVE  Parts(f[r], rs[n].dim, rs[n].size)[Pos(rs[n], dv, r) + 1] \in Rect
    OBVIOUS
  <2>1. rs[n] \in Round
    BY GridFacts
  <2>2. rs[n].dim \in Dims /\ rs[n].size \in Nat \ {0}
    BY <2>1 DEF Round
  <2>3. f[r] \in Rect
    OBVIOUS
  <2>4. Pos(rs[n], dv, r) + 1 \in 1 .. rs[n].size
    BY PosIs
  <2>5. QED
    BY <2>2, <2>3, <2>4, PartsGood
<1>3. Len(rs) \in Nat
  BY GridFacts
<1> HIDE DEF whole, cut, S
<1>4. step \in [Nat \X S -> S]
  BY <1>2
<1>5. \A n \in 1 .. Len(rs) : \A f \in S : step[<<n, f>>] = cut(n, f)
  BY <1>3
<1> HIDE DEF step
<1>6. PICK B \in [Nat -> S] : StepsFrom(B, whole, step)
  BY <1>1, <1>4, IterationExists
<1>7. \A n \in 1 .. Len(rs) : B[n] = cut(n, B[n - 1])
  <2> SUFFICES ASSUME NEW n \in 1 .. Len(rs) PROVE B[n] = cut(n, B[n - 1])
    OBVIOUS
  <2>1. n \in Nat \ {0} /\ n - 1 \in Nat
    BY <1>3
  <2>2. B[n - 1] \in S
    BY <2>1
  <2>3. B[n] = step[<<n, B[n - 1]>>]
    BY <1>6, <2>1 DEF StepsFrom
  <2>4. QED
    BY <1>5, <2>2, <2>3
<1>8. PiecesAre(B, rs, dv, w)
  <2>1. B \in [Nat -> [Ranks -> Rect]] /\ B[0] = [r \in Ranks |-> w]
    BY <1>6 DEF StepsFrom, S, whole
  <2>2. \A n \in 1 .. Len(rs) : \A r \in Ranks :
          B[n][r] = Parts(B[n - 1][r], rs[n].dim, rs[n].size)[Pos(rs[n], dv, r) + 1]
    <3> SUFFICES ASSUME NEW n \in 1 .. Len(rs), NEW r \in Ranks
                 PROVE  B[n][r] = Parts(B[n - 1][r], rs[n].dim, rs[n].size)[Pos(rs[n], dv, r) + 1]
      OBVIOUS
    <3>1. B[n] = cut(n, B[n - 1])
      BY <1>7
    <3>2. QED
      BY <3>1 DEF cut
  <2>3. QED
    BY <2>1, <2>2 DEF PiecesAre
<1>9. QED
  BY <1>8 DEF Pieces

LEMMA SharesExist ==
  ASSUME NEW rs, NEW dv, GoodGrid(rs, dv)
  PROVE  SharesAre(Shares(rs, dv), rs, dv)
<1> DEFINE S == [Ranks -> SUBSET Ranks]
           all(n, f) == [r \in Ranks |-> UNION {f[s] : s \in Peers(rs[n], dv, r)}]
           step == [x \in Nat \X S |-> IF x[1] \in 1 .. Len(rs) THEN all(x[1], x[2]) ELSE x[2]]
           own == [r \in Ranks |-> {r}]
<1>1. own \in S
  OBVIOUS
<1>2. ASSUME NEW n \in 1 .. Len(rs), NEW f \in S PROVE all(n, f) \in S
  <2>1. \A r \in Ranks : Peers(rs[n], dv, r) \subseteq Ranks
    BY PeersAgree
  <2>2. \A r \in Ranks : UNION {f[s] : s \in Peers(rs[n], dv, r)} \subseteq Ranks
    BY <2>1
  <2>3. QED
    BY <2>2
<1>3. Len(rs) \in Nat
  BY GridFacts
<1> HIDE DEF own, all, S
<1>4. step \in [Nat \X S -> S]
  BY <1>2
<1>5. \A n \in 1 .. Len(rs) : \A f \in S : step[<<n, f>>] = all(n, f)
  BY <1>3
<1> HIDE DEF step
<1>6. PICK A \in [Nat -> S] : StepsFrom(A, own, step)
  BY <1>1, <1>4, IterationExists
<1>7. \A n \in 1 .. Len(rs) : A[n] = all(n, A[n - 1])
  <2> SUFFICES ASSUME NEW n \in 1 .. Len(rs) PROVE A[n] = all(n, A[n - 1])
    OBVIOUS
  <2>1. n \in Nat \ {0} /\ n - 1 \in Nat
    BY <1>3
  <2>2. A[n - 1] \in S
    BY <2>1
  <2>3. A[n] = step[<<n, A[n - 1]>>]
    BY <1>6, <2>1 DEF StepsFrom
  <2>4. QED
    BY <1>5, <2>2, <2>3
<1>8. SharesAre(A, rs, dv)
  <2>1. A \in [Nat -> [Ranks -> SUBSET Ranks]] /\ A[0] = [r \in Ranks |-> {r}]
    BY <1>6 DEF StepsFrom, S, own
  <2>2. \A n \in 1 .. Len(rs) : \A r \in Ranks :
          A[n][r] = UNION {A[n - 1][s] : s \in Peers(rs[n], dv, r)}
    BY <1>7 DEF all
  <2>3. QED
    BY <2>1, <2>2 DEF SharesAre
<1>9. QED
  BY <1>8 DEF Shares

(* What is left after a round divides what was left before it. *)
LEMMA RemainsChain ==
  ASSUME NEW rs, NEW dv, NEW rem, GoodGrid(rs, dv), Remains(rem, rs, dv),
         NEW k \in 0 .. Len(rs), NEW d \in Dims
  PROVE  \A n \in k .. Len(rs) : \E c \in Nat \ {0} : rem[k][d] = rem[n][d] * c
<1> DEFINE L == Len(rs)
           Good(n) == \E c \in Nat \ {0} : rem[k][d] = rem[n][d] * c
           T == {n \in Nat : n \in k .. L => Good(n)}
<1>1. L \in Nat /\ rem \in [0 .. L -> Left] /\ rs \in Seq(Round)
      /\ \A n \in 1 .. L : Shrinks(rs[n], rem[n - 1], rem[n])
  BY DEF GoodGrid, Remains
<1> HIDE DEF L
<1>2. ASSUME NEW n \in Nat, \A m \in Nat : m < n => m \in T, n \in k .. L PROVE Good(n)
  <2>1. n \in 0 .. L /\ rem[n] \in Left /\ rem[n][d] \in Nat \ {0}
    BY <1>1, <1>2 DEF Left
  <2>2. CASE n = k
    <3>1. rem[k][d] = rem[n][d] * 1
      BY <2>1, <2>2
    <3>2. QED
      BY <3>1
  <2>3. CASE n # k
    <3>1. n - 1 \in Nat /\ n - 1 < n /\ n - 1 \in k .. L /\ n \in 1 .. L /\ n - 1 \in 0 .. L
      BY <1>1, <1>2, <2>3
    <3>2. PICK c \in Nat \ {0} : rem[k][d] = rem[n - 1][d] * c
      BY <1>2, <3>1
    <3> DEFINE l == rem[n - 1]
               rd == rs[n]
    <3>3. l \in Left /\ rd \in Round /\ l[rd.dim] = rd.size * rd.step
          /\ rem[n] = [l EXCEPT ![rd.dim] = rd.step]
      <4>1. rd \in Round /\ l \in Left
        BY <1>1, <3>1 DEF L
      <4>2. Shrinks(rd, l, rem[n])
        BY <1>1, <3>1
      <4> HIDE DEF l, rd
      <4>3. QED
        BY <4>1, <4>2 DEF Shrinks
    <3> HIDE DEF l, rd
    <3>4. rd.dim \in Dims /\ rd.size \in Nat \ {0} /\ rd.step \in Nat \ {0}
          /\ l \in [Dims -> Nat \ {0}]
      BY <3>3 DEF Round, Left
    <3>5. CASE d = rd.dim
      <4>1. rem[n][d] = rd.step
        BY <3>3, <3>4, <3>5
      <4>2. rem[k][d] = (rd.size * rd.step) * c
        BY <3>2, <3>3, <3>5 DEF l
      <4>3. (rd.size * rd.step) * c = rd.step * (rd.size * c) /\ rd.size * c \in Nat \ {0}
        BY <3>4
      <4>4. QED
        BY <4>1, <4>2, <4>3
    <3>6. CASE d # rd.dim
      <4>1. rem[n][d] = l[d]
        BY <3>3, <3>4, <3>6
      <4>2. QED
        BY <3>2, <4>1 DEF l
    <3>7. QED
      BY <3>5, <3>6
  <2>4. QED
    BY <2>2, <2>3
<1>3. \A n \in Nat : (\A m \in Nat : m < n => m \in T) => n \in T
  BY <1>2
<1>4. Nat \subseteq T
  <2> HIDE DEF T
  <2>1. QED
    BY <1>3, StrongInduction
<1>5. QED
  BY <1>1, <1>4 DEF L

(* Who exchanges in a round was at the same place in its groups before. *)
LEMMA PosAgrees ==
  ASSUME NEW rs, NEW dv, GoodGrid(rs, dv), NEW n \in 1 .. Len(rs),
         NEW r \in Ranks, NEW s \in Peers(rs[n], dv, r), NEW k \in 1 .. (n - 1)
  PROVE  Pos(rs[k], dv, s) = Pos(rs[k], dv, r)
<1> DEFINE L == Len(rs)
           a == rs[k]
           b == rs[n]
           x == Coords(r, dv)
           y == Coords(s, dv)
<1>1. L \in Nat /\ dv \in Left /\ r \in Blocks(dv) /\ Blocks(dv) = Ranks
  BY GridFacts
<1>2. k \in 1 .. L /\ n \in 1 .. L /\ n - 1 \in k .. L /\ k \in 0 .. L /\ n - 1 \in 0 .. L
  BY <1>1
<1>3. a \in Round /\ b \in Round /\ CutBy(b, dv)
  BY <1>2, GridFacts
<1>4. s \in Ranks
  BY PeersAgree
<1>5. Related(b, dv, r, s)
  <2>1. GroupOf(Partners(b, dv, r), b, dv, r)
    BY <1>1, <1>3, Members
  <2>2. PICK j \in 1 .. b.size : s = Partners(b, dv, r)[j]
    BY <2>1 DEF Peers, ToSet, GroupOf
  <2> HIDE DEF b
  <2>3. QED
    BY <2>1, <2>2 DEF GroupOf
<1>6. PICK rem : Remains(rem, rs, dv)
  BY DEF GoodGrid
<1>7. rem \in [0 .. L -> Left] /\ \A m \in 1 .. L : Shrinks(rs[m], rem[m - 1], rem[m])
  BY <1>6 DEF Remains
<1>8. a.dim \in Dims /\ a.size \in Nat \ {0} /\ a.step \in Nat \ {0}
      /\ b.dim \in Dims /\ b.size \in Nat \ {0} /\ b.step \in Nat \ {0}
  BY <1>3 DEF Round
<1>9. x \in [Dims -> Nat] /\ y \in [Dims -> Nat]
  BY <1>1, <1>4, CoordsOf DEF Places
<1>10. x[a.dim] \div a.step = y[a.dim] \div a.step
  <2>1. CASE a.dim # b.dim
    BY <1>5, <1>8, <2>1 DEF Related
  <2>2. CASE a.dim = b.dim
    <3> DEFINE m == b.size * b.step
               u == x[a.dim]
               v == y[a.dim]
    <3>1. rem[n - 1][b.dim] = m
      BY <1>2, <1>7 DEF Shrinks
    <3>2. rem[k][a.dim] = a.step
      <4> DEFINE l == rem[k - 1]
      <4>1. l \in Left
        BY <1>1, <1>2, <1>7
      <4>2. Shrinks(a, l, rem[k])
        BY <1>2, <1>7
      <4> HIDE DEF l, a
      <4>3. QED
        BY <1>8, <4>1, <4>2 DEF Left, Shrinks
    <3>3. PICK c \in Nat \ {0} : a.step = m * c
      <4>1. \E c \in Nat \ {0} : rem[k][a.dim] = rem[n - 1][a.dim] * c
        <5> DEFINE d == a.dim
                   z == n - 1
        <5>1. d \in Dims /\ k \in 0 .. Len(rs) /\ z \in k .. Len(rs)
          BY <1>2, <1>8
        <5> HIDE DEF d, z
        <5>2. \A i \in k .. Len(rs) : \E c \in Nat \ {0} : rem[k][d] = rem[i][d] * c
          BY <1>6, <5>1, RemainsChain
        <5>3. \E c \in Nat \ {0} : rem[k][d] = rem[z][d] * c
          BY <5>1, <5>2
        <5>4. QED
          BY <5>3 DEF d, z
      <4> HIDE DEF a, b, m
      <4>2. QED
        BY <2>2, <3>1, <3>2, <4>1
    <3>4. u \div m = v \div m
      BY <1>5, <2>2 DEF Related
    <3>5. m \in Nat \ {0} /\ u \in Nat /\ v \in Nat
      BY <1>8, <1>9
    <3> HIDE DEF m, u, v, a, b
    <3>6. u \div (m * c) = (u \div m) \div c
      BY <3>5, DivOfProduct
    <3>7. v \div (m * c) = (v \div m) \div c
      BY <3>5, DivOfProduct
    <3>8. u \div a.step = v \div a.step
      BY <3>3, <3>4, <3>6, <3>7, Zenon
    <3>9. QED
      BY <3>8 DEF u, v
  <2>3. QED
    BY <2>1, <2>2
<1>11. QED
  BY <1>10 DEF Pos

(* ... and so has the same piece of the image to cut up. *)
LEMMA PiecesAgree ==
  ASSUME NEW rs, NEW dv, NEW w \in Rect, GoodGrid(rs, dv), NEW n \in 1 .. Len(rs),
         NEW r \in Ranks, NEW s \in Peers(rs[n], dv, r)
  PROVE  Pieces(rs, dv, w)[n - 1][s] = Pieces(rs, dv, w)[n - 1][r]
<1> DEFINE B == Pieces(rs, dv, w)
           T == {k \in Nat : k < n => B[k][s] = B[k][r]}
<1>1. PiecesAre(B, rs, dv, w) /\ s \in Ranks /\ Len(rs) \in Nat
  BY PiecesExist, PeersAgree, GridFacts
<1> HIDE DEF B
<1>2. 0 \in T
  BY <1>1 DEF PiecesAre
<1>3. ASSUME NEW k \in Nat, k \in T PROVE k + 1 \in T
  <2> SUFFICES ASSUME k + 1 < n PROVE B[k + 1][s] = B[k + 1][r]
    OBVIOUS
  <2>1. k + 1 \in 1 .. (n - 1) /\ k + 1 \in 1 .. Len(rs) /\ (k + 1) - 1 = k /\ k < n
    BY <1>1
  <2>2. B[k][s] = B[k][r]
    BY <1>3, <2>1
  <2> DEFINE m == k + 1
  <2>3. Pos(rs[m], dv, s) = Pos(rs[m], dv, r)
    BY <2>1, PosAgrees
  <2>4. /\ B[m][s] = Parts(B[m - 1][s], rs[m].dim, rs[m].size)[Pos(rs[m], dv, s) + 1]
        /\ B[m][r] = Parts(B[m - 1][r], rs[m].dim, rs[m].size)[Pos(rs[m], dv, r) + 1]
    BY <1>1, <2>1 DEF PiecesAre
  <2>5. m - 1 = k
    BY <2>1
  <2> HIDE DEF m
  <2>6. B[m][s] = B[m][r]
    BY <2>2, <2>3, <2>4, <2>5
  <2>7. QED
    BY <2>6 DEF m
<1>4. Nat \subseteq T
  <2> HIDE DEF T
  <2>1. QED
    BY <1>2, <1>3, NatInductionSet
<1>5. n - 1 \in Nat /\ n - 1 < n
  BY <1>1
<1>6. QED
  BY <1>4, <1>5 DEF B

(* A rank's piece is one of the parts its group cuts the piece they had into. *)
LEMMA PieceIs ==
  ASSUME NEW rs, NEW dv, NEW w \in Rect, GoodGrid(rs, dv), NEW n \in 1 .. Len(rs),
         NEW r \in Ranks, NEW s \in Peers(rs[n], dv, r)
  PROVE  /\ Pos(rs[n], dv, s) + 1 \in 1 .. rs[n].size
         /\ Pieces(rs, dv, w)[n][s]
              = Parts(Pieces(rs, dv, w)[n - 1][r], rs[n].dim, rs[n].size)[Pos(rs[n], dv, s) + 1]
<1>1. s \in Ranks
  BY PeersAgree
<1>2. Pieces(rs, dv, w)[n - 1][s] = Pieces(rs, dv, w)[n - 1][r]
  BY PiecesAgree
<1>3. PiecesAre(Pieces(rs, dv, w), rs, dv, w)
  BY PiecesExist
<1>4. QED
  BY <1>1, <1>2, <1>3, PosIs DEF PiecesAre

LEMMA WithinTrans ==
  ASSUME NEW a \in Rect, NEW b \in Rect, NEW c \in Rect, Within(a, b), Within(b, c)
  PROVE  Within(a, c)
<1>1. \A d \in Dims : /\ a.min[d] \in Int /\ b.min[d] \in Int /\ c.min[d] \in Int
                      /\ a.max[d] \in Int /\ b.max[d] \in Int /\ c.max[d] \in Int
  BY RectFacts
<1>2. QED
  BY <1>1 DEF Within

(* The pieces after a round are parts of w that leave nothing out. *)
LEMMA PiecesCover ==
  ASSUME NEW rs, NEW dv, NEW w \in Rect, GoodGrid(rs, dv)
  PROVE  \A n \in 0 .. Len(rs) :
           /\ \A r \in Ranks : Pieces(rs, dv, w)[n][r] \in Rect /\ Within(Pieces(rs, dv, w)[n][r], w)
           /\ \A p \in Points : Inside(w, p) =>
                \E r \in Ranks : Inside(Pieces(rs, dv, w)[n][r], p)
<1> DEFINE B == Pieces(rs, dv, w)
           L == Len(rs)
           In(n) == \A r \in Ranks : Within(B[n][r], w)
           Cover(n) == \A p \in Points : Inside(w, p) => \E r \in Ranks : Inside(B[n][r], p)
           T == {n \in Nat : n <= L => In(n) /\ Cover(n)}
<1>1. PiecesAre(B, rs, dv, w) /\ L \in Nat
  BY PiecesExist, GridFacts
<1>2. B \in [Nat -> [Ranks -> Rect]]
  BY <1>1 DEF PiecesAre
<1>3. 0 \in T
  <2>1. \A r \in Ranks : B[0][r] = w
    BY <1>1 DEF PiecesAre
  <2> HIDE DEF B
  <2>2. Within(w, w)
    BY RectFacts DEF Within
  <2>3. In(0)
    BY <2>1, <2>2
  <2>4. Cover(0)
    BY <2>1, RanksAre
  <2>5. QED
    BY <2>3, <2>4
<1> HIDE DEF B
<1>4. ASSUME NEW m \in Nat, m \in T PROVE m + 1 \in T
  <2> SUFFICES ASSUME m + 1 <= L PROVE In(m + 1) /\ Cover(m + 1)
    OBVIOUS
  <2> DEFINE n == m + 1
             rd == rs[n]
  <2>1. n \in 1 .. L /\ n - 1 = m /\ m \in Nat /\ n \in Nat /\ m <= L
    BY <1>1
  <2>2. In(m) /\ Cover(m)
    BY <1>4, <2>1
  <2>3. rd \in Round
    BY <2>1, GridFacts
  <2>4. rd.dim \in Dims /\ rd.size \in Nat \ {0}
    BY <2>3 DEF Round
  <2>5. ASSUME NEW r \in Ranks, NEW s \in Peers(rd, dv, r)
        PROVE  /\ Pos(rd, dv, s) + 1 \in 1 .. rd.size
               /\ B[n][s] = Parts(B[m][r], rd.dim, rd.size)[Pos(rd, dv, s) + 1]
    <3>1. n \in 1 .. Len(rs)
      BY <2>1
    <3> HIDE DEF n
    <3>2. /\ Pos(rd, dv, s) + 1 \in 1 .. rd.size
          /\ B[n][s] = Parts(B[n - 1][r], rd.dim, rd.size)[Pos(rd, dv, s) + 1]
      BY <3>1, PieceIs DEF B
    <3>3. QED
      BY <2>1, <3>2
  <2>6. ASSUME NEW r \in Ranks PROVE Within(B[n][r], w)
    <3>1. r \in Peers(rd, dv, r)
      BY <2>1, PeersAgree
    <3> HIDE DEF n, rd
    <3>2. B[m][r] \in Rect /\ B[n][r] \in Rect /\ Within(B[m][r], w)
      BY <1>2, <2>1, <2>2
    <3>3. Within(B[n][r], B[m][r])
      BY <2>4, <2>5, <3>1, <3>2, PartsGood
    <3>4. QED
      BY <3>2, <3>3, WithinTrans
  <2>7. ASSUME NEW p \in Points, Inside(w, p)
        PROVE  \E t \in Ranks : Inside(B[n][t], p)
    <3>1. PICK r \in Ranks : Inside(B[m][r], p)
      BY <2>2, <2>7
    <3>2. B[m][r] \in Rect
      BY <1>2, <2>1
    <3>3. PICK i \in 1 .. rd.size : Inside(Parts(B[m][r], rd.dim, rd.size)[i], p)
      <4> HIDE DEF rd
      <4>1. QED
        BY <2>4, <3>1, <3>2, PartsGood
    <3> DEFINE t == Partners(rd, dv, r)[i]
    <3>4. t \in Peers(rd, dv, r) /\ Pos(rd, dv, t) = i - 1
      <4>1. dv \in Left /\ r \in Blocks(dv) /\ CutBy(rd, dv)
        BY <2>1, GridFacts
      <4>2. GroupOf(Partners(rd, dv, r), rd, dv, r)
        BY <2>3, <4>1, Members
      <4> HIDE DEF rd
      <4>3. QED
        BY <4>2 DEF GroupOf, Peers, ToSet
    <3>5. t \in Ranks
      BY <2>1, <3>4, PeersAgree
    <3> HIDE DEF n, rd, t
    <3>6. (i - 1) + 1 = i
      BY <2>4
    <3>7. B[n][t] = Parts(B[m][r], rd.dim, rd.size)[i]
      BY <2>5, <3>4, <3>6
    <3>8. QED
      BY <3>3, <3>5, <3>7
  <2>8. QED
    BY <2>6, <2>7
<1>5. Nat \subseteq T
  <2> HIDE DEF T
  <2>1. QED
    BY <1>3, <1>4, NatInductionSet
<1>6. \A n \in 0 .. L : In(n) /\ Cover(n) /\ n \in Nat
  <2>1. \A n \in 0 .. L : n \in Nat /\ n <= L
    BY <1>1
  <2>2. QED
    BY <1>5, <2>1
<1>7. QED
  BY <1>2, <1>6 DEF B

(* After the last round every rank has composited the pixels of all. *)
LEMMA SharesAll ==
  ASSUME NEW rs, NEW dv, GoodGrid(rs, dv)
  PROVE  \A r \in Ranks : Shares(rs, dv)[Len(rs)][r] = Ranks
<1> DEFINE A == Shares(rs, dv)
           L == Len(rs)
<1>1. SharesAre(A, rs, dv) /\ L \in Nat /\ dv \in Left /\ Blocks(dv) = Ranks
  BY SharesExist, GridFacts
<1>2. /\ A \in [Nat -> [Ranks -> SUBSET Ranks]] /\ A[0] = [r \in Ranks |-> {r}]
      /\ \A n \in 1 .. L : \A r \in Ranks :
           A[n][r] = UNION {A[n - 1][s] : s \in Peers(rs[n], dv, r)}
  BY <1>1 DEF SharesAre
<1> HIDE DEF A
<1>3. PICK rem : Remains(rem, rs, dv)
  BY DEF GoodGrid
<1>4. /\ rem \in [0 .. L -> Left] /\ rem[0] = dv /\ AllOne(rem[L])
      /\ \A n \in 1 .. L : Shrinks(rs[n], rem[n - 1], rem[n])
  BY <1>3 DEF Remains
<1> DEFINE Same(n, q, r) == \A d \in Dims : Coords(q, dv)[d] % rem[n][d] = Coords(r, dv)[d] % rem[n][d]
           Good(n) == \A q, r \in Ranks : Same(n, q, r) => q \in A[n][r]
           T == {n \in Nat : n <= L => Good(n)}
<1>5. \A r \in Ranks : Coords(r, dv) \in Places(dv) /\ Coords(r, dv) \in [Dims -> Nat]
                       /\ Gid(Coords(r, dv), dv) = r
  <2>1. \A r \in Ranks : Coords(r, dv) \in Places(dv) /\ Gid(Coords(r, dv), dv) = r
    BY <1>1, CoordsOf
  <2>2. QED
    BY <2>1 DEF Places
<1>6. 0 \in T
  <2> SUFFICES ASSUME NEW q \in Ranks, NEW r \in Ranks, Same(0, q, r) PROVE q = r
    BY <1>2
  <2> DEFINE c == Coords(q, dv)
             e == Coords(r, dv)
  <2>1. c \in [Dims -> Nat] /\ e \in [Dims -> Nat] /\ \A d \in Dims : c[d] < dv[d] /\ e[d] < dv[d]
    BY <1>5 DEF Places
  <2>2. \A d \in Dims : c[d] % dv[d] = e[d] % dv[d]
    BY <1>4
  <2> HIDE DEF c, e
  <2>3. \A d \in Dims : c[d] = e[d]
    <3> SUFFICES ASSUME NEW d \in Dims PROVE c[d] = e[d]
      OBVIOUS
    <3> DEFINE x == c[d]
               y == e[d]
               z == dv[d]
    <3>1. x \in Nat /\ y \in Nat /\ z \in Nat \ {0} /\ x < z /\ y < z /\ x % z = y % z
      BY <1>1, <2>1, <2>2 DEF Left
    <3> HIDE DEF x, y, z
    <3>2. x % z = x /\ y % z = y
      BY <3>1
    <3>3. x = y
      BY <3>1, <3>2
    <3>4. QED
      BY <3>3 DEF x, y
  <2>4. c = e
    BY <2>1, <2>3
  <2>5. QED
    BY <1>5, <2>4 DEF c, e
<1>7. ASSUME NEW m \in Nat, m \in T PROVE m + 1 \in T
  <2> SUFFICES ASSUME m + 1 <= L, NEW q \in Ranks, NEW r \in Ranks, Same(m + 1, q, r)
               PROVE  q \in A[m + 1][r]
    OBVIOUS
  <2> DEFINE n == m + 1
             rd == rs[n]
             l == rem[m]
             b == rd.dim
             c == Coords(q, dv)
             e == Coords(r, dv)
             i == Pos(rd, dv, q) + 1
             s == Partners(rd, dv, r)[i]
             f == Coords(s, dv)
  <2>1. n \in 1 .. L /\ n - 1 = m /\ m <= L /\ m \in 0 .. L
    BY <1>1
  <2>2. rd \in Round /\ CutBy(rd, dv) /\ l \in Left /\ Shrinks(rd, l, rem[n])
    <3>1. rd \in Round /\ CutBy(rd, dv)
      BY <2>1, GridFacts
    <3>2. l \in Left
      BY <1>4, <2>1
    <3>3. Shrinks(rd, l, rem[n])
      BY <1>4, <2>1
    <3>4. QED
      BY <3>1, <3>2, <3>3
  <2>3. i \in 1 .. rd.size
    BY <2>1, PosIs
  <2>4. s \in Peers(rd, dv, r) /\ Pos(rd, dv, s) = Pos(rd, dv, q) /\ Related(rd, dv, r, s)
    <3>1. GroupOf(Partners(rd, dv, r), rd, dv, r)
      BY <1>1, <2>2, Members
    <3>2. Pos(rd, dv, q) = i - 1
      <4>1. GroupOf(Partners(rd, dv, q), rd, dv, q)
        BY <1>1, <2>2, Members
      <4>2. Pos(rd, dv, q) \in Int
        BY <4>1 DEF GroupOf
      <4>3. QED
        BY <4>2
    <3> HIDE DEF rd, i
    <3>3. s \in Peers(rd, dv, r)
      BY <2>3, <3>1 DEF GroupOf, Peers, ToSet
    <3>4. Pos(rd, dv, s) = i - 1 /\ Related(rd, dv, r, s)
      BY <2>3, <3>1 DEF GroupOf
    <3>5. QED
      BY <3>2, <3>3, <3>4
  <2>5. s \in Ranks
    BY <2>1, <2>4, PeersAgree
  <2>6. c \in [Dims -> Nat] /\ e \in [Dims -> Nat] /\ f \in [Dims -> Nat]
    BY <1>5, <2>5
  <2>7. b \in Dims /\ rd.size \in Nat \ {0} /\ rd.step \in Nat \ {0}
        /\ l[b] = rd.size * rd.step /\ rem[n] = [l EXCEPT ![b] = rd.step]
        /\ l \in [Dims -> Nat \ {0}]
    <3> HIDE DEF rd, l, n
    <3>1. QED
      BY <2>2 DEF Round, Shrinks, Left
  <2>8. \A d \in Dims : c[d] % rem[n][d] = e[d] % rem[n][d]
    OBVIOUS
  <2>9. Same(m, q, s)
    <3> SUFFICES ASSUME NEW d \in Dims PROVE c[d] % l[d] = f[d] % l[d]
      OBVIOUS
    <3>1. CASE d # b
      <4>1. rem[n][d] = l[d]
        BY <2>7, <3>1
      <4>2. f[d] = e[d]
        BY <2>4, <3>1 DEF Related
      <4>3. QED
        BY <2>8, <4>1, <4>2
    <3>2. CASE d = b
      <4> DEFINE x == c[b]
                 y == e[b]
                 z == f[b]
                 size == rd.size
                 step == rd.step
                 pos == Pos(rd, dv, q)
      <4>1. rem[n][b] = step
        BY <2>7
      <4>2. x % step = y % step
        BY <2>7, <2>8, <4>1
      <4>3. z % (size * step) = step * pos + (y % step)
        BY <2>4 DEF Related
      <4>4. pos = (x \div step) % size
        BY DEF Pos
      <4>5. x \in Nat /\ size \in Nat \ {0} /\ step \in Nat \ {0}
        BY <2>6, <2>7
      <4> HIDE DEF x, y, z, size, step, pos
      <4>6. x % (size * step) = step * ((x \div step) % size) + (x % step)
        BY <4>5, ModOfProduct
      <4>7. x % (size * step) = z % (size * step)
        BY <4>2, <4>3, <4>4, <4>6
      <4>8. QED
        BY <2>7, <3>2, <4>7 DEF x, z, size, step
    <3>3. QED
      BY <3>1, <3>2
  <2>10. q \in A[m][s]
    BY <1>7, <2>1, <2>5, <2>9
  <2>11. A[n][r] = UNION {A[m][t] : t \in Peers(rd, dv, r)}
    <3>1. A[n][r] = UNION {A[n - 1][t] : t \in Peers(rs[n], dv, r)}
      BY <1>2, <2>1
    <3>2. QED
      BY <2>1, <3>1
  <2> HIDE DEF n, rd, s
  <2>12. q \in A[n][r]
    BY <2>4, <2>10, <2>11
  <2>13. QED
    BY <2>12 DEF n
<1>8. Nat \subseteq T
  <2> HIDE DEF T
  <2>1. QED
    BY <1>6, <1>7, NatInductionSet
<1>9. Good(L)
  BY <1>1, <1>8
<1>10. \A q, r \in Ranks : Same(L, q, r)
  <2> SUFFICES ASSUME NEW q \in Ranks, NEW r \in Ranks, NEW d \in Dims
               PROVE  Coords(q, dv)[d] % rem[L][d] = Coords(r, dv)[d] % rem[L][d]
    OBVIOUS
  <2>1. rem[L][d] = 1
    BY <1>4 DEF AllOne
  <2>2. \A x \in Nat : x % 1 = 0
    OBVIOUS
  <2>3. QED
    BY <1>5, <2>1, <2>2
<1>11. \A r \in Ranks : A[L][r] \subseteq Ranks
  BY <1>1, <1>2
<1>12. QED
  BY <1>9, <1>10, <1>11 DEF A

-----------------------------------------------------------------------------
(* Pixels.                                                                 *)

Pixel == [depth : 0 .. Far, color : 0 .. 255, alpha : 0 .. 255, from : Seq(Ranks)]

(* What the input is: the bounds of the whole image, and what a rank drew. *)
Frame(in) == [min |-> <<1, 1>>, max |-> <<in.width, in.height>>]

FirstPixel(p, r) ==
  [depth |-> IF p.depth < 0 THEN Far ELSE p.depth,
   color |-> p.color, alpha |-> p.alpha, from |-> <<r>>]

FirstImage(in, r) ==
  [bounds |-> Frame(in), order |-> in.order[r],
   pixels |-> [i \in DOMAIN in.canvas[r] |-> FirstPixel(in.canvas[r][i], r)]]

(* A set of pixels that compositing never leaves. *)
Closed(P) ==
  /\ P \subseteq Pixel
  /\ Zero \in P
  /\ \A x, y \in P : BlendPixel(x, y) \in P
  /\ \A in \in Inputs : \A r \in Ranks : \A i \in DOMAIN in.canvas[r] :
       FirstPixel(in.canvas[r][i], r) \in P

LEMMA FrameIs ==
  /\ Whole = Frame(input)
  /\ \A r : ImageInit(r) = FirstImage(input, r)
BY DEF Whole, Frame, ImageInit, FirstImage, FirstPixel

LEMMA FrameGood ==
  ASSUME NEW in \in Inputs
  PROVE  Frame(in) \in Rect /\ Area(Frame(in)) = in.width * in.height
<1>1. in.width \in Nat \ {0} /\ in.height \in Nat \ {0}
  BY InputsAssumption
<1> DEFINE b == Frame(in)
<1>2. /\ b.min = <<1, 1>> /\ b.max = <<in.width, in.height>>
      /\ b = [min |-> <<1, 1>>, max |-> <<in.width, in.height>>]
  BY DEF Frame
<1> HIDE DEF b
<1>3. b.min \in [Dims -> Int] /\ b.max \in [Dims -> Int] /\ Dims = {1, 2}
  BY <1>1, <1>2 DEF Dims
<1>4. b.min[1] = 1 /\ b.min[2] = 1 /\ b.max[1] = in.width /\ b.max[2] = in.height
  BY <1>2
<1>5. \A d \in Dims : b.min[d] <= b.max[d]
  BY <1>1, <1>3, <1>4
<1>6. b \in Rect
  BY <1>2, <1>3, <1>5 DEF Rect
<1>7. Extent(b, 1) = in.width /\ Extent(b, 2) = in.height
  BY <1>1, <1>4 DEF Extent
<1>8. QED
  BY <1>6, <1>7 DEF Area, b

LEMMA FirstImageGood ==
  ASSUME NEW P, Closed(P), NEW in \in Inputs, NEW r \in Ranks
  PROVE  /\ FirstImage(in, r) \in ImageSet(Frame(in), P)
         /\ FirstImage(in, r).order = in.order[r]
         /\ \A p \in Points : Inside(Frame(in), p) =>
              \E q \in DOMAIN in.canvas[r] :
                PixelAt(FirstImage(in, r), p) = FirstPixel(in.canvas[r][q], r)
<1> DEFINE b == Frame(in)
           c == in.canvas[r]
           px == [i \in DOMAIN c |-> FirstPixel(c[i], r)]
           img == FirstImage(in, r)
<1>1. b \in Rect /\ Area(b) = in.width * in.height
  BY FrameGood
<1>2. c \in [1 .. in.width * in.height -> Fragment] /\ in.order[r] \in Int
  BY InputsAssumption
<1>3. \A i \in DOMAIN c : FirstPixel(c[i], r) \in P
  BY DEF Closed
<1>4. img = [bounds |-> b, order |-> in.order[r], pixels |-> px]
  BY DEF FirstImage
<1> HIDE DEF b, c, img
<1>5. px \in [1 .. Area(b) -> P] /\ \A i \in 1 .. Area(b) : px[i] = FirstPixel(c[i], r)
  BY <1>1, <1>2, <1>3
<1> HIDE DEF px
<1>6. img \in ImageSet(b, P) /\ img.bounds = b /\ img.pixels = px /\ img.order = in.order[r]
  BY <1>2, <1>4, <1>5 DEF ImageSet
<1>7. ASSUME NEW p \in Points, Inside(b, p)
      PROVE  \E q \in DOMAIN c : PixelAt(img, p) = FirstPixel(c[q], r)
  <2>1. Index(b, p) \in 1 .. Area(b)
    BY <1>1, <1>7, PlaceOf
  <2>2. Index(b, p) \in DOMAIN c
    BY <1>1, <1>2, <2>1
  <2>3. QED
    BY <1>5, <1>6, <2>1, <2>2 DEF PixelAt
<1>8. QED
  BY <1>6, <1>7 DEF b, c, img

LEMMA OriginalGood ==
  ASSUME NEW P, Closed(P), input \in Inputs
  PROVE  InitOriginal \in ImageSet(Whole, P) /\ Whole \in Rect
<1>1. Whole \in Rect
  BY FrameIs, FrameGood
<1>2. Zero \in P
  BY DEF Closed
<1>3. QED
  BY <1>1, <1>2 DEF InitOriginal, ImageSet

-----------------------------------------------------------------------------
(* Compositing images.                                                     *)

LEMMA CompositeIs ==
  ASSUME NEW P, Closed(P), NEW b \in Rect,
         NEW f \in ImageSet(b, P), NEW g \in ImageSet(b, P)
  PROVE  /\ Composite(f, g) \in ImageSet(b, P)
         /\ \A p \in Points : Inside(b, p) =>
              PixelAt(Composite(f, g), p) = MergePixel(PixelAt(f, p), PixelAt(g, p))
<1> DEFINE px == [i \in 1 .. Area(b) |-> MergePixel(f.pixels[i], g.pixels[i])]
           c == Composite(f, g)
<1>1. /\ f.bounds = b /\ f.pixels \in [1 .. Area(b) -> P] /\ f.order \in Int
      /\ g.bounds = b /\ g.pixels \in [1 .. Area(b) -> P]
      /\ f = [bounds |-> b, order |-> f.order, pixels |-> f.pixels]
  BY DEF ImageSet
<1>2. \A x, y \in P : MergePixel(x, y) \in P
  BY DEF MergePixel, NearerPixel, Closed
<1>3. px \in [1 .. Area(b) -> P]
  BY <1>1, <1>2
<1>4. c = [bounds |-> b, order |-> f.order, pixels |-> px]
  <2>1. DOMAIN f.pixels = 1 .. Area(b)
    BY <1>1
  <2>2. c = [f EXCEPT !.pixels = px]
    BY <2>1 DEF Composite
  <2> HIDE DEF c, px
  <2>3. QED
    BY <1>1, <2>2
<1>5. \A i \in 1 .. Area(b) : px[i] = MergePixel(f.pixels[i], g.pixels[i])
  OBVIOUS
<1> HIDE DEF c, px
<1>6. c \in ImageSet(b, P) /\ c.bounds = b /\ c.pixels = px
  BY <1>1, <1>3, <1>4 DEF ImageSet
<1>7. ASSUME NEW p \in Points, Inside(b, p)
      PROVE  PixelAt(c, p) = MergePixel(PixelAt(f, p), PixelAt(g, p))
  <2>1. Index(b, p) \in 1 .. Area(b)
    BY <1>7, PlaceOf
  <2>2. QED
    BY <1>1, <1>5, <1>6, <2>1 DEF PixelAt
<1>8. QED
  BY <1>6, <1>7 DEF c

(* CompositeImages: u composites the first ones. *)
Onto(u, images) ==
  [n \in 1 .. Len(images) |-> IF n = 1 THEN images[1] ELSE Composite(u[n - 1], images[n])]

LEMMA CompositeUnfolds ==
  ASSUME NEW P, Closed(P), NEW b \in Rect, NEW images \in Seq(ImageSet(b, P)), Len(images) > 0
  PROVE  \E u \in [1 .. Len(images) -> ImageSet(b, P)] :
           /\ u[1] = images[1]
           /\ \A n \in 2 .. Len(images) : u[n] = Composite(u[n - 1], images[n])
           /\ CompositeImages(images) = u[Len(images)]
<1> DEFINE S == ImageSet(b, P)
           L == Len(images)
           step == [x \in Nat \X S |->
                      IF x[1] + 1 \in 1 .. L THEN Composite(x[2], images[x[1] + 1]) ELSE x[2]]
           U == CHOOSE u : u = Onto(u, images)
<1>1. CompositeImages(images) = U[L]
  BY DEF CompositeImages, Onto
<1>2. L \in Nat /\ 1 \in 1 .. L /\ \A n \in 1 .. L : images[n] \in S
  OBVIOUS
<1>3. \A f, g \in S : Composite(f, g) \in S
  BY CompositeIs
<1> HIDE DEF S, L
<1>4. step \in [Nat \X S -> S]
  BY <1>2, <1>3
<1>5. \A m \in Nat : \A f \in S :
        m + 1 \in 1 .. L => step[<<m, f>>] = Composite(f, images[m + 1])
  OBVIOUS
<1> HIDE DEF step
<1>6. PICK g \in [Nat -> S] : StepsFrom(g, images[1], step)
  BY <1>2, <1>4, IterationExists
<1> DEFINE u == [n \in 1 .. L |-> g[n - 1]]
<1>7. u \in [1 .. L -> S] /\ u[1] = images[1]
  <2>1. \A n \in 1 .. L : n - 1 \in Nat
    BY <1>2
  <2>2. u \in [1 .. L -> S]
    BY <2>1
  <2>3. u[1] = g[0]
    BY <1>2
  <2>4. QED
    BY <1>6, <2>2, <2>3 DEF StepsFrom
<1>8. ASSUME NEW n \in 2 .. L PROVE u[n] = Composite(u[n - 1], images[n])
  <2> DEFINE m == n - 1
  <2>1. m \in Nat \ {0} /\ m + 1 = n /\ m + 1 \in 1 .. L /\ m - 1 \in Nat /\ n \in 1 .. L
        /\ m \in 1 .. L
    BY <1>2
  <2>2. u[n] = g[m] /\ u[m] = g[m - 1]
    BY <2>1
  <2>3. g[m] = step[<<m, g[m - 1]>>] /\ g[m - 1] \in S
    BY <1>6, <2>1 DEF StepsFrom
  <2> HIDE DEF m, u
  <2>4. u[n] = Composite(g[m - 1], images[m + 1])
    BY <1>5, <2>1, <2>2, <2>3
  <2>5. QED
    BY <2>1, <2>2, <2>4 DEF m
<1> HIDE DEF u
<1>9. u = Onto(u, images)
  <2>1. \A n \in 1 .. L : u[n] = IF n = 1 THEN images[1] ELSE Composite(u[n - 1], images[n])
    <3> SUFFICES ASSUME NEW n \in 1 .. L
                 PROVE  u[n] = IF n = 1 THEN images[1] ELSE Composite(u[n - 1], images[n])
      OBVIOUS
    <3>1. n = 1 \/ n \in 2 .. L
      BY <1>2
    <3>2. n \in 2 .. L => n # 1
      OBVIOUS
    <3>3. QED
      BY <1>7, <1>8, <3>1, <3>2
  <2>2. u = [n \in 1 .. L |-> u[n]]
    BY <1>7
  <2>3. QED
    BY <2>1, <2>2 DEF Onto, L
<1>10. U = Onto(U, images)
  BY <1>9
<1> HIDE DEF U
<1> DEFINE T == {n \in Nat : n + 1 \in 1 .. L => U[n + 1] = u[n + 1]}
<1>11. \A n \in 1 .. L : U[n] = IF n = 1 THEN images[1] ELSE Composite(U[n - 1], images[n])
  BY <1>10 DEF Onto, L
<1>12. 0 \in T
  BY <1>7, <1>11
<1>13. ASSUME NEW n \in Nat, n \in T PROVE n + 1 \in T
  <2> SUFFICES ASSUME (n + 1) + 1 \in 1 .. L PROVE U[(n + 1) + 1] = u[(n + 1) + 1]
    OBVIOUS
  <2> DEFINE k == (n + 1) + 1
  <2>1. n + 1 \in 1 .. L /\ k - 1 = n + 1 /\ k \in 2 .. L /\ k \in 1 .. L /\ k # 1
    BY <1>2
  <2>2. U[n + 1] = u[n + 1]
    BY <1>13, <2>1
  <2> HIDE DEF k
  <2>3. U[k] = u[k]
    BY <1>8, <1>11, <2>1, <2>2
  <2>4. QED
    BY <2>3 DEF k
<1>14. Nat \subseteq T
  <2> HIDE DEF T
  <2>1. QED
    BY <1>12, <1>13, NatInductionSet
<1>15. U[L] = u[L]
  <2>1. L - 1 \in Nat /\ (L - 1) + 1 = L /\ L \in 1 .. L
    BY <1>2
  <2>2. L - 1 \in T
    BY <1>14, <2>1
  <2>3. QED
    BY <2>1, <2>2
<1>16. QED
  BY <1>1, <1>7, <1>8, <1>15 DEF S, L

(* What rank q drew at point p. *)
Drawn(in, p, q) == PixelAt(FirstImage(in, q), p)

(* x is the nearest of what the ranks of S drew at p. *)
Best(in, x, p, S) ==
  /\ \E q \in S : x = Drawn(in, p, q)
  /\ \A q \in S : x.depth <= Drawn(in, p, q).depth

(* x is right for point p once the pixels of the ranks of S are in it.      *)
Right(in, x, p, S) ==
  IF in.mode = "surface" THEN Best(in, x, p, S) ELSE x.from = SortedBy(in.order)

(* An image of rectangle b that is right for S. *)
Holds(P, in, img, b, S) ==
  /\ img \in ImageSet(b, P)
  /\ \A p \in Points : Inside(b, p) => Right(in, PixelAt(img, p), p, S)

LEMMA HoldsPart ==
  ASSUME NEW P, NEW in, NEW img, NEW S, NEW b \in Rect, NEW c \in Rect,
         Within(c, b), Holds(P, in, img, b, S)
  PROVE  Holds(P, in, SubsetFrom(img, c), c, S)
<1>1. img \in ImageSet(b, P) /\ \A p \in Points : Inside(b, p) => Right(in, PixelAt(img, p), p, S)
  BY DEF Holds
<1> DEFINE sub == SubsetFrom(img, c)
<1>2. /\ sub \in ImageSet(c, P)
      /\ \A p \in Points : Inside(c, p) => PixelAt(sub, p) = PixelAt(img, p)
  BY <1>1, SubsetFromKeeps
<1> HIDE DEF sub
<1>3. \A p \in Points : Inside(c, p) => Inside(b, p)
  BY WithinInside
<1>4. \A p \in Points : Inside(c, p) => Right(in, PixelAt(sub, p), p, S)
  BY <1>1, <1>2, <1>3
<1>5. QED
  BY <1>2, <1>4 DEF Holds, sub

LEMMA DrawnType ==
  ASSUME NEW P, Closed(P), NEW in \in Inputs, NEW q \in Ranks,
         NEW p \in Points, Inside(Frame(in), p)
  PROVE  Drawn(in, p, q) \in P
BY FirstImageGood, FrameGood, PixelAtType DEF Drawn

LEMMA FirstHolds ==
  ASSUME NEW P, Closed(P), NEW in \in Inputs, in.mode = "surface", NEW r \in Ranks
  PROVE  Holds(P, in, FirstImage(in, r), Frame(in), {r})
<1>1. FirstImage(in, r) \in ImageSet(Frame(in), P)
  BY FirstImageGood
<1>2. ASSUME NEW p \in Points, Inside(Frame(in), p)
      PROVE  Right(in, PixelAt(FirstImage(in, r), p), p, {r})
  <2> DEFINE x == Drawn(in, p, r)
  <2>1. x \in P
    BY <1>2, DrawnType
  <2>2. x.depth \in Int
    BY <2>1 DEF Closed, Pixel
  <2> HIDE DEF x
  <2>3. x.depth <= x.depth
    BY <2>2
  <2>4. Best(in, x, p, {r})
    BY <2>3 DEF Best, x
  <2>5. QED
    BY <2>4 DEF Right, x, Drawn
<1>3. QED
  BY <1>1, <1>2 DEF Holds

LEMMA NearerBest ==
  ASSUME NEW in, NEW p, NEW S, NEW T, NEW x \in Pixel, NEW y \in Pixel,
         Best(in, x, p, S), Best(in, y, p, T),
         \A q \in S \cup T : Drawn(in, p, q).depth \in Int
  PROVE  Best(in, NearerPixel(x, y), p, S \cup T)
<1>1. x.depth \in Int /\ y.depth \in Int /\ x.depth <= Far
  BY DEF Pixel, Far
<1>2. /\ \E q \in S : x = Drawn(in, p, q)
      /\ \E q \in T : y = Drawn(in, p, q)
      /\ \A q \in S : x.depth <= Drawn(in, p, q).depth
      /\ \A q \in T : y.depth <= Drawn(in, p, q).depth
  BY DEF Best
<1>3. CASE y.depth >= Far \/ x.depth < y.depth
  <2>1. NearerPixel(x, y) = x /\ x.depth <= y.depth
    BY <1>1, <1>3 DEF NearerPixel, Far
  <2>2. \A q \in S \cup T : x.depth <= Drawn(in, p, q).depth
    BY <1>1, <1>2, <2>1
  <2>3. QED
    BY <1>2, <2>1, <2>2 DEF Best
<1>4. CASE ~(y.depth >= Far \/ x.depth < y.depth)
  <2>1. NearerPixel(x, y) = y /\ y.depth <= x.depth
    BY <1>1, <1>4 DEF NearerPixel, Far
  <2>2. \A q \in S \cup T : y.depth <= Drawn(in, p, q).depth
    BY <1>1, <1>2, <2>1
  <2>3. QED
    BY <1>2, <2>1, <2>2 DEF Best
<1>5. QED
  BY <1>3, <1>4

(* Images right for their ranks make an image right for all of these.       *)
LEMMA SurfaceMerge ==
  ASSUME NEW P, Closed(P), input \in Inputs, input.mode = "surface",
         NEW b \in Rect, Within(b, Frame(input)),
         NEW images \in Seq(ImageSet(b, P)), Len(images) > 0,
         NEW S \in [1 .. Len(images) -> SUBSET Ranks],
         \A i \in 1 .. Len(images) : Holds(P, input, images[i], b, S[i])
  PROVE  Holds(P, input, CompositeImages(images), b, UNION {S[i] : i \in 1 .. Len(images)})
<1> DEFINE L == Len(images)
           U(n) == UNION {S[i] : i \in 1 .. n}
<1>1. PICK u \in [1 .. L -> ImageSet(b, P)] :
        /\ u[1] = images[1]
        /\ \A n \in 2 .. L : u[n] = Composite(u[n - 1], images[n])
        /\ CompositeImages(images) = u[L]
  BY CompositeUnfolds
<1>2. L \in Nat /\ 1 \in 1 .. L /\ L \in 1 .. L
  OBVIOUS
<1>3. \A n \in 1 .. L : /\ images[n] \in ImageSet(b, P) /\ S[n] \subseteq Ranks
                        /\ Holds(P, input, images[n], b, S[n])
  OBVIOUS
<1> HIDE DEF L
<1> DEFINE T == {n \in Nat : n + 1 \in 1 .. L => Holds(P, input, u[n + 1], b, U(n + 1))}
<1>4. 0 \in T
  <2>1. U(1) = S[1]
    <3>1. 1 .. 1 = {1}
      OBVIOUS
    <3>2. QED
      BY <3>1
  <2> HIDE DEF U
  <2>2. Holds(P, input, u[1], b, U(1))
    BY <1>1, <1>2, <1>3, <2>1
  <2>3. 0 + 1 = 1
    OBVIOUS
  <2>4. QED
    BY <2>2, <2>3
<1>5. ASSUME NEW m \in Nat, m \in T PROVE m + 1 \in T
  <2> SUFFICES ASSUME (m + 1) + 1 \in 1 .. L
               PROVE  Holds(P, input, u[(m + 1) + 1], b, U((m + 1) + 1))
    OBVIOUS
  <2> DEFINE k == m + 1
             n == (m + 1) + 1
  <2>1. k \in 1 .. L /\ n - 1 = k /\ n \in 2 .. L /\ n \in 1 .. L /\ n = k + 1 /\ k \in Nat
    BY <1>2
  <2>2. Holds(P, input, u[k], b, U(k))
    BY <1>5, <2>1
  <2>3. U(n) = U(k) \cup S[n]
    <3> HIDE DEF k, n
    <3>1. 1 .. n = (1 .. k) \cup {n}
      BY <2>1
    <3>2. QED
      BY <3>1
  <2>4. U(k) \subseteq Ranks /\ S[n] \subseteq Ranks
    <3>1. \A i \in 1 .. k : i \in 1 .. L
      BY <1>2, <2>1
    <3> HIDE DEF k, n
    <3>2. QED
      BY <1>3, <2>1, <3>1
  <2> HIDE DEF k, n, U, T
  <2>5. u[n] = Composite(u[k], images[n]) /\ u[k] \in ImageSet(b, P) /\ u[n] \in ImageSet(b, P)
        /\ images[n] \in ImageSet(b, P) /\ Holds(P, input, images[n], b, S[n])
    BY <1>1, <1>3, <2>1
  <2>6. ASSUME NEW p \in Points, Inside(b, p)
        PROVE  Right(input, PixelAt(u[n], p), p, U(n))
    <3> DEFINE x == PixelAt(u[k], p)
               y == PixelAt(images[n], p)
    <3>1. x \in P /\ y \in P
      BY <2>5, <2>6, PixelAtType
    <3>2. PixelAt(u[n], p) = MergePixel(x, y)
      BY <2>5, <2>6, CompositeIs
    <3>3. Best(input, x, p, U(k)) /\ Best(input, y, p, S[n])
      BY <2>2, <2>5, <2>6 DEF Holds, Right
    <3> HIDE DEF x, y
    <3>4. MergePixel(x, y) = NearerPixel(x, y)
      BY DEF MergePixel
    <3>5. \A q \in U(k) \cup S[n] : Drawn(input, p, q).depth \in Int
      <4> SUFFICES ASSUME NEW q \in Ranks PROVE Drawn(input, p, q).depth \in Int
        BY <2>4
      <4>1. Inside(Frame(input), p)
        BY <2>6, FrameGood, WithinInside
      <4>2. Drawn(input, p, q) \in P
        BY <4>1, DrawnType
      <4>3. QED
        BY <4>2 DEF Closed, Pixel
    <3>6. x \in Pixel /\ y \in Pixel
      BY <3>1 DEF Closed
    <3>7. Best(input, NearerPixel(x, y), p, U(k) \cup S[n])
      BY <3>3, <3>5, <3>6, NearerBest
    <3>8. QED
      BY <2>3, <3>2, <3>4, <3>7 DEF Right
  <2>7. Holds(P, input, u[n], b, U(n))
    BY <2>5, <2>6 DEF Holds
  <2>8. QED
    BY <2>7 DEF n
<1>6. Nat \subseteq T
  <2> HIDE DEF T
  <2>1. QED
    BY <1>4, <1>5, NatInductionSet
<1>7. Holds(P, input, u[L], b, U(L))
  <2>1. L - 1 \in Nat /\ (L - 1) + 1 = L
    BY <1>2
  <2>2. L - 1 \in T
    BY <1>6, <2>1
  <2> HIDE DEF U
  <2>3. QED
    BY <1>2, <2>1, <2>2
<1>8. QED
  BY <1>1, <1>7 DEF L

LEMMA FirstOnes ==
  ASSUME NEW S, NEW L \in Nat, NEW key \in [1 .. L -> S], NEW n \in 1 .. L
  PROVE  /\ [i \in 1 .. n |-> key[i]] \in Seq(S)
         /\ Len([i \in 1 .. n |-> key[i]]) = n
         /\ \A i \in 1 .. n : [j \in 1 .. n |-> key[j]][i] = key[i]
<1> DEFINE f == [i \in 1 .. n |-> key[i]]
<1>1. n \in Nat /\ \A i \in 1 .. n : i \in 1 .. L
  OBVIOUS
<1>2. \A i \in 1 .. n : key[i] \in S
  BY <1>1
<1>3. f \in [1 .. n -> S] /\ \A i \in 1 .. n : f[i] = key[i]
  BY <1>2
<1> HIDE DEF f
<1>4. f \in Seq(S) /\ Len(f) = n
  BY <1>1, <1>3
<1>5. QED
  BY <1>3, <1>4 DEF f

(* Blending single ranks' pixels lists the ranks in this order.             *)
LEMMA VolumeMerge ==
  ASSUME NEW P, Closed(P), input \in Inputs, input.mode = "volume", NEW b \in Rect,
         NEW images \in Seq(ImageSet(b, P)), Len(images) > 0,
         NEW key \in [1 .. Len(images) -> Ranks],
         \A i \in 1 .. Len(images) : \A p \in Points :
           Inside(b, p) => PixelAt(images[i], p).from = <<key[i]>>
  PROVE  /\ CompositeImages(images) \in ImageSet(b, P)
         /\ \A p \in Points : Inside(b, p) => PixelAt(CompositeImages(images), p).from = key
<1> DEFINE L == Len(images)
           first(n) == [i \in 1 .. n |-> key[i]]
<1>1. PICK u \in [1 .. L -> ImageSet(b, P)] :
        /\ u[1] = images[1]
        /\ \A n \in 2 .. L : u[n] = Composite(u[n - 1], images[n])
        /\ CompositeImages(images) = u[L]
  BY CompositeUnfolds
<1>2. L \in Nat /\ 1 \in 1 .. L /\ L \in 1 .. L
  OBVIOUS
<1>3. \A n \in 1 .. L : images[n] \in ImageSet(b, P)
  OBVIOUS
<1>4. key \in [1 .. L -> Ranks]
  OBVIOUS
<1>5. \A n \in 1 .. L : \A p \in Points : Inside(b, p) => PixelAt(images[n], p).from = <<key[n]>>
  OBVIOUS
<1> HIDE DEF L
<1> SUFFICES ASSUME NEW p \in Points, Inside(b, p) PROVE PixelAt(u[L], p).from = key
  BY <1>1, <1>2
<1> DEFINE T == {n \in Nat : n + 1 \in 1 .. L => PixelAt(u[n + 1], p).from = first(n + 1)}
<1>6. 0 \in T
  <2>1. first(1) = <<key[1]>>
    <3>1. 1 .. 1 = {1}
      OBVIOUS
    <3>2. QED
      BY <3>1
  <2> HIDE DEF first
  <2>2. PixelAt(u[1], p).from = first(1)
    BY <1>1, <1>2, <1>5, <2>1
  <2>3. 0 + 1 = 1
    OBVIOUS
  <2>4. QED
    BY <2>2, <2>3
<1>7. ASSUME NEW m \in Nat, m \in T PROVE m + 1 \in T
  <2> SUFFICES ASSUME (m + 1) + 1 \in 1 .. L
               PROVE  PixelAt(u[(m + 1) + 1], p).from = first((m + 1) + 1)
    OBVIOUS
  <2> DEFINE k == m + 1
             n == (m + 1) + 1
  <2>1. k \in 1 .. L /\ n - 1 = k /\ n \in 2 .. L /\ n \in 1 .. L /\ n = k + 1 /\ k \in Nat
    BY <1>2
  <2>2. PixelAt(u[k], p).from = first(k)
    BY <1>7, <2>1
  <2> HIDE DEF k, n, T
  <2>3. first(k) \in Seq(Ranks) /\ Len(first(k)) = k /\ \A i \in 1 .. k : first(k)[i] = key[i]
    BY <1>2, <1>4, <2>1, FirstOnes
  <2>4. first(n) = first(k) \o <<key[n]>>
    <3> DEFINE f == first(k)
               g == first(n)
    <3>1. \A i \in 1 .. n : g[i] = key[i]
      OBVIOUS
    <3>2. g \in Seq(Ranks) /\ Len(g) = n
      BY <1>2, <1>4, <2>1, FirstOnes
    <3>3. key[n] \in Ranks
      BY <1>4, <2>1
    <3> HIDE DEF f, g
    <3>4. f \o <<key[n]>> \in Seq(Ranks) /\ Len(f \o <<key[n]>>) = n
          /\ \A i \in 1 .. n : (f \o <<key[n]>>)[i] = IF i <= k THEN f[i] ELSE key[n]
      BY <2>1, <2>3, <3>3 DEF f
    <3>5. \A i \in 1 .. n : g[i] = (f \o <<key[n]>>)[i]
      <4> SUFFICES ASSUME NEW i \in 1 .. n PROVE g[i] = (f \o <<key[n]>>)[i]
        OBVIOUS
      <4>1. i \in 1 .. k \/ (i = n /\ ~(i <= k))
        BY <2>1
      <4>2. CASE i \in 1 .. k
        BY <2>1, <2>3, <3>1, <3>4, <4>2 DEF f
      <4>3. CASE i = n /\ ~(i <= k)
        BY <3>1, <3>4, <4>3
      <4>4. QED
        BY <4>1, <4>2, <4>3
    <3>6. g = f \o <<key[n]>>
      BY <3>2, <3>4, <3>5, SeqEqual
    <3>7. QED
      BY <3>6 DEF f, g
  <2> HIDE DEF first
  <2>5. u[n] = Composite(u[k], images[n]) /\ u[k] \in ImageSet(b, P)
        /\ images[n] \in ImageSet(b, P)
    BY <1>1, <1>3, <2>1
  <2> DEFINE x == PixelAt(u[k], p)
             y == PixelAt(images[n], p)
  <2>6. PixelAt(u[n], p) = MergePixel(x, y) /\ y.from = <<key[n]>>
    <3>1. PixelAt(Composite(u[k], images[n]), p) = MergePixel(x, y)
      BY <2>5, CompositeIs
    <3>2. y.from = <<key[n]>>
      BY <1>5, <2>1
    <3>3. QED
      BY <2>5, <3>1, <3>2
  <2>7. MergePixel(x, y).from = x.from \o y.from
    BY DEF MergePixel, BlendPixel
  <2>8. PixelAt(u[n], p).from = first(n)
    BY <2>2, <2>4, <2>6, <2>7
  <2>9. QED
    BY <2>8 DEF n
<1>8. Nat \subseteq T
  <2> HIDE DEF T
  <2>1. QED
    BY <1>6, <1>7, NatInductionSet
<1>9. PixelAt(u[L], p).from = first(L)
  <2>1. L - 1 \in Nat /\ (L - 1) + 1 = L
    BY <1>2
  <2>2. L - 1 \in T
    BY <1>8, <2>1
  <2> HIDE DEF first
  <2>3. QED
    BY <1>2, <2>1, <2>2
<1>10. first(L) = key
  BY <1>4
<1>11. QED
  BY <1>9, <1>10

-----------------------------------------------------------------------------
(* Sorting by the place in the order.                                      *)

Below(key, x) == {y \in Ranks : key[y] < key[x]}

LEMMA RanksFinite == IsFiniteSet(Ranks) /\ Cardinality(Ranks) = N
<1>1. N \in Nat \ {0}
  BY RanksAre
<1>2. 0 \in Int /\ N - 1 \in Int /\ 0 <= N - 1 /\ (N - 1) - 0 + 1 = N
  BY <1>1
<1>3. IsFiniteSet(0 .. (N - 1)) /\ Cardinality(0 .. (N - 1)) = N
  BY <1>1, <1>2, FS_Interval
<1>4. QED
  BY <1>3 DEF Ranks

LEMMA BelowIs ==
  ASSUME NEW key \in [Ranks -> Int], NEW x \in Ranks
  PROVE  /\ IsFiniteSet(Below(key, x))
         /\ Cardinality(Below(key, x)) \in Ranks
<1>1. Below(key, x) \subseteq Ranks /\ x \notin Below(key, x)
  BY DEF Below
<1>2. IsFiniteSet(Below(key, x)) /\ Cardinality(Below(key, x)) <= Cardinality(Ranks)
      /\ (Cardinality(Below(key, x)) = Cardinality(Ranks) => Below(key, x) = Ranks)
  BY <1>1, RanksFinite, FS_Subset
<1>3. Cardinality(Below(key, x)) \in Nat
  BY <1>2, FS_CardinalityType
<1>4. Cardinality(Below(key, x)) # N
  BY <1>1, <1>2, RanksFinite
<1>5. QED
  BY <1>2, <1>3, <1>4, RanksFinite, RanksAre DEF Ranks

LEMMA SortedIs ==
  ASSUME NEW key \in [Ranks -> Int], \A x, y \in Ranks : key[x] = key[y] => x = y
  PROVE  SortedBy(key) \in [1 .. N -> Ranks]
<1> DEFINE f == [x \in Ranks |-> Cardinality(Below(key, x))]
<1>1. f \in [Ranks -> Ranks]
  BY BelowIs
<1>2. ASSUME NEW x \in Ranks, NEW y \in Ranks, key[x] < key[y] PROVE f[x] # f[y]
  <2>1. Below(key, x) \subseteq Below(key, y) /\ x \in Below(key, y) /\ x \notin Below(key, x)
    BY <1>2 DEF Below
  <2>2. Cardinality(Below(key, x)) = Cardinality(Below(key, y))
          => Below(key, x) = Below(key, y)
    BY <2>1, BelowIs, FS_Subset
  <2>3. QED
    BY <2>1, <2>2
<1>3. \A x, y \in Ranks : key[x] \in Int /\ key[y] \in Int
                          /\ (x # y => key[x] < key[y] \/ key[y] < key[x])
  OBVIOUS
<1> HIDE DEF f
<1>4. f \in Injection(Ranks, Ranks)
  <2>1. \A x, y \in Ranks : f[x] = f[y] => x = y
    BY <1>2, <1>3
  <2>2. QED
    BY <1>1, <2>1 DEF Injection, IsInjective
<1>5. f \in Surjection(Ranks, Ranks)
  BY <1>4, RanksFinite, FS_Injection
<1>6. \A i \in 1 .. N : \E x \in Ranks : f[x] = i - 1
  <2> SUFFICES ASSUME NEW i \in 1 .. N PROVE \E x \in Ranks : f[x] = i - 1
    OBVIOUS
  <2>1. i - 1 \in Ranks
    BY RanksAre DEF Ranks
  <2>2. QED
    BY <1>5, <2>1 DEF Surjection
<1>7. DOMAIN key = Ranks
  OBVIOUS
<1>8. SortedBy(key) = [i \in 1 .. N |-> CHOOSE x \in Ranks : Cardinality(Below(key, x)) = i - 1]
  BY <1>7, RanksFinite DEF SortedBy, Below
<1>9. \A i \in 1 .. N : (CHOOSE x \in Ranks : Cardinality(Below(key, x)) = i - 1) \in Ranks
  BY <1>6 DEF f
<1>10. QED
  BY <1>8, <1>9

LEMMA OrderedIs ==
  ASSUME NEW key \in [Ranks -> Int], \A x, y \in Ranks : key[x] = key[y] => x = y,
         NEW images, DOMAIN images = Ranks, \A r \in Ranks : images[r].order = key[r]
  PROVE  Ordered(images) = [i \in 1 .. N |-> images[SortedBy(key)[i]]]
<1>1. [r \in DOMAIN images |-> images[r].order] = key
  OBVIOUS
<1>2. DOMAIN SortedBy(key) = 1 .. N
  BY SortedIs
<1>3. QED
  BY <1>1, <1>2 DEF Ordered

-----------------------------------------------------------------------------
(* Collecting the pieces.                                                  *)

(* CollectReceive: c writes the pieces in m onto the first image.           *)
Gathering(c, first, m, n) ==
  [s \in Ranks |-> IF s = 0 THEN first ELSE SubsetTo(m[<<s, 0, n>>], c[s - 1])]

LEMMA GatheringExists ==
  ASSUME NEW P, NEW w \in Rect, NEW box \in [Ranks -> Rect], NEW m, NEW n,
         NEW first \in ImageSet(w, P),
         \A s \in Ranks \ {0} : m[<<s, 0, n>>] \in ImageSet(box[s], P)
  PROVE  \E c : c = Gathering(c, first, m, n)
<1> DEFINE S == ImageSet(w, P)
           step == [x \in Nat \X S |->
                      IF x[1] \in Ranks \ {0} THEN SubsetTo(m[<<x[1], 0, n>>], x[2]) ELSE x[2]]
<1>1. ASSUME NEW s \in Ranks \ {0}, NEW f \in S PROVE SubsetTo(m[<<s, 0, n>>], f) \in S
  <2> DEFINE piece == m[<<s, 0, n>>]
  <2>1. piece \in ImageSet(box[s], P) /\ box[s] \in Rect
    OBVIOUS
  <2> HIDE DEF piece
  <2>2. QED
    BY <2>1, SubsetToWrites
<1> HIDE DEF S
<1>2. step \in [Nat \X S -> S]
  BY <1>1
<1>3. \A s \in Nat : \A f \in S :
        s \in Ranks \ {0} => step[<<s, f>>] = SubsetTo(m[<<s, 0, n>>], f)
  OBVIOUS
<1>4. first \in S
  BY DEF S
<1> HIDE DEF step
<1>5. PICK g \in [Nat -> S] : StepsFrom(g, first, step)
  BY <1>2, <1>4, IterationExists
<1> DEFINE c == [s \in Ranks |-> g[s]]
<1>6. \A s \in Ranks : c[s] = IF s = 0 THEN first ELSE SubsetTo(m[<<s, 0, n>>], c[s - 1])
  <2> SUFFICES ASSUME NEW s \in Ranks
               PROVE  c[s] = IF s = 0 THEN first ELSE SubsetTo(m[<<s, 0, n>>], c[s - 1])
    OBVIOUS
  <2>1. CASE s = 0
    BY <1>5, <2>1 DEF StepsFrom
  <2>2. CASE s # 0
    <3>1. s \in Nat \ {0} /\ s - 1 \in Nat /\ s - 1 \in Ranks
      BY <2>2, RanksAre DEF Ranks
    <3>2. c[s - 1] = g[s - 1] /\ c[s] = g[s]
      BY <3>1
    <3>3. g[s] = step[<<s, g[s - 1]>>] /\ g[s - 1] \in S
      BY <1>5, <3>1 DEF StepsFrom
    <3> HIDE DEF c
    <3>4. c[s] = SubsetTo(m[<<s, 0, n>>], c[s - 1])
      BY <1>3, <2>2, <3>1, <3>2, <3>3
    <3>5. QED
      BY <2>2, <3>4
  <2>3. QED
    BY <2>1, <2>2
<1>7. c = [s \in Ranks |-> c[s]]
  OBVIOUS
<1> HIDE DEF c
<1>8. c = Gathering(c, first, m, n)
  BY <1>6, <1>7 DEF Gathering
<1>9. QED
  BY <1>8

(* When the pieces are right and leave nothing out, so is the image made    *)
(* of them.                                                                *)
(* What rank 0 gathers: its own part, right where it is its own, the parts  *)
(* of the others in their messages, and between them every point.          *)
StartsRight(in, first, w, own) ==
  \A p \in Points : Inside(w, p) /\ Inside(own, p) => Right(in, PixelAt(first, p), p, Ranks)

OthersHold(P, in, m, n, box) ==
  \A s \in Ranks \ {0} : Holds(P, in, m[<<s, 0, n>>], box[s], Ranks)

TilesAll(box, w) == \A p \in Points : Inside(w, p) => \E s \in Ranks : Inside(box[s], p)

LEMMA GatheringHolds ==
  ASSUME NEW P, NEW in, NEW w \in Rect, NEW box \in [Ranks -> Rect], NEW m, NEW n,
         NEW first \in ImageSet(w, P),
         StartsRight(in, first, w, box[0]), OthersHold(P, in, m, n, box), TilesAll(box, w)
  PROVE  Holds(P, in, (CHOOSE c : c = Gathering(c, first, m, n))[N - 1], w, Ranks)
<1> DEFINE c == CHOOSE c : c = Gathering(c, first, m, n)
<1>1. \A s \in Ranks \ {0} :
        /\ m[<<s, 0, n>>] \in ImageSet(box[s], P)
        /\ \A p \in Points : Inside(box[s], p) => Right(in, PixelAt(m[<<s, 0, n>>], p), p, Ranks)
  BY DEF Holds, OthersHold
<1> USE DEF StartsRight, TilesAll
<1>2. c = Gathering(c, first, m, n)
  BY <1>1, GatheringExists
<1> HIDE DEF c
<1>3. \A s \in Ranks : c[s] = IF s = 0 THEN first ELSE SubsetTo(m[<<s, 0, n>>], c[s - 1])
  BY <1>2 DEF Gathering
<1> DEFINE Seen(s, p) == \E t \in Ranks : t <= s /\ Inside(box[t], p)
           Good(s) == /\ c[s] \in ImageSet(w, P)
                      /\ \A p \in Points :
                           Inside(w, p) /\ Seen(s, p) => Right(in, PixelAt(c[s], p), p, Ranks)
           T == {s \in Nat : s \in Ranks => Good(s)}
<1>4. 0 \in T
  <2>1. c[0] = first
    BY <1>3, RanksAre
  <2>2. \A p \in Points : Seen(0, p) => Inside(box[0], p)
    <3>1. \A t \in Ranks : t <= 0 => t = 0
      BY RanksAre
    <3>2. QED
      BY <3>1
  <2>3. QED
    BY <2>1, <2>2
<1>5. ASSUME NEW k \in Nat, k \in T PROVE k + 1 \in T
  <2> SUFFICES ASSUME k + 1 \in Ranks PROVE Good(k + 1)
    OBVIOUS
  <2> DEFINE s == k + 1
             piece == m[<<s, 0, n>>]
  <2>1. s \in Ranks \ {0} /\ s - 1 = k /\ k \in Ranks /\ s # 0 /\ s = k + 1
    BY RanksAre DEF Ranks
  <2>2. Good(k)
    BY <1>5, <2>1
  <2> HIDE DEF s, T
  <2>3. c[s] = SubsetTo(piece, c[k])
    BY <1>3, <2>1
  <2>4. /\ piece \in ImageSet(box[s], P) /\ box[s] \in Rect
        /\ \A p \in Points : Inside(box[s], p) => Right(in, PixelAt(piece, p), p, Ranks)
    BY <1>1, <2>1
  <2> HIDE DEF piece
  <2>5. c[s] \in ImageSet(w, P)
        /\ \A p \in Points : Inside(w, p) =>
             PixelAt(c[s], p) = IF Inside(box[s], p) THEN PixelAt(piece, p) ELSE PixelAt(c[k], p)
    <3>1. c[k] \in ImageSet(w, P)
      BY <2>2
    <3>2. QED
      BY <2>3, <2>4, <3>1, SubsetToWrites
  <2>6. ASSUME NEW p \in Points, Inside(w, p), Seen(s, p)
        PROVE  Right(in, PixelAt(c[s], p), p, Ranks)
    <3>1. CASE Inside(box[s], p)
      BY <2>4, <2>5, <2>6, <3>1
    <3>2. CASE ~Inside(box[s], p)
      <4>1. PICK t \in Ranks : t <= s /\ Inside(box[t], p)
        BY <2>6
      <4>2. t # s
        BY <3>2, <4>1
      <4>3. t <= k
        BY <2>1, <4>1, <4>2, RanksAre
      <4>4. Seen(k, p)
        BY <4>1, <4>3
      <4>5. PixelAt(c[s], p) = PixelAt(c[k], p)
        BY <2>5, <2>6, <3>2
      <4>6. QED
        BY <2>2, <2>6, <4>4, <4>5
    <3>3. QED
      BY <3>1, <3>2
  <2>7. Good(s)
    BY <2>5, <2>6
  <2>8. QED
    BY <2>7 DEF s
<1>6. Nat \subseteq T
  <2> HIDE DEF T
  <2>1. QED
    BY <1>4, <1>5, NatInductionSet
<1>7. N - 1 \in Ranks /\ N - 1 \in Nat
  BY RanksAre DEF Ranks
<1>8. Good(N - 1)
  BY <1>6, <1>7
<1>9. \A p \in Points : Inside(w, p) => Seen(N - 1, p)
  <2>1. \A t \in Ranks : t <= N - 1
    BY RanksAre DEF Ranks
  <2>2. QED
    BY <2>1
<1>10. Holds(P, in, c[N - 1], w, Ranks)
  BY <1>8, <1>9 DEF Holds
<1>11. QED
  BY <1>10 DEF c

-----------------------------------------------------------------------------
(* What the images show.  While a surface is reduced, a rank holds its piece *)
(* with the pixels of the ranks whose images it has taken in before, and    *)
(* what is sent to it is about this piece.                                 *)

Piece(in, rs, dv, n, r) == Pieces(rs, dv, Frame(in))[n][r]

LastPiece(in, rs, dv, r) ==
  IF in.mode = "surface" THEN Piece(in, rs, dv, Len(rs), r)
  ELSE BlockBounds(Frame(in), dv, r)

Before(n) == IF n = 0 THEN 0 ELSE n - 1

RankImage(P, in, rs, dv, r, label, n, img) ==
  /\ label \in {"start", "error", "redistribute", "blend"} => img = FirstImage(in, r)
  /\ label = "reduce" =>
       Holds(P, in, img, Piece(in, rs, dv, n, r), Shares(rs, dv)[Before(n)][r])
  /\ label \in {"barrier", "collect"} => Holds(P, in, img, LastPiece(in, rs, dv, r), Ranks)
  /\ label = "done" /\ r = 0 => Holds(P, in, img, Frame(in), Ranks)
  /\ label = "done" /\ r # 0 => img.pixels = <<>>

SlotImage(P, in, rs, dv, s, t, n, img) ==
  /\ s # 0 /\ n = Len(rs) + 1 => Holds(P, in, img, LastPiece(in, rs, dv, s), Ranks)
  /\ in.mode = "surface" /\ n <= Len(rs) =>
       Holds(P, in, img, Piece(in, rs, dv, n, t), Shares(rs, dv)[n - 1][s])
  /\ in.mode = "volume" /\ n = 1 =>
       img = SubsetFrom(FirstImage(in, s), BlockBounds(Frame(in), dv, t))

ImagesInv(P) ==
  /\ DOMAIN image = Ranks
  /\ \A r \in Ranks : RankImage(P, input, rounds, divs, r, pc[r], round[r], image[r])
  /\ \A m \in DOMAIN mail : SlotImage(P, input, rounds, divs, m[1], m[2], m[3], mail[m])

(* One rank goes on; the others keep what they have. *)
LEMMA OneRank ==
  ASSUME NEW P, ImagesInv(P), UNCHANGED setup, NEW r \in Ranks, DOMAIN image' = Ranks,
         \A q \in Ranks \ {r} :
           pc'[q] = pc[q] /\ round'[q] = round[q] /\ image'[q] = image[q],
         RankImage(P, input, rounds, divs, r, pc'[r], round'[r], image'[r]),
         \A m \in DOMAIN mail' :
           \/ m \in DOMAIN mail /\ mail'[m] = mail[m]
           \/ SlotImage(P, input, rounds, divs, m[1], m[2], m[3], mail'[m])
  PROVE  ImagesInv(P)'
<1>1. input' = input /\ rounds' = rounds /\ divs' = divs
  BY DEF setup
<1>2. \A q \in Ranks : RankImage(P, input, rounds, divs, q, pc'[q], round'[q], image'[q])
  BY Zenon DEF ImagesInv
<1>3. \A m \in DOMAIN mail' : SlotImage(P, input, rounds, divs, m[1], m[2], m[3], mail'[m])
  BY Zenon DEF ImagesInv
<1>4. QED
  BY <1>1, <1>2, <1>3, Zenon DEF ImagesInv

LEMMA GridIs ==
  ASSUME ExchangeInv, divs # <<>>
  PROVE  /\ input \in Inputs /\ GoodGrid(rounds, divs)
         /\ Divides(divs, Frame(input), N) /\ Frame(input) \in Rect
BY FrameIs, FrameGood DEF ExchangeInv, SetupInv

LEMMA PieceFacts ==
  ASSUME NEW in \in Inputs, NEW rs, NEW dv, GoodGrid(rs, dv)
  PROVE  /\ \A r \in Ranks : /\ Piece(in, rs, dv, 0, r) = Frame(in)
                             /\ Shares(rs, dv)[0][r] = {r}
         /\ \A n \in 0 .. Len(rs) : \A r \in Ranks :
              /\ Piece(in, rs, dv, n, r) \in Rect
              /\ Within(Piece(in, rs, dv, n, r), Frame(in))
         /\ \A p \in Points : Inside(Frame(in), p) =>
              \E r \in Ranks : Inside(Piece(in, rs, dv, Len(rs), r), p)
<1>1. Frame(in) \in Rect
  BY FrameGood
<1>2. PiecesAre(Pieces(rs, dv, Frame(in)), rs, dv, Frame(in))
  BY <1>1, PiecesExist
<1>3. SharesAre(Shares(rs, dv), rs, dv)
  BY SharesExist
<1>4. \A r \in Ranks : Piece(in, rs, dv, 0, r) = Frame(in)
  BY <1>2 DEF PiecesAre, Piece
<1>5. \A r \in Ranks : Shares(rs, dv)[0][r] = {r}
  BY <1>3 DEF SharesAre
<1>6. Len(rs) \in Nat
  BY GridFacts
<1>7. \A n \in 0 .. Len(rs) :
        /\ \A r \in Ranks : /\ Piece(in, rs, dv, n, r) \in Rect
                            /\ Within(Piece(in, rs, dv, n, r), Frame(in))
        /\ \A p \in Points : Inside(Frame(in), p) =>
              \E r \in Ranks : Inside(Piece(in, rs, dv, n, r), p)
  BY <1>1, PiecesCover, Zenon DEF Piece
<1>8. Len(rs) \in 0 .. Len(rs)
  BY <1>6
<1>9. QED
  BY <1>4, <1>5, <1>7, <1>8, Zenon

(* Every rank ends with a part of the whole image, and the ranks' parts     *)
(* leave nothing out.                                                      *)
LEMMA LastCover ==
  ASSUME NEW in \in Inputs, NEW rs, NEW dv, GoodGrid(rs, dv), Divides(dv, Frame(in), N)
  PROVE  /\ \A r \in Ranks : /\ LastPiece(in, rs, dv, r) \in Rect
                             /\ Within(LastPiece(in, rs, dv, r), Frame(in))
         /\ \A p \in Points : Inside(Frame(in), p) =>
              \E r \in Ranks : Inside(LastPiece(in, rs, dv, r), p)
<1>1. Frame(in) \in Rect /\ N \in Nat /\ Blocks(dv) = Ranks /\ Len(rs) \in Nat
  BY FrameGood, CompositingAssumption, GridFacts
<1>2. CASE in.mode = "surface"
  <2>1. \A r \in Ranks : LastPiece(in, rs, dv, r) = Piece(in, rs, dv, Len(rs), r)
    BY <1>2 DEF LastPiece
  <2>2. Len(rs) \in 0 .. Len(rs)
    BY <1>1
  <2>3. /\ \A n \in 0 .. Len(rs) : \A r \in Ranks :
             /\ Piece(in, rs, dv, n, r) \in Rect
             /\ Within(Piece(in, rs, dv, n, r), Frame(in))
        /\ \A p \in Points : Inside(Frame(in), p) =>
             \E r \in Ranks : Inside(Piece(in, rs, dv, Len(rs), r), p)
    BY PieceFacts, Zenon
  <2>4. ASSUME NEW r \in Ranks
        PROVE  /\ LastPiece(in, rs, dv, r) \in Rect
               /\ Within(LastPiece(in, rs, dv, r), Frame(in))
    BY <2>1, <2>2, <2>3, Zenon
  <2>5. ASSUME NEW p \in Points, Inside(Frame(in), p)
        PROVE  \E r \in Ranks : Inside(LastPiece(in, rs, dv, r), p)
    BY <2>1, <2>3, <2>5, Zenon
  <2>6. QED
    BY <2>4, <2>5, Zenon
<1>3. CASE in.mode # "surface"
  <2>1. \A r \in Ranks : LastPiece(in, rs, dv, r) = BlockBounds(Frame(in), dv, r)
    BY <1>3 DEF LastPiece
  <2>2. /\ \A r \in Ranks : /\ BlockBounds(Frame(in), dv, r) \in Rect
                            /\ Within(BlockBounds(Frame(in), dv, r), Frame(in))
        /\ \A p \in Points : Inside(Frame(in), p) =>
              \E r \in Ranks : Inside(BlockBounds(Frame(in), dv, r), p)
    BY <1>1, BlockGood, Zenon
  <2>3. QED
    BY <2>1, <2>2, Zenon
<1>4. QED
  BY <1>2, <1>3

LEMMA StartImages ==
  ASSUME NEW P, Closed(P), ExchangeInv, ImagesInv(P), NEW r \in Ranks, Start(r)
  PROVE  ImagesInv(P)'
<1>1. /\ pc[r] = "start" /\ UNCHANGED <<setup, round, image, mail>>
      /\ pc' = [pc EXCEPT ![r] = IF divs = <<>> THEN "error"
                 ELSE IF input.mode = "surface" THEN "reduce" ELSE "redistribute"]
  BY DEF Start, GoTo
<1>2. pc \in [Ranks -> Labels]
  BY DEF ExchangeInv, PlaceInv
<1>3. pc'[r] = (IF divs = <<>> THEN "error"
                 ELSE IF input.mode = "surface" THEN "reduce" ELSE "redistribute")
      /\ \A q \in Ranks \ {r} : pc'[q] = pc[q]
  BY <1>1, <1>2
<1>4. image[r] = FirstImage(input, r)
  BY <1>1 DEF ImagesInv, RankImage
<1>5. RankImage(P, input, rounds, divs, r, pc'[r], round'[r], image'[r])
  <2>1. CASE pc'[r] # "reduce"
    <3>1. pc'[r] \in {"error", "redistribute"}
      BY <1>3, <2>1
    <3>2. QED
      BY <1>1, <1>4, <3>1 DEF RankImage
  <2>2. CASE pc'[r] = "reduce"
    <3>1. divs # <<>> /\ input.mode = "surface"
      BY <1>3, <2>2
    <3>2. round[r] = 0
      BY <1>1 DEF ExchangeInv, PlaceInv
    <3>3. input \in Inputs /\ GoodGrid(rounds, divs)
      BY <3>1, GridIs
    <3>4. /\ Piece(input, rounds, divs, 0, r) = Frame(input)
          /\ Shares(rounds, divs)[0][r] = {r}
      BY <3>3, PieceFacts
    <3>5. Holds(P, input, image[r], Frame(input), {r})
      BY <1>4, <3>1, <3>3, FirstHolds
    <3>6. Before(0) = 0
      BY DEF Before
    <3>7. Holds(P, input, image'[r], Piece(input, rounds, divs, round'[r], r),
                Shares(rounds, divs)[Before(round'[r])][r])
      BY <1>1, <3>2, <3>4, <3>5, <3>6
    <3>8. QED
      BY <2>2, <3>7 DEF RankImage
  <2>3. QED
    BY <2>1, <2>2
<1>6. DOMAIN image' = Ranks /\ UNCHANGED setup
  BY <1>1 DEF ImagesInv
<1>7. \A q \in Ranks \ {r} :
           pc'[q] = pc[q] /\ round'[q] = round[q] /\ image'[q] = image[q]
  BY <1>1, <1>3
<1>8. \A m \in DOMAIN mail' : m \in DOMAIN mail /\ mail'[m] = mail[m]
  BY <1>1
<1>9. QED
  BY <1>5, <1>6, <1>7, <1>8, OneRank, Zenon

(* The partners of r in a round: as many as the round groups, each at the   *)
(* place its position along the round's dimension gives it.                *)
Placed(rd, dv, r) ==
  LET group == Partners(rd, dv, r)
  IN  /\ group \in Seq(Ranks)
      /\ Len(group) = rd.size
      /\ \A j, k \in 1 .. rd.size : group[j] = group[k] => j = k
      /\ \A s \in Peers(rd, dv, r) : /\ Pos(rd, dv, s) + 1 \in 1 .. rd.size
                                     /\ Place(s, group) = Pos(rd, dv, s) + 1
                                     /\ group[Pos(rd, dv, s) + 1] = s

LEMMA PlaceIs ==
  ASSUME NEW rs, NEW dv, GoodGrid(rs, dv), NEW n \in 1 .. Len(rs), NEW r \in Ranks
  PROVE  Placed(rs[n], dv, r)
<1> DEFINE group == Partners(rs[n], dv, r)
           size == rs[n].size
<1>1. /\ dv \in Left /\ Blocks(dv) = Ranks /\ rs[n] \in Round /\ CutBy(rs[n], dv)
      /\ r \in Blocks(dv)
  BY GridFacts
<1>2. size \in Nat
  BY <1>1 DEF Round
<1>3. GroupOf(group, rs[n], dv, r)
  BY <1>1, Members
<1> HIDE DEF group, size
<1>4. group \in [1 .. size -> Ranks]
  BY <1>1, <1>3 DEF GroupOf, size
<1>5. \A j \in 1 .. size : j \in Int /\ Pos(rs[n], dv, group[j]) = j - 1
  <2>1. \A j \in 1 .. size : Pos(rs[n], dv, group[j]) = j - 1
    BY <1>3, Zenon DEF GroupOf, size
  <2>2. \A j \in 1 .. size : j \in Int
    BY <1>2
  <2>3. QED
    BY <2>1, <2>2
<1>6. group \in Seq(Ranks) /\ Len(group) = size
  BY <1>2, <1>4
<1>7. \A j, k \in 1 .. size : group[j] = group[k] => j = k
  <2> SUFFICES ASSUME NEW j \in 1 .. size, NEW k \in 1 .. size, group[j] = group[k]
               PROVE  j = k
    OBVIOUS
  <2>1. j - 1 = k - 1
    BY <1>5
  <2>2. QED
    BY <1>2, <2>1
<1>8. ASSUME NEW s \in ToSet(group)
      PROVE  /\ Pos(rs[n], dv, s) + 1 \in 1 .. size
             /\ Place(s, group) = Pos(rs[n], dv, s) + 1
             /\ group[Pos(rs[n], dv, s) + 1] = s
  <2>1. PICK j \in 1 .. size : s = group[j]
    BY <1>4 DEF ToSet
  <2>2. Pos(rs[n], dv, s) + 1 = j
    <3>1. j \in Int /\ Pos(rs[n], dv, s) = j - 1
      BY <1>5, <2>1
    <3>2. QED
      BY <3>1
  <2>3. Place(s, group) = j
    <3>1. DOMAIN group = 1 .. size
      BY <1>4
    <3>2. \A i \in DOMAIN group : group[i] = s <=> i = j
      BY <1>7, <2>1, <3>1
    <3>3. QED
      BY <3>1, <3>2, Zenon DEF Place
  <2>4. QED
    BY <2>1, <2>2, <2>3
<1>9. QED
  BY <1>6, <1>7, <1>8 DEF group, size, Peers, Placed

(* Lists of images that follow one image. *)
LEMMA AndThen ==
  ASSUME NEW S, NEW x \in S, NEW L \in Nat, NEW f \in [1 .. L -> S]
  PROVE  /\ <<x>> \o f \in Seq(S) /\ Len(<<x>> \o f) = L + 1
         /\ (<<x>> \o f)[1] = x
         /\ \A i \in 2 .. L + 1 : (<<x>> \o f)[i] = f[i - 1]
<1>1. f \in Seq(S) /\ Len(f) = L /\ <<x>> \in Seq(S) /\ Len(<<x>>) = 1
  OBVIOUS
<1>2. /\ <<x>> \o f \in Seq(S)
      /\ Len(<<x>> \o f) = 1 + L
      /\ \A i \in 1 .. 1 + L :
           (<<x>> \o f)[i] = IF i <= 1 THEN <<x>>[i] ELSE f[i - 1]
  BY <1>1, ConcatProperties
<1>3. QED
  BY <1>2

(* What a surface's rank holds once it has taken in what came in. *)
LEMMA MergedHolds ==
  ASSUME NEW P, Closed(P), ExchangeInv, ImagesInv(P), NEW r \in Ranks,
         pc[r] = "reduce", Arrived(r)
  PROVE  Holds(P, input, Merged(r), Piece(input, rounds, divs, round[r], r),
               Shares(rounds, divs)[round[r]][r])
<1> DEFINE n == round[r]
           b == Piece(input, rounds, divs, n, r)
<1>1. /\ input.mode = "surface" /\ divs # <<>>
      /\ n \in 0 .. Len(rounds)
  BY ExchangeFacts DEF ExchangeInv, PlaceInv
<1>2. input \in Inputs /\ GoodGrid(rounds, divs) /\ Len(rounds) \in Nat
  BY <1>1, GridIs, ExchangeFacts
<1>3. Holds(P, input, image[r], b, Shares(rounds, divs)[Before(n)][r])
  BY DEF ImagesInv, RankImage
<1>4. CASE n = 0
  BY <1>3, <1>4 DEF Merged, Before
<1>5. CASE n # 0
  <2> DEFINE group == Partners(rounds[n], divs, r)
             others == RemoveAt(group, Place(r, group))
             A == Shares(rounds, divs)
             L == Len(others)
             f == [j \in DOMAIN others |-> mail[<<others[j], r, n>>]]
             images == <<image[r]>> \o f
             S == [i \in 1 .. L + 1 |-> IF i = 1 THEN A[n - 1][r] ELSE A[n - 1][others[i - 1]]]
  <2>1. n \in 1 .. Len(rounds)
    BY <1>1, <1>2, <1>5
  <2>2. Merged(r) = CompositeImages(images)
    BY <1>5 DEF Merged
  <2>3. /\ group \in Seq(Ranks) /\ Len(group) = rounds[n].size
        /\ \A j, k \in 1 .. Len(group) : group[j] = group[k] => j = k
        /\ Place(r, group) \in 1 .. Len(group) /\ group[Place(r, group)] = r
        /\ ToSet(group) = Peers(rounds[n], divs, r)
    <3>1. r \in Peers(rounds[n], divs, r)
      BY <1>2, <2>1, PeersAgree
    <3>2. /\ group \in Seq(Ranks) /\ Len(group) = rounds[n].size
          /\ \A j, k \in 1 .. rounds[n].size : group[j] = group[k] => j = k
          /\ Place(r, group) \in 1 .. rounds[n].size /\ group[Place(r, group)] = r
      <4>1. /\ group \in Seq(Ranks) /\ Len(group) = rounds[n].size
            /\ \A j, k \in 1 .. rounds[n].size : group[j] = group[k] => j = k
            /\ \A t \in Peers(rounds[n], divs, r) :
                 /\ Pos(rounds[n], divs, t) + 1 \in 1 .. rounds[n].size
                 /\ Place(t, group) = Pos(rounds[n], divs, t) + 1
                 /\ group[Pos(rounds[n], divs, t) + 1] = t
        <5>1. Placed(rounds[n], divs, r)
          BY <1>2, <2>1, PlaceIs
        <5>2. QED
          BY <5>1 DEF Placed
      <4>2. Place(r, group) = Pos(rounds[n], divs, r) + 1
        BY <3>1, <4>1
      <4>3. QED
        BY <3>1, <4>1, <4>2
    <3>3. ToSet(group) = Peers(rounds[n], divs, r)
      BY DEF Peers
    <3> HIDE DEF group, n
    <3>4. QED
      BY <3>2, <3>3
  <2> HIDE DEF group
  <2>4. /\ others \in Seq(Ranks) /\ L = Len(group) - 1
        /\ ToSet(others) = Peers(rounds[n], divs, r) \ {r}
    <3>1. /\ others \in Seq(Ranks) /\ L = Len(group) - 1
          /\ ToSet(others) = ToSet(group) \ {group[Place(r, group)]}
      BY <2>3, RemoveAtIs
    <3>2. QED
      BY <2>3, <3>1
  <2> HIDE DEF others
  <2>5. L \in Nat /\ DOMAIN others = 1 .. L /\ others \in [1 .. L -> Ranks]
    BY <2>4
  <2>6. \A j \in 1 .. L : others[j] \in Peers(rounds[n], divs, r) \ {r}
    BY <2>4, <2>5 DEF ToSet
  <2>7. /\ b \in Rect /\ Within(b, Frame(input))
    BY <1>1, <1>2, PieceFacts
  <2>8. SharesAre(A, rounds, divs)
    BY <1>2, SharesExist
  <2>9. \A q \in Ranks : A[n - 1][q] \in SUBSET Ranks
    <3>1. n - 1 \in Nat
      BY <1>1, <1>5
    <3>2. QED
      BY <2>8, <3>1 DEF SharesAre
  <2>10. A[n][r] = UNION {A[n - 1][s] : s \in Peers(rounds[n], divs, r)}
    BY <2>1, <2>8 DEF SharesAre
  <2>11. Holds(P, input, image[r], b, A[n - 1][r])
    BY <1>3, <1>5 DEF Before
  <2>12. ASSUME NEW j \in 1 .. L
         PROVE  Holds(P, input, f[j], b, A[n - 1][others[j]])
    <3> DEFINE s == others[j]
    <3>1. s \in Peers(rounds[n], divs, r) \ {r}
      BY <2>6
    <3>2. <<s, r, n>> \in DOMAIN mail
      <4>1. n > 0
        BY <1>1, <1>5
      <4>2. <<s, r, n>> \in Expected(r)
        <5>1. Expected(r) = {<<q, r, n>> : q \in Peers(rounds[n], divs, r) \ {r}}
          BY <4>1 DEF Expected, Peers
        <5> HIDE DEF n, s
        <5>2. QED
          BY <3>1, <5>1
      <4>3. QED
        BY <4>2 DEF Arrived
    <3>3. SlotImage(P, input, rounds, divs, s, r, n, mail[<<s, r, n>>])
      <4> HIDE DEF s, n
      <4>1. QED
        BY <3>2, Zenon DEF ImagesInv
    <3>4. Holds(P, input, mail[<<s, r, n>>], b, A[n - 1][s])
      <4>1. n <= Len(rounds)
        BY <1>1, <1>2
      <4>2. QED
        BY <1>1, <3>3, <4>1, Zenon DEF SlotImage
    <3>5. f[j] = mail[<<s, r, n>>]
      BY <2>5
    <3>6. QED
      BY <3>4, <3>5
  <2> DEFINE IS == ImageSet(b, P)
  <2>13. image[r] \in IS
    BY <2>11 DEF Holds
  <2>14. f \in [1 .. L -> IS]
    <3>1. \A j \in 1 .. L : f[j] \in IS
      BY <2>12 DEF Holds
    <3>2. f = [j \in 1 .. L |-> f[j]]
      BY <2>5
    <3> HIDE DEF f, IS
    <3>3. QED
      BY <3>1, <3>2
  <2> HIDE DEF f, IS, A, b, n
  <2>15. /\ images \in Seq(IS) /\ Len(images) = L + 1
         /\ images[1] = image[r]
         /\ \A i \in 2 .. L + 1 : images[i] = f[i - 1]
    BY <2>5, <2>13, <2>14, AndThen
  <2> HIDE DEF images
  <2>16. S \in [1 .. L + 1 -> SUBSET Ranks]
    <3>1. ASSUME NEW i \in 1 .. L + 1
          PROVE  (IF i = 1 THEN A[n - 1][r] ELSE A[n - 1][others[i - 1]]) \in SUBSET Ranks
      <4>1. CASE i = 1
        BY <2>9, <4>1
      <4>2. CASE i # 1
        <5>1. i - 1 \in 1 .. L
          BY <2>5, <4>2
        <5>2. others[i - 1] \in Ranks
          BY <2>5, <5>1
        <5>3. QED
          BY <2>9, <4>2, <5>2
      <4>3. QED
        BY <4>1, <4>2
    <3>2. QED
      BY <3>1
  <2>17. /\ S[1] = A[n - 1][r]
         /\ \A i \in 2 .. L + 1 : S[i] = A[n - 1][others[i - 1]]
    BY <2>5
  <2> HIDE DEF S
  <2>18. \A i \in 1 .. L + 1 : Holds(P, input, images[i], b, S[i])
    <3> SUFFICES ASSUME NEW i \in 1 .. L + 1 PROVE Holds(P, input, images[i], b, S[i])
      OBVIOUS
    <3>1. CASE i = 1
      BY <2>11, <2>15, <2>17, <3>1
    <3>2. CASE i # 1
      <4>1. i \in 2 .. L + 1 /\ i - 1 \in 1 .. L
        BY <2>5, <3>2
      <4>2. images[i] = f[i - 1] /\ S[i] = A[n - 1][others[i - 1]]
        BY <2>15, <2>17, <4>1
      <4>3. QED
        BY <2>12, <4>1, <4>2
    <3>3. QED
      BY <3>1, <3>2
  <2>19. UNION {S[i] : i \in 1 .. L + 1} = A[n][r]
    <3>1. ASSUME NEW i \in 1 .. L + 1
          PROVE  \E s \in Peers(rounds[n], divs, r) : S[i] = A[n - 1][s]
      <4>1. CASE i = 1
        <5>1. r \in Peers(rounds[n], divs, r)
          BY <1>2, <2>1, PeersAgree
        <5>2. QED
          BY <2>17, <4>1, <5>1
      <4>2. CASE i # 1
        <5>1. i \in 2 .. L + 1 /\ i - 1 \in 1 .. L
          BY <2>5, <4>2
        <5>2. QED
          BY <2>6, <2>17, <5>1
      <4>3. QED
        BY <4>1, <4>2
    <3>2. ASSUME NEW s \in Peers(rounds[n], divs, r)
          PROVE  \E i \in 1 .. L + 1 : S[i] = A[n - 1][s]
      <4>1. CASE s = r
        <5>1. 1 \in 1 .. L + 1
          BY <2>5
        <5>2. QED
          BY <2>17, <4>1, <5>1
      <4>2. CASE s # r
        <5>1. s \in ToSet(others)
          BY <2>4, <4>2
        <5>2. PICK j \in 1 .. L : others[j] = s
          BY <2>5, <5>1 DEF ToSet
        <5>3. j + 1 \in 2 .. L + 1 /\ (j + 1) - 1 = j /\ j + 1 \in 1 .. L + 1
          BY <2>5
        <5>4. QED
          BY <2>17, <5>2, <5>3
      <4>3. QED
        BY <4>1, <4>2
    <3> HIDE DEF L
    <3>3. QED
      BY <2>10, <3>1, <3>2
  <2>20. Holds(P, input, CompositeImages(images), b, UNION {S[i] : i \in 1 .. Len(images)})
    <3>1. Len(images) > 0
      BY <2>5, <2>15
    <3>2. \A i \in 1 .. Len(images) : Holds(P, input, images[i], b, S[i])
      BY <2>15, <2>18
    <3>3. S \in [1 .. Len(images) -> SUBSET Ranks]
      BY <2>15, <2>16
    <3>4. images \in Seq(ImageSet(b, P))
      BY <2>15 DEF IS
    <3>5. QED
      BY <1>1, <1>2, <2>7, <3>1, <3>2, <3>3, <3>4, SurfaceMerge
  <2>21. Holds(P, input, CompositeImages(images), b, A[n][r])
    BY <2>15, <2>19, <2>20
  <2>22. QED
    BY <2>2, <2>21 DEF A, b, n
<1>6. QED
  BY <1>4, <1>5

(* What a rank leaves in the mail was there before. *)
LEMMA RestIs ==
  ASSUME NEW r
  PROVE  /\ DOMAIN Rest(r) \subseteq DOMAIN mail
         /\ \A m \in DOMAIN Rest(r) : Rest(r)[m] = mail[m]
BY DEF Rest, Restrict

(* The part of a piece that goes to a member of the group. *)
LEMMA PartHolds ==
  ASSUME NEW P, NEW in \in Inputs, NEW rs, NEW dv, GoodGrid(rs, dv),
         NEW n \in 1 .. Len(rs), NEW r \in Ranks, NEW s \in Peers(rs[n], dv, r),
         NEW img, NEW S, Holds(P, in, img, Piece(in, rs, dv, n - 1, r), S)
  PROVE  Holds(P, in,
               SubsetFrom(img, Parts(img.bounds, rs[n].dim, Len(Partners(rs[n], dv, r)))
                                 [Place(s, Partners(rs[n], dv, r))]),
               Piece(in, rs, dv, n, s), S)
<1> DEFINE b == Piece(in, rs, dv, n - 1, r)
           c == Piece(in, rs, dv, n, s)
           i == Pos(rs[n], dv, s) + 1
           size == rs[n].size
           dim == rs[n].dim
<1>1. Frame(in) \in Rect /\ Len(rs) \in Nat
  BY FrameGood, GridFacts
<1>2. /\ Len(Partners(rs[n], dv, r)) = size
      /\ Place(s, Partners(rs[n], dv, r)) = i /\ i \in 1 .. size
  <2>1. Placed(rs[n], dv, r)
    BY PlaceIs
  <2>2. QED
    BY <2>1 DEF Placed
<1>3. c = Parts(b, dim, size)[i]
  BY <1>1, PieceIs DEF Piece
<1>4. img.bounds = b
  BY DEF Holds, ImageSet
<1>5. b \in Rect
  <2>1. n - 1 \in 0 .. Len(rs)
    BY <1>1
  <2>2. QED
    BY <2>1, PieceFacts
<1>6. dim \in Dims /\ size \in Nat \ {0}
  <2>1. rs[n] \in Round
    BY GridFacts
  <2>2. QED
    BY <2>1 DEF Round
<1> HIDE DEF b, i, size, dim, c
<1>7. c \in Rect /\ Within(c, b)
  BY <1>2, <1>3, <1>5, <1>6, PartsGood
<1>8. Holds(P, in, img, b, S)
  BY DEF b
<1>9. Holds(P, in, SubsetFrom(img, c), c, S)
  BY <1>5, <1>7, <1>8, HoldsPart
<1>10. QED
  BY <1>2, <1>3, <1>4, <1>9 DEF c, dim, size, i

LEMMA ReduceImages ==
  ASSUME NEW P, Closed(P), ExchangeInv, ImagesInv(P), NEW r \in Ranks, Reduce(r)
  PROVE  ImagesInv(P)'
<1>1. pc[r] = "reduce" /\ Arrived(r) /\ UNCHANGED setup
  BY DEF Reduce
<1>2. Holds(P, input, Merged(r), Piece(input, rounds, divs, round[r], r),
            Shares(rounds, divs)[round[r]][r])
  BY <1>1, MergedHolds
<1>3. /\ input.mode = "surface" /\ divs # <<>>
      /\ round \in [Ranks -> 0 .. Len(rounds)] /\ pc \in [Ranks -> Labels]
  BY <1>1, ExchangeFacts DEF ExchangeInv, PlaceInv
<1>4. input \in Inputs /\ GoodGrid(rounds, divs) /\ Len(rounds) \in Nat
  BY <1>3, GridIs, ExchangeFacts
<1>5. DOMAIN image = Ranks
  BY DEF ImagesInv
<1>6. CASE round[r] = Len(rounds)
  <2>1. /\ image' = [image EXCEPT ![r] = Merged(r)]
        /\ mail' = Rest(r)
        /\ pc' = [pc EXCEPT ![r] = "collect"]
        /\ round' = round
    BY <1>6, Zenon DEF Reduce, GoTo
  <2>2. Holds(P, input, Merged(r), LastPiece(input, rounds, divs, r), Ranks)
    <3>1. Shares(rounds, divs)[Len(rounds)][r] = Ranks
      BY <1>4, SharesAll
    <3>2. QED
      BY <1>2, <1>3, <1>6, <3>1 DEF LastPiece
  <2>3. image'[r] = Merged(r) /\ pc'[r] = "collect"
    BY <1>3, <1>5, <2>1
  <2>4. RankImage(P, input, rounds, divs, r, pc'[r], round'[r], image'[r])
    BY <2>2, <2>3 DEF RankImage
  <2>5. \A m \in DOMAIN mail' : m \in DOMAIN mail /\ mail'[m] = mail[m]
    BY <2>1, RestIs
  <2>6. /\ DOMAIN image' = Ranks
        /\ \A q \in Ranks \ {r} :
             pc'[q] = pc[q] /\ round'[q] = round[q] /\ image'[q] = image[q]
    BY <1>3, <1>5, <2>1
  <2>7. QED
    BY <1>1, <2>4, <2>5, <2>6, OneRank, Zenon
<1>7. CASE round[r] # Len(rounds)
  <2> DEFINE next == round[r] + 1
             group == Partners(rounds[next], divs, r)
             parts == Parts(Merged(r).bounds, rounds[next].dim, Len(group))
             part(s) == SubsetFrom(Merged(r), parts[Place(s, group)])
             out == {<<r, s, next>> : s \in ToSet(group) \ {r}}
             new == [m \in out |-> part(m[2])]
  <2>1. /\ image' = [image EXCEPT ![r] = part(r)]
        /\ mail' = Enqueue(new, Rest(r))
        /\ round' = [round EXCEPT ![r] = next]
        /\ pc' = pc
    BY <1>7, Zenon DEF Reduce
  <2>2. next \in 1 .. Len(rounds) /\ next - 1 = round[r] /\ Before(next) = round[r]
    BY <1>3, <1>4, <1>7 DEF Before
  <2>3. ToSet(group) = Peers(rounds[next], divs, r) /\ r \in ToSet(group)
    BY <1>4, <2>2, PeersAgree DEF Peers
  <2>4. \A s \in ToSet(group) :
          Holds(P, input, part(s), Piece(input, rounds, divs, next, s),
                Shares(rounds, divs)[round[r]][r])
    <3> SUFFICES ASSUME NEW s \in Peers(rounds[next], divs, r)
                 PROVE  Holds(P, input, part(s), Piece(input, rounds, divs, next, s),
                              Shares(rounds, divs)[round[r]][r])
      BY <2>3, Zenon
    <3>1. Holds(P, input, Merged(r), Piece(input, rounds, divs, next - 1, r),
                Shares(rounds, divs)[round[r]][r])
      BY <1>2, <2>2
    <3> HIDE DEF next
    <3>2. QED
      BY <1>4, <2>2, <3>1, PartHolds, ZenonT(60)
  <2> HIDE DEF part, group
  <2>5. /\ image'[r] = part(r) /\ round'[r] = next /\ pc'[r] = "reduce"
        /\ DOMAIN image' = Ranks
        /\ \A q \in Ranks \ {r} :
             pc'[q] = pc[q] /\ round'[q] = round[q] /\ image'[q] = image[q]
    BY <1>1, <1>3, <1>5, <2>1
  <2> HIDE DEF next
  <2>6. RankImage(P, input, rounds, divs, r, pc'[r], round'[r], image'[r])
    BY <2>2, <2>3, <2>4, <2>5 DEF RankImage
  <2>7. ASSUME NEW m \in DOMAIN mail'
        PROVE  \/ m \in DOMAIN mail /\ mail'[m] = mail[m]
               \/ SlotImage(P, input, rounds, divs, m[1], m[2], m[3], mail'[m])
    <3>1. DOMAIN new = out
      OBVIOUS
    <3> DEFINE rest == Rest(r)
               queue == Enqueue(new, rest)
    <3>2. mail' = queue
      BY <2>1
    <3>3. /\ DOMAIN queue = DOMAIN new \cup DOMAIN rest
          /\ \A k \in DOMAIN new : queue[k] = new[k]
          /\ \A k \in DOMAIN rest \ DOMAIN new : queue[k] = rest[k]
      <4> HIDE DEF new, rest
      <4>1. QED
        BY Enqueued, Zenon
    <3>4. DOMAIN rest \subseteq DOMAIN mail /\ \A k \in DOMAIN rest : rest[k] = mail[k]
      BY RestIs
    <3> HIDE DEF queue, rest
    <3>5. CASE m \in out
      <4>1. PICK s \in ToSet(group) \ {r} : m = <<r, s, next>>
        BY <3>5
      <4>2. mail'[m] = new[m]
        <5> HIDE DEF new
        <5>1. QED
          BY <3>1, <3>5, <3>2, <3>3
      <4>3. new[m] = part(s)
        BY <3>5, <4>1
      <4>4. Holds(P, input, mail'[m], Piece(input, rounds, divs, next, s),
                  Shares(rounds, divs)[next - 1][r])
        BY <2>2, <2>4, <4>1, <4>2, <4>3
      <4>5. m[1] = r /\ m[2] = s /\ m[3] = next
        BY <4>1
      <4>6. next # Len(rounds) + 1
        BY <1>4, <2>2
      <4>7. SlotImage(P, input, rounds, divs, r, s, next, mail'[m])
        BY <1>3, <4>4, <4>6, Zenon DEF SlotImage
      <4>8. QED
        BY <4>5, <4>7
    <3>6. CASE m \notin out
      <4> HIDE DEF out, new
      <4>1. m \in DOMAIN rest \ DOMAIN new
        BY <3>1, <3>6, <3>2, <3>3
      <4>2. QED
        BY <3>2, <3>3, <3>4, <4>1
    <3>7. QED
      BY <3>5, <3>6
  <2>8. QED
    BY <1>1, <2>5, <2>6, <2>7, OneRank, Zenon
<1>8. QED
  BY <1>6, <1>7

LEMMA EnqueuedOne ==
  ASSUME NEW new, NEW queue, NEW m \in DOMAIN Enqueue(new, queue)
  PROVE  \/ m \in DOMAIN new /\ Enqueue(new, queue)[m] = new[m]
         \/ m \in DOMAIN queue /\ Enqueue(new, queue)[m] = queue[m]
<1> DEFINE both == Enqueue(new, queue)
<1>1. /\ DOMAIN both = DOMAIN new \cup DOMAIN queue
      /\ \A k \in DOMAIN new : both[k] = new[k]
      /\ \A k \in DOMAIN queue \ DOMAIN new : both[k] = queue[k]
  BY Enqueued, Zenon
<1>2. m \in DOMAIN both
  OBVIOUS
<1> HIDE DEF both
<1>3. QED
  BY <1>1, <1>2 DEF both

(* Sending a part of one's image to every block. *)
LEMMA RedistributeImages ==
  ASSUME NEW P, Closed(P), ExchangeInv, ImagesInv(P), NEW r \in Ranks, Redistribute(r)
  PROVE  ImagesInv(P)'
<1> DEFINE out == {<<r, s, 1>> : s \in Ranks}
           part(s) == SubsetFrom(image[r], BlockBounds(Whole, divs, s))
           new == [m \in out |-> part(m[2])]
<1>1. /\ pc[r] = "redistribute" /\ UNCHANGED <<setup, round, image>>
      /\ mail' = Enqueue(new, mail)
      /\ pc' = [pc EXCEPT ![r] = "blend"]
  BY DEF Redistribute, GoTo
<1>2. /\ input.mode = "volume" /\ divs # <<>> /\ pc \in [Ranks -> Labels]
      /\ Len(rounds) \in Nat /\ Len(rounds) = 0 => N = 1
  BY <1>1, ExchangeFacts DEF ExchangeInv, PlaceInv
<1>3. image[r] = FirstImage(input, r) /\ DOMAIN image = Ranks
  BY <1>1 DEF ImagesInv, RankImage
<1>4. RankImage(P, input, rounds, divs, r, pc'[r], round'[r], image'[r])
  <2>1. pc'[r] = "blend"
    BY <1>1, <1>2
  <2>2. QED
    BY <1>1, <1>3, <2>1 DEF RankImage
<1>5. ASSUME NEW s \in Ranks, NEW m, m = <<r, s, 1>>
      PROVE  SlotImage(P, input, rounds, divs, m[1], m[2], m[3], new[m])
  <2>1. m \in out
    BY <1>5
  <2>2. m[1] = r /\ m[2] = s /\ m[3] = 1
    BY <1>5
  <2>3. new[m] = SubsetFrom(FirstImage(input, r), BlockBounds(Frame(input), divs, s))
    BY <1>3, <2>1, <2>2, FrameIs
  <2>4. ~(r # 0 /\ 1 = Len(rounds) + 1)
    <3>1. N = 1 => r = 0
      BY DEF Ranks
    <3>2. QED
      BY <1>2, <3>1
  <2>5. input.mode # "surface"
    BY <1>2
  <2> HIDE DEF new
  <2>6. SlotImage(P, input, rounds, divs, r, s, 1, new[m])
    BY <2>3, <2>4, <2>5, Zenon DEF SlotImage
  <2>7. QED
    BY <2>2, <2>6
<1>6. \A m \in out : SlotImage(P, input, rounds, divs, m[1], m[2], m[3], new[m])
  <2> HIDE DEF new
  <2>1. QED
    BY <1>5
<1>7. DOMAIN new = out
  OBVIOUS
<1>8. \A m \in DOMAIN mail' :
         \/ m \in DOMAIN mail /\ mail'[m] = mail[m]
         \/ SlotImage(P, input, rounds, divs, m[1], m[2], m[3], mail'[m])
  <2> HIDE DEF new, out
  <2> SUFFICES ASSUME NEW m \in DOMAIN mail'
               PROVE  \/ m \in DOMAIN mail /\ mail'[m] = mail[m]
                      \/ SlotImage(P, input, rounds, divs, m[1], m[2], m[3], mail'[m])
    OBVIOUS
  <2> DEFINE rest == mail
             queue == Enqueue(new, rest)
  <2>1. mail' = queue /\ m \in DOMAIN queue
    BY <1>1
  <2> HIDE DEF rest
  <2>2. \/ m \in DOMAIN new /\ queue[m] = new[m]
        \/ m \in DOMAIN rest /\ queue[m] = rest[m]
    BY <2>1, EnqueuedOne, Zenon
  <2> HIDE DEF queue
  <2>3. QED
    BY <1>6, <1>7, <2>1, <2>2 DEF rest
<1>9. /\ DOMAIN image' = Ranks /\ UNCHANGED setup
      /\ \A q \in Ranks \ {r} :
           pc'[q] = pc[q] /\ round'[q] = round[q] /\ image'[q] = image[q]
  BY <1>1, <1>2, <1>3
<1>10. QED
  BY <1>4, <1>8, <1>9, OneRank, Zenon

(* A part of what a rank drew, to be blended. *)
LEMMA PartDrawn ==
  ASSUME NEW P, Closed(P), NEW in \in Inputs, NEW s \in Ranks,
         NEW b \in Rect, Within(b, Frame(in))
  PROVE  /\ SubsetFrom(FirstImage(in, s), b) \in ImageSet(b, P)
         /\ SubsetFrom(FirstImage(in, s), b).order = in.order[s]
         /\ \A p \in Points : Inside(b, p) =>
              PixelAt(SubsetFrom(FirstImage(in, s), b), p).from = <<s>>
<1> DEFINE img == FirstImage(in, s)
           w == Frame(in)
<1>1. w \in Rect
  BY FrameGood
<1>2. /\ img \in ImageSet(w, P) /\ img.order = in.order[s]
      /\ \A p \in Points : Inside(w, p) =>
           \E q \in DOMAIN in.canvas[s] : PixelAt(img, p) = FirstPixel(in.canvas[s][q], s)
  BY FirstImageGood
<1> HIDE DEF img, w
<1>3. /\ SubsetFrom(img, b) \in ImageSet(b, P)
      /\ SubsetFrom(img, b).order = img.order
      /\ \A p \in Points : Inside(b, p) => PixelAt(SubsetFrom(img, b), p) = PixelAt(img, p)
  <2>1. Within(b, w)
    BY DEF w
  <2>2. QED
    BY <1>1, <1>2, <2>1, SubsetFromKeeps
<1>4. ASSUME NEW p \in Points, Inside(b, p)
      PROVE  PixelAt(SubsetFrom(img, b), p).from = <<s>>
  <2>1. Inside(w, p)
    BY <1>1, <1>4, WithinInside DEF w
  <2>2. PICK q \in DOMAIN in.canvas[s] : PixelAt(img, p) = FirstPixel(in.canvas[s][q], s)
    BY <1>2, <2>1
  <2>3. FirstPixel(in.canvas[s][q], s).from = <<s>>
    BY DEF FirstPixel
  <2>4. QED
    BY <1>3, <1>4, <2>2, <2>3
<1>5. QED
  BY <1>2, <1>3, <1>4 DEF img

(* What a block of a volume holds once it has blended the ranks' parts.     *)
LEMMA BlendedHolds ==
  ASSUME NEW P, Closed(P), ExchangeInv, input.mode = "volume",
         NEW b \in Rect, Within(b, Frame(input)),
         NEW parts, DOMAIN parts = Ranks,
         \A s \in Ranks : parts[s] = SubsetFrom(FirstImage(input, s), b)
  PROVE  Holds(P, input, CompositeImages(Ordered(parts)), b, Ranks)
<1> DEFINE key == input.order
           sorted == SortedBy(key)
           images == [i \in 1 .. N |-> parts[sorted[i]]]
           IS == ImageSet(b, P)
<1>1. input \in Inputs
  BY DEF ExchangeInv, SetupInv
<1>2. key \in [Ranks -> Int] /\ \A x, y \in Ranks : key[x] = key[y] => x = y
  BY <1>1, InputsAssumption
<1>3. \A s \in Ranks : /\ parts[s] \in IS /\ parts[s].order = key[s]
                       /\ \A p \in Points : Inside(b, p) => PixelAt(parts[s], p).from = <<s>>
  BY <1>1, PartDrawn
<1> HIDE DEF key, IS
<1>4. sorted \in [1 .. N -> Ranks]
  BY <1>2, SortedIs
<1>5. Ordered(parts) = images
  BY <1>2, <1>3, OrderedIs
<1> HIDE DEF sorted
<1>6. N \in Nat /\ N > 0
  BY CompositingAssumption
<1>7. images \in Seq(IS) /\ Len(images) = N
  <2>1. \A i \in 1 .. N : parts[sorted[i]] \in IS
    BY <1>3, <1>4
  <2>2. images \in [1 .. N -> IS]
    BY <2>1
  <2> HIDE DEF images
  <2>3. QED
    BY <1>6, <2>2
<1>8. \A i \in 1 .. N : \A p \in Points :
        Inside(b, p) => PixelAt(images[i], p).from = <<sorted[i]>>
  BY <1>3, <1>4
<1> HIDE DEF images
<1>9. /\ CompositeImages(images) \in IS
      /\ \A p \in Points : Inside(b, p) => PixelAt(CompositeImages(images), p).from = sorted
  <2>1. images \in Seq(ImageSet(b, P)) /\ Len(images) > 0
    BY <1>6, <1>7 DEF IS
  <2>2. sorted \in [1 .. Len(images) -> Ranks]
    BY <1>4, <1>7
  <2>3. \A i \in 1 .. Len(images) : \A p \in Points :
           Inside(b, p) => PixelAt(images[i], p).from = <<sorted[i]>>
    BY <1>7, <1>8
  <2> HIDE DEF IS
  <2>4. QED
    BY <1>1, <2>1, <2>2, <2>3, VolumeMerge, ZenonT(100) DEF IS
<1>10. QED
  BY <1>5, <1>9 DEF Holds, Right, IS, sorted, key

LEMMA BlendImages ==
  ASSUME NEW P, Closed(P), ExchangeInv, ImagesInv(P), NEW r \in Ranks, BlendParts(r)
  PROVE  ImagesInv(P)'
<1> DEFINE parts == [s \in Ranks |-> mail[<<s, r, 1>>]]
           b == BlockBounds(Frame(input), divs, r)
           result == CompositeImages(Ordered(parts))
<1>1. /\ pc[r] = "blend" /\ Arrived(r) /\ UNCHANGED <<setup, round>>
      /\ image' = [image EXCEPT ![r] = result]
      /\ mail' = Rest(r)
      /\ pc' = [pc EXCEPT ![r] = "barrier"]
  BY DEF BlendParts, GoTo
<1>2. /\ input.mode = "volume" /\ divs # <<>> /\ pc \in [Ranks -> Labels]
  BY <1>1, ExchangeFacts DEF ExchangeInv, PlaceInv
<1>3. /\ b \in Rect /\ Within(b, Frame(input))
      /\ LastPiece(input, rounds, divs, r) = b
  <2>1. LastPiece(input, rounds, divs, r) = b
    BY <1>2 DEF LastPiece
  <2>2. QED
    BY <1>2, <2>1, GridIs, LastCover
<1>4. ASSUME NEW s \in Ranks
      PROVE  parts[s] = SubsetFrom(FirstImage(input, s), b)
  <2>1. <<s, r, 1>> \in Expected(r)
    BY <1>1 DEF Expected
  <2>2. <<s, r, 1>> \in DOMAIN mail
    BY <1>1, <2>1 DEF Arrived
  <2>3. SlotImage(P, input, rounds, divs, s, r, 1, mail[<<s, r, 1>>])
    BY <2>2, Zenon DEF ImagesInv
  <2>4. QED
    BY <1>2, <2>3 DEF SlotImage
<1>5. DOMAIN parts = Ranks /\ DOMAIN image = Ranks
  BY DEF ImagesInv
<1> HIDE DEF parts, b
<1>6. Holds(P, input, result, LastPiece(input, rounds, divs, r), Ranks)
  BY <1>2, <1>3, <1>4, <1>5, BlendedHolds
<1> HIDE DEF result
<1>7. /\ pc'[r] = "barrier" /\ image'[r] = result
      /\ DOMAIN image' = Ranks /\ UNCHANGED setup
      /\ \A q \in Ranks \ {r} :
           pc'[q] = pc[q] /\ round'[q] = round[q] /\ image'[q] = image[q]
  BY <1>1, <1>2, <1>5
<1>8. RankImage(P, input, rounds, divs, r, pc'[r], round'[r], image'[r])
  BY <1>6, <1>7 DEF RankImage
<1>9. \A m \in DOMAIN mail' : m \in DOMAIN mail /\ mail'[m] = mail[m]
  BY <1>1, RestIs
<1>10. QED
  BY <1>7, <1>8, <1>9, OneRank, Zenon

LEMMA BarrierImages ==
  ASSUME NEW P, ExchangeInv, ImagesInv(P), Barrier
  PROVE  ImagesInv(P)'
<1>1. /\ \A r \in Ranks : pc[r] = "barrier" /\ pc'[r] = "collect"
      /\ input' = input /\ rounds' = rounds /\ divs' = divs
      /\ round' = round /\ image' = image /\ mail' = mail
  BY DEF Barrier, setup
<1>2. \A r \in Ranks : RankImage(P, input, rounds, divs, r, pc'[r], round[r], image[r])
  BY <1>1 DEF ImagesInv, RankImage
<1>3. QED
  BY <1>1, <1>2 DEF ImagesInv

LEMMA SendImages ==
  ASSUME NEW P, Closed(P), ExchangeInv, ImagesInv(P), NEW r \in Ranks, CollectSend(r)
  PROVE  ImagesInv(P)'
<1> DEFINE slot == <<r, 0, Len(rounds) + 1>>
           new == [m \in {slot} |-> image[r]]
<1>1. /\ pc[r] = "collect" /\ r # 0 /\ UNCHANGED <<setup, round>>
      /\ mail' = Enqueue(new, mail)
      /\ image' = [image EXCEPT ![r].pixels = <<>>]
      /\ pc' = [pc EXCEPT ![r] = "done"]
  BY DEF CollectSend, GoTo
<1>2. /\ divs # <<>> /\ pc \in [Ranks -> Labels]
      /\ Len(rounds) \in Nat /\ Len(rounds) = 0 => N = 1
  BY <1>1, ExchangeFacts DEF ExchangeInv, PlaceInv
<1>3. /\ Holds(P, input, image[r], LastPiece(input, rounds, divs, r), Ranks)
      /\ DOMAIN image = Ranks
  BY <1>1 DEF ImagesInv, RankImage
<1>4. image'[r].pixels = <<>>
  BY <1>1, <1>3 DEF Holds, ImageSet
<1>5. /\ pc'[r] = "done" /\ DOMAIN image' = Ranks /\ UNCHANGED setup
      /\ \A q \in Ranks \ {r} :
           pc'[q] = pc[q] /\ round'[q] = round[q] /\ image'[q] = image[q]
  BY <1>1, <1>2, <1>3
<1>6. RankImage(P, input, rounds, divs, r, pc'[r], round'[r], image'[r])
  BY <1>1, <1>4, <1>5 DEF RankImage
<1>7. Len(rounds) # 0
  <2>1. N = 1 => r = 0
    BY DEF Ranks
  <2>2. QED
    BY <1>1, <1>2, <2>1
<1>8. SlotImage(P, input, rounds, divs, r, 0, Len(rounds) + 1, image[r])
  BY <1>2, <1>3, <1>7 DEF SlotImage
<1>9. /\ DOMAIN new = {slot} /\ new[slot] = image[r]
      /\ slot[1] = r /\ slot[2] = 0 /\ slot[3] = Len(rounds) + 1
  OBVIOUS
<1>10. ASSUME NEW m \in DOMAIN mail'
       PROVE  \/ m \in DOMAIN mail /\ mail'[m] = mail[m]
              \/ SlotImage(P, input, rounds, divs, m[1], m[2], m[3], mail'[m])
  <2> HIDE DEF new, slot
  <2> DEFINE rest == mail
             queue == Enqueue(new, rest)
  <2>1. mail' = queue /\ m \in DOMAIN queue
    BY <1>1
  <2> HIDE DEF rest
  <2>2. \/ m \in DOMAIN new /\ queue[m] = new[m]
        \/ m \in DOMAIN rest /\ queue[m] = rest[m]
    BY <2>1, EnqueuedOne, Zenon
  <2> HIDE DEF queue
  <2>3. CASE m \in DOMAIN new /\ queue[m] = new[m]
    <3>1. m = slot /\ mail'[m] = image[r]
      BY <1>9, <2>1, <2>3
    <3>2. SlotImage(P, input, rounds, divs, m[1], m[2], m[3], mail'[m])
      BY <1>8, <1>9, <3>1
    <3>3. QED
      BY <3>2
  <2>4. CASE m \in DOMAIN rest /\ queue[m] = rest[m]
    BY <2>1, <2>4 DEF rest
  <2>5. QED
    BY <2>2, <2>3, <2>4
<1>11. QED
  BY <1>5, <1>6, <1>10, OneRank, Zenon

(* The image rank 0 makes of all the pieces. *)
LEMMA CollectedHolds ==
  ASSUME NEW P, Closed(P), ExchangeInv, ImagesInv(P), pc[0] = "collect", Arrived(0)
  PROVE  Holds(P, input,
               (CHOOSE c : c = Gathering(c, SubsetTo(image[0], InitOriginal), mail,
                                         Len(rounds) + 1))[N - 1],
               Frame(input), Ranks)
<1> DEFINE w == Frame(input)
           n == Len(rounds) + 1
           first == SubsetTo(image[0], InitOriginal)
           box == [s \in Ranks |-> LastPiece(input, rounds, divs, s)]
<1>1. divs # <<>> /\ 0 \in Ranks
  BY RanksAre DEF ExchangeInv, PlaceInv
<1>2. input \in Inputs /\ GoodGrid(rounds, divs) /\ Divides(divs, w, N) /\ w \in Rect
  BY <1>1, GridIs
<1>3. /\ \A s \in Ranks : LastPiece(input, rounds, divs, s) \in Rect
      /\ \A p \in Points : Inside(w, p) =>
           \E s \in Ranks : Inside(LastPiece(input, rounds, divs, s), p)
  BY <1>2, LastCover, ZenonT(60)
<1>4. box \in [Ranks -> Rect] /\ \A s \in Ranks : box[s] = LastPiece(input, rounds, divs, s)
  BY <1>3
<1>5. \A p \in Points : Inside(w, p) => \E s \in Ranks : Inside(box[s], p)
  BY <1>3, <1>4
<1>6. Holds(P, input, image[0], box[0], Ranks)
  BY <1>1, <1>4 DEF ImagesInv, RankImage
<1> HIDE DEF box
<1>7. InitOriginal \in ImageSet(w, P)
  BY <1>2, OriginalGood, FrameIs
<1> HIDE DEF w
<1>8. /\ first \in ImageSet(w, P)
      /\ \A p \in Points : Inside(w, p) =>
           PixelAt(first, p) = IF Inside(box[0], p) THEN PixelAt(image[0], p)
                               ELSE PixelAt(InitOriginal, p)
  <2>1. image[0] \in ImageSet(box[0], P) /\ box[0] \in Rect
    BY <1>1, <1>4, <1>6 DEF Holds
  <2>2. QED
    BY <1>2, <1>7, <2>1, SubsetToWrites
<1> HIDE DEF first
<1>9. \A p \in Points : Inside(w, p) /\ Inside(box[0], p) =>
         Right(input, PixelAt(first, p), p, Ranks)
  BY <1>6, <1>8 DEF Holds
<1>10. ASSUME NEW s \in Ranks \ {0}
       PROVE  Holds(P, input, mail[<<s, 0, n>>], box[s], Ranks)
  <2>1. <<s, 0, n>> \in Expected(0)
    BY DEF Expected
  <2>2. <<s, 0, n>> \in DOMAIN mail
    BY <2>1 DEF Arrived
  <2>3. SlotImage(P, input, rounds, divs, s, 0, n, mail[<<s, 0, n>>])
    BY <2>2, Zenon DEF ImagesInv
  <2>4. QED
    BY <1>4, <2>3 DEF SlotImage
<1> HIDE DEF n
<1>11. Holds(P, input, (CHOOSE c : c = Gathering(c, first, mail, n))[N - 1], w, Ranks)
  <2> DEFINE m == mail
             in == input
  <2>1. /\ StartsRight(in, first, w, box[0])
        /\ OthersHold(P, in, m, n, box)
        /\ TilesAll(box, w)
    BY <1>5, <1>9, <1>10 DEF StartsRight, OthersHold, TilesAll
  <2> HIDE DEF m, in
  <2>2. Holds(P, in, (CHOOSE c : c = Gathering(c, first, m, n))[N - 1], w, Ranks)
    BY <1>2, <1>4, <1>8, <2>1, GatheringHolds
  <2>3. QED
    BY <2>2 DEF m, in
<1>12. QED
  BY <1>11 DEF first, w, n

LEMMA ReceiveImages ==
  ASSUME NEW P, Closed(P), ExchangeInv, ImagesInv(P), CollectReceive
  PROVE  ImagesInv(P)'
<1> DEFINE first == SubsetTo(image[0], InitOriginal)
           result == (CHOOSE c : c = Gathering(c, first, mail, Len(rounds) + 1))[N - 1]
<1>1. /\ pc[0] = "collect" /\ Arrived(0) /\ UNCHANGED <<setup, round>>
      /\ mail' = Rest(0)
      /\ pc' = [pc EXCEPT ![0] = "done"]
  BY DEF CollectReceive, GoTo
<1>2. image' = [image EXCEPT ![0] = result]
  BY Zenon DEF CollectReceive, Gathering
<1>3. Holds(P, input, result, Frame(input), Ranks)
  BY <1>1, CollectedHolds
<1> HIDE DEF result
<1>4. /\ pc \in [Ranks -> Labels] /\ 0 \in Ranks /\ DOMAIN image = Ranks
  BY RanksAre DEF ExchangeInv, PlaceInv, ImagesInv
<1>5. /\ pc'[0] = "done" /\ image'[0] = result
      /\ DOMAIN image' = Ranks /\ UNCHANGED setup
      /\ \A q \in Ranks \ {0} :
           pc'[q] = pc[q] /\ round'[q] = round[q] /\ image'[q] = image[q]
  BY <1>1, <1>2, <1>4
<1>6. RankImage(P, input, rounds, divs, 0, pc'[0], round'[0], image'[0])
  BY <1>3, <1>5 DEF RankImage
<1>7. \A m \in DOMAIN mail' : m \in DOMAIN mail /\ mail'[m] = mail[m]
  BY <1>1, RestIs
<1>8. QED
  BY <1>4, <1>5, <1>6, <1>7, OneRank, Zenon

LEMMA ImagesStart ==
  ASSUME NEW P, Init
  PROVE  ImagesInv(P)
<1>1. /\ image = [r \in Ranks |-> ImageInit(r)]
      /\ pc = [r \in Ranks |-> "start"] /\ mail = <<>>
  BY DEF Init
<1>2. DOMAIN image = Ranks /\ DOMAIN mail = {}
  BY <1>1
<1>3. \A r \in Ranks : image[r] = FirstImage(input, r) /\ pc[r] = "start"
  BY <1>1, FrameIs
<1>4. \A r \in Ranks : RankImage(P, input, rounds, divs, r, pc[r], round[r], image[r])
  BY <1>3 DEF RankImage
<1>5. QED
  BY <1>2, <1>4 DEF ImagesInv

LEMMA ImagesNext ==
  ASSUME NEW P, Closed(P), ExchangeInv, ImagesInv(P), [Next]_vars
  PROVE  ImagesInv(P)'
<1>1. CASE \E r \in Ranks :
        Start(r) \/ Reduce(r) \/ Redistribute(r) \/ BlendParts(r) \/ CollectSend(r)
  BY <1>1, StartImages, ReduceImages, RedistributeImages, BlendImages, SendImages
<1>2. CASE Barrier
  BY <1>2, BarrierImages
<1>3. CASE CollectReceive
  BY <1>3, ReceiveImages
<1>4. CASE UNCHANGED vars
  BY <1>4 DEF vars, setup, ImagesInv
<1>5. QED
  BY <1>1, <1>2, <1>3, <1>4 DEF Next, Progress

-----------------------------------------------------------------------------
(* Blending stays among the pixels.                                        *)

LEMMA ChannelFits ==
  ASSUME NEW f \in 0 .. 255, NEW o \in 0 .. 255, NEW c \in 0 .. 255
  PROVE  BlendChannel(f, 255 - o, c) \in 0 .. 255
<1> DEFINE w == 255 - o
           u == w * c
           v == u \div 255
           t == f + v
<1>1. w \in Int
  OBVIOUS
<1> HIDE DEF w
<1>2. u \in Int
  BY <1>1
<1> HIDE DEF u
<1>3. v \in Int
  BY <1>2
<1> HIDE DEF v
<1>4. t \in Int
  BY <1>3
<1> HIDE DEF t
<1>5. t % 256 \in 0 .. 255
  BY <1>4
<1>6. QED
  BY <1>5 DEF BlendChannel, t, v, u, w

LEMMA BlendPixelType ==
  ASSUME NEW x \in Pixel, NEW y \in Pixel
  PROVE  BlendPixel(x, y) \in Pixel
<1>1. /\ x.depth \in 0 .. Far /\ y.depth \in 0 .. Far
      /\ x.color \in 0 .. 255 /\ x.alpha \in 0 .. 255
      /\ y.color \in 0 .. 255 /\ y.alpha \in 0 .. 255
      /\ x.from \in Seq(Ranks) /\ y.from \in Seq(Ranks)
  BY DEF Pixel
<1>2. Min({x.depth, y.depth}) \in 0 .. Far
  <2>1. x.depth \in Int /\ y.depth \in Int
    BY <1>1 DEF Far
  <2>2. Min({x.depth, y.depth}) = IF x.depth <= y.depth THEN x.depth ELSE y.depth
    BY <2>1, MinTwo
  <2>3. QED
    BY <1>1, <2>2
<1> DEFINE depth == Min({x.depth, y.depth})
           color == BlendChannel(x.color, 255 - x.alpha, y.color)
           alpha == BlendChannel(x.alpha, 255 - x.alpha, y.alpha)
           from == x.from \o y.from
<1>3. color \in 0 .. 255
  BY <1>1, ChannelFits, Zenon
<1>4. alpha \in 0 .. 255
  BY <1>1, ChannelFits, Zenon
<1>5. from \in Seq(Ranks)
  BY <1>1
<1>6. BlendPixel(x, y) = [depth |-> depth, color |-> color, alpha |-> alpha, from |-> from]
  BY DEF BlendPixel
<1> HIDE DEF depth, color, alpha, from
<1>7. depth \in 0 .. Far
  BY <1>2 DEF depth
<1>8. QED
  BY <1>3, <1>4, <1>5, <1>6, <1>7 DEF Pixel

LEMMA FirstPixelType ==
  ASSUME NEW in \in Inputs, NEW r \in Ranks, NEW i \in DOMAIN in.canvas[r]
  PROVE  FirstPixel(in.canvas[r][i], r) \in Pixel
<1>1. in.canvas[r] \in [1 .. in.width * in.height -> Fragment]
  BY InputsAssumption
<1>2. in.canvas[r][i] \in Fragment
  BY <1>1
<1> DEFINE p == in.canvas[r][i]
<1>3. /\ p.depth \in Int /\ p.depth <= Far
      /\ p.color \in 0 .. 255 /\ p.alpha \in 0 .. 255
  BY <1>2 DEF Fragment
<1> HIDE DEF p
<1>4. <<r>> \in Seq(Ranks)
  OBVIOUS
<1>5. (IF p.depth < 0 THEN Far ELSE p.depth) \in 0 .. Far
  BY <1>3 DEF Far
<1>6. FirstPixel(p, r) \in Pixel
  BY <1>3, <1>4, <1>5 DEF FirstPixel, Pixel
<1>7. QED
  BY <1>6 DEF p

LEMMA ZeroType == Zero \in Pixel
BY DEF Zero, Pixel, Far

LEMMA PixelsClosed == Closed(Pixel)
BY BlendPixelType, FirstPixelType, ZeroType DEF Closed

(* What the canvases hold is weighted with its opacity. *)
AllWeighted ==
  \A in \in Inputs : \A r \in Ranks : \A i \in DOMAIN in.canvas[r] :
    in.canvas[r][i].color <= in.canvas[r][i].alpha

WeightedPixel == {p \in Pixel : p.color <= p.alpha}

LEMMA WeightedClosed ==
  ASSUME AllWeighted
  PROVE  Closed(WeightedPixel)
<1>1. Zero \in WeightedPixel
  BY ZeroType DEF WeightedPixel, Zero
<1>2. ASSUME NEW x \in WeightedPixel, NEW y \in WeightedPixel
      PROVE  BlendPixel(x, y) \in WeightedPixel
  <2>1. Weighted(x) /\ Weighted(y)
    <3>1. \A p \in WeightedPixel : p \in Pixel /\ p.color <= p.alpha
      BY DEF WeightedPixel
    <3>2. \A p \in Pixel : p.color \in 0 .. 255 /\ p.alpha \in 0 .. 255
      BY DEF Pixel
    <3>3. \A p \in WeightedPixel : Weighted(p)
      <4> SUFFICES ASSUME NEW p \in WeightedPixel PROVE Weighted(p)
        OBVIOUS
      <4>1. p.color \in 0 .. 255 /\ p.alpha \in 0 .. 255 /\ p.color <= p.alpha
        BY <3>1, <3>2
      <4>2. QED
        BY <4>1 DEF Weighted
    <3>4. QED
      BY <3>3
  <2>2. Weighted(BlendPixel(x, y))
    BY <2>1, BlendStaysWeighted
  <2>3. BlendPixel(x, y) \in Pixel
    BY BlendPixelType DEF WeightedPixel
  <2>4. BlendPixel(x, y).color <= BlendPixel(x, y).alpha
    BY <2>2 DEF Weighted
  <2>5. QED
    BY <2>3, <2>4 DEF WeightedPixel
<1>3. ASSUME NEW in \in Inputs, NEW r \in Ranks, NEW i \in DOMAIN in.canvas[r]
      PROVE  FirstPixel(in.canvas[r][i], r) \in WeightedPixel
  <2>1. FirstPixel(in.canvas[r][i], r) \in Pixel
    BY FirstPixelType
  <2>2. in.canvas[r][i].color <= in.canvas[r][i].alpha
    BY DEF AllWeighted
  <2>3. QED
    BY <2>1, <2>2 DEF WeightedPixel, FirstPixel
<1>4. QED
  BY <1>1, <1>2, <1>3 DEF Closed, WeightedPixel

(* At every moment each rank's image is right for the pixels that have gone *)
(* into it.                                                                *)
THEOREM ImagesHold == Spec => []ImagesInv(Pixel)
<1>1. Init => ImagesInv(Pixel)
  BY ImagesStart
<1>2. ExchangeInv /\ ImagesInv(Pixel) /\ [Next]_vars => ImagesInv(Pixel)'
  BY ImagesNext, PixelsClosed
<1>3. QED
  BY <1>1, <1>2, ExchangeHolds, PTL DEF Spec

(* ... and so it is with weighted pixels where no others are drawn.         *)
THEOREM WeightsHold ==
  ASSUME AllWeighted
  PROVE  Spec => []ImagesInv(WeightedPixel)
<1>1. Init => ImagesInv(WeightedPixel)
  BY ImagesStart
<1>2. ExchangeInv /\ ImagesInv(WeightedPixel) /\ [Next]_vars => ImagesInv(WeightedPixel)'
  BY ImagesNext, WeightedClosed
<1>3. QED
  BY <1>1, <1>2, ExchangeHolds, PTL DEF Spec

-----------------------------------------------------------------------------
(* What the invariant says of the images.                                  *)

LEMMA HeldIs ==
  ASSUME NEW P, Closed(P), ExchangeInv, ImagesInv(P), NEW r \in Ranks
  PROVE  \/ pc[r] = "done" /\ image[r].pixels = <<>>
         \/ \E b \in Rect : image[r] \in ImageSet(b, P)
<1>1. RankImage(P, input, rounds, divs, r, pc[r], round[r], image[r])
  BY DEF ImagesInv
<1>2. /\ pc[r] \in Labels /\ round[r] \in 0 .. Len(rounds) /\ input \in Inputs
      /\ divs = <<>> => pc[r] \in {"start", "error"}
  BY DEF ExchangeInv, PlaceInv, SetupInv
<1>3. Frame(input) \in Rect
  BY <1>2, FrameGood
<1>4. CASE pc[r] \in {"start", "error", "redistribute", "blend"}
  <2>1. image[r] = FirstImage(input, r)
    BY <1>1, <1>4 DEF RankImage
  <2>2. QED
    BY <1>2, <1>3, <2>1, FirstImageGood
<1>5. CASE pc[r] \in {"reduce", "barrier", "collect"}
  <2>1. divs # <<>>
    BY <1>2, <1>5
  <2>2. GoodGrid(rounds, divs) /\ Divides(divs, Frame(input), N)
    BY <2>1, GridIs
  <2>3. CASE pc[r] = "reduce"
    <3>1. Piece(input, rounds, divs, round[r], r) \in Rect
      BY <1>2, <2>2, PieceFacts
    <3>2. QED
      BY <1>1, <2>3, <3>1 DEF RankImage, Holds
  <2>4. CASE pc[r] # "reduce"
    <3>1. LastPiece(input, rounds, divs, r) \in Rect
      BY <1>2, <2>2, LastCover
    <3>2. QED
      BY <1>1, <1>5, <2>4, <3>1 DEF RankImage, Holds
  <2>5. QED
    BY <2>3, <2>4
<1>6. CASE pc[r] = "done" /\ r = 0
  BY <1>1, <1>3, <1>6 DEF RankImage, Holds
<1>7. CASE pc[r] = "done" /\ r # 0
  BY <1>1, <1>7 DEF RankImage
<1>8. QED
  BY <1>2, <1>4, <1>5, <1>6, <1>7 DEF Labels

LEMMA PixelCount ==
  ASSUME NEW P, NEW b \in Rect, NEW img \in ImageSet(b, P)
  PROVE  Len(img.pixels) = Area(img.bounds)
<1>1. Area(b) \in Nat
  BY RectFacts
<1>2. img.bounds = b /\ img.pixels \in [1 .. Area(b) -> P]
  BY DEF ImageSet
<1>3. QED
  BY <1>1, <1>2

LEMMA TypeImplied ==
  ASSUME ExchangeInv, ImagesInv(Pixel)
  PROVE  TypeOK
<1>1. /\ pc \in [Ranks -> Labels] /\ round \in [Ranks -> 0 .. Len(rounds)]
      /\ DOMAIN mail \subseteq Slots
  BY DEF ExchangeInv, PlaceInv, MailInv
<1>2. ASSUME NEW r \in Ranks PROVE Len(image[r].pixels) \in {0, Area(image[r].bounds)}
  <2>1. CASE image[r].pixels = <<>>
    BY <2>1
  <2>2. CASE \E b \in Rect : image[r] \in ImageSet(b, Pixel)
    BY <2>2, PixelCount
  <2>3. QED
    BY <2>1, <2>2, HeldIs, PixelsClosed
<1>3. QED
  BY <1>1, <1>2 DEF TypeOK, Labels, Slots

(* Labels, rounds and messages are of their types, and an image has as many *)
(* pixels as its bounds say, or has been cleared.                          *)
THEOREM CompositingTypes == Spec => []TypeOK
<1>1. ExchangeInv /\ ImagesInv(Pixel) => TypeOK
  BY TypeImplied
<1>2. QED
  BY <1>1, ExchangeHolds, ImagesHold, PTL

LEMMA FitImplied ==
  ASSUME ExchangeInv, ImagesInv(Pixel)
  PROVE  PiecesFit
<1> SUFFICES ASSUME NEW r \in Ranks, NEW m \in DOMAIN mail \cap Expected(r), pc[r] = "reduce"
             PROVE  mail[m].bounds = image[r].bounds
  BY DEF PiecesFit
<1> DEFINE n == round[r]
<1>1. n > 0 /\ \E s : m = <<s, r, n>>
  BY DEF Expected
<1>2. m[3] = n /\ m[2] = r
  BY <1>1
<1>3. input.mode = "surface" /\ n <= Len(rounds)
  BY ExchangeFacts DEF ExchangeInv, PlaceInv
<1>4. SlotImage(Pixel, input, rounds, divs, m[1], m[2], m[3], mail[m])
  BY DEF ImagesInv
<1>5. mail[m].bounds = Piece(input, rounds, divs, n, r)
  BY <1>2, <1>3, <1>4 DEF SlotImage, Holds, ImageSet
<1>6. image[r].bounds = Piece(input, rounds, divs, n, r)
  BY DEF ImagesInv, RankImage, Holds, ImageSet
<1>7. QED
  BY <1>5, <1>6

(* A piece that reaches a block covers the pixels of the block's own piece  *)
(* and no others: the assertions of ImageCompositor.hpp hold.              *)
THEOREM PiecesAlwaysFit == Spec => []PiecesFit
<1>1. ExchangeInv /\ ImagesInv(Pixel) => PiecesFit
  BY FitImplied
<1>2. QED
  BY <1>1, ExchangeHolds, ImagesHold, PTL

(* The i-th pixel of rank 0's image in the end. *)
LEMMA FinalPixel ==
  ASSUME ExchangeInv, ImagesInv(Pixel), pc[0] = "done", NEW i \in 1 .. Area(Whole)
  PROVE  /\ At(Whole, i) \in Points /\ Inside(Frame(input), At(Whole, i))
         /\ image[0].pixels[i] \in Pixel
         /\ Right(input, image[0].pixels[i], At(Whole, i), Ranks)
         /\ \A r : Drawn(input, At(Whole, i), r) = DrawnAt(i, r)
<1> DEFINE w == Frame(input)
           p == At(w, i)
<1>1. Whole = w /\ \A r : ImageInit(r) = FirstImage(input, r)
  BY FrameIs
<1>2. w \in Rect
  BY FrameGood DEF ExchangeInv, SetupInv
<1> HIDE DEF w
<1>3. i \in 1 .. Area(w)
  BY <1>1
<1>4. p \in Points /\ Inside(w, p) /\ Index(w, p) = i
  BY <1>2, <1>3, PointAt
<1>5. Holds(Pixel, input, image[0], w, Ranks)
  BY RanksAre DEF ImagesInv, RankImage, w
<1>6. image[0].bounds = w /\ image[0].pixels \in [1 .. Area(w) -> Pixel]
  BY <1>5 DEF Holds, ImageSet
<1>7. PixelAt(image[0], p) = image[0].pixels[i]
  BY <1>4, <1>6 DEF PixelAt
<1>8. Right(input, image[0].pixels[i], p, Ranks)
  BY <1>4, <1>5, <1>7 DEF Holds
<1>9. \A r : Drawn(input, p, r) = DrawnAt(i, r)
  <2>1. \A r : FirstImage(input, r).bounds = w
    BY DEF FirstImage, w
  <2>2. QED
    BY <1>1, <1>4, <2>1 DEF Drawn, PixelAt, DrawnAt
<1>10. image[0].pixels[i] \in Pixel
  BY <1>3, <1>6
<1>11. QED
  BY <1>1, <1>4, <1>8, <1>9, <1>10 DEF w

LEMMA NearestImplied ==
  ASSUME ExchangeInv, ImagesInv(Pixel)
  PROVE  NearestShown
<1> SUFFICES ASSUME pc[0] = "done", input.mode = "surface", NEW i \in 1 .. Area(Whole)
             PROVE  /\ image[0].pixels[i] \in {DrawnAt(i, r) : r \in Ranks}
                    /\ image[0].pixels[i].depth = Min({DrawnAt(i, r).depth : r \in Ranks})
  BY DEF NearestShown
<1> DEFINE p == At(Whole, i)
           x == image[0].pixels[i]
           D == {DrawnAt(i, r).depth : r \in Ranks}
<1>1. /\ p \in Points /\ Inside(Frame(input), p)
      /\ \A r : Drawn(input, p, r) = DrawnAt(i, r)
      /\ Right(input, x, p, Ranks)
  BY FinalPixel
<1>2. Best(input, x, p, Ranks)
  BY <1>1 DEF Right
<1> HIDE DEF p, x
<1>3. /\ \E r \in Ranks : x = DrawnAt(i, r)
      /\ \A r \in Ranks : x.depth <= DrawnAt(i, r).depth
  BY <1>1, <1>2 DEF Best
<1>4. \A r \in Ranks : DrawnAt(i, r).depth \in Int
  <2>1. input \in Inputs
    BY DEF ExchangeInv, SetupInv
  <2>2. \A r \in Ranks : DrawnAt(i, r) \in Pixel
    BY <1>1, <2>1, DrawnType, PixelsClosed
  <2>3. QED
    BY <2>2 DEF Pixel, Far
<1>5. Min(D) = x.depth
  <2>1. D \subseteq Int
    BY <1>4
  <2>2. x.depth \in D
    BY <1>3
  <2>3. \A d \in D : x.depth <= d
    BY <1>3
  <2> HIDE DEF D
  <2>4. QED
    BY <2>1, <2>2, <2>3, MinIs
<1>6. QED
  BY <1>3, <1>5 DEF x

(* Of a surface rank 0 shows at every pixel the nearest of what the ranks   *)
(* drew there: the exchange in groups, however many rounds it takes, leaves *)
(* no rank and no pixel out.                                               *)
THEOREM NearestAlwaysShown == Spec => []NearestShown
<1>1. ExchangeInv /\ ImagesInv(Pixel) => NearestShown
  BY NearestImplied
<1>2. QED
  BY <1>1, ExchangeHolds, ImagesHold, PTL

LEMMA OrderImplied ==
  ASSUME ExchangeInv, ImagesInv(Pixel)
  PROVE  BlendedInOrder
BY FinalPixel DEF BlendedInOrder, Right

(* Of a volume every pixel of rank 0 is blended from what all ranks drew    *)
(* there, each once and in visibility order.                               *)
THEOREM AlwaysBlendedInOrder == Spec => []BlendedInOrder
<1>1. ExchangeInv /\ ImagesInv(Pixel) => BlendedInOrder
  BY OrderImplied
<1>2. QED
  BY <1>1, ExchangeHolds, ImagesHold, PTL

LEMMA WeightImplied ==
  ASSUME AllWeighted, ExchangeInv, ImagesInv(WeightedPixel)
  PROVE  Premultiplied
<1> SUFFICES ASSUME NEW r \in Ranks, NEW i \in DOMAIN image[r].pixels
             PROVE  image[r].pixels[i].color <= image[r].pixels[i].alpha
  BY DEF Premultiplied
<1>1. image[r].pixels # <<>>
  OBVIOUS
<1>2. PICK b \in Rect : image[r] \in ImageSet(b, WeightedPixel)
  BY <1>1, HeldIs, WeightedClosed
<1>3. image[r].pixels \in [1 .. Area(b) -> WeightedPixel]
  BY <1>2 DEF ImageSet
<1>4. image[r].pixels[i] \in WeightedPixel
  BY <1>3
<1>5. QED
  BY <1>4 DEF WeightedPixel

(* Where the canvases hold colors weighted with their opacity, as the ray   *)
(* tracer leaves them, no image of any rank ever holds another: no sum of   *)
(* the blending wraps around in its 8 bits.                                *)
THEOREM StaysPremultiplied ==
  ASSUME AllWeighted
  PROVE  Spec => []Premultiplied
<1>1. ExchangeInv /\ ImagesInv(WeightedPixel) => Premultiplied
  BY WeightImplied
<1>2. QED
  BY <1>1, ExchangeHolds, WeightsHold, PTL
=============================================================================
