----------------------------- MODULE Histograms -----------------------------
(***************************************************************************)
(* The arithmetic of Histogram, Statistics and HistSampling: what a rank    *)
(* counts or adds up over its own domains, and what is made of the totals.  *)
(* Fractions are integers with a named denominator.                        *)
(***************************************************************************)
EXTENDS DataSets, FiniteSets

(* VTK-m: the bin of a value.  Values out of range count in the first or    *)
(* last bin, and with an empty interval all of them in the first.          *)
BinOf(v, range, bins) ==
  LET bin == ((v - range.lo) * bins) \div (range.hi - range.lo)
  IN IF range.hi = range.lo \/ v < range.lo THEN 1
     ELSE IF bin >= bins THEN bins
     ELSE bin + 1

HistoFunctor(vals, range, bins) ==
  [b \in 1 .. bins |-> Cardinality({i \in DOMAIN vals : BinOf(vals[i], range, bins) = b})]

(* Mutant of merge_histograms: the first domain's result is the total. *)
merge_first(histograms, bins) ==
  IF histograms = <<>> THEN [b \in 1 .. bins |-> 0] ELSE histograms[1]

(* A rank without the field passes on a dummy. *)
merge_histograms(histograms, bins) ==
  [b \in 1 .. bins |-> FoldLeft(LAMBDA n, h : n + h[b], 0, histograms)]

LocalHistogram(ds, f, range, bins) ==
  LET have == Having(ds, f)
  IN merge_histograms(
       [i \in DOMAIN have |-> HistoFunctor(have[i].fields[f].vals, range, bins)], bins)

totalCount(counts) == FoldLeft(+, 0, counts)

(* Sums of counts bin by bin over all ranks. *)
SumOfBins(values, bins) ==
  [b \in 1 .. bins |-> SumOf([r \in DOMAIN values |-> values[r][b]])]

-----------------------------------------------------------------------------
(* Statistics: the values, and sums of powers of their distance to the mean *)
(* sum / count, as integers (count times as large, before the power).       *)

LocalValues(ds, f) ==
  LET have == Having(ds, f) IN FlattenSeq([i \in DOMAIN have |-> have[i].fields[f].vals])

PowerSum(vals, count, sum, power) ==
  FoldLeft(LAMBDA n, v : n + (count * v - sum) ^ power, 0, vals)

-----------------------------------------------------------------------------
(* HistSampling: how many values of each bin are to be kept, out of a share *)
(* num / den of all.  A quota in the result is Denominator times as large.  *)

Denominator(den, bins) == den * FoldLeft(LAMBDA n, k : n * k, 1, [k \in 1 .. bins |-> k])

Rarer(counts, a, b) == counts[a] < counts[b] \/ (counts[a] = counts[b] /\ a < b)

(* Bins by count, the rarest first. *)
ByCount(counts) ==
  [i \in DOMAIN counts |->
     CHOOSE b \in DOMAIN counts :
       Cardinality({a \in DOMAIN counts : Rarer(counts, a, b)}) = i - 1]

(* Mutant of calculate_pdf: every bin gets the same share of the whole. *)
calculate_pdf_even(total, counts, num, den) ==
  LET unit == Denominator(den, Len(counts))
      share == (total * num * (unit \div den)) \div Len(counts)
  IN [b \in DOMAIN counts |-> IF counts[b] * unit < share THEN counts[b] * unit ELSE share]

(* What a rare bin does not use up goes to the more frequent ones: a bin    *)
(* takes its share of what is left for the remaining bins, or all it has.   *)
TakeShare(state, remainingBins, b, curCount) ==
  LET target == state.left \div remainingBins
      taken == IF curCount < target THEN curCount ELSE target
  IN [left |-> state.left - taken, quota |-> [state.quota EXCEPT ![b] = taken]]

calculate_pdf(total, counts, num, den) ==
  LET n == Len(counts)
      unit == Denominator(den, n)
      order == ByCount(counts)
      state[k \in 0 .. n] ==
        IF k = 0 THEN [left |-> total * num * (unit \div den),
                       quota |-> [b \in DOMAIN counts |-> 0]]
        ELSE TakeShare(state[k - 1], n - k + 1, order[k], counts[order[k]] * unit)
  IN state[n].quota

(* The i-th (0, 1, ...) random number, in units of 1 / 49: the digits of i   *)
(* to the base 7 behind the point, in reverse.                              *)
RandomGenerate(i) == 7 * (i % 7) + i \div 7

(* 1 for the values to keep. *)
Lookup(vals, range, counts, quota, unit) ==
  [i \in DOMAIN vals |->
    LET b == BinOf(vals[i], range, Len(counts))
    IN IF counts[b] > 0 /\ RandomGenerate(i - 1) * counts[b] * unit < 49 * quota[b]
       THEN 1 ELSE 0]
=============================================================================
