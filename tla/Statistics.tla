----------------------------- MODULE Statistics -----------------------------
(***************************************************************************)
(* src/optimizer/core/histogram.rs and statistics_meta.rs: the histogram   *)
(* of equal depth that ANALYZE builds for an index, with the sketch of     *)
(* cm_sketch.rs, and the number of rows the optimizer expects in a range.  *)
(* Numbers only: strings and tuples are weighed by their first characters  *)
(* or values, and their weights are not modelled.                          *)
(***************************************************************************)
EXTENDS Executors, CountMinSketch

TooManyBuckets == <<"TooManyBuckets">>
OutOfBounds == <<"OutOfBounds">>   \* a panic

BucketLen(len, n) == IF len % n = 0 THEN len \div n ELSE (len + n) \div n

\* HistogramBuilder::append and build.  NULLs are only counted, but they take a place in
\* the numbering the values are looked up by.  offset[r][k] is the
\* column that the hash gives key k in row r of the sketch, of which the estimates are kept.
build(values, n, offset) ==
  LET places == SelectSeq([i \in DOMAIN values |-> i], LAMBDA i : ~IsNull(values[i]))
      kept == Images(places, LAMBDA i : values[i])
      len == Len(kept)
      nulls == Len(values) - len
      sorted_indices == radix_sort(Images(places, LAMBDA i : <<i, memcomparable_encode(<<>>, values[i])>>))
      sorted == Images(sorted_indices, LAMBDA i : kept[i])
      bucket_len == BucketLen(len, n)
      Members(b) == {i \in 1..len : (i - 1) \div bucket_len = b - 1}
      counted == FoldLeft(LAMBDA cs, v : add(cs, offset, v, 1), NoCounts(offset, 0..1), sorted)
  IN CASE n > len -> TooManyBuckets
       [] n <= len /\ \E i \in 1..len : sorted_indices[i] > len -> OutOfBounds
       [] OTHER ->
            <<[buckets |-> <<>> \o [b \in 1..n |->
                 [lower |-> IF Members(b) = {} THEN Null ELSE sorted[Min(Members(b))],
                  upper |-> sorted[Min({b * bucket_len, len})],
                  count |-> Cardinality(Members(b))]],
               distinct |-> Cardinality({i \in 1..len : i = 1 \/ sorted[i] # sorted[i - 1]}),
               null_count |-> nulls, values_len |-> len],
              [k \in DOMAIN offset[1] |-> estimate(add(counted, offset, Null, nulls), offset, k)]>>

CompareHolds(op, v, w) == is_true(BinaryEval(op, logical_type(v), v, w))

\* Mutant of is_above: an excluded bound is taken for an included one.
is_above_closed(v, bound, is_min) ==
  IF bound = Unbounded THEN is_min ELSE CompareHolds(IF is_min THEN "GtEq" ELSE "Gt", v, bound[2])

is_above(v, bound, is_min) ==
  CASE bound = Unbounded -> is_min
    [] bound # Unbounded /\ bound[1] = "Included" -> CompareHolds(IF is_min THEN "GtEq" ELSE "Gt", v, bound[2])
    [] OTHER -> CompareHolds(IF is_min THEN "Gt" ELSE "GtEq", v, bound[2])
is_under(v, bound, is_min) ==
  CASE bound = Unbounded -> ~is_min
    [] bound # Unbounded /\ bound[1] = "Included" -> CompareHolds(IF is_min THEN "Lt" ELSE "LtEq", v, bound[2])
    [] OTHER -> CompareHolds(IF is_min THEN "LtEq" ELSE "Lt", v, bound[2])

FloatValue(v) == IF IsNull(v) THEN <<0, 1>> ELSE <<Payload(v), 1>>
calc_fraction(start, end, v) ==
  RatDiv(RatPlus(FloatValue(v), RatNeg(FloatValue(start))), RatPlus(FloatValue(end), RatNeg(FloatValue(start))))

\* What one bucket gives one scope: <<rows, the next range?, the next bucket?>>.  All rows
\* of a bucket inside it, none of one outside, else a share of the rows, of NULLs too in
\* the first bucket, less what the sketch knows of an excluded bound.
ScopeCount(histogram, sketch, b, min, max) ==
  LET bucket == histogram.buckets[b]
      size == bucket.count + IF b = 1 THEN histogram.null_count ELSE 0
      Fraction(bound) == calc_fraction(bucket.lower, bucket.upper, bound[2])
      Lesser(p, q) == IF RatCmp(p, q) <= 0 THEN p ELSE q
      Greater(p, q) == IF RatCmp(p, q) <= 0 THEN q ELSE p
      Clamp(p) == Greater(<<1, histogram.distinct>>, Lesser(p, <<1, 1>>))
      Share(p) == (size * p[1] + p[2] - 1) \div p[2]
      Less(rows, bound) ==
        IF bound[1] = "Excluded" THEN Max({0, rows - sketch[bound[2]]}) ELSE rows
      isEq(v, bound) == bound[1] = "Included" /\ bound[2] = v
      fromMin == is_above(bucket.lower, min, TRUE)
      toMax == is_under(bucket.upper, max, FALSE)
      inside == (fromMin \/ isEq(bucket.lower, min)) /\ (toMax \/ isEq(bucket.upper, max))
      above == is_above(bucket.lower, max, FALSE)
      below == is_under(bucket.upper, min, TRUE)
  IN CASE inside -> <<bucket.count, 0, 1>>
       [] ~inside /\ above -> <<0, 1, 0>>
       [] ~inside /\ ~above /\ below -> <<0, 0, 1>>
       [] OTHER ->
            CASE fromMin -> <<Less(Share(Clamp(Fraction(max))), max), 0, 1>>
              [] ~fromMin /\ toMax ->
                   <<Less(Share(RatPlus(<<1, 1>>, RatNeg(Clamp(Fraction(min))))), min), 0, 1>>
              [] OTHER ->
                   <<Less(Less(Share(Clamp(RatPlus(Fraction(max), RatNeg(Fraction(min))))), max), min), 1, 0>>

RECURSIVE Collect(_, _, _, _, _)
Collect(statistics, ranges, i, b, count) ==
  LET at == ranges[i]
      step == IF at[1] = "Eq" THEN <<statistics[2][at[2]], 1, 0>>
              ELSE ScopeCount(statistics[1], statistics[2], b, at[2], at[3])
  IN IF i > Len(ranges) \/ b > Len(statistics[1].buckets) THEN count
     ELSE IF at = Dummy THEN 0
     ELSE Collect(statistics, ranges, i + step[2], b + step[3], count + step[1])

RangeList(r) == IF r[1] = "Sorted" THEN r[2] ELSE <<r>>
collect_count(statistics, r) == Collect(statistics, RangeList(r), 1, 1, 0)
=============================================================================
