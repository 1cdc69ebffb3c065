------------------------------ MODULE Executors ------------------------------
(***************************************************************************)
(* src/execution/dql: what each operator of a query plan yields.           *)
(*                                                                         *)
(* A plan is <<operator, children, data>>.  An executor is a coroutine     *)
(* that yields tuples and, where throw! meets an error, yields the error   *)
(* and ends; here it is the sequence of what it yields, an error being a   *)
(* tuple whose place of the key holds the failed value.  A panic ends the  *)
(* sequence in the same way.  The order in which a HashMap is walked is    *)
(* unspecified: the order of insertion is taken, and results that come out *)
(* of one are compared as bags.                                            *)
(***************************************************************************)
EXTENDS TableScans

CONSTANT RadixAbove   \* a longer input is sorted by radix (256 in the code)

Operation(p) == p[1]
Child(p, i) == p[2][i]
PlanData(p) == p[3]

NoExpr == <<"NoExpr", <<>>, 0>>
Failure(v) == <<v, <<>>>>
Broken(t) == Failed(t[1])
Stopped(out) == out # <<>> /\ Broken(Last(out))
Nulls(n) == [i \in 1..n |-> Null]

\* The loop of an executor over its input: throw!(tuple), then the body.
Each(input, Body(_)) ==
  FoldLeft(LAMBDA out, t : IF Stopped(out) THEN out
                           ELSE out \o (IF Broken(t) THEN <<t>> ELSE Body(t)), <<>>, input)

\* throw! of several values: the first that failed, else what they are used for.
Unless(vs, result) == IF AnyFailed(vs) THEN <<Failure(FirstFailure(vs))>> ELSE result

EvalAll(exprs, schema, t) == Images(exprs, LAMBDA e : eval(e, <<schema, t[2]>>))

-----------------------------------------------------------------------------
(* Operators that take one tuple at a time *)

Filter(predicate, schema, input) ==
  Each(input, LAMBDA t :
    LET v == eval(predicate, <<schema, t[2]>>)
    IN IF Failed(v) \/ NotBoolean(v) THEN <<Failure(IF Failed(v) THEN v ELSE Err)>>
       ELSE IF is_true(v) THEN <<t>> ELSE <<>>)

Projection(exprs, schema, input) ==
  Each(input, LAMBDA t :
    Unless(EvalAll(exprs, schema, t), <<<<t[1], EvalAll(exprs, schema, t)>>>>))

\* Counts what its input yields, errors included: an error among the tuples the offset
\* passes over is never seen.
Limit(offset, limit, input) ==
  LET from == IF offset = NoLimit THEN 0 ELSE offset
  IN IF limit = NoLimit THEN SubSeq(input, from + 1, Len(input))
     ELSE SubSeq(input, from + 1, IF from + limit < Len(input) THEN from + limit ELSE Len(input))

Union(left, right) == left \o right

ValuesRows(rows, schema) ==
  Each(Images(rows, LAMBDA r : <<NoPk, r>>), LAMBDA t :
    LET vs == <<>> \o [i \in DOMAIN t[2] |-> check_cast(t[2][i], schema[i][3])]
    IN Unless(vs, <<<<NoPk, vs>>>>))

DummyRow == <<<<NoPk, <<>>>>>>

\* The table function numbers(n).
Numbers(arg) ==
  LET v == check_cast(eval(arg, NoRow), <<"Integer">>)
  IN IF Failed(v) \/ IsNull(v) THEN <<Failure(IF Failed(v) THEN v ELSE Err)>>
     ELSE [i \in 1..Payload(v) |-> <<NoPk, <<Whole("Integer", i - 1)>>>>]

-----------------------------------------------------------------------------
(* Sort.  A field is <<expression, ascending, nulls first>>. *)

\* LSD: one stable pass over the buckets of each byte, the last byte first; a key that
\* is too short counts as zero.  keys is a sequence of <<position, bytes>>.
RECURSIVE RadixPass(_, _)
RadixPass(keys, i) ==
  LET Byte(k) == IF Len(k[2]) >= i THEN k[2][i] ELSE 0
      buckets == InOrder({Byte(keys[j]) : j \in DOMAIN keys})
      passed == FlattenSeq([b \in DOMAIN buckets |->
                              SelectSeq(keys, LAMBDA k : Byte(k) = buckets[b])])
  IN IF i = 0 THEN keys ELSE RadixPass(passed, i - 1)
radix_sort(keys) ==
  LET longest == Max({0} \cup {Len(keys[j][2]) : j \in DOMAIN keys})
      sorted == RadixPass(keys, longest)
  IN Images(sorted, LAMBDA k : k[1])


RadixKey(fields, vs) ==
  FlattenSeq([x \in DOMAIN fields |->
    LET key == memcomparable_encode(<<>>, vs[x])
    IN Append(IF fields[x][2] THEN key ELSE Invert(key), IF fields[x][3] THEN 0 ELSE 255)])

SortByRadix(fields, schema, tuples) ==
  LET vs == Images(tuples, LAMBDA t : EvalAll(Images(fields, LAMBDA f : f[1]), schema, t))
      indices == radix_sort(<<>> \o [i \in DOMAIN tuples |-> <<i, RadixKey(fields, vs[i])>>])
  IN Unless(FlattenSeq(vs), [i \in DOMAIN tuples |-> tuples[indices[i]]])

FieldOrder(field, v, w) ==
  LET nulls == IF field[3] THEN 1 ELSE -1
      c == partial_cmp(v, w)
  IN CASE ~IsNull(v) /\ IsNull(w) -> nulls
       [] IsNull(v) /\ ~IsNull(w) -> -nulls
       [] OTHER -> IF c = NoOrder THEN 0 ELSE IF field[2] THEN c ELSE -c

\* sort_by is stable.  The values of field x are kept in a vector that has one place a
\* tuple: with more fields than tuples the index is out of bounds.
SortByFast(fields, schema, tuples) ==
  LET exprs == Images(fields, LAMBDA f : f[1])
      vs == Images(tuples, LAMBDA t : EvalAll(exprs, schema, t))
      Order(i, j) ==
        LET differ == {x \in DOMAIN fields : FieldOrder(fields[x], vs[i][x], vs[j][x]) # 0}
        IN IF differ = {} THEN i - j
           ELSE FieldOrder(fields[Min(differ)], vs[i][Min(differ)], vs[j][Min(differ)])
      indices == SortSeq([i \in DOMAIN tuples |-> i], LAMBDA i, j : Order(i, j) < 0)
  IN CASE tuples = <<>> -> <<>>
       [] tuples # <<>> /\ Len(fields) > Len(tuples) -> <<Failure(Panic)>>
       [] OTHER -> Unless(FlattenSeq(vs), [i \in DOMAIN tuples |-> tuples[indices[i]]])

Sort(fields, limit, schema, input) ==
  LET sorted == IF Len(input) > RadixAbove THEN SortByRadix(fields, schema, input)
                ELSE SortByFast(fields, schema, input)
  IN IF Stopped(Each(input, LAMBDA t : <<t>>)) THEN <<Last(Each(input, LAMBDA t : <<t>>))>>
     ELSE IF Stopped(sorted) \/ limit = NoLimit \/ limit >= Len(sorted) THEN sorted
     ELSE SubSeq(sorted, 1, limit)

-----------------------------------------------------------------------------
(* Aggregation.  An accumulator is a fold over the values of its argument. *)

\* A HashSet of values: the first of those that are equal.
Distinct(vs) ==
  FoldLeft(LAMBDA seen, v : IF \E i \in DOMAIN seen : eq(seen[i], v) THEN seen
                            ELSE Append(seen, v), <<>>, vs)
Present(vs) == SelectSeq(vs, LAMBDA v : ~IsNull(v))

\* Mutant of CountAccumulator: NULLs count.
CountsNulls(vs) == Whole("Integer", Len(vs))

CountAccumulator(vs) == Whole("Integer", Len(Present(vs)))

SumAccumulator(ty, vs) ==
  IF "Plus" \notin Operators(ty) THEN Err
  ELSE FoldLeft(LAMBDA acc, v : IF IsNull(acc) THEN v ELSE BinaryEval("Plus", ty, acc, v),
                Null, Present(vs))

MinMaxAccumulator(is_max, vs) ==
  LET op == IF is_max THEN "Lt" ELSE "Gt"
      Next(acc, v) ==
        LET test == BinaryEval(op, logical_type(v), acc, v)
        IN CASE IsNull(acc) -> v
             [] ~IsNull(acc) /\ Failed(test) -> test
             [] OTHER -> IF Kind(test) # "Boolean" THEN Err ELSE IF is_true(test) THEN v ELSE acc
  IN FoldLeft(Next, Null, Present(vs))

\* The sum as a BIGINT, or as an INTEGER UNSIGNED when its type is not a signed one, is
\* divided by the count.
AvgAccumulator(vs) ==
  LET present == Present(vs)
      sum == SumAccumulator(logical_type(present[1]), vs)
      name == IF is_signed_numeric(logical_type(sum)) THEN "Bigint" ELSE "UInteger"
  IN IF present = <<>> THEN Null
     ELSE BinaryEval("Divide", <<name>>, check_cast(sum, <<name>>), Whole(name, Len(present)))

\* create_accumulator, update_value for every row and evaluate.
Accumulate(call, vs) ==
  LET kind == Data(call)[1]
      ty == Data(call)[2]
      used == IF Data(call)[3] THEN Distinct(vs) ELSE vs
  IN CASE kind = "Count" -> CountAccumulator(used)
       [] kind = "Sum" -> SumAccumulator(ty, used)
       [] kind \in {"Min", "Max"} -> MinMaxAccumulator(kind = "Max", vs)
       [] OTHER -> AvgAccumulator(vs)

\* The values of the calls' arguments, one row for each tuple.
Arguments(calls, schema, input) == Projection(Images(calls, LAMBDA c : Arg(c, 1)), schema, input)

AggregateRow(calls, rows, groupKeys) ==
  LET vs == <<>> \o [c \in DOMAIN calls |-> Accumulate(calls[c], Images(rows, LAMBDA r : r[c]))]
  IN Unless(vs, <<<<NoPk, vs \o groupKeys>>>>)

SimpleAgg(calls, schema, input) ==
  LET args == Arguments(calls, schema, input)
  IN IF Stopped(args) THEN <<Last(args)>>
     ELSE AggregateRow(calls, Images(args, LAMBDA t : t[2]), <<>>)

SameKeys(ks, ls) == \A i \in DOMAIN ks : eq(ks[i], ls[i])

\* One row for each combination of group keys, the accumulators in front of the keys.
HashAgg(calls, groupby, schema, input) ==
  LET args == Arguments(calls, schema, input)
      keys == Projection(groupby, schema, input)
      Rows(k) == SelectSeq([i \in DOMAIN args |-> i], LAMBDA i : SameKeys(keys[i][2], k))
      groups == FoldLeft(LAMBDA seen, t : IF \E g \in DOMAIN seen : SameKeys(seen[g], t[2])
                                          THEN seen ELSE Append(seen, t[2]), <<>>, keys)
  IN CASE input # <<>> /\ \E c \in DOMAIN calls : Len(Args(calls[c])) > 1 -> <<Failure(Err)>>
       [] Stopped(args) -> <<Last(args)>>
       [] ~Stopped(args) /\ Stopped(keys) -> <<Last(keys)>>
       [] OTHER -> FlattenSeq([g \in DOMAIN groups |->
            AggregateRow(calls, Images(Rows(groups[g]), LAMBDA i : args[i][2]), groups[g])])
=============================================================================
