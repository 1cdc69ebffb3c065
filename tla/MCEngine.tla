------------------------------ MODULE MCEngine ------------------------------
(***************************************************************************)
(* The algorithms of the engine on small inputs.  A state is one job: the  *)
(* algorithm and its inputs, picked in the idle state.  The properties     *)
(* compare what the code computes for them with what it should.  They are  *)
(* stated of the steps that leave a state, and every job has such a step,  *)
(* Done or a step of the optimizer, so they hold of every job.             *)
(***************************************************************************)
EXTENDS Optimizer, HepOptimizer, Statistics, LruCache, SketchBuild

CONSTANT Jobs   \* which of the jobs are run

VARIABLES job, in

vars == <<job, in, optimizerVars, cacheVars, sketchVars>>

-----------------------------------------------------------------------------
(* Constants of the model *)

MCBits == [Tinyint |-> 3, Smallint |-> 4, Integer |-> 8, Bigint |-> 16,
           UTinyint |-> 3, USmallint |-> 4, UInteger |-> 8, UBigint |-> 15]
MCShift == [p \in 0..1 |-> 2]
MCHash == [t1 |-> <<1, 1, 1, 1, 1, 1, 1, 1>>, t2 |-> <<1, 1, 1, 1, 1, 1, 1, 2>>]

MCShardOf == [k \in CacheKey |-> 1]
MCColumns == <<[k1 |-> 0, k2 |-> 0, k3 |-> 1, null |-> 1], [k1 |-> 0, k2 |-> 1, k3 |-> 0, null |-> 1]>>

Idle == <<>>
NoPlan == <<"None", <<>>, 0>>

Start(j) == job = "idle" /\ j \in Jobs /\ job' = j /\ UNCHANGED optimizerVars

Init ==
  /\ job = "idle" /\ in = Idle
  /\ plan = NoPlan /\ batch = 0 /\ rule = 0 /\ round = 0 /\ changed = FALSE
  /\ CacheInit /\ SketchInit

-----------------------------------------------------------------------------
(* Numbers, casts and times *)

Edges(name) == {IntMin(name), IntMin(name) + 1, -1, 0, 1, 2, IntMax(name) - 1, IntMax(name)}
                 \cap IntMin(name)..IntMax(name)
Ints(name) == {Whole(name, n) : n \in Edges(name)}

PickNumbers == Start("numbers") /\ \E a, b \in IntName : in' = <<a, b>>

\* The rational number a value stands for.
Number(v) == IF Kind(v) \in IntName THEN <<Payload(v), 1>> ELSE Payload(v)
Exact(op, p, q) ==
  CASE op = "Plus" -> RatPlus(p, q)
    [] op = "Minus" -> RatPlus(p, RatNeg(q))
    [] op = "Multiply" -> RatTimes(p, q)
    [] op = "Divide" -> RatDiv(p, q)

\* Arithmetic and comparison of two integers of any two types (src/types/evaluator, with
\* the casts BindEvaluator adds) is exact or an error: no operand is cut by its cast and
\* no result wraps, and an error is given only where the types have no common one or the
\* result does not fit it.
NumbersExact == job = "numbers" =>
  LET common == max_logical_type(<<in[1]>>, <<in[2]>>)
  IN \A v \in Ints(in[1]), w \in Ints(in[2]) :
       /\ \A op \in {"Plus", "Minus", "Multiply", "Divide"} :
            LET r == Evaluate(BindBinary(op, Const(v), Const(w)), NoRow)
                x == Exact(op, Number(v), Number(w))
                fits == op = "Divide" \/ Name(common) \notin IntName \/ Fits(Name(common), x[1])
            IN IF common = Incomparable \/ ~fits THEN r = Err ELSE ~Failed(r) /\ Number(r) = x
       /\ \A op \in Comparison :
            LET r == Evaluate(BindBinary(op, Const(v), Const(w)), NoRow)
            IN IF common = Incomparable THEN r = Err
               ELSE r = Boolean(Compared(op, Payload(v) - Payload(w)))

CastTypes == {<<n>> : n \in IntName \cup FloatName \cup {"Boolean", "Date", "DateTime"}}
           \cup {<<"Decimal", NoLen, NoLen>>, <<"Varchar", NoLen>>, <<"Varchar", 3>>,
                 <<"TimeStamp", NoLen, FALSE>>}
ValuesOf(ty) ==
  CASE Name(ty) \in IntName -> Ints(Name(ty))
    [] Name(ty) \in FloatName \cup {"Decimal"} -> {<<Name(ty), <<n, d>>, 0>> : n \in {-3, 1}, d \in {1, 2}}
    [] Name(ty) = "Boolean" -> {Boolean(b) : b \in BOOLEAN}
    [] Name(ty) = "Date" -> {Whole("Date", n) : n \in 0..4}
    [] Name(ty) = "DateTime" -> {Whole("DateTime", n) : n \in -4..7}
    [] Name(ty) = "TimeStamp" -> {<<"TimeStamp", n, 0>> : n \in -4..4}
    [] OTHER -> {Utf8(IntText(n), ty) : n \in {-12, 0, 7}}

PickCast == Start("cast") /\ \E from, to \in CastTypes : in' = <<from, to>>

\* A conversion the binder makes on its own (can_implicit_cast of src/types/mod.rs) never
\* fails and keeps the order of the values, so that a comparison after it means the same.
ImplicitCastsKeepOrder == job = "cast" /\ can_implicit_cast(in[1], in[2]) /\ Name(in[2]) \notin StringName =>
  \A v, w \in ValuesOf(in[1]) :
    LET x == Cast(v, in[2])
        y == Cast(w, in[2])
    IN /\ ~Failed(x) /\ logical_type(x) = in[2]
       /\ partial_cmp(v, w) <= 0 => partial_cmp(x, y) <= 0

Lossless == {"Boolean", "Date", "DateTime", "TimeStamp", "Varchar"} \cup IntName
\* DATETIME to DATE drops the time of the day.
Narrows(from, to) == <<Name(from), Name(to)>> \in {<<"DateTime", "Date">>, <<"TimeStamp", "Date">>}

\* A CAST between types without fractions (src/types/value.rs) that succeeds loses
\* nothing: casting back gives the value again or is refused.
CastsRoundTrip == job = "cast" /\ {Name(in[1]), Name(in[2])} \subseteq Lossless /\ ~Narrows(in[1], in[2]) =>
  \A v \in ValuesOf(in[1]) :
    LET there == Cast(v, in[2])
    IN Failed(there) \/ Cast(there, in[1]) \in {v, Err}


Times == UNION {{Time(pack(s, n * NanosPerUnit(p), p), p) :
                   s \in 0..(OneDayToSec - 1), n \in 0..(10^p - 1)} : p \in {0, 1}}
TimeNanos(t) == LET u == unpack(Payload(t), t[3]) IN u[1] * OneSecToNano + u[2]
Stamps == {<<"TimeStamp", n, p>> : n \in -7..7, p \in {0, 1}}

PickTime == Start("time") /\ \E t \in Times \cup Stamps : in' = <<t>>

\* TIME is packed in a word (pack and unpack of src/types/value.rs) and added with a
\* carry, subtracted with a borrow (src/types/evaluator/time32.rs): a sum is as long
\* after midnight as its operands together, or NULL when that is past the day, and taking
\* one operand away gives the other, at any two precisions.
TimesAddUp == job = "time" /\ Kind(in[1]) = "Time" => \A t \in Times :
  LET sum == TimeBinary("Plus", in[1], t)
      back == TimeBinary("Minus", sum, t)
      whole == TimeNanos(in[1]) + TimeNanos(t)
  IN IF IsNull(sum) THEN whole >= OneDayToSec * OneSecToNano
     ELSE TimeNanos(sum) = whole /\ ~Failed(back) /\ TimeNanos(back) = TimeNanos(in[1])

\* Times and timestamps of any two precisions compare as the instants they stand for
\* (time32.rs, time64.rs), as long as these can be counted in the finer unit.
TimesCompare == job = "time" => \A t \in Times \cup Stamps, op \in Comparison :
  LET Instant(x) == IF Kind(x) = "Time" THEN TimeNanos(x) ELSE from_timestamp_precision(Payload(x), x[3])
      ty == <<Kind(in[1]), NoLen, FALSE>>
  IN Kind(t) = Kind(in[1]) /\ Abs(Instant(in[1])) <= MaxInstant /\ Abs(Instant(t)) <= MaxInstant =>
       BinaryEval(op, ty, in[1], t) = Boolean(Compared(op, Instant(in[1]) - Instant(t)))

-----------------------------------------------------------------------------
(* Strings *)

A == 97
B == 98
Words(chars, n) == UNION {[1..k -> chars] : k \in 0..n}

PickLike == Start("like") /\ \E pat \in Words({A, B, AnyRun, AnyOne}, 3) : in' = <<pat>>

\* LIKE of SQL: the pattern describes the whole string.
RECURSIVE SqlLike(_, _)
SqlLike(s, pat) ==
  CASE pat = <<>> -> s = <<>>
    [] pat # <<>> /\ pat[1] = AnyRun -> \E k \in 0..Len(s) : SqlLike(SubSeq(s, k + 1, Len(s)), Tail(pat))
    [] OTHER -> s # <<>> /\ pat[1] \in {AnyOne, s[1]} /\ SqlLike(Tail(s), Tail(pat))

\* string_like (src/types/evaluator/utf8.rs) turns the pattern into a regular expression
\* it looks for anywhere in the string: it finds every string LIKE should, and no other
\* when the pattern begins and ends with %.
LikeFinds == job = "like" => \A s \in Words({A, B}, 4) :
  /\ SqlLike(s, in[1]) => string_like(s, in[1])
  /\ in[1] # <<>> /\ in[1][1] = AnyRun /\ Last(in[1]) = AnyRun =>
       (string_like(s, in[1]) <=> SqlLike(s, in[1]))

PickString == Start("string") /\ \E s \in Words({A, B}, 4) : in' = <<s>>

SubStringOf(s, from, for) ==
  eval(<<"SubString", <<Const(Text(s)), Const(Whole("Integer", for)), Const(Whole("Integer", from))>>,
         {"From", "For"}>>, NoRow)

\* SUBSTRING, POSITION and TRIM (src/expression/evaluator.rs) fit together: the substring
\* at the position found is the pattern, and none is found only where there is none;
\* trimming takes whole copies of the pattern off the ends and leaves none there.
StringFunctionsFit == job = "string" => \A p \in Words({A, B}, 2) :
  LET s == in[1]
      n == Payload(Position(p, s))
      t == Trim(s, p, "Both")
      Copies(k) == FlattenSeq([i \in 1..k |-> p])
  IN /\ IF n = 0 THEN \A f \in 1..Len(s) : SubStringOf(s, f, Len(p)) # Text(p)
        ELSE p # <<>> => SubStringOf(s, n, Len(p)) = Text(p)
     /\ p # <<>> => /\ ~IsPrefix(p, t) /\ ~IsSuffix(p, t)
                    /\ \E i, j \in 0..4 : s = Copies(i) \o t \o Copies(j)
     /\ p = <<>> => t = s


-----------------------------------------------------------------------------
(* Expressions *)

TypeOrder == <<<<"Tinyint">>, <<"Integer">>, <<"UInteger">>, <<"UBigint">>, <<"Double">>, <<"Boolean">>,
               <<"Date">>, <<"DateTime">>, <<"Decimal", NoLen, NoLen>>, <<"Varchar", 2>>, <<"Char", 2>>>>
ColumnOf(ty) == Col(<<"t1", Name(ty), ty>>)
Leaves == {ColumnOf(ty) : ty \in Range(TypeOrder)} \cup {Const(Null), Const(Whole("Integer", 2))}
\* The row of NULLs and two rows of values.
Sample(ty, k) ==
  LET first == CHOOSE v \in ValuesOf(ty) : TRUE
  IN CASE k = 0 -> Null
       [] k = 1 -> first
       [] k = 2 -> IF Name(ty) \in IntName THEN Whole(Name(ty), 2) ELSE CHOOSE v \in ValuesOf(ty) : v # first
Samples == {<<[i \in DOMAIN TypeOrder |-> Data(ColumnOf(TypeOrder[i]))],
              [i \in DOMAIN TypeOrder |-> Sample(TypeOrder[i], k)]>> : k \in 0..2}

\* The expressions of two operands: the operators, the functions and CASE.
Built(l, r) ==
  {BindBinary(op, l, r) : op \in Comparison \cup Arithmetic \cup {"And", "Or", "StringConcat", "Like"}}
    \cup {BindFunction(f, <<l, r>>, FALSE) : f \in {"NullIf", "IfNull", "Coalesce"}}
    \cup {BindFunction("If", <<BindBinary("Eq", l, l), r, l>>, FALSE),
          BindCase(TRUE, TRUE, <<l, r, l, r>>), BindCase(FALSE, FALSE, <<BindBinary("Gt", l, r), r>>)}
\* What is built on such an expression.
Wrapped(e, l) ==
  {e, BindUnary("Minus", e), BindUnary("Not", e), BindBinary("Plus", e, l), BindBinary("Eq", l, e),
   BindFunction("Coalesce", <<l, e>>, FALSE)}

PickExpression == Start("expression") /\ \E l, r \in Leaves : in' = <<l, r>>

\* The evaluators match only the values of their own type and leave every other pair to
\* unreachable_unchecked (src/types/evaluator): BindEvaluator's casts keep every expression
\* the binder accepts away from it, and what it evaluates to is of the type return_type
\* announces to the operators and schemas above.
ExpressionsTyped == [][job = "expression" =>
  \A b \in Built(in[1], in[2]) : Accepted(b) => \A e \in Wrapped(b, in[1]) : Accepted(e) =>
    \A row \in Samples :
      LET v == Evaluate(e, row)
      IN /\ v # Undefined
         /\ Failed(v) \/ IsNull(v) \/ Kind(v) = KindOf(return_type(e))]_vars

-----------------------------------------------------------------------------
(* Predicates: their simplification and the ranges read off them *)

ColA == <<"t1", "a", <<"Integer">>>>
ColB == <<"t1", "b", <<"Integer">>>>
I(n) == Const(Whole("Integer", n))
Num(n) == Whole("Integer", n)
Cmp(op, l, r) == BindBinary(op, l, r)
InList(c, ns, negated) == <<"In", <<Col(c)>> \o [i \in DOMAIN ns |-> I(ns[i])], negated>>
BetweenOf(c, m, n, negated) == <<"Between", <<Col(c), I(m), I(n)>>, negated>>
IsNullOf(c, negated) == <<"IsNull", <<Col(c)>>, negated>>
CmpA(ops, ns) == {Cmp(op, Col(ColA), I(n)) : op \in ops, n \in ns}
Ordering == Comparison \ {"NotEq"}
Lists == {<<1>>, <<0, 2>>, <<2, 0>>, <<1, 1>>, <<2, 0, 1>>}

\* An operand Simplify takes apart, its column on the left of + and - or on the right of -.
Operands(c) ==
  {Col(c), BindUnary("Minus", Col(c)), Cmp("Plus", Col(c), I(1)), Cmp("Minus", Col(c), I(2)),
   Cmp("Minus", I(1), Col(c)), BindUnary("Minus", Cmp("Plus", Col(c), I(1)))}
Atoms == {Cmp(op, x, I(n)) : op \in Comparison, x \in Operands(ColA), n \in {-1, 1}}
           \cup {Cmp(op, I(1), x) : op \in Comparison, x \in Operands(ColA)}
           \cup {InList(ColA, ns, negated) : ns \in Lists, negated \in BOOLEAN}
           \cup {BetweenOf(ColA, m, n, negated) : m \in 0..2, n \in 0..2, negated \in BOOLEAN}
           \cup {IsNullOf(ColA, negated) : negated \in BOOLEAN}
OnB == {Cmp("Gt", Col(ColB), I(0)), Cmp("LtEq", I(1), Cmp("Minus", Col(ColB), I(1))),
        InList(ColB, <<0, 1>>, TRUE)}

\* Conjunctions of comparisons, disjunctions of equalities and of closed intervals, and
\* a comparison with a list: the predicates whose ranges merge soundly.
Merged ==
  {Cmp("And", p, q) : p \in CmpA(Ordering, 0..2), q \in CmpA(Ordering, 0..2) \cup OnB}
    \cup {Cmp("And", Cmp("And", p, q), r) : p \in CmpA({"Gt", "GtEq"}, 0..1),
             q \in CmpA({"Lt", "LtEq", "Eq"}, 1..2), r \in CmpA(Ordering, {1})}
    \cup {Cmp("Or", Cmp("Or", p, q), r) : p, q, r \in CmpA({"Eq"}, 0..2)}
    \cup {Cmp("Or", InList(ColA, s, FALSE), InList(ColA, t, FALSE)) : s, t \in Lists}
    \cup {Cmp("Or", BetweenOf(ColA, m, n, FALSE), BetweenOf(ColA, k, l, FALSE)) :
             m, k \in 0..2, n, l \in 1..3}
    \cup {Cmp("And", p, InList(ColA, s, FALSE)) : p \in CmpA(Ordering, 0..2), s \in Lists}
    \cup {Cmp("Or", p, q) : p \in CmpA(Ordering, {1}), q \in OnB}

PickPredicate == Start("predicate") /\ \E p \in Atoms \cup Merged : in' = <<p>>

RowAB(v, w) == <<<<ColA, ColB>>, <<v, w>>>>
SmallNumbers == {Num(n) : n \in -3..4} \cup {Null}
\* Whether a row passes a filter whose predicate is bound.
Keeps(p, row) == is_true(eval(p, row))

\* SimplifyFilter (src/expression/simplify.rs) moves constants across a comparison, turns
\* IN and BETWEEN into comparisons and folds constants: the filter keeps the same rows.
SimplifyKeepsRows == job = "predicate" =>
  LET given == BindEvaluator(in[1])
      simple == BindEvaluator(SimplifyFilter(in[1]))
  IN \A v \in SmallNumbers, w \in {Num(1), Num(3), Null} :
       Keeps(simple, RowAB(v, w)) <=> Keeps(given, RowAB(v, w))

AfterMin(v, b) == b = Unbounded \/ partial_cmp(v, b[2]) = 1 \/ (b[1] = "Included" /\ eq(v, b[2]))
BeforeMax(v, b) == b = Unbounded \/ partial_cmp(v, b[2]) = -1 \/ (b[1] = "Included" /\ eq(v, b[2]))
RECURSIVE Holds(_, _)
\* How many of the ranges a scan goes through hold the value.
Holds(v, r) ==
  CASE r[1] = "Scope" -> IF ~IsNull(v) /\ AfterMin(v, r[2]) /\ BeforeMax(v, r[3]) THEN 1 ELSE 0
    [] r[1] = "Eq" -> IF v = r[2] THEN 1 ELSE 0
    [] r[1] = "Sorted" -> FoldLeft(LAMBDA n, x : n + Holds(v, x), 0, r[2])
    [] r[1] = "Dummy" -> 0
    [] OTHER -> 1

\* The range of a column detached from the simplified predicate
\* (src/expression/range_detacher.rs) is all an index scan reads: every value the
\* predicate may keep lies in it, in exactly one of its parts.
RangesCover == job = "predicate" =>
  LET given == BindEvaluator(in[1])
      detached == detach(ColA, SimplifyFilter(in[1]))
  IN \A v \in SmallNumbers :
       /\ Holds(v, detached) <= 1
       /\ (\E w \in {Num(1), Num(3), Null} : Keeps(given, RowAB(v, w))) => Holds(v, detached) = 1

-----------------------------------------------------------------------------
(* References to the output of the operator below *)

Alike ==
  LET a == Col(ColA)
      b == Col(ColB)
  IN {a, b, Cmp("Plus", a, b), Cmp("Minus", a, b), Cmp("Minus", b, a), BindUnary("Minus", a),
      Cmp("Eq", a, b), Cmp("GtEq", a, b), IsNullOf(ColA, FALSE), IsNullOf(ColA, TRUE),
      InList(ColA, <<1>>, FALSE), InList(ColA, <<1>>, TRUE), InList(ColA, <<1, 2>>, FALSE),
      BetweenOf(ColA, 0, 1, FALSE), BetweenOf(ColA, 0, 1, TRUE), TypeCast(a, <<"Bigint">>),
      TypeCast(a, <<"Varchar", NoLen>>), BindFunction("IfNull", <<a, b>>, FALSE),
      BindFunction("IfNull", <<b, a>>, FALSE), BindFunction("If", <<Cmp("Eq", a, b), a, b>>, FALSE),
      BindCase(TRUE, TRUE, <<a, I(1), b, a>>), BindCase(FALSE, FALSE, <<Cmp("Gt", a, b), a>>),
      <<"Alias", <<Cmp("Plus", a, b)>>, <<"Name", "x">>>>,
      <<"Alias", <<Cmp("Minus", a, b)>>, <<"Expr", Col(<<"t2", "a", <<"Integer">>>>)>>>>}

PickReference == Start("reference") /\
  \E first \in Alike, second \in {Col(ColA), Col(ColB), IsNullOf(ColA, FALSE)} : in' = <<first, second>>

\* Whether a column is read from the row itself, outside any reference.
RECURSIVE ReadsColumn(_)
ReadsColumn(e) ==
  Variant(e) = "Col" \/ (Variant(e) # "Reference" /\ \E i \in DOMAIN Args(e) : ReadsColumn(Arg(e, i)))

\* ExpressionRemapper replaces what the child computes already by its position
\* (TryReference of src/expression/mod.rs), recognising it by the name it prints: where
\* only such references remain, they give the value the expression has on the child's input.
ReferencesKeepValue == job = "reference" =>
  \A e \in Alike : \A f \in {e, <<"IsNull", <<e>>, FALSE>>, BindFunction("Coalesce", <<e, e>>, FALSE)} :
    LET moved == TryReference(f, in)
        plain == BindEvaluator(f)
        bound == BindEvaluator(moved)
        child == <<BindEvaluator(in[1]), BindEvaluator(in[2])>>
    IN ~ReadsColumn(moved) => \A v, w \in {Num(0), Num(1), Null} :
         eval(bound, <<[i \in 1..2 |-> output_column(in[i])],
                       [i \in 1..2 |-> eval(child[i], RowAB(v, w))]>>)
           = eval(plain, RowAB(v, w))

\* A predicate rewritten on its way to a scan keeps the rows it kept: simplified
\* (src/expression/simplify.rs), turned into ranges (src/expression/range_detacher.rs), or
\* with parts read from the child that computes them (src/expression/mod.rs).
RewritesKeepRows == [][
  /\ SimplifyKeepsRows
  /\ RangesCover
  /\ ReferencesKeepValue]_vars

-----------------------------------------------------------------------------
(* Keys *)

Tables == {"t1", "t2"}
IndexIds == {0, 1, 256}
Ulids == {<<0, 0>>, <<1, 255>>, <<255, 255>>}
KeyValues == {Num(IntMin("Integer")), Num(IntMax("Integer")), Text(<<0, 255>>)}

\* The keys of each kind: a table's columns, index metas, statistics, tuples and the
\* entries of each index, and the roots, views and hashes of all tables.
Family(kind, t, id) ==
  CASE kind = "Column" -> {encode_column(t, u) : u \in Ulids}
    [] kind = "IndexMeta" -> {encode_index_meta_key(t, i) : i \in IndexIds}
    [] kind = "Statistics" -> {encode_statistics_path_key(t, i) : i \in IndexIds}
    [] kind = "Tuple" -> {encode_tuple_key(t, v) : v \in KeyValues}
    [] kind = "Index" -> {encode_index_key(t, id, ty, v, w) : ty \in {"Normal", "Unique"},
                            v \in KeyValues \cup {Null}, w \in KeyValues}
    [] kind = "AllIndex" -> UNION {{encode_index_key(t, i, ty, v, w) : ty \in {"Normal", "Unique"},
                                     v \in KeyValues \cup {Null}, w \in KeyValues} : i \in IndexIds}
    [] kind = "Root" -> {encode_root_table_key(s) : s \in Tables}
    [] kind = "View" -> {encode_view_key(s) : s \in Tables}
    [] kind = "Table" -> {encode_column(t, u) : u \in Ulids} \cup {encode_index_meta_key(t, i) : i \in IndexIds}
Families == {"Column", "IndexMeta", "Statistics", "Tuple", "Index", "AllIndex", "Root", "View", "Table"}
AllKeys == UNION {Family(k, t, id) : k \in Families, t \in Tables, id \in IndexIds}
             \cup {encode_table_hash_key(s) : s \in Tables}

BoundOf(kind, t, id) ==
  CASE kind = "Column" -> columns_bound(t)
    [] kind = "IndexMeta" -> index_meta_bound(t)
    [] kind = "Statistics" -> statistics_bound(t)
    [] kind = "Tuple" -> tuple_bound(t)
    [] kind = "Index" -> index_bound(t, id)
    [] kind = "AllIndex" -> all_index_bound(t)
    [] kind = "Root" -> root_table_bound
    [] kind = "View" -> view_bound
    [] kind = "Table" -> table_bound(t)

PickKeys == Start("keys") /\ \E k \in Families, t \in Tables, id \in IndexIds : in' = <<k, t, id>>

\* All tables, indexes and catalog entries share one ordered key space
\* (src/storage/table_codec.rs).  Scanning a bound with the prefix iterator of rocksdb.rs
\* meets the keys of its own kind, table and index: each of them, and no other one, even
\* where the hashes of two tables or the ids of two indexes are neighbours.
KeysSeparate == job = "keys" =>
  LET bound == BoundOf(in[1], in[2], in[3])
      met == range([k \in AllKeys |-> k], Included(bound[1]), Included(bound[2]))
  IN {met[i] : i \in DOMAIN met} = Family(in[1], in[2], in[3])

Short(chars) == Words(chars, 2) \cup {<<97, 98, 97, 98, 97, 98, 97>>, <<97, 98, 97, 98, 97, 98, 0>>, <<97, 98, 97, 98, 97, 98>>}
Decimals == {<<"Decimal", Ratio(n, d), 0>> : n \in {-12345, -100, -99, -1, 0, 1, 7, 10, 99, 100, 101, 12345},
                                            d \in {1, 10, 100, 1000}}
OrderedValues ==
  [word |-> {Num(n) : n \in {-128, -127, -1, 0, 1, 126, 127}},
   long |-> {Whole("Bigint", n) : n \in {-32768, -257, -256, -1, 0, 1, 255, 256, 32767}},
   date |-> {Whole("Date", n) : n \in -2..2},
   text |-> {Text(s) : s \in Short({0, 1, 97, 255})},
   string |-> {Text([i \in 1..n |-> ch]) : n \in {0, 1, 7, 8, 9}, ch \in {A, B}},
   decimal |-> Decimals,
   tuple |-> {<<"Tuple", <<Num(n), Text(s)>>, FALSE>> : n \in {-1, 0, 1}, s \in Words({0, 97}, 2)}]

PickOrder == Start("order") /\ \E k \in DOMAIN OrderedValues : \E v \in OrderedValues[k] : in' = <<k, v>>

\* The keys of a table sort as its primary keys, and the entries of an index as the
\* indexed value first and the tuple id second (memcomparable_encode of
\* src/types/value.rs), for numbers, dates, decimals, tuples and strings of one group:
\* a scan between two keys is a scan between two values.
KeysOrdered == job = "order" /\ in[1] # "string" => \A w \in OrderedValues[in[1]], prefix \in {key_prefix("Tuple", "t1"), index_bound("t1", 0)[1]} :
  LET Enc(x) == memcomparable_encode(Append(prefix, BOUND_MIN_TAG), x)
      cmp == IF in[1] = "tuple" THEN tuple_cmp(in[2], w) ELSE partial_cmp(in[2], w)
  IN /\ SeqCmp(Enc(in[2]), Enc(w)) = cmp
     /\ cmp # 0 => \A m, n \in {Num(-128), Num(0), Num(127)} :
          SeqCmp(memcomparable_encode(Enc(in[2]), m), memcomparable_encode(Enc(w), n)) = cmp

\* "EncodeBytes guarantees the encoded value is in ascending order for comparison"
\* (src/types/value.rs:850), in the key of a tuple, for strings that need more than one
\* group too.
StringKeysOrdered == job = "order" /\ in[1] = "string" => \A w \in OrderedValues["string"] :
  SeqCmp(encode_tuple_key("t1", in[2]), encode_tuple_key("t1", w)) = partial_cmp(in[2], w)

-----------------------------------------------------------------------------
(* Rows and index scans *)

MixedTypes == <<<<"Integer">>, <<"Varchar", NoLen>>, <<"Char", 3>>, <<"Boolean">>, <<"Bigint">>>>
MixedValues ==
  <<{Null, Num(-1)}, {Null, Text(<<>>), Text(<<97, 0, 32>>)},
    {Null, Utf8(<<97>>, <<"Char", 3>>), Utf8(<<>>, <<"Char", 3>>)}, {Null, Boolean(TRUE)},
    {Null, Whole("Bigint", -2), Whole("Bigint", 256)}>>
\* As many columns as the null bitmap has bits in a byte, and one more and one less.
WideTypes(n) == [i \in 1..n |-> <<"Tinyint">>]
WideRow(n, nulls) == [i \in 1..n |-> IF i \in nulls THEN Null ELSE Whole("Tinyint", (i % 8) - 4)]

PickTuple == Start("tuple") /\
  \/ \E a \in MixedValues[1], b \in MixedValues[2], c \in MixedValues[3], d \in MixedValues[4],
        e \in MixedValues[5] : in' = <<MixedTypes, <<a, b, c, d, e>>>>
  \/ \E n \in 7..9, nulls \in {{}, {1}, {7}, {8}, {9}, {1, 8}, {2, 9}} : in' = <<WideTypes(n), WideRow(n, nulls)>>

\* What serialize_to writes of a row deserialize_from (src/types/tuple.rs) reads back,
\* value by value, for every choice of columns that leaves no NULL unread before the last
\* column it reads: the null bitmap, the length prefixes and the skipped columns agree.
TupleRoundTrip == job = "tuple" =>
  LET bytes == serialize_to(in[2])
      n == Len(in[1])
      Clean(cols) == \A i \in 1..n : IsNull(in[2][i]) /\ i \notin cols => \A j \in cols : j < i
      choices == IF n = 5 THEN SUBSET (1..n) \ {{}} ELSE {{1, n}, {n}, 1..n, {2, 8} \cap 1..n}
  IN \A cols \in choices : Clean(cols) =>
       LET projections == InOrder(cols)
       IN deserialize_from(in[1], <<1>>, projections, bytes, FALSE)[2]
            = [i \in DOMAIN projections |-> in[2][projections[i]]]

\* What is written under a key is met by the scans over its bounds and by no other, in the
\* order of its values, and read back as it was (src/storage/table_codec.rs,
\* src/types/tuple.rs).
CodecKeepsRows == [][
  /\ KeysSeparate
  /\ KeysOrdered
  /\ TupleRoundTrip]_vars

T1 == [name |-> "t1", names |-> <<"k", "a", "b">>, types |-> <<<<"Integer">>, <<"Integer">>, <<"Integer">>>>, pk |-> <<1>>]
ByA(ty) == [id |-> 1, ty |-> ty, columns |-> <<2>>, value_ty |-> <<"Integer">>]
ByAB == [id |-> 2, ty |-> "Composite", columns |-> <<2, 3>>, value_ty |-> <<"Tuple", <<<<"Integer">>, <<"Integer">>>>>>]
ByKey == [id |-> 0, ty |-> "PrimaryKey", columns |-> <<1>>, value_ty |-> <<"Integer">>]
Neighbour == [ByA("Normal") EXCEPT !.id = 257]

\* Rows in the table and the index, with a row deleted again, and a neighbouring index
\* and table that hold entries of their own.
Stored(rows, gone, index) ==
  LET Store(kv, r) ==
        add_index(add_index(append_tuple(kv, T1, r, FALSE)[2], T1, index, r)[2], T1, Neighbour, r)[2]
      Take(kv, r) == remove_tuple(del_index(del_index(kv, T1, index, r), T1, Neighbour, r), T1, r[1])
      other == append_tuple(<<>>, [T1 EXCEPT !.name = "t2"], <<Num(1), Num(1), Num(1)>>, FALSE)[2]
  IN Take(FoldLeft(Store, Store(other, gone), rows), gone)

Nums(k, a, b) == <<Num(k), IF a = 9 THEN Null ELSE Num(a), IF b = 9 THEN Null ELSE Num(b)>>
RowSets == {<<Nums(-1, 1, 2), Nums(0, 2, 1), Nums(1, 0, 0)>>, <<Nums(-2, 2, 9), Nums(3, 1, 0), Nums(7, 9, 1)>>,
            <<Nums(2, -128, -1), Nums(1, 126, 2), Nums(0, 1, 2)>>}
Duplicates == {<<Nums(-1, 1, 2), Nums(0, 1, 1), Nums(1, 1, 2), Nums(2, 9, 1), Nums(3, 9, 9)>>,
               <<Nums(5, 2, 0), Nums(4, 1, 0), Nums(3, 1, 9), Nums(2, 2, 1)>>}
ColK == <<"t1", "k", <<"Integer">>>>
OnKey == {Cmp(op, Col(ColK), I(n)) : op \in Ordering, n \in {-1, 0}}
           \cup {Cmp("And", Cmp("Gt", Col(ColK), I(-2)), Cmp("LtEq", Col(ColK), I(1)))}
Single == CmpA(Ordering, {0, 1}) \cup {BetweenOf(ColA, 0, 1, FALSE), Cmp("And", Cmp("Gt", Col(ColA), I(0)), Cmp("Lt", Col(ColA), I(2)))}
Several == {InList(ColA, <<0, 2>>, FALSE), InList(ColA, <<2, 1, 0>>, FALSE), IsNullOf(ColA, FALSE),
            Cmp("Or", BetweenOf(ColA, 0, 0, FALSE), BetweenOf(ColA, 2, 3, FALSE))}
Pairs == {Cmp("And", p, q) : p \in {Cmp("Eq", Col(ColA), I(1)), InList(ColA, <<1, 2>>, FALSE)},
            q \in {Cmp(op, Col(ColB), I(1)) : op \in Ordering} \cup {IsNullOf(ColB, FALSE)}}

Queries ==
  ({ByKey} \X RowSets \X OnKey) \cup ({ByA("Unique")} \X RowSets \X Single)
    \cup ({ByA("Normal")} \X (RowSets \cup Duplicates) \X (Single \cup Several))
    \cup ({ByAB} \X (RowSets \cup Duplicates) \X (Pairs \cup {Cmp("Gt", Col(ColA), I(0)), Cmp("Eq", Col(ColA), I(1))}))

PickIndexScan == Start("index") /\ \E q \in Queries : in' = q

\* A query answered through an index (IndexScan, IndexIter and the four index kinds of
\* src/storage/mod.rs) finds what a scan of the table would: every row its predicate
\* keeps, each once, and nothing deleted or of another index or table.
IndexFindsRows == [][job = "index" =>
  LET index == in[1]
      columns == <<ColK, ColA, ColB>>
      kv == Stored(in[2], Nums(-3, IF index.ty = "Unique" THEN 3 ELSE 1, 1), index)
      detached == IndexRange([i \in DOMAIN index.columns |-> columns[index.columns[i]]], SimplifyFilter(in[3]))
      found == IndexScan(kv, T1, index, detached, {1, 2, 3}, TRUE, 0, NoLimit)
      predicate == BindEvaluator(in[3])
      Kept(r) == Keeps(predicate, <<columns, r>>)
  IN detached # NoRange =>
       /\ \A i \in DOMAIN in[2] : Kept(in[2][i]) =>
            Cardinality({j \in DOMAIN found : found[j] = <<in[2][i][1], in[2][i]>>}) = 1
       /\ \A j \in DOMAIN found : \E i \in DOMAIN in[2] : found[j] = <<in[2][i][1], in[2][i]>>]_vars

-----------------------------------------------------------------------------
(* Joins, sorting and aggregation *)

Inputs(rows, n) == {[i \in DOMAIN s |-> <<NoPk, s[i]>>] : s \in Words(rows, n)}
ColC == <<"t2", "c", <<"Integer">>>>
ColD == <<"t2", "d", <<"Integer">>>>
LeftSchema == <<ColA, ColB>>
RightSchema == <<ColC, ColD>>
LeftRows == {<<Null, Num(1)>>, <<Num(1), Num(1)>>, <<Num(1), Num(2)>>, <<Num(2), Null>>}
RightRows == {<<Null, Num(0)>>, <<Num(1), Num(1)>>, <<Num(1), Num(2)>>}

PickJoin == Start("join") /\ \E l \in Inputs(LeftRows, 2), r \in Inputs(RightRows, 2) : in' = <<l, r>>

SameBag(s, t) ==
  \A x \in Range(s) \cup Range(t) : Len(SelectSeq(s, LAMBDA y : y = x)) = Len(SelectSeq(t, LAMBDA y : y = x))
RowsOf(out) == Images(out, LAMBDA t : t[2])

\* The rows of the SQL join of two inputs: the matching pairs, and the rows of the sides
\* the type keeps that no row matches.
SqlJoin(ty, Match(_, _), left, right) ==
  LET pairs == FlattenSeq([i \in DOMAIN left |-> FlattenSeq([j \in DOMAIN right |->
                 IF Match(left[i], right[j]) THEN <<left[i] \o right[j]>> ELSE <<>>])])
      Matched(l) == \E j \in DOMAIN right : Match(l, right[j])
      aloneLeft == SelectSeq(left, LAMBDA l : ~Matched(l))
      aloneRight == SelectSeq(right, LAMBDA r : \A i \in DOMAIN left : ~Match(left[i], r))
      beside == IF ty \in {"LeftOuter", "Full"} THEN Images(aloneLeft, LAMBDA l : l \o Nulls(2)) ELSE <<>>
      before == IF ty \in {"RightOuter", "Full"} THEN Images(aloneRight, LAMBDA r : Nulls(2) \o r) ELSE <<>>
  IN CASE ty = "LeftSemi" -> SelectSeq(left, Matched)
       [] ty = "LeftAnti" -> aloneLeft
       [] OTHER -> pairs \o beside \o before

OnAC == <<<<Col(ColA), Col(ColC)>>>>
BLessD == BindEvaluator(Cmp("LtEq", Col(ColB), Col(ColD)))
SchemasAB == <<LeftSchema, RightSchema>>

\* The hash join (src/execution/dql/join/hash_join.rs) yields the rows of the SQL join of
\* its type, also with NULL and repeated keys and an empty side; with a residual filter,
\* for inner joins.
HashJoinsRight == job = "join" =>
  LET l == RowsOf(in[1])
      r == RowsOf(in[2])
      SameKey(x, y) == ~IsNull(x[1]) /\ x[1] = y[1]
      Both(x, y) == SameKey(x, y) /\ is_true(eval(BLessD, <<LeftSchema \o RightSchema, x \o y>>))
  IN /\ \A ty \in JoinTypes \ {"Cross"} :
          SameBag(RowsOf(HashJoin(ty, OnAC, NoExpr, SchemasAB, in[1], in[2])), SqlJoin(ty, SameKey, l, r))
     /\ SameBag(RowsOf(HashJoin("Inner", OnAC, BLessD, SchemasAB, in[1], in[2])), SqlJoin("Inner", Both, l, r))

\* The nested loop join (src/execution/dql/join/nested_loop_join.rs), used where the
\* condition has no equality, yields the rows of the SQL join of its type; a full join
\* does when its left side is not empty.
LoopJoinsRight == job = "join" =>
  LET l == RowsOf(in[1])
      r == RowsOf(in[2])
      Passes(x, y) == is_true(eval(BLessD, <<LeftSchema \o RightSchema, x \o y>>))
  IN \A ty \in JoinTypes : (ty = "Full" => l # <<>>) =>
       SameBag(RowsOf(NestedLoopJoin(ty, <<>>, BLessD, SchemasAB, in[1], in[2])), SqlJoin(ty, Passes, l, r))


SortSchema == <<<<"t1", "n", <<"Bigint">>>>, <<"t1", "m", <<"Integer">>>>>>
SortRows == {<<Whole("Bigint", n), Num(m)>> : n \in {-257, 0, 256}, m \in {-1, 1}} \cup {<<Null, Num(1)>>}
PickSort == Start("sort") /\ \E s \in Inputs(SortRows, 3) : in' = <<s>>


GroupRows == {<<Null, Num(1)>>, <<Num(1), Num(-2)>>, <<Num(1), Num(1)>>, <<Num(2), Null>>, <<Num(2), Num(1)>>}
PickGroup == Start("group") /\ \E s \in Inputs(GroupRows, 4) : in' = <<s>>

Calls == [i \in 1..6 |->
  BindFunction(<<"Count", "Count", "Sum", "Sum", "Min", "Max">>[i], <<Col(ColB)>>, i \in {2, 4})]
Addition(S, f(_)) == MapThenSumSet(f, S)

\* GROUP BY (src/execution/dql/aggregate) gives one row for each key, NULL a key like any
\* other, with the count, the sum and the extremes of the values that are not NULL, and of
\* the different ones for DISTINCT; without GROUP BY one row, of nothing when there is none.
GroupsRight == [][job = "group" =>
  LET rows == RowsOf(in[1])
      Group_(k) == {i \in DOMAIN rows : rows[i][1] = k /\ ~IsNull(rows[i][2])}
      Figure(i) == Payload(rows[i][2])
      Expected(is, k) ==
        LET ns == {Figure(i) : i \in is}
        IN <<Num(Cardinality(is)), Num(Cardinality(ns)),
             IF is = {} THEN Null ELSE Num(Addition(is, Figure)),
             IF is = {} THEN Null ELSE Num(Addition(ns, LAMBDA n : n)),
             IF is = {} THEN Null ELSE Num(Min(ns)), IF is = {} THEN Null ELSE Num(Max(ns))>> \o k
      keys == {rows[i][1] : i \in DOMAIN rows}
      grouped == RowsOf(HashAgg(Calls, <<Col(ColA)>>, LeftSchema, in[1]))
  IN /\ Len(grouped) = Cardinality(keys)
     /\ Range(grouped) = {Expected(Group_(k), <<k>>) : k \in keys}
     /\ RowsOf(SimpleAgg(Calls, LeftSchema, in[1]))
          = <<Expected({i \in DOMAIN rows : ~IsNull(rows[i][2])}, <<>>)>>]_vars

-----------------------------------------------------------------------------
(* Query plans *)

T2 == [name |-> "t2", names |-> <<"c", "d">>, types |-> <<<<"Integer">>, <<"Integer">>>>, pk |-> <<1>>]
PkOf(table) == [id |-> 0, ty |-> "PrimaryKey", columns |-> <<1>>, value_ty |-> <<"Integer">>]
Scan1 == TableScanBuild(T1, <<ByKey, ByA("Normal")>>, FALSE)
Scan2 == TableScanBuild(T2, <<PkOf(T2)>>, FALSE)
Project(exprs, p) == <<"Project", <<p>>, exprs>>
Where(predicate, p) == FilterBuild(predicate, p, FALSE)
Having(predicate, p) == FilterBuild(predicate, p, TRUE)
JoinOf(ty, l, r, on, filter) == <<"Join", <<l, r>>, <<ty, on, filter>>>>
AggregateOf(calls, groupby, p) == <<"Aggregate", <<p>>, <<calls, groupby, FALSE>>>>
LimitOf(offset, limit, p) == <<"Limit", <<p>>, <<offset, limit>>>>
SortOf(fields, p) == <<"Sort", <<p>>, <<fields, NoLimit>>>>

a == Col(ColA)
b == Col(ColB)
c == Col(ColC)
d == Col(ColD)
CountB == BindFunction("Count", <<b>>, FALSE)
Wheres == {Cmp("Gt", a, I(0)), Cmp("And", Cmp("Gt", Cmp("Plus", a, I(1)), I(1)), Cmp("Eq", d, I(1))),
           Cmp("And", Cmp("LtEq", a, d), IsNullOf(ColB, TRUE)), Cmp("Eq", c, I(1)), IsNullOf(ColD, FALSE),
           Cmp("Or", Cmp("Eq", a, I(2)), Cmp("Eq", d, I(1)))}
Joined(ty) == JoinOf(ty, Scan1, Scan2, OnAC, NoExpr)

\* The queries: <<plan, the same without its limit, the limit or NoLimit, whether it is ordered>>.
PlanOf(p) == <<p, p, NoLimit, FALSE>>
Plans_ ==
  {PlanOf(Project(<<a, d>>, Where(p, Joined(ty)))) : p \in Wheres, ty \in {"Inner", "LeftOuter", "RightOuter", "Full"}}
    \cup {PlanOf(Project(<<a, Cmp("Plus", a, b)>>, Where(Cmp("Gt", a, I(0)), Joined(ty)))) : ty \in {"LeftSemi", "LeftAnti"}}
    \cup {PlanOf(Project(<<b, c>>, Where(Cmp("Gt", b, c), JoinOf("Cross", Scan1, Scan2, <<>>, NoExpr))))}
    \cup {PlanOf(Project(<<CountB, a>>, Having(Cmp("Gt", CountB, I(0)),
             AggregateOf(<<CountB>>, <<a>>, Where(p, Scan1))))) : p \in {Cmp("GtEq", a, I(1)), InList(ColA, <<2, 0>>, FALSE)}}
    \cup {PlanOf(Project(<<a>>, Project(<<a, b>>, Where(Cmp("Gt", b, I(0)), Where(Cmp("Lt", a, I(2)), Scan1))))),
          PlanOf(AggregateOf(<<>>, <<a>>, AggregateOf(<<>>, <<a>>, Scan1))),
          PlanOf(Project(<<CountB>>, AggregateOf(<<CountB>>, <<>>, Project(<<b, a>>, Scan1)))),
          PlanOf(Project(<<a>>, Where(Cmp("And", Cmp("Gt", Col(ColK), I(-1)), Cmp("LtEq", a, I(1))), Scan1)))}
    \cup {<<LimitOf(offset, 1, Project(<<a>>, Where(Cmp("GtEq", a, I(1)), Scan1))),
            Project(<<a>>, Where(Cmp("GtEq", a, I(1)), Scan1)), 1, FALSE>> : offset \in {NoLimit}}
    \cup {<<LimitOf(NoLimit, 2, Project(<<a, d>>, Joined(ty))), Project(<<a, d>>, Joined(ty)), 2, FALSE>> :
            ty \in {"Inner", "LeftOuter", "RightOuter"}}
    \cup {<<LimitOf(1, 1, Project(<<b>>, SortOf(<<<<Col(ColK), FALSE, TRUE>>>>, Scan1))),
            LimitOf(1, 1, Project(<<b>>, SortOf(<<<<Col(ColK), FALSE, TRUE>>>>, Scan1))), NoLimit, TRUE>>,
          <<LimitOf(1, 2, Project(<<b>>, Scan1)), LimitOf(1, 2, Project(<<b>>, Scan1)), NoLimit, TRUE>>}

PickPlan ==
  /\ job = "idle" /\ "plan" \in Jobs /\ job' = "plan"
  /\ \E p \in Plans_ : in' = p /\ Optimize(p[1])

Stores ==
  {FoldLeft(LAMBDA kv, r : append_tuple(kv, T2, r, FALSE)[2], Stored(rows[1], Nums(-3, 1, 1), ByA("Normal")), rows[2]) :
     rows \in {<<<<Nums(-1, 1, 2), Nums(0, 2, 1), Nums(1, 1, 9)>>, <<<<Num(1), Num(1)>>, <<Num(3), Null>>>>>>,
               <<<<Nums(0, 0, 9), Nums(2, 1, 0)>>, <<<<Num(0), Num(1)>>, <<Num(2), Num(1)>>>>>>,
               <<<<>>, <<<<Num(1), Num(1)>>>>>>}}

\* The plan made ready for execution; the last batch of the optimizer does this.
Ready(p, stage) == IF stage[1] < Len(Batches) \/ stage = <<Len(Batches), 1>> THEN EvaluatorBind(ExpressionRemapper(p))
                   ELSE IF stage = <<Len(Batches), 2>> THEN EvaluatorBind(p) ELSE p
\* What statistics may say: nothing, or that an index or the table is the smallest.
Estimates == {[t \in Tables |-> [i \in 0..2 |-> IF best = NoCost THEN NoCost ELSE IF i = best THEN 0 ELSE 1]] :
                best \in {NoCost, 0, 1, 2}}

\* Every rule of the optimizer (src/optimizer/rule/normalization), in whatever order the
\* rounds apply them, leaves a plan with the result of the plan the binder made: the same
\* rows, in the same order where the query orders them, and with LIMIT as many of them as
\* there may be; and so does every scan the cost model may choose (src/optimizer/core/memo.rs).
PlansKeepResult == [][job = "plan" => \A kv \in Stores :
  LET final == batch > Len(Batches)
      expected == RowsOf(build_read(kv, Ready(in[2], <<1, 1>>)))
      Right(rows) ==
        CASE in[4] -> rows = expected
          [] ~in[4] /\ in[3] = NoLimit -> SameBag(rows, expected)
          [] OTHER -> /\ Len(rows) = Min({in[3], Len(expected)})
                      /\ \A x \in Range(rows) : Len(SelectSeq(rows, LAMBDA y : y = x))
                                                   <= Len(SelectSeq(expected, LAMBDA y : y = x))
  IN IF final THEN \A counts \in Estimates : Right(RowsOf(build_read(kv, into_plan(plan, counts))))
     ELSE Right(RowsOf(build_read(kv, Ready(plan, <<batch, rule>>))))]_vars

\* One step of the optimizer on the plan of the query.
OptimizerStep ==
  /\ job = "plan"
  /\ ApplyRule \/ EndOfRound
  /\ UNCHANGED <<job, in>>

-----------------------------------------------------------------------------
(* Statistics *)

StatValues == {Num(0), Num(3), Num(8)}
MCOffset ==
  LET Row(S) == [k \in StatValues \cup {Null, Num(2)} |-> IF k \in S THEN 1 ELSE 0]
  IN <<Row({Num(3), Null}), Row({Num(8)})>>

PickStatistics == Start("statistics") /\
  \E n \in 1..3 : \E s \in [1..4 -> StatValues \cup {Null}] : in' = <<s, n>>

Bounds == {Unbounded} \cup {Included(v) : v \in StatValues \cup {Num(2)}} \cup {Excluded(v) : v \in StatValues \cup {Num(2)}}
Scopes == {Scope(min, max) : min, max \in Bounds}
StatRanges ==
  {s \in Scopes : s[2] = Unbounded \/ s[3] = Unbounded \/ Payload(s[2][2]) < Payload(s[3][2])}
    \cup {EqRange(v) : v \in StatValues}
    \cup {Sorted(<<EqRange(Num(0)), Scope(Excluded(Num(2)), max)>>) : max \in {Unbounded, Included(Num(3))}}
    \cup {Sorted(<<Scope(Unbounded, max), EqRange(Num(8))>>) : max \in {Excluded(Num(3)), Included(Num(2))}}
    \cup {Sorted(<<Scope(Unbounded, Excluded(Num(2))), Scope(Excluded(Num(2)), Included(Num(3)))>>)}

Within(r, v) ==
  IF r[1] = "Eq" THEN v = r[2] ELSE ~is_above(v, r[3], FALSE) /\ ~is_under(v, r[2], TRUE)

\* What ANALYZE built, where no NULL comes before a value.
Analyzed == LET nulls == {i \in DOMAIN in[1] : IsNull(in[1][i])}
            IN \A i \in nulls, j \in DOMAIN in[1] : j > i => j \in nulls
\* A histogram knows its values in order only: one order of them is enough.
OneOrder == LET values == SelectSeq(in[1], LAMBDA v : ~IsNull(v))
            IN Len(values) >= in[2] /\ \A i, j \in DOMAIN values : i < j => Payload(values[i]) <= Payload(values[j])

\* The buckets of a histogram (HistogramBuilder::build of src/optimizer/core/histogram.rs)
\* hold every value once, in order and of equal depth; the distinct values and NULLs are
\* counted; building fails only for more buckets than values.
HistogramHolds == job = "statistics" /\ Analyzed =>
  LET made == build(in[1], in[2], MCOffset)
      values == SelectSeq(in[1], LAMBDA v : ~IsNull(v))
      buckets == made[1].buckets
      Inside(x) == {i \in DOMAIN values : Within(Scope(Included(buckets[x].lower), Included(buckets[x].upper)), values[i])}
      filled == {x \in DOMAIN buckets : buckets[x].count > 0}
  IN IF in[2] > Len(values) THEN made = TooManyBuckets
     ELSE /\ MapThenSumSet(LAMBDA x : buckets[x].count, DOMAIN buckets) = Len(values)
          /\ \A x \in filled : Cardinality(Inside(x)) >= buckets[x].count
          /\ \A x, y \in filled : x < y => Payload(buckets[x].upper) <= Payload(buckets[y].lower)
                                         /\ buckets[x].count >= buckets[y].count
                                         /\ (y + 1 \in filled => buckets[x].count = buckets[y].count)
          /\ made[1].distinct = Cardinality(Range(values))
          /\ made[1].null_count = 4 - Len(values)

\* The rows the optimizer expects in a range (Histogram::collect_count of
\* src/optimizer/core/histogram.rs) are those of the buckets inside it, exactly; only a
\* bucket that a range cuts adds to the error, and at most the rows it holds.
CountsNear == job = "statistics" /\ Analyzed /\ OneOrder =>
  LET made == build(in[1], in[2], MCOffset)
      buckets == made[1].buckets
      Size(x) == buckets[x].count + IF x = 1 THEN made[1].null_count ELSE 0
      values == SelectSeq(in[1], LAMBDA v : ~IsNull(v))
      Cut(r, x) ==
        /\ r[1] = "Scope" /\ buckets[x].count > 0
        /\ ~(is_above(buckets[x].lower, r[2], TRUE) /\ is_under(buckets[x].upper, r[3], FALSE))
        /\ ~is_above(buckets[x].lower, r[3], FALSE) /\ ~is_under(buckets[x].upper, r[2], TRUE)
  IN \A r \in StatRanges :
       LET list == RangeList(r)
           rows == Cardinality({i \in DOMAIN values : \E k \in DOMAIN list : Within(list[k], values[i])})
           cut == {p \in (DOMAIN list) \X (DOMAIN buckets) : Cut(list[p[1]], p[2])}
           slack == MapThenSumSet(LAMBDA p : Size(p[2]), cut)
           extra == MapThenSumSet(LAMBDA k : IF list[k][1] = "Eq" THEN made[2][list[k][2]] ELSE 0, DOMAIN list)
           count == collect_count(made, r)
       IN rows - slack <= count /\ count <= rows + slack + extra

\* The histogram ANALYZE builds (src/optimizer/core/histogram.rs) holds every value, and
\* the rows it estimates for ranges are near those there are.
StatisticsFit == [][
  /\ HistogramHolds
  /\ CountsNear]_vars

PickSketch == Start("sketch") /\ in' = Idle

SketchBuilt == job = "sketch" /\ built /\ UNCHANGED vars
SketchStep == job = "sketch" /\ SketchNext /\ UNCHANGED <<job, in, optimizerVars, cacheVars>>

-----------------------------------------------------------------------------
(* The LRU cache *)

PickCache == Start("cache") /\ in' = Idle

CacheStep == job = "cache" /\ CacheNext /\ UNCHANGED <<job, in, optimizerVars, sketchVars>>

Entries(L) ==
  LET walk[i \in 0..Cap] ==
        IF i = 0 THEN [at |-> L.head, seen |-> <<>>]
        ELSE LET w == walk[i - 1]
             IN IF w.at = None THEN w
                ELSE [at |-> L.next[w.at], seen |-> Append(w.seen, L.entry[w.at])]
  IN walk[Cap].seen

Abstract == INSTANCE Lru WITH
  Key <- CacheKey, order <- [s \in Shard |-> Entries(lru[s])]

\* The linked nodes of every shard (src/utils/lru.rs) behave as a list in the order of
\* use from which the entry used longest ago is evicted; get, put, remove and
\* get_or_insert return what such a list holds.
ImplementsLru == Abstract!Spec

\* The next question; a plan first runs to its end.
Done ==
  /\ job \notin {"idle", "sketch", "cache"} /\ (job = "plan" => batch > Len(Batches))
  /\ job' = "idle" /\ in' = Idle
  /\ plan' = NoPlan /\ batch' = 0 /\ rule' = 0 /\ round' = 0 /\ changed' = FALSE

Next ==
  \/ /\ UNCHANGED <<cacheVars, sketchVars>>
     /\ \/ PickNumbers \/ PickCast \/ PickTime \/ PickLike \/ PickString \/ PickExpression
        \/ PickPredicate \/ PickReference \/ PickKeys \/ PickOrder \/ PickTuple \/ PickIndexScan
        \/ PickJoin \/ PickSort \/ PickGroup \/ PickPlan \/ PickStatistics \/ PickSketch \/ PickCache
        \/ OptimizerStep
        \/ Done
  \/ SketchStep \/ SketchBuilt
  \/ CacheStep

Spec == Init /\ [][Next]_vars
=============================================================================
