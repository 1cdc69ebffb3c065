----------------------------- MODULE Expressions -----------------------------
(***************************************************************************)
(* ScalarExpression of src/expression: the tree the binder makes of a SQL  *)
(* expression, how it is typed, named, bound to evaluators, rewritten to   *)
(* positions of the child's output, and evaluated on a row.                *)
(*                                                                         *)
(* An expression is <<kind, arguments, data>>: the arguments in the order  *)
(* the visitors walk them, the data whatever else the variant holds:       *)
(*   Const value, Col column, Alias <<"Name", n>> or <<"Expr", e>>,        *)
(*   Cast type, IsNull/In/Between negated, Unary/Binary <<op, type,        *)
(*   type of the evaluator or Unbound>>, SubString the set of its optional *)
(*   parts (For before From), Trim where, Reference position, Func and Agg *)
(*   name, If/IfNull/NullIf/Coalesce type, CaseWhen <<has operand, has     *)
(*   else, type>>.  A column is <<table, name, type>>, with NoTable for a  *)
(* computed one, and a row is <<columns, values>>.                         *)
(***************************************************************************)
EXTENDS Evaluators, SequencesExt

NoTable == "no table"
Unbound == <<"Unbound">>
NoRow == <<>>

Variant(e) == e[1]
Args(e) == e[2]
Data(e) == e[3]
Arg(e, i) == e[2][i]

Const(v) == <<"Const", <<>>, v>>
Col(c) == <<"Col", <<>>, c>>
TypeCast(e, ty) == <<"Cast", <<e>>, ty>>
Unary(op, e, ty) == <<"Unary", <<e>>, <<op, ty, Unbound>>>>
Binary(op, l, r, ty) == <<"Binary", <<l, r>>, <<op, ty, Unbound>>>>
Bool == <<"Boolean">>
Empty == <<"Empty", <<>>, 0>>       \* what mem::replace leaves; later visitors panic on it
Refused == <<"Refused", <<>>, 0>>   \* a visitor returned an error

\* The sequence of the images, as a tuple.
Images(s, Image(_)) == <<>> \o [i \in DOMAIN s |-> Image(s[i])]

\* walk_mut_expr with the default visit methods: every child becomes what its visit left.
walk_mut_expr(e, visited) == <<e[1], visited, e[3]>>

\* walk_expr: the expression and everything below it.
RECURSIVE walk_expr(_)
walk_expr(e) == {e} \cup UNION {walk_expr(a) : a \in Range(Args(e))}

has_agg_call(e) == \E x \in walk_expr(e) : Variant(x) = "Agg"
has_table_ref_column(e) == \E x \in walk_expr(e) : Variant(x) = "Col" /\ Data(x)[1] # NoTable
HasCountStar(e) ==
  \E x \in walk_expr(e) : Variant(x) = "Agg" /\ Args(x) = <<Const(Text(<<42>>))>>
Accepted(e) == {Empty, Refused} \cap walk_expr(e) = {}

RECURSIVE unpack_alias(_)
unpack_alias(e) ==
  IF Variant(e) # "Alias" THEN e
  ELSE unpack_alias(IF Data(e)[1] = "Expr" THEN Data(e)[2] ELSE Arg(e, 1))

RECURSIVE return_type(_)
return_type(e) ==
  CASE Variant(e) = "Const" -> logical_type(Data(e))
    [] Variant(e) = "Col" -> Data(e)[3]
    [] Variant(e) \in {"Unary", "Binary", "Agg"} -> Data(e)[2]
    [] Variant(e) = "CaseWhen" -> Data(e)[3]
    [] Variant(e) \in {"Cast", "If", "IfNull", "NullIf", "Coalesce"} -> Data(e)
    [] Variant(e) \in {"IsNull", "In", "Between"} -> Bool
    [] Variant(e) \in {"SubString", "Trim", "Func"} -> <<"Varchar", NoLen>>
    [] Variant(e) = "Position" -> <<"Integer">>
    [] Variant(e) = "Tuple" -> <<"Tuple", Images(Args(e), return_type)>>
    [] OTHER -> return_type(Arg(e, 1))

\* The column references below e, in the order they are met.
RECURSIVE referenced_columns(_)
referenced_columns(e) ==
  IF Variant(e) = "Col" THEN <<Data(e)>>
  ELSE FlattenSeq(Images(Args(e), referenced_columns))

-----------------------------------------------------------------------------
(* Types the binder gives: bind_binary_op_internal, bind_unary_op_internal *)

\* Mutant of BindBinary: a quotient has the type of its operands.
QuotientKeepsType(op, l, r) ==
  LET ty == max_logical_type(return_type(l), return_type(r))
  IN CASE op \in Arithmetic /\ ty = Incomparable -> Refused
       [] op = "StringConcat" -> Binary(op, l, r, <<"Varchar", NoLen>>)
       [] op \in Arithmetic /\ ty # Incomparable -> Binary(op, l, r, ty)
       [] OTHER -> Binary(op, l, r, Bool)

BindBinary(op, l, r) ==
  LET ty == max_logical_type(return_type(l), return_type(r))
      given == CASE op \in Comparison \cup {"And", "Or"} -> Bool
                 [] op \in {"Like", "NotLike"} -> Bool
                 [] op = "StringConcat" -> <<"Varchar", NoLen>>
                 [] op = "Divide" -> IF Name(ty) = "Decimal" THEN ty ELSE <<"Double">>
                 [] OTHER -> ty
  IN IF op \in Arithmetic /\ ty = Incomparable THEN Refused ELSE Binary(op, l, r, given)

BindUnary(op, e) == Unary(op, e, IF op = "Not" THEN Bool ELSE return_type(e))

\* bind_function for the built-in functions: the aggregates, and those whose arguments
\* have one common type.
BindFunction(name, args, distinct) ==
  LET ty(i) == return_type(args[i])
      Common(from) == FoldLeft(max_logical_type, <<"SqlNull">>,
                               [i \in 1..(Len(args) - from + 1) |-> ty(from + i - 1)])
      Given(t) == IF t = Incomparable THEN Refused ELSE <<name, args, t>>
      Aggregate(t) == <<"Agg", args, <<name, t, distinct>>>>
      arity == [Count |-> 1, Sum |-> 1, Min |-> 1, Max |-> 1, Avg |-> 1, If |-> 3, NullIf |-> 2,
                IfNull |-> 2, Coalesce |-> Len(args)]
  IN CASE name \notin DOMAIN arity -> <<"Func", args, name>>
       [] name \in DOMAIN arity /\ Len(args) # arity[name] -> Refused
       [] OTHER -> CASE name = "Count" -> Aggregate(<<"Integer">>)
                     [] name = "Avg" -> Aggregate(<<"Double">>)
                     [] name \in {"Sum", "Min", "Max"} -> Aggregate(ty(1))
                     [] name = "If" -> Given(Common(2))
                     [] OTHER -> Given(Common(1))

\* CASE: the results have one type, or are NULL.
BindCase(hasOperand, hasElse, args) ==
  LET first == IF hasOperand THEN 2 ELSE 1
      isResult(i) == i >= first /\ ((i - first) % 2 = 1 \/ (hasElse /\ i = Len(args)))
      types == {return_type(args[i]) : i \in {j \in DOMAIN args : isResult(j)}} \ {<<"SqlNull">>}
      ty == IF types = {} THEN <<"SqlNull">> ELSE CHOOSE t \in types : TRUE
  IN IF \E s, t \in types : s # t THEN Refused
     ELSE <<"CaseWhen", args, <<hasOperand, hasElse, ty>>>>

-----------------------------------------------------------------------------
(* Names.  output_name prints the expression; two expressions print alike when
   they differ only in what is not printed: the types, and NULLIF, which prints
   as ifnull.  The name is kept as the tree of what is printed. *)
Printed(v) == IF Kind(v) \in IntName THEN <<"number", Payload(v)>>
              ELSE IF Kind(v) = "Utf8" THEN <<"text", Payload(v)>> ELSE <<Kind(v), Payload(v)>>

\* What is printed of an expression beside its arguments.
PrintedData(e) ==
  CASE Variant(e) \in {"Unary", "Binary"} -> Data(e)[1]
    [] Variant(e) \in {"NullIf", "If", "IfNull", "Coalesce"} -> 0
    [] Variant(e) = "CaseWhen" -> <<Data(e)[1], Data(e)[2]>>
    [] Variant(e) = "Agg" -> <<Data(e)[1], Data(e)[3]>>
    [] OTHER -> Data(e)

RECURSIVE output_name(_)
output_name(e) ==
  LET below == Images(Args(e), output_name)
  IN CASE Variant(e) = "Const" -> <<"Const", <<>>, Printed(Data(e))>>
       [] Variant(e) = "Col" ->
            IF Data(e)[1] = NoTable THEN Data(e)[2]
            ELSE <<"FullName", <<>>, <<Data(e)[1], Data(e)[2]>>>>
       [] Variant(e) = "Alias" ->
            IF Data(e)[1] = "Name" THEN <<"Name", <<>>, Data(e)[2]>>
            ELSE <<"As", below, output_name(Data(e)[2])>>
       [] Variant(e) = "Reference" -> below[1]
       [] OTHER -> <<IF Variant(e) = "NullIf" THEN "IfNull" ELSE Variant(e), below, PrintedData(e)>>

\* The column an expression gives its parent, identified by its summary: the table
\* and the name.
RECURSIVE output_column(_)
output_column(e) ==
  CASE Variant(e) = "Col" -> Data(e)
    [] Variant(e) = "Alias" /\ Data(e)[1] = "Expr" -> output_column(Data(e)[2])
    [] Variant(e) = "Reference" -> output_column(Arg(e, 1))
    [] OTHER -> <<NoTable, output_name(e), return_type(e)>>

summary(c) == <<c[1], c[2]>>

-----------------------------------------------------------------------------
(* Visitors that prepare an expression for execution *)

\* TryReference: bottom up, a subexpression the child already outputs under the
\* same summary becomes a reference to that position.
RECURSIVE TryReference(_, _)
TryReference(e, outputs) ==
  LET inner == walk_mut_expr(e, Images(Args(e), LAMBDA x : TryReference(x, outputs)))
      name == summary(output_column(inner))
      at == SelectInSeq(outputs, LAMBDA o : summary(output_column(o)) = name)
  IN IF at = 0 THEN inner ELSE <<"Reference", <<inner>>, at>>

Signed == [UTinyint |-> "Tinyint", USmallint |-> "Smallint", UInteger |-> "Integer",
           UBigint |-> "Bigint"]

\* BindEvaluator: the evaluator of every operator, and casts that bring both
\* operands of a binary one to its type.
RECURSIVE BindEvaluator(_)
BindEvaluator(e) ==
  LET x == walk_mut_expr(e, Images(Args(e), BindEvaluator))
      CastTo(a, ty) == IF return_type(a) = ty THEN a ELSE TypeCast(a, ty)
  IN CASE ~Accepted(x) -> Refused
       [] Accepted(x) /\ Variant(x) = "Unary" ->
            LET ty == return_type(Arg(x, 1))
                a == IF is_unsigned_numeric(ty) THEN TypeCast(Arg(x, 1), <<Signed[Name(ty)]>>)
                     ELSE Arg(x, 1)
            IN IF unary_create(Data(x)[1], ty) THEN <<"Unary", <<a>>, <<Data(x)[1], Data(x)[2], ty>>>>
               ELSE Refused
       [] Accepted(x) /\ Variant(x) = "Binary" ->
            LET ty == max_logical_type(return_type(Arg(x, 1)), return_type(Arg(x, 2)))
            IN IF ty = Incomparable \/ Data(x)[1] \notin Operators(ty) THEN Refused
               ELSE <<"Binary", <<CastTo(Arg(x, 1), ty), CastTo(Arg(x, 2), ty)>>,
                      <<Data(x)[1], Data(x)[2], ty>>>>
       [] OTHER -> x

-----------------------------------------------------------------------------
(* eval *)

check_cast(v, ty) == IF Failed(v) \/ logical_type(v) = ty THEN v ELSE Cast(v, ty)
Varchar == <<"Varchar", NoLen>>

\* The value of the row's first column with this summary; an unknown one is NULL.
Lookup(row, name) ==
  LET i == SelectInSeq(row[1], LAMBDA c : summary(c) = name) IN IF i = 0 THEN Null ELSE row[2][i]

\* One-based; a position that is not positive counts from the end of the string, one
\* past the end is NULL, and a negative length takes everything.
SubString(s, hasFrom, from, hasFor, for) ==
  LET len == Len(s)
      zero == from - 1
      start == IF zero < 0 THEN zero % (len + 1) ELSE zero
      rest == IF hasFrom THEN SubSeq(s, start + 1, len) ELSE s
      kept == IF hasFor /\ 0 <= for /\ for < Len(rest) THEN SubSeq(rest, 1, for) ELSE rest
  IN IF hasFrom /\ start > len THEN Null ELSE Text(kept)

Position(pattern, s) ==
  LET at == {i \in 1..(Len(s) - Len(pattern) + 1) : SubSeq(s, i, i + Len(pattern) - 1) = pattern}
  IN Whole("Integer", IF at = {} THEN 0 ELSE CHOOSE i \in at : \A j \in at : i <= j)

RECURSIVE StripLeading(_, _), StripTrailing(_, _)
StripLeading(s, w) ==
  IF w # <<>> /\ IsPrefix(w, s) THEN StripLeading(SubSeq(s, Len(w) + 1, Len(s)), w) ELSE s
StripTrailing(s, w) ==
  IF w # <<>> /\ IsSuffix(w, s) THEN StripTrailing(SubSeq(s, 1, Len(s) - Len(w)), w) ELSE s
Trim(s, w, where) ==
  CASE where = "Leading" -> StripLeading(s, w)
    [] where = "Trailing" -> StripTrailing(s, w)
    [] OTHER -> StripTrailing(StripLeading(s, w), w)

lower(s) == [i \in DOMAIN s |-> IF s[i] \in 65..90 THEN s[i] + 32 ELSE s[i]]
upper(s) == [i \in DOMAIN s |-> IF s[i] \in 97..122 THEN s[i] - 32 ELSE s[i]]
char_length(s) == Whole("UBigint", Len(s))
octet_length(s) == Whole("UBigint", Len(s))   \* one octet a character here

\* lower, upper, char_length and octet_length on their argument as a string; the
\* length of NULL is 0.
ScalarFunction(name, v) ==
  LET t == IF Name(logical_type(v)) = "Varchar" THEN v ELSE Cast(v, Varchar)
      s == IF IsNull(t) THEN <<>> ELSE Payload(t)
      result == CASE Failed(t) -> t
                  [] name = "lower" -> IF IsNull(t) THEN Null ELSE Utf8(lower(s), t[3])
                  [] name = "upper" -> IF IsNull(t) THEN Null ELSE Utf8(upper(s), t[3])
                  [] name = "char_length" -> char_length(s)
                  [] OTHER -> octet_length(s)
  IN Cast(result, Varchar)

InResult(vs, negated) ==
  LET stop == {i \in 2..Len(vs) : Failed(vs[i]) \/ IsNull(vs[i]) \/ eq(vs[i], vs[1])}
      first == vs[CHOOSE i \in stop : \A j \in stop : i <= j]
  IN CASE Failed(vs[1]) \/ IsNull(vs[1]) -> vs[1]
       [] OTHER -> IF stop # {} /\ (Failed(first) \/ IsNull(first)) THEN first
                   ELSE Boolean((stop # {}) # negated)

\* Compared with no cast: values of different types give NULL.
BetweenResult(v, l, r, negated) ==
  CASE Failed(v) -> v
    [] ~Failed(v) /\ Failed(l) -> l
    [] ~Failed(v) /\ ~Failed(l) /\ Failed(r) -> r
    [] OTHER -> IF NoOrder \in {partial_cmp(v, l), partial_cmp(v, r)} THEN Null
                ELSE Boolean((partial_cmp(v, l) >= 0 /\ partial_cmp(v, r) <= 0) # negated)

FirstFailure(vs) ==
  LET bad == {i \in DOMAIN vs : Failed(vs[i])} IN vs[CHOOSE i \in bad : \A j \in bad : i <= j]
AnyFailed(vs) == \E i \in DOMAIN vs : Failed(vs[i])

RECURSIVE eval(_, _), EvalCase(_, _, _, _)
eval(e, row) ==
  LET vs == Images(Args(e), LAMBDA a : eval(a, row))
      V(i) == vs[i]
      AsText(i) == Cast(V(i), Varchar)
      AsNumber(i) == Cast(V(i), <<"Integer">>)
  IN CASE Variant(e) = "Const" -> Data(e)
       [] Variant(e) = "Col" ->
            IF row = NoRow THEN Null ELSE Lookup(row, summary(Data(e)))
       [] Variant(e) = "Alias" ->
            LET name == IF Data(e)[1] = "Name" THEN <<NoTable, <<"Name", <<>>, Data(e)[2]>>>>
                        ELSE summary(output_column(Data(e)[2]))
            IN CASE row = NoRow -> Null
                 [] row # NoRow /\ SelectInSeq(row[1], LAMBDA c : summary(c) = name) # 0 ->
                      Lookup(row, name)
                 [] OTHER -> V(1)
       [] Variant(e) = "Cast" -> Cast(V(1), Data(e))
       [] Variant(e) = "Unary" ->
            IF Failed(V(1)) THEN V(1)
            ELSE IF Data(e)[3] = Unbound THEN Err ELSE UnaryEval(Data(e)[1], Data(e)[3], V(1))
       [] Variant(e) = "Binary" ->
            IF AnyFailed(vs) THEN FirstFailure(vs)
            ELSE IF Data(e)[3] = Unbound THEN Err ELSE BinaryEval(Data(e)[1], Data(e)[3], V(1), V(2))
       [] Variant(e) = "IsNull" -> IF Failed(V(1)) THEN V(1) ELSE Boolean(IsNull(V(1)) # Data(e))
       [] Variant(e) = "In" -> InResult(vs, Data(e))
       [] Variant(e) = "Between" -> BetweenResult(V(1), V(2), V(3), Data(e))
       [] Variant(e) = "SubString" ->
            LET n == Len(Args(e))
                from == IF "From" \in Data(e) THEN AsNumber(n) ELSE Whole("Integer", 1)
                for == IF "For" \in Data(e) THEN AsNumber(2) ELSE Whole("Integer", 0)
                s == AsText(1)
                cut == SubString(Payload(s), "From" \in Data(e), Payload(from), FALSE, 0)
            IN CASE Failed(s) \/ IsNull(s) -> s
                 [] ~(Failed(s) \/ IsNull(s)) /\ (Failed(from) \/ IsNull(from)) -> from
                 [] OTHER -> CASE IsNull(cut) -> Null
                               [] ~IsNull(cut) /\ (Failed(for) \/ IsNull(for)) -> for
                               [] OTHER -> SubString(Payload(cut), FALSE, 0,
                                                     "For" \in Data(e), Payload(for))
       [] Variant(e) = "Position" ->
            LET s == IF IsNull(AsText(1)) THEN Text(<<>>) ELSE AsText(1)
                t == IF IsNull(AsText(2)) THEN Text(<<>>) ELSE AsText(2)
            IN IF Failed(s) THEN s ELSE IF Failed(t) THEN t ELSE Position(Payload(s), Payload(t))
       [] Variant(e) = "Trim" ->
            LET s == AsText(1)
                w == IF Len(Args(e)) = 1 THEN Text(<<32>>)
                     ELSE IF IsNull(AsText(2)) THEN Text(<<>>) ELSE AsText(2)
            IN CASE Failed(s) \/ IsNull(s) -> s
                 [] OTHER -> IF Failed(w) THEN w ELSE Text(Trim(Payload(s), Payload(w), Data(e)))
       [] Variant(e) = "Reference" ->
            IF row # NoRow /\ Data(e) \in DOMAIN row[2] THEN row[2][Data(e)] ELSE Null
       [] Variant(e) = "Tuple" -> IF AnyFailed(vs) THEN FirstFailure(vs) ELSE <<"Tuple", vs, FALSE>>
       [] Variant(e) = "Func" -> IF Failed(V(1)) THEN V(1) ELSE ScalarFunction(Data(e), V(1))
       [] Variant(e) = "If" ->
            CASE Failed(V(1)) -> V(1)
              [] ~Failed(V(1)) /\ NotBoolean(V(1)) -> Err
              [] OTHER -> check_cast(IF is_true(V(1)) THEN V(2) ELSE V(3), Data(e))
       [] Variant(e) = "IfNull" -> check_cast(IF IsNull(V(1)) THEN V(2) ELSE V(1), Data(e))
       [] Variant(e) = "NullIf" ->
            IF AnyFailed(vs) THEN FirstFailure(vs)
            ELSE check_cast(IF eq(V(2), V(1)) THEN Null ELSE V(1), Data(e))
       [] Variant(e) = "Coalesce" ->
            LET i == SelectInSeq(vs, LAMBDA v : ~IsNull(v))
            IN check_cast(IF i = 0 THEN Null ELSE vs[i], Data(e))
       [] Variant(e) = "CaseWhen" ->
            IF Data(e)[1] THEN IF Failed(V(1)) THEN V(1) ELSE EvalCase(e, row, <<V(1)>>, 2)
            ELSE EvalCase(e, row, <<>>, 1)
       [] OTHER -> Panic

\* The pairs of CASE from argument i on; the operand's type decides the comparison.
EvalCase(e, row, operand, i) ==
  LET last == Len(Args(e)) - (IF Data(e)[2] THEN 1 ELSE 0)
      when == eval(Arg(e, i), row)
      ty == logical_type(operand[1])
      test == IF operand = <<>> \/ Failed(when) THEN when
              ELSE BinaryEval("Eq", ty, operand[1], check_cast(when, ty))
  IN CASE i > last -> IF Data(e)[2] THEN check_cast(eval(Arg(e, i), row), Data(e)[3]) ELSE Null
       [] i <= last /\ Failed(test) -> test
       [] i <= last /\ ~Failed(test) /\ NotBoolean(test) -> Err
       [] OTHER -> IF is_true(test) THEN check_cast(eval(Arg(e, i + 1), row), Data(e)[3])
                   ELSE EvalCase(e, row, operand, i + 2)

\* What a row makes of an expression the binder produced.
Evaluate(e, row) == LET b == BindEvaluator(e) IN IF Accepted(b) THEN eval(b, row) ELSE Err
=============================================================================
