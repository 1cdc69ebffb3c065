----------------------------- MODULE Evaluators -----------------------------
(***************************************************************************)
(* src/types/evaluator: the operators of SQL on two values of one type.    *)
(* binary_create picks the evaluator for a type and an operator, or        *)
(* refuses the pair; the operands are of that type or NULL, because the    *)
(* binder puts a cast in front of an operand that is not.                  *)
(***************************************************************************)
EXTENDS Values

Comparison == {"Gt", "GtEq", "Lt", "LtEq", "Eq", "NotEq"}
Arithmetic == {"Plus", "Minus", "Multiply", "Divide", "Modulo"}

Compared(op, c) ==
  CASE op = "Gt" -> c > 0
    [] op = "GtEq" -> c >= 0
    [] op = "Lt" -> c < 0
    [] op = "LtEq" -> c <= 0
    [] op = "Eq" -> c = 0
    [] op = "NotEq" -> c # 0

\* The operators binary_create knows for each type.
Operators(ty) ==
  CASE Name(ty) \in IntName \cup FloatName \cup {"Decimal", "Date", "DateTime"} ->
         Comparison \cup Arithmetic
    [] Name(ty) = "Time" -> Comparison \cup {"Plus", "Minus"}
    [] Name(ty) \in {"TimeStamp", "Tuple"} -> Comparison
    [] Name(ty) = "Boolean" -> {"And", "Or", "Eq", "NotEq"}
    [] Name(ty) \in StringName -> Comparison \cup {"StringConcat", "Like", "NotLike"}
    [] OTHER -> Comparison \cup Arithmetic \cup {"And", "Or", "StringConcat", "Like", "NotLike"}

-----------------------------------------------------------------------------
(* The integer types, DATE and DATETIME (numeric_binary_evaluator_definition):
   a sum, difference or product that does not fit is OverFlow, a quotient is a
   Double, and the remainder by zero or of the least number by -1 panics. *)
WidthOf(k) == IF k = "Date" THEN "Integer" ELSE IF k = "DateTime" THEN "Bigint" ELSE k

Checked(k, n) == IF Fits(WidthOf(k), n) THEN Whole(k, n) ELSE Err
NumericBinary(op, k, a, b) ==
  CASE op \in Comparison -> Boolean(Compared(op, a - b))
    [] op = "Plus" -> Checked(k, a + b)
    [] op = "Minus" -> Checked(k, a - b)
    [] op = "Multiply" -> Checked(k, a * b)
    [] op = "Divide" -> <<"Double", RatDiv(<<a, 1>>, <<b, 1>>), 0>>
    [] op = "Modulo" -> IF b = 0 \/ ~Fits(WidthOf(k), Quot(a, b)) THEN Panic
                        ELSE Whole(k, a - b * Quot(a, b))

\* f32: the quotient is a Double, every other result keeps the type.
Float32Binary(op, p, q) ==
  CASE op \in Comparison -> Boolean(Compared(op, RatCmp(p, q)))
    [] op = "Plus" -> <<"Float", RatPlus(p, q), 0>>
    [] op = "Minus" -> <<"Float", RatPlus(p, RatNeg(q)), 0>>
    [] op = "Multiply" -> <<"Float", RatTimes(p, q), 0>>
    [] op = "Divide" -> <<"Double", RatDiv(p, q), 0>>
    [] op = "Modulo" -> <<"Float", RatMod(p, q), 0>>

Float64Binary(op, p, q) ==
  CASE op \in Comparison -> Boolean(Compared(op, RatCmp(p, q)))
    [] op = "Plus" -> <<"Double", RatPlus(p, q), 0>>
    [] op = "Minus" -> <<"Double", RatPlus(p, RatNeg(q)), 0>>
    [] op = "Multiply" -> <<"Double", RatTimes(p, q), 0>>
    [] op = "Divide" -> <<"Double", RatDiv(p, q), 0>>
    [] op = "Modulo" -> <<"Double", RatMod(p, q), 0>>

\* rust_decimal panics on a zero divisor.
DecimalBinary(op, p, q) ==
  CASE op \in Comparison -> Boolean(Compared(op, RatCmp(p, q)))
    [] op = "Plus" -> <<"Decimal", RatPlus(p, q), 0>>
    [] op = "Minus" -> <<"Decimal", RatPlus(p, RatNeg(q)), 0>>
    [] op = "Multiply" -> <<"Decimal", RatTimes(p, q), 0>>
    [] op = "Divide" -> IF q[1] = 0 THEN Panic ELSE <<"Decimal", RatDiv(p, q), 0>>
    [] op = "Modulo" -> IF q[1] = 0 THEN Panic ELSE <<"Decimal", RatMod(p, q), 0>>

-----------------------------------------------------------------------------
(* TIME and TIMESTAMP *)

\* The carry is taken while the nanoseconds exceed a second: a full second stays.
Carry(n) == IF n = 0 THEN 0 ELSE (n - 1) \div OneSecToNano

Finer(x, y) == IF y[3] > x[3] THEN y[3] ELSE x[3]

\* NULL when the sum is past the day.
TimePlus(x, y) ==
  LET s == unpack(Payload(x), x[3])
      t == unpack(Payload(y), y[3])
      n == s[2] + t[2]
      sum == s[1] + Carry(n) + t[1]
  IN IF sum > OneDayToSec THEN Null
     ELSE Time(pack(sum, n - Carry(n) * OneSecToNano, Finer(x, y)), Finer(x, y))


\* NULL when the difference is negative; borrowing from second zero underflows.
TimeMinus(x, y) ==
  LET s == unpack(Payload(x), x[3])
      t == unpack(Payload(y), y[3])
      borrow == IF s[2] < t[2] THEN 1 ELSE 0
      left == s[1] - borrow
  IN CASE left < 0 -> Panic
       [] left >= 0 /\ left < t[1] -> Null
       [] OTHER -> Time(pack(left - t[1], s[2] + borrow * OneSecToNano - t[2], Finer(x, y)), Finer(x, y))

TimeBinary(op, x, y) ==
  LET s == unpack(Payload(x), x[3])
      t == unpack(Payload(y), y[3])
  IN CASE op \in Comparison ->
            Boolean(Compared(op, IF s[1] # t[1] THEN s[1] - t[1] ELSE s[2] - t[2]))
       [] op = "Plus" -> TimePlus(x, y)
       [] op = "Minus" -> TimeMinus(x, y)

\* Both sides are counted in the finer of the two precisions.
Time64Binary(op, x, y) ==
  LET a == timestamp_precision(from_timestamp_precision(Payload(x), x[3]), Finer(x, y))
      b == timestamp_precision(from_timestamp_precision(Payload(y), y[3]), Finer(x, y))
  IN Boolean(Compared(op, a - b))

-----------------------------------------------------------------------------
(* BOOLEAN: Kleene's three-valued connectives *)
BooleanBinary(op, v, w) ==
  LET has(b) == v = Boolean(b) \/ w = Boolean(b)
      unknown == IsNull(v) \/ IsNull(w)
  IN CASE op = "And" -> IF has(FALSE) THEN Boolean(FALSE)
                        ELSE IF unknown THEN Null ELSE Boolean(TRUE)
       [] op = "Or" -> IF has(TRUE) THEN Boolean(TRUE)
                       ELSE IF unknown THEN Null ELSE Boolean(FALSE)
       [] op = "Eq" -> IF unknown THEN Null ELSE Boolean(Payload(v) = Payload(w))
       [] op = "NotEq" -> IF unknown THEN Null ELSE Boolean(Payload(v) # Payload(w))

-----------------------------------------------------------------------------
(* Strings *)
AnyRun == 37   \* the character %
AnyOne == 95   \* the character _

\* Whether the regular expression of a pattern matches s from position i on.
\* Only characters that mean themselves in a regular expression occur.
RECURSIVE MatchesAt(_, _, _)
MatchesAt(s, i, pat) ==
  CASE pat = <<>> -> TRUE
    [] pat # <<>> /\ pat[1] = AnyRun -> \E j \in i..(Len(s) + 1) : MatchesAt(s, j, Tail(pat))
    [] OTHER -> /\ i <= Len(s) /\ pat[1] \in {AnyOne, s[i]}
                /\ MatchesAt(s, i + 1, Tail(pat))

\* is_match looks for the pattern anywhere in the value.
string_like(s, pat) == \E i \in 1..(Len(s) + 1) : MatchesAt(s, i, pat)

Utf8Binary(op, s, t) ==
  CASE op \in Comparison -> Boolean(Compared(op, SeqCmp(s, t)))
    [] op = "StringConcat" -> Text(s \o t)
    [] op = "Like" -> Boolean(string_like(s, t))
    [] op = "NotLike" -> Boolean(~string_like(s, t))

-----------------------------------------------------------------------------
(* Tuples: compared element by element; where one ends first it is the smaller,
   or the larger when it is an upper bound. *)
tuple_cmp(v, w) ==
  LET x == Payload(v)
      y == Payload(w)
      n == IF Len(x) < Len(y) THEN Len(x) ELSE Len(y)
      differ == {i \in 1..n : partial_cmp(x[i], y[i]) # 0}
      first == CHOOSE i \in differ : \A j \in differ : i <= j
  IN CASE differ # {} -> partial_cmp(x[first], y[first])
       [] differ = {} /\ Len(x) > n -> IF w[3] THEN -1 ELSE 1
       [] differ = {} /\ Len(y) > n -> IF v[3] THEN 1 ELSE -1
       [] OTHER -> 0

TupleBinary(op, v, w) ==
  LET same == Len(Payload(v)) = Len(Payload(w))
              /\ \A i \in DOMAIN Payload(v) : eq(Payload(v)[i], Payload(w)[i])
      c == tuple_cmp(v, w)
  IN CASE op = "Eq" -> Boolean(same)
       [] op = "NotEq" -> Boolean(~same)
       [] OTHER -> IF c = NoOrder THEN Null ELSE Boolean(Compared(op, c))

-----------------------------------------------------------------------------
\* The kinds of values the evaluator of a type has a match arm for.
KindOf(ty) == IF Name(ty) \in StringName THEN "Utf8" ELSE Name(ty)

\* Whether an evaluator meets an operand that no arm of its match covers: the
\* rest is unreachable_unchecked.  The arms of tuples pair NULL with a Boolean.
NoArm(ty, v, w) ==
  \/ {Kind(v), Kind(w)} \ {KindOf(ty), "Null"} # {}
  \/ Name(ty) = "Tuple" /\ {Kind(v), Kind(w)} = {"Tuple", "Null"}

\* binary_create and binary_eval.  NULL in, NULL out, except for AND and OR.
BinaryEval(op, ty, v, w) ==
  CASE Failed(v) -> v
    [] ~Failed(v) /\ Failed(w) -> w
    [] ~Failed(v) /\ ~Failed(w) /\ op \notin Operators(ty) -> Err
    [] OTHER ->
         CASE Name(ty) = "SqlNull" -> Null
           [] Name(ty) # "SqlNull" /\ NoArm(ty, v, w) -> Undefined
           [] Name(ty) = "Boolean" /\ ~NoArm(ty, v, w) -> BooleanBinary(op, v, w)
           [] OTHER ->
                LET x == Payload(v)
                    y == Payload(w)
                IN CASE IsNull(v) \/ IsNull(w) -> Null
                     [] ~(IsNull(v) \/ IsNull(w)) /\ Name(ty) \in IntName \cup {"Date", "DateTime"} ->
                          NumericBinary(op, Name(ty), x, y)
                     [] Name(ty) = "Float" -> Float32Binary(op, x, y)
                     [] Name(ty) = "Double" -> Float64Binary(op, x, y)
                     [] Name(ty) = "Decimal" -> DecimalBinary(op, x, y)
                     [] Name(ty) = "Time" -> TimeBinary(op, v, w)
                     [] Name(ty) = "TimeStamp" -> Time64Binary(op, v, w)
                     [] Name(ty) = "Tuple" -> TupleBinary(op, v, w)
                     [] OTHER -> Utf8Binary(op, x, y)

unary_create(op, ty) ==
  IF Name(ty) = "Boolean" THEN op = "Not"
  ELSE op # "Not" /\ Name(ty) \in SignedName \cup FloatName

\* + is the identity; - of the least number panics in a debug build.
UnaryEval(op, ty, v) ==
  CASE Failed(v) \/ IsNull(v) \/ op = "Plus" -> v
    [] ~(Failed(v) \/ IsNull(v)) /\ op # "Plus" /\ Kind(v) # Name(ty) -> Undefined
    [] OTHER ->
         CASE op = "Not" -> Boolean(~Payload(v))
           [] Name(ty) \in FloatName -> <<Name(ty), RatNeg(Payload(v)), 0>>
           [] OTHER -> IF Fits(Name(ty), -Payload(v)) THEN Whole(Name(ty), -Payload(v)) ELSE Panic
=============================================================================
