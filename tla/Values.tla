------------------------------- MODULE Values -------------------------------
(***************************************************************************)
(* DataValue of src/types/value.rs: equality, order, CAST, the packed TIME *)
(* and the evaluators of src/types/evaluator that compute the operators of *)
(* SQL on two values of one type.                                          *)
(*                                                                         *)
(* A value is <<kind, payload, attribute>>.  The kind is the name of its   *)
(* type ("Utf8" for both string types), the payload                        *)
(*   - an integer for the integer types, Date (days) and DateTime (s);     *)
(*   - <<n, d>> with d >= 0, in lowest terms, for Float, Double and        *)
(*     Decimal: the rounding of the binary and the 28-digit formats is     *)
(*     left out, d = 0 are the infinities and NaN;                         *)
(*   - a sequence of character codes for strings;                          *)
(*   - the packed word for Time, the count of units for TimeStamp;         *)
(* and the attribute is the string's type, the precision of a time, or 0.  *)
(* Text of floats, decimals and dates is not modelled.                     *)
(***************************************************************************)
EXTENDS Types

CONSTANTS
  Bits,           \* [IntName -> Nat]: the widths 8, 16, 32 and 64 of the code
  OneSecToNano,   \* ONE_SEC_TO_NANO
  OneDayToSec,    \* ONE_DAY_TO_SEC
  PackShift,      \* [precision -> Nat]: where pack puts the fraction
  EpochDay,       \* the day number of 1970-01-01
  MaxInstant      \* the last instant whose count of nanoseconds fits 64 bits

Kind(v) == v[1]
Payload(v) == v[2]

Null == <<"Null", 0, 0>>
Err == <<"Err", 0, 0>>          \* a DatabaseError
Panic == <<"Panic", 0, 0>>      \* the thread unwinds
Undefined == <<"Undefined", 0, 0>>   \* unreachable_unchecked: anything may happen
Boolean(b) == <<"Boolean", b, 0>>
Whole(name, n) == <<name, n, 0>>
Utf8(s, ty) == <<"Utf8", s, ty>>
Text(s) == Utf8(s, <<"Varchar", NoLen>>)

IsNull(v) == Kind(v) = "Null"
Failed(v) == Kind(v) \in {"Err", "Panic", "Undefined"}

IntMin(name) == IF name \in SignedName THEN -(2^(Bits[name] - 1)) ELSE 0
IntMax(name) == IF name \in SignedName THEN 2^(Bits[name] - 1) - 1 ELSE 2^Bits[name] - 1
Fits(name, n) == IntMin(name) <= n /\ n <= IntMax(name)


CheckedInt(name, n) == IF Fits(name, n) THEN Whole(name, n) ELSE Err

-----------------------------------------------------------------------------
(* Rational numbers, the infinities and NaN *)

Abs(n) == IF n < 0 THEN -n ELSE n
Sign(n) == IF n = 0 THEN 0 ELSE IF n < 0 THEN -1 ELSE 1
Quot(a, b) == Sign(a) * Sign(b) * (Abs(a) \div Abs(b))   \* truncates, as Rust does
Gcd[m, n \in Nat] == IF n = 0 THEN m ELSE Gcd[n, m % n]

Ratio(n, d) ==
  IF d = 0 THEN <<Sign(n), 0>>
  ELSE LET g == Gcd[Abs(n), Abs(d)] IN <<Sign(d) * Quot(n, g), Abs(d) \div g>>
NaN == <<0, 0>>
Finite(q) == q[2] # 0

\* OrderedFloat: NaN equals itself and is above everything else.
RatCmp(p, q) ==
  CASE p = q -> 0
    [] p # q /\ p = NaN -> 1
    [] p # q /\ q = NaN -> -1
    [] OTHER -> IF p[2] = 0 /\ q[2] = 0 THEN Sign(p[1] - q[1])
                ELSE Sign(p[1] * q[2] - q[1] * p[2])

RatPlus(p, q) ==
  IF ~Finite(p) /\ ~Finite(q) THEN IF p = q THEN p ELSE NaN
  ELSE Ratio(p[1] * q[2] + q[1] * p[2], p[2] * q[2])
RatNeg(p) == <<-p[1], p[2]>>
RatTimes(p, q) == Ratio(p[1] * q[1], p[2] * q[2])
RatDiv(p, q) ==
  CASE ~Finite(p) /\ ~Finite(q) -> NaN
    [] Finite(p) /\ ~Finite(q) -> IF q = NaN THEN NaN ELSE <<0, 1>>
    [] ~Finite(p) /\ Finite(q) -> Ratio(p[1] * (IF q[1] < 0 THEN -1 ELSE 1), 0)
    [] OTHER -> Ratio(p[1] * q[2], p[2] * q[1] * (IF q[1] = 0 THEN 0 ELSE 1))
RatTrunc(p) == Quot(p[1], p[2])
\* The remainder has the sign of the dividend.
RatMod(p, q) ==
  IF ~Finite(p) \/ q = NaN \/ q[1] = 0 THEN NaN
  ELSE IF ~Finite(q) THEN p
       ELSE RatPlus(p, RatNeg(RatTimes(q, <<RatTrunc(RatDiv(p, q)), 1>>)))

-----------------------------------------------------------------------------
(* Equality and order *)

\* Whether s precedes t in dictionary order: -1, 0 or 1.
SeqCmp(s, t) ==
  LET n == IF Len(s) < Len(t) THEN Len(s) ELSE Len(t)
      differ == {i \in 1..n : s[i] # t[i]}
      first == CHOOSE i \in differ : \A j \in differ : i <= j
  IN IF differ = {} THEN Sign(Len(s) - Len(t)) ELSE Sign(s[first] - t[first])

PayloadCmp(k, x, y) ==
  CASE k \in FloatName \cup {"Decimal"} -> RatCmp(x, y)
    [] k = "Utf8" -> SeqCmp(x, y)
    [] k = "Boolean" -> IF x = y THEN 0 ELSE IF x THEN 1 ELSE -1
    [] OTHER -> Sign(x - y)

eq(v, w) == Kind(v) = Kind(w) /\ Payload(v) = Payload(w)

NoOrder == 2
partial_cmp(v, w) ==
  IF Kind(v) # Kind(w) \/ Kind(v) = "Tuple" THEN NoOrder
  ELSE IF IsNull(v) THEN 0 ELSE PayloadCmp(Kind(v), Payload(v), Payload(w))

ScalarType(v) ==
  CASE Kind(v) = "Null" -> <<"SqlNull">>
    [] Kind(v) = "Utf8" -> v[3]
    [] Kind(v) = "Time" -> <<"Time", NoLen>>
    [] Kind(v) = "TimeStamp" -> <<"TimeStamp", NoLen, FALSE>>
    [] Kind(v) = "Decimal" -> <<"Decimal", NoLen, NoLen>>
    [] OTHER -> <<Kind(v)>>

logical_type(v) ==
  IF Kind(v) = "Tuple"
  THEN <<"Tuple", [i \in DOMAIN Payload(v) |-> ScalarType(Payload(v)[i])]>>
  ELSE ScalarType(v)

\* A condition holds when it is TRUE; NULL counts as false, and a value that is
\* no Boolean is the error NotBoolean.
is_true(v) == Kind(v) = "Boolean" /\ Payload(v)
NotBoolean(v) == Kind(v) \notin {"Boolean", "Null"}

-----------------------------------------------------------------------------
(* CAST *)

\* check_len: a string longer than its type allows is TooLong.
check_len(v, to) ==
  IF /\ Kind(v) = "Utf8" /\ Name(to) \in StringName /\ Name(to) = Name(v[3])
     /\ to[2] # NoLen /\ Len(Payload(v)) > to[2]
  THEN Err ELSE v

\* Decimal notation of an integer, and the integer some text denotes.
Minus == 45
Plus == 43
Digit(c) == c - 48
RECURSIVE DigitsOf(_)
DigitsOf(n) == IF n < 10 THEN <<48 + n>> ELSE Append(DigitsOf(n \div 10), 48 + (n % 10))
IntText(n) == IF n < 0 THEN <<Minus>> \o DigitsOf(-n) ELSE DigitsOf(n)
RECURSIVE NumberOf(_)
NumberOf(s) == IF s = <<>> THEN 0
               ELSE 10 * NumberOf(SubSeq(s, 1, Len(s) - 1)) + Digit(s[Len(s)])
TrueText == <<116, 114, 117, 101>>
FalseText == <<102, 97, 108, 115, 101>>

\* i8::from_str and its siblings: an optional sign (no minus for an unsigned
\* type), at least one digit, and a value in range.
from_str(name, s) ==
  LET signed == s # <<>> /\ s[1] \in {Plus} \cup (IF name \in SignedName THEN {Minus} ELSE {})
      digits == IF signed THEN Tail(s) ELSE s
  IN IF digits = <<>> \/ \E i \in DOMAIN digits : Digit(digits[i]) \notin 0..9 THEN Err
     ELSE CheckedInt(name, (IF signed /\ s[1] = Minus THEN -1 ELSE 1) * NumberOf(digits))

varchar_cast(s, to) ==
  IF to[2] # NoLen /\ Len(s) > to[2] THEN Err ELSE Utf8(s, to)

numeric_to_boolean(n) == IF n \in {0, 1} THEN Boolean(n = 1) ELSE Err

\* Anything at or below zero is refused with OverFlow, NaN becomes 0.
float_to_int(q, name) ==
  CASE q = NaN -> Whole(name, 0)
    [] q # NaN /\ (RatCmp(q, <<0, 1>>) <= 0 \/ RatCmp(q, <<IntMax(name), 1>>) > 0) -> Err
    [] OTHER -> Whole(name, RatTrunc(q))

\* Out of range saturates.
decimal_to_int(q, name) ==
  CASE q[1] < 0 -> Whole(name, IF RatCmp(q, <<IntMin(name), 1>>) <= 0 THEN IntMin(name)
                               ELSE RatTrunc(q))
    [] OTHER -> Whole(name, IF RatCmp(q, <<IntMax(name), 1>>) >= 0 THEN IntMax(name)
                            ELSE RatTrunc(q))

\* round_dp_with_strategy(MidpointAwayFromZero); the scale None rounds nothing.
decimal_round_f(scale, q) ==
  IF scale = NoLen THEN q
  ELSE LET m == 10^scale
           twice == 2 * Abs(q[1]) * m + q[2]
       IN Ratio(Sign(q[1]) * (twice \div (2 * q[2])), m)

CastBoolean(b, to) ==
  LET n == IF b THEN 1 ELSE 0
  IN CASE Name(to) = "Boolean" -> Boolean(b)
       [] Name(to) \in IntName -> Whole(Name(to), n)
       [] Name(to) \in FloatName -> <<Name(to), <<n, 1>>, 0>>
       [] Name(to) \in StringName -> varchar_cast(IF b THEN TrueText ELSE FalseText, to)
       [] OTHER -> Err

CastInteger(n, to) ==
  CASE Name(to) \in IntName -> CheckedInt(Name(to), n)
    [] Name(to) \in FloatName \cup {"Decimal"} -> <<Name(to), <<n, 1>>, 0>>
    [] Name(to) \in StringName -> varchar_cast(IntText(n), to)
    [] Name(to) = "Boolean" -> numeric_to_boolean(n)
    [] OTHER -> Err

\* The arms of Float32 and Float64 agree; Double to Float rounds in the code.
CastFloat(q, to) ==
  CASE Name(to) \in FloatName -> <<Name(to), q, 0>>
    [] Name(to) = "Decimal" ->
         IF Finite(q) THEN <<"Decimal", decimal_round_f(to[3], q), 0>> ELSE Err
    [] Name(to) \in IntName -> float_to_int(q, Name(to))
    [] OTHER -> Err

CastDecimal(q, to) ==
  CASE Name(to) \in FloatName \cup {"Decimal"} -> <<Name(to), q, 0>>
    [] Name(to) \in IntName -> decimal_to_int(q, Name(to))
    [] OTHER -> Err

CastUtf8(s, to) ==
  CASE Name(to) = "Boolean" -> IF s \in {TrueText, FalseText} THEN Boolean(s = TrueText) ELSE Err
    [] Name(to) \in IntName -> from_str(Name(to), s)
    [] Name(to) \in StringName -> varchar_cast(s, to)
    [] OTHER -> Err

-----------------------------------------------------------------------------
(* Times: TIME packs the fraction above the second of the day in one word, *)
(* TIMESTAMP counts units of 10^-precision seconds.                        *)

Precision(p) == IF p = NoLen THEN 0 ELSE p
NanosPerUnit(p) == OneSecToNano \div (10^p)

pack(a, b, p) == (b \div NanosPerUnit(p)) * (2^PackShift[p]) + a
unpack(word, p) == <<word % (2^PackShift[p]), (word \div (2^PackShift[p])) * NanosPerUnit(p)>>
Time(word, p) == <<"Time", word, p>>

\* A DateTime<Utc> is an instant: nanoseconds since the epoch.
from_timestamp_precision(n, p) == n * NanosPerUnit(p)
\* The finest precision counts nanoseconds and gives 0 where they do not fit.
timestamp_precision(instant, p) ==
  IF NanosPerUnit(p) = 1 /\ Abs(instant) > MaxInstant THEN 0
  ELSE instant \div NanosPerUnit(p)

CastDate(days, to) ==
  CASE Name(to) = "Date" -> Whole("Date", days)
    [] Name(to) = "DateTime" -> Whole("DateTime", (days - EpochDay) * OneDayToSec)
    [] OTHER -> Err

CastDateTime(secs, to) ==
  CASE Name(to) = "Date" -> Whole("Date", EpochDay + (secs \div OneDayToSec))
    [] Name(to) = "DateTime" -> Whole("DateTime", secs)
    [] Name(to) = "Time" -> Time(pack(secs % OneDayToSec, 0, 0), Precision(to[2]))
    [] Name(to) = "TimeStamp" -> <<"TimeStamp", secs, Precision(to[2])>>
    [] OTHER -> Err

\* The word is kept as it is: only its precision changes.
CastTime(word, to) == IF Name(to) = "Time" THEN Time(word, Precision(to[2])) ELSE Err

CastTimeStamp(n, p, to) ==
  LET instant == from_timestamp_precision(n, p)
      secs == instant \div OneSecToNano
  IN CASE Name(to) = "Date" -> Whole("Date", EpochDay + (secs \div OneDayToSec))
       [] Name(to) = "DateTime" -> Whole("DateTime", secs)
       [] Name(to) = "Time" ->
            Time(pack(secs % OneDayToSec, instant % OneSecToNano, Precision(to[2])), Precision(to[2]))
       [] Name(to) = "TimeStamp" -> <<"TimeStamp", n, Precision(to[2])>>
       [] OTHER -> Err

CastScalar(v, to) ==
  CASE IsNull(v) \/ Failed(v) -> v
    [] ~(IsNull(v) \/ Failed(v)) /\ Name(to) = "SqlNull" -> Null
    [] Kind(v) = "Boolean" -> CastBoolean(Payload(v), to)
    [] Kind(v) \in IntName -> CastInteger(Payload(v), to)
    [] Kind(v) \in FloatName -> CastFloat(Payload(v), to)
    [] Kind(v) = "Decimal" -> CastDecimal(Payload(v), to)
    [] Kind(v) = "Utf8" -> CastUtf8(Payload(v), to)
    [] Kind(v) = "Date" -> CastDate(Payload(v), to)
    [] Kind(v) = "DateTime" -> CastDateTime(Payload(v), to)
    [] Kind(v) = "Time" -> CastTime(Payload(v), to)
    [] OTHER -> CastTimeStamp(Payload(v), v[3], to)

\* A tuple is cast element by element, and only to a tuple type.
CastTuple(v, to) ==
  IF Name(to) # "Tuple" THEN Err
  ELSE LET vs == [i \in DOMAIN Payload(v) |->
                    IF to[2][i] = ScalarType(Payload(v)[i]) THEN Payload(v)[i]
                    ELSE check_len(CastScalar(Payload(v)[i], to[2][i]), to[2][i])]
       IN IF \E i \in DOMAIN vs : Failed(vs[i]) THEN Err ELSE <<"Tuple", vs, v[3]>>

Cast(v, to) ==
  IF Kind(v) = "Tuple" THEN CastTuple(v, to) ELSE check_len(CastScalar(v, to), to)
=============================================================================
