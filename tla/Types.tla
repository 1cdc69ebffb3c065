-------------------------------- MODULE Types --------------------------------
(***************************************************************************)
(* LogicalType of src/types/mod.rs: the types of SQL columns and values,   *)
(* which of them convert implicitly, and the common type two operands of   *)
(* a binary operator are cast to.                                          *)
(*                                                                         *)
(* A type is a tuple whose first element is its name: <<"Integer">>,       *)
(* <<"Varchar", n>>, <<"Char", n>>, <<"Decimal", p, s>>, <<"Time", p>>,    *)
(* <<"TimeStamp", p, zone>>, <<"Tuple", types>>; NoLen is the None of an   *)
(* optional length, precision or scale.  The unit of a string length       *)
(* (characters or octets) is left out: characters are one octet here.      *)
(***************************************************************************)
EXTENDS Integers, Sequences

NoLen == -1

Name(t) == t[1]

SignedName == {"Tinyint", "Smallint", "Integer", "Bigint"}
UnsignedName == {"UTinyint", "USmallint", "UInteger", "UBigint"}
IntName == SignedName \cup UnsignedName
FloatName == {"Float", "Double"}
StringName == {"Char", "Varchar"}

is_signed_numeric(t) == Name(t) \in SignedName
is_unsigned_numeric(t) == Name(t) \in UnsignedName
is_numeric(t) == Name(t) \in IntName \cup FloatName \cup {"Decimal"}

\* The wider types a type converts to without a CAST in the statement.
Wider == [ Tinyint   |-> {"Smallint", "Integer", "Bigint", "Float", "Double", "Decimal"},
           UTinyint  |-> {"USmallint", "UInteger", "UBigint", "Smallint", "Integer",
                          "Bigint", "Float", "Double", "Decimal"},
           Smallint  |-> {"Integer", "Bigint", "Float", "Double", "Decimal"},
           USmallint |-> {"UInteger", "UBigint", "Integer", "Bigint", "Float", "Double",
                          "Decimal"},
           Integer   |-> {"Bigint", "Float", "Double", "Decimal"},
           UInteger  |-> {"UBigint", "Bigint", "Float", "Double", "Decimal"},
           Bigint    |-> {"Float", "Double", "Decimal"},
           UBigint   |-> {"Float", "Double", "Decimal"},
           Float     |-> {"Double", "Decimal"},
           Double    |-> {"Decimal"},
           Date      |-> {"DateTime", "Varchar", "Char"},
           DateTime  |-> {"Date", "Time", "Varchar", "Char"},
           TimeStamp |-> {"Date", "Time", "Varchar", "Char"},
           Time      |-> {"Varchar", "Char"} ]

can_implicit_cast(from, to) ==
  \/ from = to
  \/ Name(from) = "SqlNull"
  \/ Name(from) \in DOMAIN Wider /\ Name(to) \in Wider[Name(from)]

Incomparable == <<"Incomparable">>

\* The larger of two optional numbers; None only when both are None.
MaxOption(m, n) == IF m > n THEN m ELSE n

\* The mixed signed and unsigned pairs that fit neither way are listed with the
\* signed type on the left, and the first step puts the unsigned one there.
combine_numeric_types(left, right) ==
  LET swap == is_signed_numeric(left) /\ is_unsigned_numeric(right)
      l == IF swap THEN right ELSE left
      r == IF swap THEN left ELSE right
  IN CASE l = r -> l
       [] l # r /\ can_implicit_cast(l, r) -> r
       [] l # r /\ ~can_implicit_cast(l, r) /\ can_implicit_cast(r, l) -> l
       [] OTHER ->
            CASE Name(l) = "Bigint" \/ Name(r) = "UBigint" -> <<"Double">>
              [] Name(l) = "Integer" \/ Name(r) = "UInteger" -> <<"Bigint">>
              [] Name(l) = "Smallint" \/ Name(r) = "USmallint" -> <<"Integer">>
              [] Name(l) = "Tinyint" \/ Name(r) = "UTinyint" -> <<"Smallint">>
              [] Name(l) = "Decimal" /\ Name(r) = "Decimal" ->
                   <<"Decimal", MaxOption(l[2], r[2]), MaxOption(l[3], r[3])>>
              [] OTHER -> Incomparable

max_logical_type(left, right) ==
  LET names == {Name(left), Name(right)}
  IN CASE left = right -> left
       [] left # right /\ Name(left) = "SqlNull" -> right
       [] left # right /\ Name(left) # "SqlNull" /\ Name(right) = "SqlNull" -> left
       [] left # right /\ names = {"Tuple"} ->
            IF Len(left[2]) > Len(right[2]) THEN left ELSE right
       [] left # right /\ is_numeric(left) /\ is_numeric(right) ->
            combine_numeric_types(left, right)
       [] names = {"Date", "Varchar"} -> <<"Date">>
       [] names \in {{"Date", "DateTime"}, {"DateTime", "Varchar"}} -> <<"DateTime">>
       [] left # right /\ names \subseteq StringName -> <<"Varchar", NoLen>>
       [] OTHER -> Incomparable
=============================================================================
