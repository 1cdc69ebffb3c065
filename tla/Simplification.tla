--------------------------- MODULE Simplification ---------------------------
(***************************************************************************)
(* src/expression/simplify.rs: the two visitors the rule SimplifyFilter    *)
(* runs on the predicate of a filter.  ConstantCalculator folds operators  *)
(* on constants.  Simplify rewrites IN and BETWEEN to comparisons and      *)
(* moves constants away from the column, so that `c1 + 1 > 4` becomes      *)
(* `c1 > 4 - 1` and a range of c1 can be read off.  Simplify keeps a stack *)
(* of what it has taken out of the operand it visits, put back around the  *)
(* other operand of the enclosing comparison; visiting an expression maps  *)
(* <<expression, stack>> to <<expression, stack>>.                         *)
(***************************************************************************)
EXTENDS Expressions

NoValue == <<"NoValue", 0, 0>>
NoColumn == <<>>

RECURSIVE unpack_val(_), unpack_col(_, _)

\* The value of an expression without columns; whatever fails is no value.  IS NULL
\* and IS NOT NULL give the same.
unpack_val(e) ==
  LET v == unpack_val(Arg(e, 1))
      w == unpack_val(Arg(e, 2))
      ty == Data(e)[2]
      Some(x) == IF Failed(x) THEN NoValue ELSE x
  IN CASE Variant(e) = "Const" -> Data(e)
       [] Variant(e) = "Alias" -> v
       [] Variant(e) = "Cast" -> IF v = NoValue THEN v ELSE Some(Cast(v, Data(e)))
       [] Variant(e) = "IsNull" -> IF v = NoValue THEN v ELSE Boolean(IsNull(v))
       [] Variant(e) = "Unary" ->
            IF v = NoValue \/ ~unary_create(Data(e)[1], ty) THEN NoValue
            ELSE UnaryEval(Data(e)[1], ty, v)
       [] Variant(e) = "Binary" ->
            IF NoValue \in {v, w} THEN NoValue
            ELSE Some(BinaryEval(Data(e)[1], ty, check_cast(v, ty), check_cast(w, ty)))
       [] OTHER -> NoValue

unpack_col(e, is_deep) ==
  CASE Variant(e) = "Col" -> Data(e)
    [] Variant(e) \in {"Alias", "Unary"} -> unpack_col(Arg(e, 1), is_deep)
    [] Variant(e) = "Binary" /\ is_deep ->
         LET l == unpack_col(Arg(e, 1), TRUE)
         IN IF l # NoColumn THEN l ELSE unpack_col(Arg(e, 2), TRUE)
    [] OTHER -> NoColumn

\* ConstantCalculator.  The operands are cast to their common type, which is taken
\* before they are folded.
RECURSIVE ConstantCalculator(_)
ConstantCalculator(e) ==
  LET x == walk_mut_expr(e, Images(Args(e), ConstantCalculator))
      op == Data(x)[1]
      Folded(v) == IF Failed(v) THEN Refused ELSE Const(v)
  IN CASE ~Accepted(x) -> Refused
       [] Accepted(x) /\ Variant(x) = "Unary" /\ Variant(Arg(x, 1)) = "Const" ->
            IF unary_create(op, Data(x)[2]) THEN Folded(UnaryEval(op, Data(x)[2], Data(Arg(x, 1))))
            ELSE Refused
       [] Accepted(x) /\ Variant(x) = "Binary" ->
            LET ty == max_logical_type(return_type(Arg(e, 1)), return_type(Arg(e, 2)))
            IN CASE ty = Incomparable -> Refused
                 [] ty # Incomparable /\ \A i \in 1..2 : Variant(Arg(x, i)) = "Const" ->
                      Folded(BinaryEval(op, ty, check_cast(Data(Arg(x, 1)), ty),
                                                check_cast(Data(Arg(x, 2)), ty)))
                 [] OTHER -> x
       [] OTHER -> x

-----------------------------------------------------------------------------
is_arithmetic(op) == op \in {"Plus", "Minus", "Multiply", "Divide"}

comparison_flip(op) == CASE op = "Gt" -> "Lt" [] op = "Lt" -> "Gt"
              [] op = "GtEq" -> "LtEq" [] op = "LtEq" -> "GtEq" [] OTHER -> op
op_flip(op) == CASE op = "Plus" -> "Minus" [] op = "Minus" -> "Plus"
                 [] op = "Multiply" -> "Divide" [] op = "Divide" -> "Multiply" [] OTHER -> op

\* What is taken out of an operand: an operator around the column or around a child.
ReplaceUnary(child, op, ty) == <<"Unary", child, op, ty>>
ReplaceBinary(column, val, op, ty, columnLeft) == <<"Binary", Col(column), op, ty, val, columnLeft>>

\* The operands and the operator of a comparison after one entry is put back.
fix_unary(r, other, op) ==
  <<r[2], Unary(r[3], other, r[4]),
    IF r[3] = "Plus" THEN op ELSE IF r[3] = "Minus" THEN op_flip(comparison_flip(op)) ELSE comparison_flip(op)>>

\* Mutant of fix_binary: the comparison keeps its direction.
FixWithoutFlip(r, other, op) ==
  IF r[6] THEN <<r[2], Binary(op_flip(r[3]), other, r[5], r[4]), op>>
  ELSE <<r[2], Binary(r[3], r[5], other, r[4]), op>>

fix_binary(r, other, op) ==
  IF r[6] THEN <<r[2], Binary(op_flip(r[3]), other, r[5], r[4]), op>>
  ELSE <<r[2], Binary(r[3], r[5], other, r[4]),
         IF r[3] \in {"Minus", "Multiply"} THEN comparison_flip(op) ELSE op>>

RECURSIVE SimplifyVisit(_, _), fix_expr(_, _, _, _), PutBack(_, _, _, _), VisitAll(_, _, _)

\* fix_expr: visit one operand, then empty the stack onto the pair of operands.
fix_expr(operand, other, op, stack) ==
  LET seen == SimplifyVisit(operand, stack)
  IN IF is_arithmetic(op) THEN <<seen[1], other, op, seen[2]>>
     ELSE PutBack(seen[1], other, op, seen[2])

PutBack(operand, other, op, stack) ==
  IF stack = <<>> THEN <<operand, other, op, <<>>>>
  ELSE LET r == Last(stack)
           rest == Front(stack)
           fixed == IF r[1] = "Unary" THEN fix_unary(r, other, op) ELSE fix_binary(r, other, op)
           inner == IF r[1] = "Unary" THEN fix_expr(fixed[1], fixed[2], fixed[3], rest)
                    ELSE <<fixed[1], fixed[2], fixed[3], rest>>
       IN PutBack(inner[1], inner[2], inner[3], inner[4])

\* The children from number i on, one after the other.
VisitAll(e, i, stack) ==
  IF i > Len(Args(e)) THEN <<e, stack>>
  ELSE LET seen == SimplifyVisit(Arg(e, i), stack)
       IN VisitAll([e EXCEPT ![2][i] = seen[1]], i + 1, seen[2])

\* A column on exactly one side of an arithmetic operator goes on the stack; the
\* operator is left without its other operand.
TakeOut(e, stack) ==
  LET l == Arg(e, 1)
      r == Arg(e, 2)
      cl == unpack_col(l, FALSE)
      cr == unpack_col(r, FALSE)
      dl == unpack_col(l, TRUE)
      dr == unpack_col(r, TRUE)
      Left(c) == <<<<"Binary", <<l, Empty>>, Data(e)>>,
                   Append(stack, ReplaceBinary(c, r, Data(e)[1], Data(e)[2], TRUE))>>
      Right(c) == <<<<"Binary", <<Empty, r>>, Data(e)>>,
                    Append(stack, ReplaceBinary(c, l, Data(e)[1], Data(e)[2], FALSE))>>
  IN CASE cl # NoColumn /\ cr = NoColumn -> Left(cl)
       [] cl = NoColumn /\ cr # NoColumn -> Right(cr)
       [] cl = NoColumn /\ cr = NoColumn /\ stack # <<>> /\ dl # NoColumn /\ dr = NoColumn -> Left(dl)
       [] cl = NoColumn /\ cr = NoColumn /\ stack # <<>> /\ dl = NoColumn /\ dr # NoColumn -> Right(dr)
       [] OTHER -> <<e, stack>>

SimplifyBinary(e, stack) ==
  LET first == fix_expr(Arg(e, 1), Arg(e, 2), Data(e)[1], stack)
      second == fix_expr(first[2], first[1], first[3], first[4])
      fixed == <<"Binary", <<second[2], second[1]>>, <<second[3], Data(e)[2], Data(e)[3]>>>>
  IN IF is_arithmetic(second[3]) THEN TakeOut(fixed, second[4]) ELSE <<fixed, second[4]>>

\* x IN (a, b) is x = b OR x = a; x NOT IN (a, b) is x <> b AND x <> a.
InToBinary(e) ==
  LET inner == IF Data(e) THEN "NotEq" ELSE "Eq"
      outer == IF Data(e) THEN "And" ELSE "Or"
      Test(a) == Binary(inner, Arg(e, 1), a, Bool)
  IN FoldLeft(LAMBDA acc, a : Binary(outer, Test(a), acc, Bool),
              Test(Arg(e, 2)), SubSeq(Args(e), 3, Len(Args(e))))

BetweenToBinary(e) ==
  IF Data(e) THEN Binary("Or", Binary("Lt", Arg(e, 1), Arg(e, 2), Bool),
                               Binary("Gt", Arg(e, 1), Arg(e, 3), Bool), Bool)
  ELSE Binary("And", Binary("GtEq", Arg(e, 1), Arg(e, 2), Bool),
                     Binary("LtEq", Arg(e, 1), Arg(e, 3), Bool), Bool)

SimplifyVisit(e, stack) ==
  LET v == unpack_val(e)
  IN CASE Variant(e) = "Unary" ->
            IF v # NoValue THEN <<Const(v), stack>>
            ELSE <<e, Append(stack, ReplaceUnary(Arg(e, 1), Data(e)[1], Data(e)[2]))>>
       [] Variant(e) = "Binary" -> SimplifyBinary(e, stack)
       [] Variant(e) = "Cast" -> <<IF v # NoValue THEN Const(v) ELSE e, stack>>
       [] Variant(e) = "IsNull" ->
            <<IF v # NoValue THEN Const(Boolean(IsNull(v))) ELSE e, stack>>
       [] Variant(e) = "In" ->
            IF Len(Args(e)) = 1 THEN <<e, stack>> ELSE VisitAll(InToBinary(e), 1, stack)
       [] Variant(e) = "Between" -> VisitAll(BetweenToBinary(e), 1, stack)
       [] OTHER -> VisitAll(e, 1, stack)

\* The predicate the rule SimplifyFilter leaves in a filter.
SimplifyFilter(predicate) ==
  LET folded == ConstantCalculator(predicate)
  IN IF Accepted(folded) THEN SimplifyVisit(folded, <<>>)[1] ELSE Refused
=============================================================================
