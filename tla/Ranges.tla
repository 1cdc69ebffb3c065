------------------------------- MODULE Ranges -------------------------------
(***************************************************************************)
(* src/expression/range_detacher.rs: the range of an index column that a   *)
(* filter's predicate implies, and PushPredicateIntoScan of                *)
(* src/optimizer/rule/normalization/pushdown_predicates.rs, which stores   *)
(* it with the index.  The index scan returns the rows of the range only,  *)
(* so a range must cover every row the predicate keeps.                    *)
(*                                                                         *)
(* A bound is <<"Unbounded">>, <<"Included", v>> or <<"Excluded", v>>; a   *)
(* range is <<"Scope", min, max>>, <<"Eq", v>>, <<"Dummy">> (empty) or     *)
(* <<"Sorted", ranges>>; NoRange is the None of detach and BadRange its    *)
(* error.                                                                  *)
(***************************************************************************)
EXTENDS Simplification

Unbounded == <<"Unbounded">>
Included(v) == <<"Included", v>>
Excluded(v) == <<"Excluded", v>>
Scope(min, max) == <<"Scope", min, max>>
EqRange(v) == <<"Eq", v>>
Dummy == <<"Dummy">>
Sorted(ranges) == <<"Sorted", ranges>>
NoRange == <<"None">>
BadRange == <<"Error">>
Unreachable == <<"Unreachable">>   \* the arm extract_merge_ranges marks unreachable

\* Less, Equal and Greater are -1, 0 and 1; NoOrder where partial_cmp has none.
\* Where two bounds meet in one value an excluded minimum is above an included one;
\* for maxima the order is reversed.
bound_compared(l, r, is_min) ==
  LET Dir(c) == IF is_min THEN c ELSE -c
      cmp == partial_cmp(l[2], r[2])
  IN CASE l = Unbounded /\ r = Unbounded -> 0
       [] l = Unbounded /\ r # Unbounded -> Dir(-1)
       [] l # Unbounded /\ r = Unbounded -> Dir(1)
       [] OTHER -> IF cmp # 0 \/ l[1] = r[1] THEN cmp
                   ELSE IF l[1] = "Included" THEN Dir(-1) ELSE Dir(1)

Below(l, r, is_min) == bound_compared(l, r, is_min) = -1
Above(l, r, is_min) == bound_compared(l, r, is_min) = 1

ranges2range(ranges) ==
  IF ranges = <<>> THEN Dummy ELSE IF Len(ranges) = 1 THEN ranges[1] ELSE Sorted(ranges)

\* The scope between two bounds that are not out of order.
Between(min, max) ==
  IF bound_compared(min, max, min = Unbounded) # 0 \/ min = Unbounded THEN Scope(min, max)
  ELSE IF min[1] = "Included" THEN EqRange(min[2]) ELSE Dummy

and_scope_merge(lmin, lmax, rmin, rmax) ==
  LET min == IF Above(lmin, rmin, TRUE) THEN lmin ELSE rmin
      max == IF Below(lmax, rmax, FALSE) THEN lmax ELSE rmax
  IN IF Above(min, max, min = Unbounded) THEN Dummy ELSE Between(min, max)

or_scope_merge(lmin, lmax, rmin, rmax) ==
  LET apart == Below(lmax, rmin, FALSE) \/ Below(rmax, lmin, FALSE)
      leftFirst == Below(lmin, rmin, TRUE)
  IN IF apart THEN IF leftFirst THEN Sorted(<<Scope(lmin, lmax), Scope(rmin, rmax)>>)
                   ELSE Sorted(<<Scope(rmin, rmax), Scope(lmin, lmax)>>)
     ELSE Between(IF leftFirst THEN lmin ELSE rmin,
                  IF Above(lmax, rmax, FALSE) THEN lmax ELSE rmax)

\* A scope and a single value.
AndScopeEq(min, max, v) ==
  LET c == bound_compared(Included(v), min, TRUE)
  IN IF c = -1 \/ c = NoOrder \/ Above(Included(v), max, FALSE) THEN Dummy ELSE EqRange(v)

OrScopeEq(min, max, v) ==
  LET Close(b) == IF b[1] = "Excluded" /\ eq(b[2], v) THEN Included(b[2]) ELSE b
      low == bound_compared(Excluded(v), min, TRUE)
      high == bound_compared(Excluded(v), max, FALSE)
  IN CASE IsNull(v) -> IF min[1] = "Excluded" THEN Sorted(<<EqRange(v), Scope(min, max)>>)
                       ELSE Scope(min, max)
       [] ~IsNull(v) /\ low = -1 -> Sorted(<<EqRange(v), Scope(min, max)>>)
       [] ~IsNull(v) /\ low = 0 -> Scope(Close(min), max)
       [] OTHER -> CASE high = 1 -> Sorted(<<Scope(min, max), EqRange(v)>>)
                     [] high = 0 -> Scope(min, Close(max))
                     [] OTHER -> Scope(min, max)

MergeEqs(op, v, w) ==
  CASE eq(v, w) -> EqRange(v)
    [] ~eq(v, w) /\ op = "And" -> Dummy
    [] OTHER -> IF partial_cmp(v, w) = 1 THEN Sorted(<<EqRange(w), EqRange(v)>>)
                ELSE Sorted(<<EqRange(v), EqRange(w)>>)

RECURSIVE merge_binary(_, _, _), extract_merge_ranges(_, _, _, _), MergeEach(_, _, _, _)

\* Any connective but AND and OR gives no range.
merge_binary(op, l, r) ==
  LET kinds == {l[1], r[1]}
      scope == IF l[1] = "Scope" THEN l ELSE r
      other == IF l[1] = "Scope" THEN r ELSE l
      list == IF l[1] = "Sorted" THEN l ELSE r
      single == IF l[1] = "Sorted" THEN r ELSE l
  IN CASE "Dummy" \in kinds ->
            CASE op = "And" -> Dummy
              [] op = "Or" -> IF l = Dummy THEN r ELSE l
              [] OTHER -> NoRange
       [] kinds = {"Sorted"} -> ranges2range(MergeEach(op, l[2], r[2], 1))
       [] "Dummy" \notin kinds /\ kinds # {"Sorted"} /\ "Sorted" \in kinds ->
            ranges2range(extract_merge_ranges(op, single, list[2], 1)[1])
       [] op \notin {"And", "Or"} /\ {"Dummy", "Sorted"} \cap kinds = {} -> NoRange
       [] kinds = {"Scope"} /\ op \in {"And", "Or"} ->
            IF op = "And" THEN and_scope_merge(l[2], l[3], r[2], r[3])
            ELSE or_scope_merge(l[2], l[3], r[2], r[3])
       [] kinds = {"Eq"} /\ op \in {"And", "Or"} -> MergeEqs(op, l[2], r[2])
       [] OTHER -> IF op = "And" THEN AndScopeEq(scope[2], scope[3], other[2])
                   ELSE OrScopeEq(scope[2], scope[3], other[2])

\* The ranges of the left list one by one; the place in the right list is kept.
MergeEach(op, ls, rs, idx) ==
  IF ls = <<>> THEN rs
  ELSE LET m == extract_merge_ranges(op, Head(ls), rs, idx) IN MergeEach(op, Tail(ls), m[1], m[2])

\* Walk the sorted list from idx: insert the range in front of the first one above it,
\* step over those below it, and merge with those it meets, for AND as for OR.
extract_merge_ranges(op, range, rs, idx) ==
  LET at == rs[idx]
      BoundOf(x) == Included(x[2])
      lmin == IF range[1] = "Scope" THEN range[2] ELSE BoundOf(range)
      lmax == IF range[1] = "Scope" THEN range[3] ELSE BoundOf(range)
      rmin == IF at[1] = "Scope" THEN at[2] ELSE BoundOf(at)
      rmax == IF at[1] = "Scope" THEN at[3] ELSE BoundOf(at)
      ahead == bound_compared(lmax, rmin, FALSE)
      behind == bound_compared(lmin, rmax, TRUE)
      mixed == range[1] # at[1]
      removed == RemoveAt(rs, idx)
      inserted == <<InsertAt(rs, idx, range), idx>>
      Again(next) == extract_merge_ranges(op, next, removed, idx)
      Step == extract_merge_ranges(op, range, rs, idx + 1)
  IN CASE idx > Len(rs) -> <<IF range = NoRange THEN rs ELSE Append(rs, range), idx>>
       [] idx <= Len(rs) /\ range = NoRange -> <<rs, idx>>
       [] idx <= Len(rs) /\ range = Dummy ->
            CASE op = "And" -> <<<<>>, idx>>
              [] op = "Or" -> Again(at)
              [] OTHER -> <<rs, idx>>
       [] idx <= Len(rs) /\ range[1] = "Sorted" ->
            <<extract_merge_ranges(op, at, range[2], 1)[1], idx>>
       [] idx <= Len(rs) /\ range[1] \in {"Scope", "Eq"} /\ at[1] \notin {"Scope", "Eq"} ->
            <<<<Unreachable>>, idx>>
       [] OTHER ->
            CASE ahead = -1 \/ (mixed /\ range[1] = "Eq" /\ ahead = NoOrder /\ op = "Or") -> inserted
              [] ~(ahead = -1 \/ (mixed /\ range[1] = "Eq" /\ ahead = NoOrder /\ op = "Or"))
                   /\ (behind = 1 \/ (mixed /\ at[1] = "Eq" /\ behind = NoOrder /\ op = "Or")) -> Step
              [] OTHER -> IF mixed /\ at[1] = "Eq" /\ IsNull(at[2]) THEN Again(range)
                          ELSE IF mixed /\ range[1] = "Eq" /\ IsNull(range[2]) THEN Again(at)
                          ELSE Again(merge_binary(op, range, at))

-----------------------------------------------------------------------------
\* The range of a comparison with a constant, cast to the type of the column.
new_range(column, op, col, val, is_flip) ==
  LET v == check_cast(val, column[3])
      o == IF is_flip THEN comparison_flip(op) ELSE op
  IN CASE summary(col) # summary(column) -> NoRange
       [] summary(col) = summary(column) /\ Failed(v) -> BadRange
       [] OTHER -> CASE o = "Gt" -> Scope(Excluded(v), Unbounded)
                     [] o = "Lt" -> Scope(Unbounded, Excluded(v))
                     [] o = "GtEq" -> Scope(Included(v), Unbounded)
                     [] o = "LtEq" -> Scope(Unbounded, Included(v))
                     [] o \in {"Eq", "Spaceship"} -> EqRange(v)
                     [] OTHER -> NoRange

\* One side of OR without a range: nothing is known of the column.
check_or(op, range) == IF op = "Or" THEN NoRange ELSE range

RECURSIVE detach(_, _)
detach(column, e) ==
  LET l == detach(column, Arg(e, 1))
      r == detach(column, Arg(e, 2))
      cl == unpack_col(Arg(e, 1), FALSE)
      cr == unpack_col(Arg(e, 2), FALSE)
      vl == unpack_val(Arg(e, 1))
      vr == unpack_val(Arg(e, 2))
      op == Data(e)[1]
  IN CASE Variant(e) = "Binary" ->
            CASE BadRange \in {l, r} -> BadRange
              [] l # NoRange /\ r # NoRange /\ BadRange \notin {l, r} -> merge_binary(op, l, r)
              [] l = NoRange /\ r = NoRange ->
                   IF cl # NoColumn /\ vr # NoValue THEN new_range(column, op, cl, vr, FALSE)
                   ELSE IF vl # NoValue /\ cr # NoColumn THEN new_range(column, op, cr, vl, TRUE)
                   ELSE NoRange
              [] OTHER -> check_or(op, IF l = NoRange THEN r ELSE l)
       [] Variant(e) \in {"Alias", "Cast", "Unary", "In", "Between", "SubString",
                          "Position", "Trim"} -> l
       [] Variant(e) = "IsNull" ->
            CASE Variant(Arg(e, 1)) = "Col" ->
                   IF summary(Data(Arg(e, 1))) = summary(column) /\ ~Data(e) THEN EqRange(Null)
                   ELSE NoRange
              [] Variant(Arg(e, 1)) \in {"Tuple", "Reference", "Empty"} -> BadRange
              [] OTHER -> l
       [] Variant(e) \in {"Reference", "Empty"} -> BadRange
       [] OTHER -> NoRange

-----------------------------------------------------------------------------
(* An index over several columns: equalities on a prefix of them and a range of the
   next column become ranges of tuples. *)

RECURSIVE only_eq(_)
only_eq(range) ==
  CASE range[1] = "Eq" -> TRUE
    [] range[1] = "Sorted" -> \A i \in DOMAIN range[2] : only_eq(range[2][i])
    [] OTHER -> FALSE

\* build_tree and enumeration: every choice of one value per column, in order.
\* A list that nests another list gives nothing.
RECURSIVE Combinations(_)
Combinations(eqs) ==
  IF eqs = <<>> THEN <<<<>>>>
  ELSE LET first == IF eqs[1][1] = "Sorted" THEN eqs[1][2] ELSE <<eqs[1]>>
       IN FlattenSeq([i \in DOMAIN first |->
            [j \in DOMAIN Combinations(Tail(eqs)) |->
               <<first[i][2]>> \o Combinations(Tail(eqs))[j]]])

TupleBound(prefix, is_upper, bound) ==
  IF bound = Unbounded
  THEN IF prefix = <<>> THEN Unbounded ELSE Excluded(<<"Tuple", prefix, is_upper>>)
  ELSE <<bound[1], <<"Tuple", Append(prefix, bound[2]), is_upper>>>>

RECURSIVE collect_tuple_range(_, _)
collect_tuple_range(prefix, range) ==
  CASE range[1] = "Scope" ->
         <<Scope(TupleBound(prefix, FALSE, range[2]), TupleBound(prefix, TRUE, range[3]))>>
    [] range[1] = "Eq" -> <<EqRange(<<"Tuple", Append(prefix, range[2]), FALSE>>)>>
    [] range[1] = "Sorted" ->
         FlattenSeq([i \in DOMAIN range[2] |-> collect_tuple_range(prefix, range[2][i])])
    [] OTHER -> <<range>>

combining_eqs(range, eqs) ==
  LET nested == \E i \in DOMAIN eqs : eqs[i][1] = "Sorted"
                  /\ \E j \in DOMAIN eqs[i][2] : eqs[i][2][j][1] # "Eq"
      all == Combinations(eqs)
  IN IF nested THEN NoRange
     ELSE ranges2range(FlattenSeq([i \in DOMAIN all |-> collect_tuple_range(all[i], range)]))

\* eq_to_scope: a tuple of fewer columns than the index stands for all its extensions.
RECURSIVE eq_to_scope(_)
eq_to_scope(range) ==
  CASE range[1] = "Eq" -> Scope(Excluded(<<"Tuple", range[2][2], FALSE>>),
                                Excluded(<<"Tuple", range[2][2], TRUE>>))
    [] range[1] = "Sorted" -> Sorted([i \in DOMAIN range[2] |-> eq_to_scope(range[2][i])])
    [] OTHER -> range

composite_range(columns, predicate) ==
  LET found == [i \in DOMAIN columns |-> detach(columns[i], predicate)]
      stops == {i \in DOMAIN columns : ~only_eq(found[i])}
      stop == IF stops = {} THEN Len(columns) + 1 ELSE CHOOSE i \in stops : \A j \in stops : i <= j
      eqs == SubSeq(found, 1, stop - 1)
      open == stop <= Len(columns) /\ found[stop] # NoRange
      applied == IF open THEN stop ELSE stop - 1
      ranged == IF open THEN combining_eqs(found[stop], eqs) ELSE NoRange
      res == IF ranged # NoRange \/ eqs = <<>> THEN ranged
             ELSE combining_eqs(Last(eqs), Front(eqs))
  IN IF stop <= Len(columns) /\ found[stop] = BadRange THEN BadRange
     ELSE IF res # NoRange /\ only_eq(res) /\ applied # Len(columns) THEN eq_to_scope(res) ELSE res

\* PushPredicateIntoScan for one index of a table.
IndexRange(columns, predicate) ==
  IF Len(columns) = 1 THEN detach(columns[1], predicate) ELSE composite_range(columns, predicate)
=============================================================================
