-------------------------------- MODULE Joins --------------------------------
(***************************************************************************)
(* src/execution/dql/join: the hash join, taken when the condition has     *)
(* equalities, and the nested loop join.  A condition is a sequence of     *)
(* pairs <<left key, right key>> and a filter on the joined tuple, NoExpr  *)
(* when there is none.  schemas is <<left schema, right schema>>; the      *)
(* nullability joins_nullable gives their columns changes no value.        *)
(***************************************************************************)
EXTENDS Executors

JoinTypes == {"Inner", "LeftOuter", "LeftSemi", "LeftAnti", "RightOuter", "Full", "Cross"}

LeftKeys(on) == Images(on, LAMBDA k : k[1])
RightKeys(on) == Images(on, LAMBDA k : k[2])

-----------------------------------------------------------------------------
(* HashJoin *)

eval_keys(keys, schema, t) == EvalAll(keys, schema, t)

\* A tuple that fails the filter is dropped, or keeps one side beside NULLs.  FULL
\* joins have no use for the filter.
join_filter(t, schemas, filter, ty) ==
  LET n == Len(schemas[1])
      width == n + Len(schemas[2])
      v == eval(filter, <<schemas[1] \o schemas[2], t[2]>>)
  IN CASE filter = NoExpr \/ ty \in {"Full", "Cross"} \/ is_true(v) -> <<t>>
       [] Failed(v) \/ NotBoolean(v) -> <<Failure(IF Failed(v) THEN v ELSE Err)>>
       [] OTHER ->
            CASE ty = "LeftOuter" -> <<<<t[1], SubSeq(t[2], 1, n) \o Nulls(width - n)>>>>
              [] ty = "RightOuter" -> <<<<t[1], Nulls(n) \o SubSeq(t[2], n + 1, width)>>>>
              [] OTHER -> <<>>

\* The build phase: an entry for each combination of the left keys.
BuildMap(keys, schema, left) ==
  LET Add(map, t) ==
        LET ks == eval_keys(keys, schema, t)
            at == SelectInSeq(map, LAMBDA e : SameKeys(e.keys, ks))
        IN IF at = 0 THEN Append(map, [keys |-> ks, tuples |-> <<t>>, used |-> FALSE, filtered |-> FALSE])
           ELSE [map EXCEPT ![at].tuples = Append(@, t)]
  IN FoldLeft(Add, <<>>, left)

\* A right tuple that meets an entry.  For a semi join the first of them decides which
\* tuples of the entry stay; later ones find the entry filtered.
ProbeEntry(acc, at, t, schemas, filter, ty) ==
  LET entry == acc.map[at]
      pairs == Images(entry.tuples, LAMBDA l :
                        join_filter(<<l[1], l[2] \o t[2]>>, schemas, filter, ty))
      joined == Each(FlattenSeq(pairs), LAMBDA x : <<x>>)
      kept == SelectSeq([i \in DOMAIN pairs |-> i], LAMBDA i : pairs[i] # <<>>)
      used == [acc.map EXCEPT ![at].used = TRUE]
  IN CASE ty = "LeftAnti" \/ (ty = "LeftSemi" /\ entry.filtered) -> [acc EXCEPT !.map = used]
       [] ty = "LeftSemi" /\ ~entry.filtered ->
            IF Stopped(joined) THEN [acc EXCEPT !.out = Append(@, Last(joined))]
            ELSE [acc EXCEPT !.map = [used EXCEPT ![at].filtered = TRUE, ![at].tuples =
                                        Images(kept, LAMBDA i : entry.tuples[i])]]
       [] OTHER -> [map |-> used, out |-> acc.out \o joined]

Probe(acc, t, on, schemas, filter, ty) ==
  LET keys == eval_keys(RightKeys(on), schemas[2], t)
      at == SelectInSeq(acc.map, LAMBDA e : SameKeys(e.keys, keys))
      alone == <<t[1], Nulls(Len(schemas[1])) \o t[2]>>
  IN CASE Stopped(acc.out) -> acc
       [] ~Stopped(acc.out) /\ Broken(t) -> [acc EXCEPT !.out = Append(@, t)]
       [] ~Stopped(acc.out) /\ ~Broken(t) /\ AnyFailed(keys) ->
            [acc EXCEPT !.out = Append(@, Failure(FirstFailure(keys)))]
       [] OTHER -> IF at # 0 /\ \A i \in DOMAIN keys : ~IsNull(keys[i])
                   THEN ProbeEntry(acc, at, t, schemas, filter, ty)
                   ELSE IF ty \in {"RightOuter", "Full"}
                        THEN [acc EXCEPT !.out = @ \o join_filter(alone, schemas, filter, ty)]
                        ELSE acc


\* What the left side still owes once the right one is read.
LeftDrop(entry, schemas, filter, ty) ==
  CASE ty \in {"LeftOuter", "Full"} ->
         IF entry.used THEN <<>>
         ELSE Images(entry.tuples, LAMBDA l : <<l[1], l[2] \o Nulls(Len(schemas[2]))>>)
    [] ty \in {"LeftSemi", "LeftAnti"} ->
         CASE entry.used # (ty = "LeftSemi") -> <<>>
           [] entry.used = (ty = "LeftSemi") /\ entry.filtered -> entry.tuples
           [] OTHER -> Each(entry.tuples, LAMBDA t : join_filter(t, schemas, filter, ty))
    [] OTHER -> <<>>

HashJoin(ty, on, filter, schemas, left, right) ==
  LET leftRows == Each(left, LAMBDA t : Unless(eval_keys(LeftKeys(on), schemas[1], t), <<t>>))
      probed == FoldLeft(LAMBDA acc, t : Probe(acc, t, on, schemas, filter, ty),
                         [map |-> BuildMap(LeftKeys(on), schemas[1], leftRows), out |-> <<>>], right)
      drops == FlattenSeq(Images(probed.map, LAMBDA e : LeftDrop(e, schemas, filter, ty)))
  IN CASE Stopped(leftRows) -> <<Last(leftRows)>>
       [] ~Stopped(leftRows) /\ Stopped(probed.out) -> probed.out
       [] OTHER -> probed.out \o Each(drops, LAMBDA t : <<t>>)

-----------------------------------------------------------------------------
(* NestedLoopJoin: the outer input is the left one, for a right outer join the right. *)

KeyOr(p, q) == IF p = NoPk THEN q ELSE p

emit_tuple(l, r, ty, is_matched) ==
  LET both == l[2] \o r[2]
      values ==
        CASE ty \in {"Inner", "Cross", "LeftSemi"} /\ ~is_matched -> <<>>
          [] ty \in {"LeftOuter", "Full"} /\ ~is_matched -> l[2] \o Nulls(Len(r[2]))
          [] ty = "RightOuter" /\ ~is_matched -> Nulls(Len(l[2])) \o r[2]
          [] ty = "LeftSemi" /\ is_matched -> l[2]
          [] ty = "LeftAnti" -> IF is_matched THEN <<>> ELSE l[2]
          [] OTHER -> both
  IN IF values = <<>> THEN <<>> ELSE <<<<KeyOr(l[1], r[1]), values>>>>

\* Equal values, NULL equal to NULL; without keys every pair matches.
equals(lkeys, rkeys, l, r, lschema, rschema) ==
  SameKeys(EvalAll(lkeys, lschema, l), EvalAll(rkeys, rschema, r))

\* Whether an outer and an inner tuple match: TRUE, FALSE or a failure as a value.
PairTest(on, filter, ty, schemas, l, r) ==
  LET keys == EvalAll(LeftKeys(on), schemas[1], l) \o EvalAll(RightKeys(on), schemas[2], r)
      v == eval(filter, <<schemas[1] \o schemas[2], l[2] \o r[2]>>)
  IN CASE AnyFailed(keys) -> FirstFailure(keys)
       [] ~AnyFailed(keys) /\ ~equals(LeftKeys(on), RightKeys(on), l, r, schemas[1], schemas[2]) ->
            Boolean(FALSE)
       [] OTHER -> IF filter = NoExpr THEN Boolean(TRUE)
                   ELSE IF Failed(v) THEN v ELSE IF NotBoolean(v) THEN Err ELSE Boolean(is_true(v))

\* The inner loop for one outer tuple: what it yields, and which inner tuples were
\* joined.  A semi or an anti join stops at the first match.
InnerLoop(outer, inner, on, filter, ty, schemas) ==
  LET Left(i) == IF ty = "RightOuter" THEN inner[i] ELSE outer
      Right(i) == IF ty = "RightOuter" THEN outer ELSE inner[i]
      test == <<>> \o [i \in DOMAIN inner |->
                         IF Broken(inner[i]) THEN inner[i][1]
                         ELSE PairTest(on, filter, ty, schemas, Left(i), Right(i))]
      stops == {i \in DOMAIN inner : Failed(test[i]) \/ (ty \in {"LeftSemi", "LeftAnti"} /\ is_true(test[i]))}
      last == IF stops = {} THEN Len(inner) ELSE Min(stops)
      Yield(i) == CASE Failed(test[i]) -> <<Failure(test[i])>>
                    [] ~Failed(test[i]) /\ is_true(test[i]) -> emit_tuple(Left(i), Right(i), ty, TRUE)
                    [] OTHER -> <<>>
  IN [out |-> FlattenSeq([i \in 1..last |-> Yield(i)]),
      hits |-> {i \in 1..last : is_true(test[i])}]

\* The outer tuple beside NULLs when nothing matched it.
Unmatched(outer, ty, innerLen) ==
  LET nulls == <<NoPk, Nulls(innerLen)>>
  IN CASE ty = "LeftAnti" -> <<outer>>
       [] ty = "RightOuter" -> emit_tuple(nulls, outer, ty, FALSE)
       [] ty \in {"LeftOuter", "LeftSemi", "Full"} -> emit_tuple(outer, nulls, ty, FALSE)
       [] OTHER -> <<>>

\* The inner tuples of a FULL join that nobody joined.  The bitmap is made by the first
\* outer tuple, and the NULLs are as many as the right schema has columns.
FullRest(right, hits, noOuter, innerLen) ==
  IF noOuter /\ right # <<>> THEN <<Failure(Panic)>>
  ELSE FlattenSeq([i \in DOMAIN right |->
         IF i \in hits THEN <<>>
         ELSE IF Broken(right[i]) THEN <<right[i]>>
         ELSE <<<<right[i][1], Nulls(innerLen) \o right[i][2]>>>>])

NestedLoopJoin(ty, on, filter, schemas, left, right) ==
  LET swap == ty = "RightOuter"
      outers == IF swap THEN right ELSE left
      inners == IF swap THEN left ELSE right
      innerLen == Len(IF swap THEN schemas[1] ELSE schemas[2])
      loops == Images(outers, LAMBDA t :
                 IF Broken(t) THEN [out |-> <<t>>, hits |-> {}]
                 ELSE InnerLoop(t, inners, on, filter, ty, schemas))
      Loop(o) == loops[o].out \o (IF loops[o].hits = {} /\ ~Stopped(loops[o].out)
                                    THEN Unmatched(outers[o], ty, innerLen) ELSE <<>>)
      looped == Each(FlattenSeq([o \in DOMAIN outers |-> Loop(o)]), LAMBDA t : <<t>>)
      hits == UNION {loops[o].hits : o \in DOMAIN outers}
  IN IF Stopped(looped) \/ ty # "Full" THEN looped
     ELSE looped \o FullRest(inners, hits, outers = <<>>, innerLen)
=============================================================================
