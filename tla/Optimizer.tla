------------------------------ MODULE Optimizer ------------------------------
(***************************************************************************)
(* src/optimizer: the normalisation rules, the batches default_optimizer   *)
(* (src/db.rs) gives HepOptimizer, and the choice of a scan by its cost.   *)
(* A rule takes the subtree at a node and gives the subtree in its place,  *)
(* or the same one.                                                        *)
(***************************************************************************)
EXTENDS Plans

CONSTANT
  Rounds   \* how often a batch to a fix point is repeated at most (10 in the code)

WithChild(p, i, c) == [p EXCEPT ![2][i] = c]
IsA(p, op) == Operation(p) = op
OverA(p, op, below) == IsA(p, op) /\ IsA(Child(p, 1), below)

-----------------------------------------------------------------------------
(* ColumnPruning *)

Summaries(cs) == {summary(c) : c \in cs}

\* Kept: an expression whose output is wanted, or that mentions a wanted column.
clear_exprs(refs, exprs) ==
  SelectSeq(exprs, LAMBDA e : summary(output_column(e)) \in refs
                              \/ Summaries(Range(referenced_columns(e))) \cap refs # {})

CountStar == <<"Agg", <<Const(Text(<<42>>))>>, <<"Count", <<"Integer">>, FALSE>>>>

RECURSIVE PruneColumns(_, _, _)
PruneColumns(refs, all, p) ==
  LET d == PlanData(p)
      own == Summaries(OperatorColumns(p))
      Descend(q, rs, every) == <<q[1], [i \in DOMAIN q[2] |-> PruneColumns(rs, every, q[2][i])], q[3]>>
  IN CASE IsA(p, "Aggregate") ->
            LET calls == IF all THEN d[1] ELSE clear_exprs(refs, d[1])
                kept == IF calls = <<>> /\ d[2] = <<>> /\ ~all THEN <<CountStar>> ELSE calls
                q == <<"Aggregate", p[2], <<kept, d[2], d[3]>>>>
            IN Descend(q, Summaries(OperatorColumns(q)) \cup (IF d[3] THEN refs ELSE {}), FALSE)
       [] IsA(p, "Project") ->
            LET q == <<"Project", p[2], IF all THEN d ELSE clear_exprs(refs, d)>>
            IN IF \E i \in DOMAIN d : HasCountStar(d[i]) THEN p
               ELSE Descend(q, Summaries(OperatorColumns(q)), FALSE)
       [] IsA(p, "Scan") ->
            IF all THEN p
            ELSE [p EXCEPT ![3].columns = {i \in @ : summary(ColumnsOf(d.table)[i]) \in refs}]
       [] Operation(p) \in {"Sort", "Limit", "Join", "Filter", "Union"} -> Descend(p, refs \cup own, all)
       [] OTHER -> p

ColumnPruning(p) == PruneColumns({}, TRUE, p)

-----------------------------------------------------------------------------
(* Simplification *)

\* A HAVING above an aggregation is left alone, and so is a filter already seen.
RECURSIVE Operations(_)
Operations(p) == {Operation(p)} \cup UNION {Operations(c) : c \in Range(p[2])}

SimplifyFilterRule(p) ==
  IF IsA(p, "Filter") /\ "Aggregate" \notin Operations(Child(p, 1)) /\ ~PlanData(p).is_optimized
  THEN [p EXCEPT ![3].predicate = SimplifyFilter(@), ![3].is_optimized = TRUE]
  ELSE p

RECURSIVE ConstantCalculation(_)
ConstantCalculation(p) ==
  LET q == IF IsA(p, "FunctionScan") THEN p ELSE WithExpressions(p, Images(OperatorExprs(p), ConstantCalculator))
  IN <<q[1], [i \in DOMAIN q[2] |-> ConstantCalculation(q[2][i])], q[3]>>

-----------------------------------------------------------------------------
(* Predicates *)

RECURSIVE split_conjunctive_predicates(_)
\* Mutant of split_conjunctive_predicates: the sides of OR part too.
SplitsDisjunctions(e) ==
  IF Variant(e) = "Binary" /\ Data(e)[1] \in {"And", "Or"}
  THEN split_conjunctive_predicates(Arg(e, 1)) \o split_conjunctive_predicates(Arg(e, 2))
  ELSE <<e>>

split_conjunctive_predicates(e) ==
  IF Variant(e) = "Binary" /\ Data(e)[1] = "And"
  THEN split_conjunctive_predicates(Arg(e, 1)) \o split_conjunctive_predicates(Arg(e, 2))
  ELSE <<e>>

reduce_filters(es) == FoldLeft(LAMBDA a, b : Binary("And", a, b, Bool), es[1], Tail(es))

is_subset_cols(e, columns) == Range(referenced_columns(e)) \subseteq columns

\* What a side of the join mentions decides where a conjunct goes; a side that keeps its
\* rows beside NULLs takes none from above.
PushPredicateThroughJoin(p) ==
  LET join == Child(p, 1)
      ty == PlanData(join)[1]
      conjuncts == split_conjunctive_predicates(PlanData(p).predicate)
      OnLeft(e) == is_subset_cols(e, OperatorColumns(Child(join, 1)))
      OnRight(e) == ~OnLeft(e) /\ is_subset_cols(e, OperatorColumns(Child(join, 2)))
      left == SelectSeq(conjuncts, OnLeft)
      right == SelectSeq(conjuncts, OnRight)
      common == SelectSeq(conjuncts, LAMBDA e : ~OnLeft(e) /\ ~OnRight(e))
      toLeft == IF ty = "RightOuter" THEN <<>> ELSE left
      toRight == IF ty \in {"Inner", "RightOuter"} THEN right ELSE <<>>
      stay == common \o (IF ty = "RightOuter" THEN left ELSE IF ty = "Inner" THEN <<>> ELSE right)
      FilterOver(es, c) == IF es = <<>> THEN c ELSE FilterBuild(reduce_filters(es), c, PlanData(p).having)
      pushed == WithChild(WithChild(join, 1, FilterOver(toLeft, Child(join, 1))),
                          2, FilterOver(toRight, Child(join, 2)))
  IN IF OverA(p, "Filter", "Join") /\ ty \notin {"Full", "Cross"} THEN FilterOver(stay, pushed) ELSE p

\* The graph's version stays the same, so the batch may end with it.
PushPredicateIntoScan(p) ==
  LET scan == PlanData(Child(p, 1))
      Range_(info) ==
        IndexRange([i \in DOMAIN info[1].columns |-> ColumnsOf(scan.table)[info[1].columns[i]]],
                   PlanData(p).predicate)
  IN IF ~OverA(p, "Filter", "Scan") THEN p
     ELSE WithChild(p, 1, [Child(p, 1) EXCEPT ![3].infos = [i \in DOMAIN @ |->
            IF @[i][2] = NoRange THEN <<@[i][1], Range_(@[i])>> ELSE @[i]]])

-----------------------------------------------------------------------------
(* Limits *)

LimitProjectTranspose(p) ==
  IF OverA(p, "Limit", "Project")
  THEN <<"Project", <<<<"Limit", Child(p, 1)[2], PlanData(p)>>>>, PlanData(Child(p, 1))>>
  ELSE p

PushLimitThroughJoin(p) ==
  LET ty == PlanData(Child(p, 1))[1]
      side == IF ty = "RightOuter" THEN 2 ELSE 1
  IN IF OverA(p, "Limit", "Join") /\ ty \in {"LeftOuter", "LeftSemi", "LeftAnti", "RightOuter"}
     THEN WithChild(p, 1, WithChild(Child(p, 1), side,
                            <<"Limit", <<Child(Child(p, 1), side)>>, PlanData(p)>>))
     ELSE p

PushLimitIntoScan(p) ==
  IF OverA(p, "Limit", "Scan")
  THEN [Child(p, 1) EXCEPT ![3].offset = PlanData(p)[1], ![3].limit = PlanData(p)[2]]
  ELSE p

-----------------------------------------------------------------------------
(* Operators that become one *)

is_subset_exprs(es, fs) == Range(es) \subseteq Range(fs)

CollapseProject(p) ==
  IF OverA(p, "Project", "Project") /\ is_subset_exprs(PlanData(p), PlanData(Child(p, 1)))
  THEN WithChild(p, 1, Child(Child(p, 1), 1))
  ELSE p

CombineFilter(p) ==
  LET below == PlanData(Child(p, 1))
  IN IF OverA(p, "Filter", "Filter")
     THEN [Child(p, 1) EXCEPT
             ![3].predicate = Binary("And", PlanData(p).predicate, @, Bool),
             ![3].having = PlanData(p).having \/ @]
     ELSE p

CollapseGroupByAgg(p) ==
  LET outer == PlanData(p)
      inner == PlanData(Child(p, 1))
  IN IF /\ OverA(p, "Aggregate", "Aggregate") /\ outer[1] = <<>>
        /\ outer[2] # <<>> /\ Len(outer[2]) = Len(inner[2]) /\ Range(outer[2]) \subseteq Range(inner[2])
     THEN Child(p, 1) ELSE p

-----------------------------------------------------------------------------
(* Compilation in advance *)

\* The plan with its expressions rewritten to positions of the child's output, and the
\* expressions it leaves for its parent.  Of a union only the left side is walked.
RECURSIVE Remap(_)
Remap(p) ==
  LET first == Remap(Child(p, 1))
      second == Remap(Child(p, 2))
      below == CASE p[2] = <<>> -> <<>>
                 [] IsA(p, "Join") -> first[2] \o second[2]
                 [] OTHER -> first[2]
      n == Len(first[2])
      keys == 2 * Len(PlanData(p)[2])
      Outputs(i) == IF ~IsA(p, "Join") \/ i > keys THEN below
                    ELSE IF i % 2 = 1 THEN SubSeq(below, 1, n) ELSE SubSeq(below, n + 1, Len(below))
      q == WithExpressions(p, [i \in DOMAIN OperatorExprs(p) |->
                                TryReference(OperatorExprs(p)[i], Outputs(i))])
      children == [i \in DOMAIN p[2] |-> IF i = 1 THEN first[1] ELSE IF IsA(p, "Join") THEN second[1] ELSE p[2][i]]
  IN <<<<q[1], children, q[3]>>, IF output_exprs(q) = NoOutput THEN below ELSE output_exprs(q)>>

ExpressionRemapper(p) == Remap(p)[1]

RECURSIVE EvaluatorBind(_)
EvaluatorBind(p) ==
  LET q == WithExpressions(p, Images(OperatorExprs(p), BindEvaluator))
  IN <<q[1], [i \in DOMAIN q[2] |-> IF i = 1 \/ IsA(p, "Join") THEN EvaluatorBind(q[2][i]) ELSE q[2][i]], q[3]>>

-----------------------------------------------------------------------------
(* The batches and how a rule is applied to a graph *)

\* The batches that are applied once and those to a fix point.
default_optimizer == <<
  <<1, <<"ColumnPruning">>>>,
  <<Rounds, <<"SimplifyFilter", "ConstantCalculation">>>>,
  <<Rounds, <<"PushPredicateThroughJoin", "PushPredicateIntoScan">>>>,
  <<Rounds, <<"LimitProjectTranspose", "PushLimitThroughJoin", "PushLimitIntoScan">>>>,
  <<Rounds, <<"CollapseProject", "CollapseGroupByAgg", "CombineFilter">>>>,
  <<1, <<"ExpressionRemapper", "EvaluatorBind">>>>>>

\* The rules that take the whole graph mark it changed whatever they do.
WholeGraph == {"ColumnPruning", "ConstantCalculation", "ExpressionRemapper", "EvaluatorBind"}

ApplyAt(name, p) ==
  CASE name = "ColumnPruning" -> ColumnPruning(p)
    [] name = "SimplifyFilter" -> SimplifyFilterRule(p)
    [] name = "ConstantCalculation" -> ConstantCalculation(p)
    [] name = "PushPredicateThroughJoin" -> PushPredicateThroughJoin(p)
    [] name = "PushPredicateIntoScan" -> PushPredicateIntoScan(p)
    [] name = "LimitProjectTranspose" -> LimitProjectTranspose(p)
    [] name = "PushLimitThroughJoin" -> PushLimitThroughJoin(p)
    [] name = "PushLimitIntoScan" -> PushLimitIntoScan(p)
    [] name = "CollapseProject" -> CollapseProject(p)
    [] name = "CollapseGroupByAgg" -> CollapseGroupByAgg(p)
    [] name = "CombineFilter" -> CombineFilter(p)
    [] name = "ExpressionRemapper" -> ExpressionRemapper(p)
    [] OTHER -> EvaluatorBind(p)

\* Whether applying the rule at the node changes the graph's version: it marks the graph
\* whatever it does, it puts a node in the place of one that may be equal, or it changes
\* the plan.  A range stored in a scan changes no version.
Bumps(name, p) ==
  CASE name \in WholeGraph -> TRUE
    [] name = "PushPredicateThroughJoin" ->
         OverA(p, "Filter", "Join") /\ PlanData(Child(p, 1))[1] \notin {"Full", "Cross"}
    [] name = "PushPredicateIntoScan" -> FALSE
    [] OTHER -> ApplyAt(name, p) # p

RECURSIVE Height(_), AtDepth(_, _, _), Everywhere(_)
Height(p) == Max({0} \cup {1 + Height(c) : c \in Range(p[2])})

\* The plans a rule makes at the nodes of one level.
AtDepth(name, p, d) ==
  IF d = 0 THEN IF Bumps(name, p) THEN {ApplyAt(name, p)} ELSE {}
  ELSE UNION {{WithChild(p, i, c) : c \in AtDepth(name, Child(p, i), d - 1)} : i \in DOMAIN p[2]}

Everywhere(p) ==
  LET q == PushPredicateIntoScan(p)
  IN <<q[1], [i \in DOMAIN q[2] |-> Everywhere(q[2][i])], q[3]>>

\* apply_rule over the nodes in breadth-first order, up to the first whose version
\* changes: <<the plans it may leave, whether the version changed>>.  The order of
\* siblings is that of the graph's edge lists, in which an edge that was put in later
\* comes first: any node of the level may be the one.
apply_rule(name, p) ==
  LET depths == {d \in 0..Height(p) : AtDepth(name, p, d) # {}}
  IN CASE depths # {} -> <<AtDepth(name, p, Min(depths)), TRUE>>
       [] name = "PushPredicateIntoScan" -> <<{Everywhere(p)}, FALSE>>
       [] OTHER -> <<{p}, FALSE>>

-----------------------------------------------------------------------------
(* Memo *)

NoCost == -1

\* The first of the cheapest expressions <<option, cost>>; one without a cost comes last.
cheapest_physical_option(exprs) ==
  LET Dearer(a, b) == (a[2] = NoCost /\ b[2] # NoCost) \/ (a[2] > b[2] /\ b[2] # NoCost)
      best == {i \in DOMAIN exprs : \A j \in DOMAIN exprs : ~Dearer(exprs[i], exprs[j])}
  IN exprs[Min(best)][1]

\* SeqScanImplementation, then IndexScanImplementation for the indexes with a range.
\* counts gives for each index what its statistics say of its range, and of the table.
ScanOptions(scan, counts) ==
  LET Cost(i) == IF counts[i] = NoCost THEN NoCost
                 ELSE counts[i] * (IF scan.infos[i][1].ty = "PrimaryKey" THEN 1 ELSE 2)
      ranged == SelectSeq([i \in DOMAIN scan.infos |-> i], LAMBDA i : scan.infos[i][2] # NoRange)
  IN <<<<0, counts[0]>>>> \o [k \in DOMAIN ranged |-> <<ranged[k], Cost(ranged[k])>>]

\* into_plan: every scan with the option its statistics make the cheapest.
RECURSIVE into_plan(_, _)
into_plan(p, counts) ==
  IF IsA(p, "Scan")
  THEN [p EXCEPT ![3].option =
          cheapest_physical_option(ScanOptions(PlanData(p), counts[PlanData(p).table.name]))]
  ELSE <<p[1], [i \in DOMAIN p[2] |-> into_plan(p[2][i], counts)], p[3]>>
=============================================================================
