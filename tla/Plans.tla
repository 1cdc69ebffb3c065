-------------------------------- MODULE Plans --------------------------------
(***************************************************************************)
(* LogicalPlan of src/planner: the tree of operators the binder makes of a *)
(* query, what columns it gives, and build_read of src/execution, which    *)
(* turns it into executors.                                                *)
(*                                                                         *)
(* A plan is <<operator, children, data>> with the data                    *)
(*   Dummy 0, Scan a record (below), FunctionScan <<argument, schema>>,    *)
(*   Filter [predicate, is_optimized, having], Project expressions,        *)
(*   Join <<type, on, filter>>, Aggregate <<calls, group by, is_distinct>>,*)
(*   Sort <<fields, limit>>, Limit <<offset, limit>>,                      *)
(*   Values <<rows, schema>>, Union <<left schema, right schema>>.         *)
(* The scan of a table has the positions of the columns it reads, the      *)
(* limit pushed into it, and for each index of the table the range         *)
(* predicates gave it; option is the physical option: 0 the sequential     *)
(* scan, i the scan of the i-th index.                                     *)
(***************************************************************************)
EXTENDS Joins

ColumnsOf(table) == [i \in DOMAIN table.types |-> <<table.name, table.names[i], table.types[i]>>]

TableScanBuild(table, indexes, with_pk) ==
  <<"Scan", <<>>, [table |-> table, columns |-> DOMAIN table.types, offset |-> NoLimit,
                   limit |-> NoLimit, with_pk |-> with_pk, option |-> 0,
                   infos |-> [i \in DOMAIN indexes |-> <<indexes[i], NoRange>>]]>>

FilterBuild(predicate, child, having) ==
  <<"Filter", <<child>>, [predicate |-> predicate, is_optimized |-> FALSE, having |-> having]>>

ScanColumns(scan) ==
  LET at == InOrder(scan.columns)
  IN [i \in DOMAIN at |-> ColumnsOf(scan.table)[at[i]]]

\* The expressions of an operator, and the operator with others in their place.
OperatorExprs(p) ==
  CASE Operation(p) = "Aggregate" -> PlanData(p)[1] \o PlanData(p)[2]
    [] Operation(p) = "Filter" -> <<PlanData(p).predicate>>
    [] Operation(p) = "Project" -> PlanData(p)
    [] Operation(p) = "Join" -> FlattenSeq(PlanData(p)[2])
                                  \o (IF PlanData(p)[3] = NoExpr THEN <<>> ELSE <<PlanData(p)[3]>>)
    [] Operation(p) = "Sort" -> [f \in DOMAIN PlanData(p)[1] |-> PlanData(p)[1][f][1]]
    [] Operation(p) = "FunctionScan" -> <<PlanData(p)[1]>>
    [] OTHER -> <<>>

\* The plan with the expressions exprs in the places of OperatorExprs(p).
WithExpressions(p, exprs) ==
  LET d == PlanData(p)
      n == Len(d[2])
      new == CASE Operation(p) = "Aggregate" ->
                    <<[i \in DOMAIN d[1] |-> exprs[i]],
                      [i \in DOMAIN d[2] |-> exprs[Len(d[1]) + i]], d[3]>>
               [] Operation(p) = "Filter" -> [d EXCEPT !.predicate = exprs[1]]
               [] Operation(p) = "Project" -> [i \in DOMAIN d |-> exprs[i]]
               [] Operation(p) = "Join" ->
                    <<d[1], [i \in DOMAIN d[2] |-> <<exprs[2 * i - 1], exprs[2 * i]>>],
                      IF d[3] = NoExpr THEN NoExpr ELSE exprs[2 * n + 1]>>
               [] Operation(p) = "Sort" ->
                    <<[f \in DOMAIN d[1] |-> [d[1][f] EXCEPT ![1] = exprs[f]]], d[2]>>
               [] Operation(p) = "FunctionScan" -> <<exprs[1], d[2]>>
               [] OTHER -> d
  IN <<Operation(p), p[2], new>>

\* The columns of the tuples a plan gives.
RECURSIVE output_schema(_)
output_schema(p) ==
  CASE Operation(p) \in {"Filter", "Sort", "Limit"} -> output_schema(Child(p, 1))
    [] Operation(p) \in {"Aggregate", "Project"} ->
         [i \in DOMAIN OperatorExprs(p) |-> output_column(OperatorExprs(p)[i])]
    [] Operation(p) = "Join" ->
         IF PlanData(p)[1] \in {"LeftSemi", "LeftAnti"} THEN output_schema(Child(p, 1))
         ELSE output_schema(Child(p, 1)) \o output_schema(Child(p, 2))
    [] Operation(p) = "Scan" -> ScanColumns(PlanData(p))
    [] Operation(p) \in {"Values", "FunctionScan"} -> PlanData(p)[2]
    [] Operation(p) = "Union" -> PlanData(p)[1]
    [] OTHER -> <<>>

NoOutput == <<"NoOutput">>

\* The expressions an operator puts in the place of its child's, if it does.
output_exprs(p) ==
  LET Columns(cs) == [i \in DOMAIN cs |-> Col(cs[i])]
  IN CASE Operation(p) \in {"Aggregate", "Project"} -> OperatorExprs(p)
       [] Operation(p) = "Scan" -> Columns(ScanColumns(PlanData(p)))
       [] Operation(p) \in {"Values", "FunctionScan"} -> Columns(PlanData(p)[2])
       [] Operation(p) = "Union" -> Columns(PlanData(p)[1])
       [] OTHER -> NoOutput

\* The columns an operator itself mentions.
OperatorColumns(p) ==
  CASE Operation(p) = "Scan" -> Range(ScanColumns(PlanData(p)))
    [] Operation(p) = "Values" -> Range(PlanData(p)[2])
    [] Operation(p) = "Union" -> Range(PlanData(p)[1]) \cup Range(PlanData(p)[2])
    [] OTHER -> UNION {Range(referenced_columns(e)) : e \in Range(OperatorExprs(p))}

RECURSIVE referenced_table(_)
referenced_table(p) ==
  (IF Operation(p) = "Scan" THEN {PlanData(p).table.name} ELSE {})
     \cup UNION {referenced_table(c) : c \in Range(p[2])}

-----------------------------------------------------------------------------
SeqScan(kv, scan) ==
  read(kv, scan.table, scan.columns, scan.with_pk, IF scan.offset = NoLimit THEN 0 ELSE scan.offset,
       scan.limit)

ScanRows(kv, scan) ==
  LET info == scan.infos[scan.option]
  IN IF scan.option = 0 \/ info[2] = NoRange THEN SeqScan(kv, scan)
     ELSE IndexScan(kv, scan.table, info[1], info[2], scan.columns, scan.with_pk,
                    IF scan.offset = NoLimit THEN 0 ELSE scan.offset, scan.limit)

\* build_read: the executors of a plan, run to their end on the store kv.
RECURSIVE build_read(_, _)
build_read(kv, p) ==
  LET d == PlanData(p)
      input == build_read(kv, Child(p, 1))
      right == build_read(kv, Child(p, 2))
      schema == output_schema(Child(p, 1))
      schemas == <<schema, output_schema(Child(p, 2))>>
  IN CASE Operation(p) = "Dummy" -> DummyRow
       [] Operation(p) = "Aggregate" ->
            IF d[2] = <<>> THEN SimpleAgg(d[1], schema, input) ELSE HashAgg(d[1], d[2], schema, input)
       [] Operation(p) = "Filter" -> Filter(d.predicate, schema, input)
       [] Operation(p) = "Join" ->
            IF d[2] # <<>> THEN HashJoin(d[1], d[2], d[3], schemas, input, right)
            ELSE NestedLoopJoin(d[1], d[2], d[3], schemas, input, right)
       [] Operation(p) = "Project" -> Projection(d, schema, input)
       [] Operation(p) = "Scan" -> ScanRows(kv, d)
       [] Operation(p) = "FunctionScan" -> Numbers(d[1])
       [] Operation(p) = "Sort" -> Sort(d[1], d[2], schema, input)
       [] Operation(p) = "Limit" -> Limit(d[1], d[2], input)
       [] Operation(p) = "Values" -> ValuesRows(d[1], d[2])
       [] OTHER -> Union(input, right)
=============================================================================
