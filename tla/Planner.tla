------------------------------ MODULE Planner -------------------------------
(***************************************************************************)
(* From a statement on one table to the physical operators that run it      *)
(* (query/planner.go, query/optimizer.go).  A plan has one input, so it is  *)
(* the sequence of its nodes, from the scan up.                             *)
(*                                                                         *)
(* SELECT: [items, where, groupBy, orderBy, limit, distinct]; an item is    *)
(* [all], [column] or [agg, arg] with arg "*" in COUNT( * ).                *)
(* UPDATE: [set, where, limit]; DELETE: [where, limit].  That the table     *)
(* exists is left to DB.                                                    *)
(***************************************************************************)
EXTENDS Evaluator

NoExpr == [none |-> TRUE]    \* no WHERE
NoLimit == -1

PlanError == [ok |-> FALSE, nodes |-> <<>>, schema |-> <<>>]
Panic == [ok |-> FALSE, nodes |-> <<[node |-> "panic"]>>, schema |-> <<>>]
planOf(nodes, schema) == [ok |-> TRUE, nodes |-> nodes, schema |-> schema]

hasAggregate(items) == \E i \in DOMAIN items : "agg" \in DOMAIN items[i]

----------------------------------------------------------------------------
\* Planner

optional(cond, node) == IF cond THEN <<node>> ELSE <<>>

validWhere(schema, where) == where = NoExpr \/ validateExpr(schema, where)

scanNodes(where) == <<[node |-> "scan"]>> \o optional(where # NoExpr, [node |-> "filter", pred |-> where])

aggregateName(fn, arg) == fn \o "(" \o arg \o ")"

aggregateType(schema, a) ==
    CASE a.agg \in {"COUNT", "SUM"} -> KindBigInt
      [] a.agg = "AVG" -> KindDouble
      [] a.agg \in {"MIN", "MAX"} -> schema[ColumnIndex(schema, a.arg)].type

\* The columns of the SELECT list must be in the GROUP BY list; the columns of
\* the latter that are not selected are added.  The output is the group columns
\* and then the aggregates; no length is given to an aggregate's column, so that
\* NewSchema refuses MIN and MAX of a VARCHAR.
buildAggregate(schema, items, groupBy) ==
    LET aggs == SelectSeq(items, LAMBDA it : "agg" \in DOMAIN it)
        cols == SelectSeq(items, LAMBDA it : "agg" \notin DOMAIN it)
        selected == [i \in DOMAIN cols |-> IF "column" \in DOMAIN cols[i] THEN cols[i].column ELSE ""]
        valid == /\ \A i \in DOMAIN aggs : aggs[i].arg = "*" \/ HasColumn(schema, aggs[i].arg)
                 /\ \A i \in DOMAIN selected : selected[i] \in ToSet(groupBy)
                 /\ \A i \in DOMAIN groupBy : HasColumn(schema, groupBy[i])
        keys == FoldLeft(LAMBDA acc, c : IF Contains(acc, c) THEN acc ELSE Append(acc, c),
                         selected, groupBy)
        out == [i \in DOMAIN keys |-> schema[ColumnIndex(schema, keys[i])]]
               \o [i \in DOMAIN aggs |-> [name |-> aggregateName(aggs[i].agg, aggs[i].arg),
                                          type |-> aggregateType(schema, aggs[i]),
                                          maxLen |-> 0, nullable |-> FALSE]]
    IN  IF valid /\ ValidSchema(out)
        THEN planOf(<<[node |-> "aggregate", keys |-> keys, aggs |-> aggs]>>, out)
        ELSE PlanError

\* Two columns of one name: NewSchema fails, its error is dropped and the schema
\* is nil (the empty sequence).
buildProjections(schema, items) ==
    LET all   == Len(items) = 1 /\ "all" \in DOMAIN items[1]
        names == IF all THEN [i \in DOMAIN schema |-> schema[i].name]
                 ELSE [i \in DOMAIN items |-> IF "column" \in DOMAIN items[i] THEN items[i].column ELSE ""]
        out   == [i \in DOMAIN names |-> schema[ColumnIndex(schema, names[i])]]
    IN  IF \A i \in DOMAIN names : HasColumn(schema, names[i])
        THEN planOf(<<[node |-> "project", cols |-> names]>>, IF ValidSchema(out) THEN out ELSE <<>>)
        ELSE PlanError

\* ORDER BY looks its columns up in the output schema; there is none to look in
\* when it is nil.
planSelect(schema, s) ==
    LET out == IF hasAggregate(s.items) THEN buildAggregate(schema, s.items, s.groupBy)
               ELSE buildProjections(schema, s.items)
    IN  IF ~validWhere(schema, s.where) \/ ~out.ok THEN PlanError
        ELSE IF s.orderBy # <<>> /\ out.schema = <<>> THEN Panic
        ELSE IF \E i \in DOMAIN s.orderBy : ~HasColumn(out.schema, s.orderBy[i].column) THEN PlanError
        ELSE planOf(scanNodes(s.where) \o out.nodes
                    \o optional(s.distinct, [node |-> "distinct"])
                    \o optional(s.orderBy # <<>>, [node |-> "sort", keys |-> s.orderBy])
                    \o optional(s.limit # NoLimit, [node |-> "limit", count |-> s.limit]),
                    out.schema)

planInput(schema, s) ==
    IF ~validWhere(schema, s.where) THEN PlanError
    ELSE planOf(scanNodes(s.where)
                \o optional(s.limit # NoLimit, [node |-> "limit", count |-> s.limit]), schema)

planDelete(schema, s) == planInput(schema, s)

planUpdate(schema, s) ==
    IF \A i \in DOMAIN s.set : HasColumn(schema, s.set[i].column) /\ validateExpr(schema, s.set[i].value)
    THEN planInput(schema, s) ELSE PlanError

----------------------------------------------------------------------------
\* Optimizer

isLiteral(e) == "int" \in DOMAIN e \/ "str" \in DOMAIN e    \* evalLiteral fails on a float

isLower(op) == op \in {">=", ">"}
isUpper(op) == op \in {"<=", "<"}

NoIndexScan == [node |-> "none"]
indexRange(col, lo, hi) == [node |-> "range", column |-> col, lo |-> lo, hi |-> hi]
indexExact(col, v) == [node |-> "exact", column |-> col, value |-> v]

\* The bounds one comparison contributes.
loOf(c) == IF isLower(c.cmp) /\ isLiteral(c.right) THEN literal(c.right) ELSE NoBound
hiOf(c) == IF isUpper(c.cmp) /\ isLiteral(c.right) THEN literal(c.right) ELSE NoBound

onColumn(e) == IsComparison(e) /\ IsColumnRef(e.left)

\* Mutant: the conjunct on the left alone gives the bounds.
andRange_LeftOnly(indexed, p) ==
    IF onColumn(p.left) /\ p.left.left.col \in indexed /\ (loOf(p.left) # NoBound \/ hiOf(p.left) # NoBound)
    THEN indexRange(p.left.left.col, loOf(p.left), hiOf(p.left)) ELSE NoIndexScan

\* Pattern 4.  A left side that is no range comparison sets no column and is
\* ignored, and so is a right side on another column.
andRange(indexed, p) ==
    LET useLeft  == onColumn(p.left) /\ (isLower(p.left.cmp) \/ isUpper(p.left.cmp))
        useRight == onColumn(p.right) /\ (useLeft => p.right.left.col = p.left.left.col)
        col == IF useLeft THEN p.left.left.col ELSE IF useRight THEN p.right.left.col ELSE ""
        lo  == IF useRight /\ loOf(p.right) # NoBound THEN loOf(p.right)
               ELSE IF useLeft THEN loOf(p.left) ELSE NoBound
        hi  == IF useRight /\ hiOf(p.right) # NoBound THEN hiOf(p.right)
               ELSE IF useLeft THEN hiOf(p.left) ELSE NoBound
    IN  IF col \in indexed /\ (lo # NoBound \/ hi # NoBound) THEN indexRange(col, lo, hi) ELSE NoIndexScan

tryIndexScan(indexed, p) ==
    IF IsLogical(p) THEN (IF p.logic = "AND" THEN andRange(indexed, p) ELSE NoIndexScan)
    ELSE IF ~(onColumn(p) /\ p.left.col \in indexed /\ isLiteral(p.right)) THEN NoIndexScan
    ELSE IF p.cmp = "=" THEN indexExact(p.left.col, literal(p.right))
    ELSE IF isLower(p.cmp) \/ isUpper(p.cmp) THEN indexRange(p.left.col, loOf(p), hiOf(p))
    ELSE NoIndexScan

\* Scan and filter become an index scan where one is found; the other nodes are
\* kept, with their columns resolved by name when they run.
Optimize(indexed, nodes) ==
    LET ix == IF Len(nodes) >= 2 /\ nodes[2].node = "filter"
              THEN tryIndexScan(indexed, nodes[2].pred) ELSE NoIndexScan
    IN  IF ix.node = "none" THEN nodes ELSE <<ix>> \o SubSeq(nodes, 3, Len(nodes))
=============================================================================
