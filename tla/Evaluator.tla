----------------------------- MODULE Evaluator ------------------------------
(***************************************************************************)
(* Expressions and their evaluation on a row (query/evaluator.go).          *)
(***************************************************************************)
EXTENDS Record

\* parser.Expr
ColumnRef(n) == [col |-> n]
LiteralInt(i) == [int |-> i]
LiteralFloat(n) == [float |-> n]        \* n units of 1.0
LiteralString(s) == [str |-> s]
ComparisonOp(op, l, r) == [cmp |-> op, left |-> l, right |-> r]
LogicalOp(op, l, r) == [logic |-> op, left |-> l, right |-> r]

IsColumnRef(e) == "col" \in DOMAIN e
IsComparison(e) == "cmp" \in DOMAIN e
IsLogical(e) == "logic" \in DOMAIN e

\* The outcome of an evaluation that returns an error.
Failed == numericValue(-1, 0)

MaxInt32 == (W32 \div 2) - 1

\* INT up to the largest 32-bit integer, BIGINT above; a VARCHAR; a DOUBLE.
literal(e) ==
    CASE "int" \in DOMAIN e -> IF e.int <= MaxInt32 THEN NewIntValue(e.int) ELSE NewBigIntValue(e.int)
      [] "float" \in DOMAIN e -> numericValue(KindDouble, pattern(e.float, W64))
      [] "str" \in DOMAIN e -> NewVarcharValue(e.str)

holds(op, c) == CASE op = "=" -> c = 0
                  [] op \in {"!=", "<>"} -> c # 0
                  [] op = "<" -> c < 0
                  [] op = "<=" -> c <= 0
                  [] op = ">" -> c > 0
                  [] op = ">=" -> c >= 0

\* NULL with anything is NULL; numbers are compared as the wider kind; other
\* kinds only with themselves.
evalComparison(op, left, right) ==
    LET wide == IF numericRank(left.kind) > numericRank(right.kind) THEN left.kind ELSE right.kind
        both == numericRank(left.kind) >= 0 /\ numericRank(right.kind) >= 0
        l == IF both THEN promoteNumeric(left, wide) ELSE left
        r == IF both THEN promoteNumeric(right, wide) ELSE right
    IN  IF IsNull(left) \/ IsNull(right) THEN NewNullValue
        ELSE IF l.kind # r.kind THEN Failed
        ELSE NewBooleanValue(holds(op, CompareValues(l, r)))

isFalse(v) == ~IsNull(v) /\ ~AsBoolean(v)
isTrue(v) == ~IsNull(v) /\ AsBoolean(v)

\* Both sides are comparisons or logical operators: a boolean or NULL.
evalLogical(op, left, right) ==
    CASE op = "AND" -> IF isFalse(left) \/ isFalse(right) THEN NewBooleanValue(FALSE)
                       ELSE IF IsNull(left) \/ IsNull(right) THEN NewNullValue
                       ELSE NewBooleanValue(TRUE)
      [] op = "OR" -> IF isTrue(left) \/ isTrue(right) THEN NewBooleanValue(TRUE)
                      ELSE IF IsNull(left) \/ IsNull(right) THEN NewNullValue
                      ELSE NewBooleanValue(FALSE)

\* Both sides are evaluated before the operator looks at either, so that an error
\* on the right is an error even when the left decides.
RECURSIVE Eval(_, _, _)
Eval(schema, e, row) ==
    CASE IsColumnRef(e) -> IF HasColumn(schema, e.col) THEN row[ColumnIndex(schema, e.col)] ELSE Failed
      [] IsComparison(e) ->
           LET l == Eval(schema, e.left, row)
               r == Eval(schema, e.right, row)
           IN  IF l = Failed \/ r = Failed THEN Failed ELSE evalComparison(e.cmp, l, r)
      [] IsLogical(e) ->
           LET l == Eval(schema, e.left, row)
               r == Eval(schema, e.right, row)
           IN  IF l = Failed \/ r = Failed THEN Failed ELSE evalLogical(e.logic, l, r)
      [] OTHER -> literal(e)

\* Planner.validateExpr: every column it names is in the schema.
RECURSIVE validateExpr(_, _)
validateExpr(schema, e) ==
    CASE IsColumnRef(e) -> HasColumn(schema, e.col)
      [] IsComparison(e) \/ IsLogical(e) -> validateExpr(schema, e.left) /\ validateExpr(schema, e.right)
      [] OTHER -> TRUE
=============================================================================
