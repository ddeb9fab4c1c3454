------------------------------ MODULE Meaning -------------------------------
(***************************************************************************)
(* What SQL means by a WHERE clause: numbers compare as numbers whatever    *)
(* their kinds, and a comparison with NULL is neither true nor false.  The  *)
(* properties of Query and Engine are stated against these definitions;     *)
(* nothing here is translated from the code.                                *)
(***************************************************************************)
EXTENDS Physical

\* A number in units of a double.
exactly(v) == CASE v.kind \in {KindInt, KindBigInt} -> number(v) * Unit(W64)
                [] v.kind = KindFloat -> number(v) * (Unit(W64) \div Unit(W32))
                [] v.kind = KindDouble -> number(v)

isNumber(k) == k \in KindInt..KindDouble

below(v, w) ==
    IF IsNull(v) \/ IsNull(w) THEN IsNull(v) /\ ~IsNull(w)
    ELSE IF isNumber(v.kind) THEN exactly(v) < exactly(w)
    ELSE lessString(v.strVal, w.strVal)

\* Does op hold between two values of which one is below the other, or neither?
inOrder(op, less, greater) ==
    CASE op = "=" -> ~less /\ ~greater
      [] op \in {"!=", "<>"} -> less \/ greater
      [] op = "<" -> less
      [] op = "<=" -> ~greater
      [] op = ">" -> greater
      [] op = ">=" -> ~less

\* False, unknown and true are 0, 1 and 2.
relation(op, v, w) ==
    IF IsNull(v) \/ IsNull(w) THEN 1
    ELSE IF inOrder(op, below(v, w), below(w, v)) THEN 2 ELSE 0

operand(schema, e, row) == IF IsColumnRef(e) THEN column(schema, row, e.col) ELSE literal(e)

RECURSIVE Truth(_, _, _)
Truth(schema, e, row) ==
    IF IsComparison(e) THEN relation(e.cmp, operand(schema, e.left, row), operand(schema, e.right, row))
    ELSE LET sides == {Truth(schema, e.left, row), Truth(schema, e.right, row)}
         IN  IF e.logic = "AND" THEN Min(sides) ELSE Max(sides)

matching(schema, where, rows) ==
    SelectSeq(rows, LAMBDA r : where = NoExpr \/ Truth(schema, where, r) = 2)

----------------------------------------------------------------------------
\* One index comparison that RangeScan and Lookup translate exactly: a literal of
\* the column's kind, inclusive, and no NULLs below an upper bound.
safeBound(schema, c) ==
    LET col == schema[ColumnIndex(schema, c.left.col)]
    IN  /\ isLiteral(c.right) /\ literal(c.right).kind = col.type
        /\ c.cmp \in {"=", ">=", "<="}
        /\ c.cmp = "<=" => ~col.nullable

translatable(schema, p) ==
    \/ onColumn(p) /\ safeBound(schema, p)
    \/ /\ IsLogical(p) /\ onColumn(p.left) /\ onColumn(p.right)
       /\ p.left.left = p.right.left
       /\ {p.left.cmp, p.right.cmp} = {">=", "<="}
       /\ safeBound(schema, IF p.left.cmp = ">=" THEN p.left ELSE p.right)
       /\ LET up == IF p.left.cmp = "<=" THEN p.left ELSE p.right
          IN  isLiteral(up.right) /\ literal(up.right).kind = literal(p.left.right).kind
=============================================================================
