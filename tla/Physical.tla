------------------------------ MODULE Physical ------------------------------
(***************************************************************************)
(* The physical operators above the scan (query/physical.go).  An operator  *)
(* maps the stream of its input, the rows Next returns and whether an error *)
(* follows them, to the set of streams it may produce: the order of groups  *)
(* is that of a Go map, the sort is not stable.                             *)
(***************************************************************************)
EXTENDS Planner, Index

CONSTANTS Bar,         \* the byte "|"
          NullText,    \* the bytes of "NULL"
          NullMark     \* the bytes of "<NULL>"

stream(rows, err) == [rows |-> rows, err |-> err]

\* Value.String.  The decimal text of a number is one character that is no byte.
String(v) == IF IsNull(v) THEN NullText
             ELSE IF IsFixedLength(v.kind) THEN <<2 * W64 + number(v)>>
             ELSE v.strVal

joined(texts) == FoldLeft(LAMBDA acc, i : IF i = 1 THEN texts[1] ELSE acc \o <<Bar>> \o texts[i],
                          <<>>, [i \in DOMAIN texts |-> i])

column(schema, row, name) == row[ColumnIndex(schema, name)]

----------------------------------------------------------------------------
\* Filter, Projection, Limit

\* Mutant: a row on which the predicate is NULL passes.
PhysicalFilter_NullPasses(schema, pred, s) ==
    LET bad == SelectInSeq(s.rows, LAMBDA r : Eval(schema, pred, r) = Failed)
        ok  == IF bad = 0 THEN s.rows ELSE SubSeq(s.rows, 1, bad - 1)
    IN  stream(SelectSeq(ok, LAMBDA r : ~isFalse(Eval(schema, pred, r))), s.err \/ bad > 0)

\* Ends at the first row on which the predicate fails.
PhysicalFilter(schema, pred, s) ==
    LET bad == SelectInSeq(s.rows, LAMBDA r : Eval(schema, pred, r) = Failed)
        ok  == IF bad = 0 THEN s.rows ELSE SubSeq(s.rows, 1, bad - 1)
    IN  stream(SelectSeq(ok, LAMBDA r : isTrue(Eval(schema, pred, r))), s.err \/ bad > 0)

PhysicalProjection(schema, cols, s) ==
    stream([k \in DOMAIN s.rows |-> [i \in DOMAIN cols |-> column(schema, s.rows[k], cols[i])]], s.err)

\* The row after the last is not asked for: an error there is not seen.
PhysicalLimit(n, s) ==
    stream(SubSeq(s.rows, 1, Min({n, Len(s.rows)})), s.err /\ Len(s.rows) < n)

----------------------------------------------------------------------------
\* Aggregate

buildGroupKey(schema, keys, row) ==
    joined([i \in DOMAIN keys |-> String(column(schema, row, keys[i]))])

\* 32-bit sums wrap; a sum of strings is NULL.
addValues(a, b) ==
    CASE a.kind \in {KindInt, KindBigInt} -> numericValue(a.kind, (a.numeric + b.numeric) % wordOf(a.kind))
      [] a.kind \in {KindFloat, KindDouble} ->
           numericValue(a.kind, pattern(number(a) + number(b), wordOf(a.kind)))
      [] OTHER -> NewNullValue

quotient(n, d) == IF n < 0 THEN -((-n) \div d) ELSE n \div d

divideValues(sum, count) ==
    CASE sum.kind \in {KindInt, KindBigInt} ->
           numericValue(KindDouble, pattern(quotient(number(sum) * Unit(W64), count), W64))
      [] sum.kind \in {KindFloat, KindDouble} ->
           numericValue(sum.kind, pattern(quotient(number(sum), count), wordOf(sum.kind)))
      [] OTHER -> NewNullValue

AggregateState == [count |-> 0, sum |-> NewNullValue, min |-> NewNullValue,
                   max |-> NewNullValue, hasVal |-> FALSE]

addTo(sum, v) == IF IsNull(sum) THEN v ELSE addValues(sum, v)

updateAggregate(state, a, v) ==
    LET seen == [state EXCEPT !.hasVal = TRUE]
    IN  IF a.arg = "*" THEN [state EXCEPT !.count = @ + 1]
        ELSE IF IsNull(v) THEN state
        ELSE CASE a.agg = "COUNT" -> [seen EXCEPT !.count = @ + 1]
               [] a.agg \in {"SUM", "AVG"} -> [seen EXCEPT !.count = @ + 1, !.sum = addTo(@, v)]
               [] a.agg = "MIN" -> [seen EXCEPT !.min = IF IsNull(@) \/ CompareValues(v, @) < 0 THEN v ELSE @]
               [] a.agg = "MAX" -> [seen EXCEPT !.max = IF IsNull(@) \/ CompareValues(v, @) > 0 THEN v ELSE @]

finalizeAggregate(state, a) ==
    CASE a.agg = "COUNT" -> NewBigIntValue(state.count)
      [] a.agg # "COUNT" /\ ~state.hasVal -> NewNullValue
      [] a.agg = "SUM" /\ state.hasVal -> state.sum
      [] a.agg = "AVG" /\ state.hasVal -> divideValues(state.sum, state.count)
      [] a.agg = "MIN" /\ state.hasVal -> state.min
      [] a.agg = "MAX" /\ state.hasVal -> state.max

\* Groups are told apart by their keys; a group shows the values of its first row.
PhysicalAggregate(schema, keys, aggs, s) ==
    LET keyOf(r) == buildGroupKey(schema, keys, r)
        groups == {keyOf(r) : r \in ToSet(s.rows)} \cup (IF keys = <<>> THEN {<<>>} ELSE {})
        rowsOf(g) == SelectSeq(s.rows, LAMBDA r : keyOf(r) = g)
        arg(a, r) == IF a.arg = "*" THEN NewNullValue ELSE column(schema, r, a.arg)
        result(a, g) == finalizeAggregate(
                            FoldLeft(LAMBDA st, r : updateAggregate(st, a, arg(a, r)),
                                     AggregateState, rowsOf(g)), a)
        out(g) == [i \in DOMAIN keys |-> column(schema, rowsOf(g)[1], keys[i])]
                  \o [i \in DOMAIN aggs |-> result(aggs[i], g)]
    IN  IF s.err THEN {stream(<<>>, TRUE)}
        ELSE {stream([i \in DOMAIN order |-> out(order[i])], FALSE) : order \in SetToSeqs(groups)}

----------------------------------------------------------------------------
\* Sort, Distinct

compareRows(schema, keys, a, b) ==
    LET cmp(k) == LET c == CompareValues(column(schema, a, k.column), column(schema, b, k.column))
                  IN  IF k.direction = "DESC" THEN -c ELSE c
        first == SelectInSeq(keys, LAMBDA k : cmp(k) # 0)
    IN  IF first = 0 THEN 0 ELSE cmp(keys[first])

PhysicalSort(schema, keys, s) ==
    LET reorder(f) == [i \in DOMAIN s.rows |-> s.rows[f[i]]]
        sorted(q) == \A i, j \in DOMAIN q : i < j => compareRows(schema, keys, q[i], q[j]) <= 0
    IN  IF s.err THEN {stream(<<>>, TRUE)}
        ELSE {stream(q, FALSE) : q \in {p \in {reorder(f) : f \in Permutations(DOMAIN s.rows)} : sorted(p)}}

buildRowKey(row) == joined([i \in DOMAIN row |-> IF IsNull(row[i]) THEN NullMark ELSE String(row[i])])

PhysicalDistinct(s) ==
    LET fresh(i) == \A j \in 1..(i - 1) : buildRowKey(s.rows[j]) # buildRowKey(s.rows[i])
        kept == SetToSortSeq({i \in DOMAIN s.rows : fresh(i)}, <)
    IN  IF s.err THEN stream(<<>>, TRUE)
        ELSE stream([k \in DOMAIN kept |-> s.rows[kept[k]]], FALSE)

----------------------------------------------------------------------------
\* Above the scan

\* schema: of the table; out: of the result.
apply(schema, out, n, s) ==
    CASE n.node = "filter" -> {PhysicalFilter(schema, n.pred, s)}
      [] n.node = "project" -> {PhysicalProjection(schema, n.cols, s)}
      [] n.node = "aggregate" -> PhysicalAggregate(schema, n.keys, n.aggs, s)
      [] n.node = "distinct" -> {PhysicalDistinct(s)}
      [] n.node = "sort" -> PhysicalSort(out, n.keys, s)
      [] n.node = "limit" -> {PhysicalLimit(n.count, s)}

pipeline(schema, out, nodes, s) ==
    FoldLeft(LAMBDA S, n : UNION {apply(schema, out, n, x) : x \in S}, {s}, nodes)

\* The RIDs an index scan collects from the tree of its column, in order.
indexRIDs(tree, n) ==
    IF n.node = "exact" THEN Lookup(tree, n.value)
    ELSE LET es == RangeScan(tree, n.lo, n.hi) IN [i \in DOMAIN es |-> es[i].rid]

\* Mutant: the last column is not compared.
rowsEqual_NotLast(a, b) == Len(a) = Len(b) /\ \A i \in DOMAIN a \ {Len(a)} : CompareValues(a[i], b[i]) = 0

rowsEqual(a, b) == Len(a) = Len(b) /\ \A i \in DOMAIN a : CompareValues(a[i], b[i]) = 0
=============================================================================
