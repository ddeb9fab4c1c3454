------------------------------- MODULE Query --------------------------------
(***************************************************************************)
(* SELECT on a table at rest, against what SQL says it means, and the text  *)
(* of statements against what is read from it.  The state is a table, the   *)
(* columns that have an index, a statement and its plan; or a script; or a  *)
(* sequence of lexemes.  Nothing else happens, so the answer of the code is *)
(* a function of the state.                                                 *)
(***************************************************************************)
EXTENDS Meaning, Script, Bags

CONSTANTS Tables,      \* [schema, rows]: rows are the rows a table may hold
          MaxRows,     \* rows in a table
          Statements(_), \* the SELECTs tried on a schema
          IndexedOf(_), \* the sets of indexed columns tried on a schema
          Scripts,     \* the scripts written, sequences of statements
          EditTokens,  \* the tokens a script is damaged with
          Lexemes,     \* tokens of the lexer
          MaxLexemes   \* in a line of text

VARIABLE q             \* [schema, rows, stmt, plan, nodes], [script, tokens], [tokens] or [lexemes, gaps]

NoQuery == [none |-> TRUE]

Init == q = NoQuery

\* Plan and Optimize.
planned(schema, rows, indexed, s, p) ==
    [schema |-> schema, rows |-> rows, stmt |-> s, plan |-> p, nodes |-> Optimize(indexed, p.nodes)]

Ask == /\ q = NoQuery
       /\ \E t \in Tables :
            \E rows \in BoundedSeq(t.rows, MaxRows), ix \in IndexedOf(t.schema), s \in Statements(t.schema) :
                q' = planned(t.schema, rows, ix, s, planSelect(t.schema, s))
Forget == q # NoQuery /\ q' = NoQuery

WriteScript == q = NoQuery /\ \E s \in Scripts, semis \in BOOLEAN :
                                q' = [script |-> s, tokens |-> scriptText(s, semis)]

\* One token of a script is lost, replaced or added.
Damage == /\ q # NoQuery /\ "script" \in DOMAIN q
          /\ \E i \in DOMAIN q.tokens, t \in EditTokens :
                \/ q' = [tokens |-> RemoveAt(q.tokens, i)]
                \/ q' = [tokens |-> [q.tokens EXCEPT ![i] = t]]
                \/ q' = [tokens |-> InsertAt(q.tokens, i, t)]

WriteLine == q = NoQuery /\ \E ls \in BoundedSeq(Lexemes, MaxLexemes) : \E gaps \in SUBSET DOMAIN ls :
                                q' = [lexemes |-> ls, gaps |-> gaps]

Next == Ask \/ WriteScript \/ Damage \/ WriteLine \/ Forget

Spec == Init /\ [][Next]_q

----------------------------------------------------------------------------
\* The answer of the code

\* TableHandle.CreateIndex: the rows as they are decoded; row k has RID k.
treeOf(schema, rows, name) == {entry(column(schema, rows[k], name), k) : k \in DOMAIN rows}

sourceRows(n) ==
    IF n.node = "scan" THEN q.rows
    ELSE LET rids == indexRIDs(treeOf(q.schema, q.rows, n.column), n)
         IN  [i \in DOMAIN rids |-> q.rows[rids[i]]]

asked == q # NoQuery /\ "stmt" \in DOMAIN q

answers == pipeline(q.schema, q.plan.schema, Tail(q.nodes), stream(sourceRows(q.nodes[1]), FALSE))

----------------------------------------------------------------------------
\* The meaning of a statement

present(schema, rows, name) == SelectSeq([k \in DOMAIN rows |-> column(schema, rows[k], name)],
                                         LAMBDA v : ~IsNull(v))

\* Numbers are compared in units of a double: SUM keeps the kind of its column.
aggregated(schema, a, rows) ==
    LET vs  == IF a.arg = "*" THEN <<>> ELSE present(schema, rows, a.arg)
        sum == MapThenSumSet(LAMBDA k : exactly(vs[k]), DOMAIN vs)
    IN  CASE a.agg = "COUNT" -> IF a.arg = "*" THEN NewBigIntValue(Len(rows)) ELSE NewBigIntValue(Len(vs))
          [] a.agg # "COUNT" /\ vs = <<>> -> NewNullValue
          [] a.agg = "SUM" /\ vs # <<>> -> numericValue(KindDouble, pattern(sum, W64))
          [] a.agg = "AVG" /\ vs # <<>> -> numericValue(KindDouble, pattern(quotient(sum, Len(vs)), W64))
          [] a.agg = "MIN" /\ vs # <<>> -> CHOOSE v \in ToSet(vs) : \A w \in ToSet(vs) : ~below(w, v)
          [] a.agg = "MAX" /\ vs # <<>> -> CHOOSE v \in ToSet(vs) : \A w \in ToSet(vs) : ~below(v, w)

\* Values that are the same number are written as one value.
normal(v) == IF isNumber(v.kind) THEN numericValue(KindDouble, pattern(exactly(v), W64)) ELSE v
normalRow(r) == [i \in DOMAIN r |-> normal(r[i])]
bagOf(rows) == ToBag([k \in DOMAIN rows |-> normalRow(rows[k])])

\* The rows of the result before ORDER BY and LIMIT, as a bag.
meaning(schema, s, rows) ==
    LET in   == matching(schema, s.where, rows)
        cols == IF hasAggregate(s.items) THEN q.plan.nodes[IF s.where = NoExpr THEN 2 ELSE 3].keys
                ELSE IF "all" \in DOMAIN s.items[1] THEN [i \in DOMAIN schema |-> schema[i].name]
                ELSE [i \in DOMAIN s.items |-> s.items[i].column]
        show(r) == [i \in DOMAIN cols |-> column(schema, r, cols[i])]
        aggs == SelectSeq(s.items, LAMBDA it : "agg" \in DOMAIN it)
        groups == {show(r) : r \in ToSet(in)} \cup (IF s.groupBy = <<>> THEN {<<>>} ELSE {})
        row(g) == g \o [i \in DOMAIN aggs |->
                           aggregated(schema, aggs[i], SelectSeq(in, LAMBDA r : show(r) = g))]
        bag == IF hasAggregate(s.items) THEN SetToBag({normalRow(row(g)) : g \in groups})
               ELSE bagOf([k \in DOMAIN in |-> show(in[k])])
    IN  IF s.distinct THEN SetToBag(BagToSet(bag)) ELSE bag

\* a comes before b in the order asked for.
before(out, keys, a, b) ==
    LET less(k, x, y) == LET v == column(out, x, k.column)
                             w == column(out, y, k.column)
                         IN  IF k.direction = "DESC" THEN below(w, v) ELSE below(v, w)
    IN  \E i \in DOMAIN keys : less(keys[i], a, b) /\ \A j \in 1..(i - 1) : ~less(keys[j], b, a) /\ ~less(keys[j], a, b)

\* The stream has as many of the rows as LIMIT allows, none it should not have,
\* in the order asked for, and leaves out none that comes before one it has.
legitimate(out, s, bag, res) ==
    LET got == bagOf(res.rows)
        all == BagCardinality(bag)
        rest == BagToSet(bag (-) got)
    IN  /\ ~res.err
        /\ got \sqsubseteq bag
        /\ Len(res.rows) = IF s.limit = NoLimit THEN all ELSE Min({s.limit, all})
        /\ \A i, j \in DOMAIN res.rows : i < j => ~before(out, s.orderBy, res.rows[j], res.rows[i])
        /\ \A r \in rest, g \in ToSet(res.rows) : ~before(out, s.orderBy, r, g)

legitimateAnswers ==
    \E bag \in {meaning(q.schema, q.stmt, q.rows)} :
        \A res \in answers : legitimate(q.plan.schema, q.stmt, bag, res)

----------------------------------------------------------------------------
\* Properties

usesIndex == q.nodes[1].node # "scan"

\* A SELECT gives what it means: WHERE in three-valued logic with numbers of
\* different kinds, projection, DISTINCT by string keys, the unstable sort and
\* LIMIT together (planner.go:102-155, physical.go:188-309, 883-1043); one row per
\* group, groups told apart by strings, NULLs skipped by aggregates, one row for an
\* empty table without GROUP BY and none with it (planner.go:158,
\* physical.go:670-853).
SelectExact ==
    asked /\ q.plan.ok /\ (usesIndex => hasAggregate(q.stmt.items)) => legitimateAnswers

\* Replacing scan and filter by an index scan (optimizer.go:98) changes nothing
\* for comparisons that an inclusive range can express.
IndexScanExact ==
    asked /\ q.plan.ok /\ usesIndex /\ translatable(q.schema, q.stmt.where) => legitimateAnswers

\* Replacing scan and filter by an index scan never changes the answer, as the
\* README says of the patterns it lists and of any other predicate.
IndexScanIsFilter == asked /\ q.plan.ok /\ usesIndex => legitimateAnswers

\* A script is read as the statements it was written from, with and without
\* semicolons, every clause in its place and AND and OR grouped from the left
\* (parser.go:213-1037).  With a token lost, replaced or added it is refused as a
\* whole or read token for token: no clause is dropped, as the WHERE of a DELETE
\* would be, and no statement after the damage is.  The columns an INSERT names
\* are the exception (parser.go:539).
ParsesExact ==
    q # NoQuery /\ "tokens" \in DOMAIN q =>
        \A r \in {parseStatements(q.tokens)} :
            /\ "script" \in DOMAIN q => r = Read(Len(q.tokens) + 1, q.script)
            /\ r.ok /\ ~hasColumnList(q.tokens) =>
                  essence(scriptText(r.val, FALSE)) = essence(q.tokens)

\* However a line is spaced, the lexer finds the lexemes it was written from:
\* the longest operator, strings whole, words up to a separator (lexer.go:86).
LexesBack == q # NoQuery /\ "lexemes" \in DOMAIN q => Tokenize(written(q.lexemes, q.gaps)) = q.lexemes
=============================================================================
