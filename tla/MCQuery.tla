------------------------------ MODULE MCQuery -------------------------------
(* The constants of the Query runs. *)
EXTENDS Query

NullTextBytes == <<6>>
NullMarkBytes == <<6, 6>>

col(name, t, null) == [name |-> name, type |-> t, maxLen |-> 2, nullable |-> null]

Ints == <<col("a", KindInt, TRUE), col("b", KindInt, FALSE)>>
Mixed == <<col("a", KindVarchar, TRUE), col("b", KindDouble, TRUE)>>

one == NewIntValue(1)
two == NewIntValue(2)
x == NewVarcharValue(<<1>>)
xy == NewVarcharValue(<<1, 2>>)
double(i) == numericValue(KindDouble, pattern(i, W64))

MCTables == {
    [schema |-> Ints, rows |-> {<<NewNullValue, one>>, <<one, two>>, <<two, one>>, <<two, NewIntValue(-1)>>}],
    [schema |-> Mixed, rows |-> {<<x, double(Unit(W64))>>, <<xy, NewNullValue>>,
                                 <<NewNullValue, double(-1)>>, <<x, double(2 * Unit(W64))>>}] }

cmp(c, op, e) == ComparisonOp(op, ColumnRef(c), e)
AND(l, r) == LogicalOp("AND", l, r)
OR(l, r) == LogicalOp("OR", l, r)

\* Predicates on the second table compare strings with strings, numbers with numbers.
Predicates(schema) ==
    LET b1 == LiteralInt(1)
        a1 == IF schema = Ints THEN LiteralInt(2) ELSE LiteralString(<<1>>)
    IN  {cmp("a", op, a1) : op \in {"=", "!=", "<", "<=", ">", ">="}}
        \cup {cmp("b", op, b1) : op \in {"=", "<=", ">="}}
        \cup {cmp("b", "<", LiteralFloat(100)), cmp("b", "<=", LiteralInt(W32))}
        \cup {AND(cmp("b", ">=", b1), cmp("b", "<=", LiteralInt(2))),
              AND(cmp("b", "<=", b1), cmp("b", ">=", LiteralInt(0))),
              AND(cmp("a", "=", a1), cmp("b", ">=", b1)),
              OR(cmp("a", "=", a1), cmp("b", "<", b1)),
              AND(OR(cmp("a", "<", a1), cmp("b", "=", b1)), cmp("a", "!=", a1))}
        \cup (IF schema = Ints THEN {cmp("a", "=", ColumnRef("b"))} ELSE {})

star == <<[all |-> TRUE]>>
c(n) == [column |-> n]
agg(f, n) == [agg |-> f, arg |-> n]

select(items, where, group, order, limit, distinct) ==
    [items |-> items, where |-> where, groupBy |-> group, orderBy |-> order,
     limit |-> limit, distinct |-> distinct]

key(n, d) == [column |-> n, direction |-> d]

MCStatements(schema) ==
    {select(star, p, <<>>, <<>>, NoLimit, FALSE) : p \in Predicates(schema)}
    \cup {select(items, NoExpr, <<>>, order, limit, distinct) :
            items \in {star, <<c("b"), c("a")>>, <<c("a")>>},
            order \in {<<>>, <<key("a", "ASC")>>, <<key("a", "DESC")>>},
            limit \in {NoLimit, 0, 2}, distinct \in BOOLEAN}
    \cup {select(star, NoExpr, <<>>, <<key("a", "ASC"), key("b", "DESC")>>, 2, FALSE)}
    \cup {select(<<agg("COUNT", "*"), agg("COUNT", "a"), agg("SUM", "b"), agg("AVG", "b"),
                   agg("MIN", "b"), agg("MAX", "b")>>, where, group, <<>>, limit, FALSE) :
            where \in {NoExpr, cmp("b", ">=", LiteralInt(2))},
            group \in {<<>>, <<"a">>, <<"a", "b">>}, limit \in {NoLimit, 1}}
    \cup {select(<<agg("COUNT", "*"), c("a")>>, NoExpr, <<"a">>, <<key("a", "DESC")>>, 1, FALSE)}

MCIndexedOf(schema) == IF schema = Ints THEN {{}, {"a"}, {"b"}, {"a", "b"}} ELSE {{}, {"a"}}

----------------------------------------------------------------------------
\* Scripts: "7" is too long for a VARCHAR, "1.1.1" and the last one are refused.
MCNumerals == "0" :> LiteralInt(0) @@ "1" :> LiteralInt(1) @@ "2" :> LiteralInt(2) @@ "7" :> LiteralInt(W16)
              @@ "1.5" :> LiteralFloat(3) @@ "1.1.1" :> NotANumber @@ "9" :> NotANumber

a1 == cmp("a", "=", LiteralInt(1))
b2 == cmp("b", "<=", LiteralFloat(3))
ab == cmp("a", "!=", ColumnRef("b"))
as == cmp("a", ">", LiteralString("x"))

from(s) == [stmt |-> "select", table |-> "t"] @@ s
column3(n, t, len, null) == [name |-> n, type |-> t, maxLen |-> len, nullable |-> null]

Alone == {
    from(select(star, OR(AND(a1, b2), ab), <<>>, <<>>, NoLimit, FALSE)),
    from(select(<<c("a"), c("b")>>, as, <<>>, <<key("a", "DESC"), key("b", "ASC")>>, 2, TRUE)),
    from(select(<<agg("COUNT", "*"), agg("MAX", "a"), c("b")>>, NoExpr, <<"b", "a">>, <<>>, NoLimit, FALSE)),
    [stmt |-> "insert", table |-> "t", values |-> <<LiteralInt(1), LiteralString("x"), LiteralFloat(3), ColumnRef("a")>>],
    [stmt |-> "update", table |-> "t", where |-> AND(OR(a1, ab), b2), limit |-> 1,
     set |-> <<[column |-> "a", value |-> LiteralInt(2)], [column |-> "b", value |-> ColumnRef("a")]>>],
    [stmt |-> "delete", table |-> "t", where |-> AND(a1, b2), limit |-> 0],
    [stmt |-> "createTable", table |-> "t",
     columns |-> <<column3("a", "INT", 0, FALSE), column3("b", "VARCHAR", 2, TRUE), column3("c", "INT", 0, TRUE)>>],
    [stmt |-> "createIndex", table |-> "t", column |-> "a", unique |-> FALSE],
    [stmt |-> "createIndex", table |-> "t", column |-> "a", unique |-> TRUE] }

Short == {
    [stmt |-> "delete", table |-> "t", where |-> NoExpr, limit |-> NoLimit],
    from(select(star, NoExpr, <<>>, <<key("a", "ASC")>>, NoLimit, FALSE)),
    [stmt |-> "createDatabase", name |-> "d"], [stmt |-> "dropDatabase", name |-> "d"],
    [stmt |-> "dropTable", name |-> "t"], [stmt |-> "renameDatabase", name |-> "d", to |-> "e"],
    [stmt |-> "use", name |-> "d"], [stmt |-> "show", name |-> "TABLES"], [stmt |-> "show", name |-> "DATABASES"] }

MCScripts == {<<s>> : s \in Alone} \cup {<<s, t>> : s, t \in Short}

MCEditTokens == {Kw(w) : w \in {"SELECT", "FROM", "WHERE", "AND", "LIMIT", "DELETE", "USE", "DATABASE", "ASC",
                               "DISTINCT", "TABLE", "UNIQUE", "VALUES", "INTO", "COUNT", "NULL", "BY"}}
                \cup {Id("a"), Id("INT"), Id("VARCHAR"), Num("0"), Num("7"), Num("1.5"), Num("9"), Str("x"), Str("("),
                      Op("="), Sep("("), Sep(")"), Sep(","), Sep(";"), Sep("*")}

\* Words of the letters o and r; "or" is a keyword.
MCKeywords == {<<"o", "r">>}
MCLexemes == {createToken(w) : w \in {<<"o", "r">>, <<"o">>, <<"1", ".", "1">>, <<"1", "r">>}}
             \cup {token("operator", o) : o \in {<<"=">>, <<"<">>, <<"<", "=">>, <<"!", "=">>}}
             \cup {token("separator", <<",">>), token("separator", <<"*">>), token("string", <<>>),
                   token("string", <<"o", " ", "<", "=", ",", "\"">>)}
=============================================================================
