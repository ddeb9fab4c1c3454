------------------------------ MODULE MCEngine ------------------------------
(* The constants of the Engine runs. *)
EXTENDS Engine

CONSTANTS c1, c2

NullTextBytes == <<6>>
NullMarkBytes == <<6, 6>>

col(name, null) == [name |-> name, type |-> KindInt, maxLen |-> 0, nullable |-> null]
Ints == <<col("a", TRUE), col("b", FALSE)>>

one == NewIntValue(1)
two == NewIntValue(2)

cmp(c, op, n) == ComparisonOp(op, ColumnRef(c), LiteralInt(n))
to(c, e) == [column |-> c, value |-> e]

select(w, l) == [stmt |-> "select", items |-> <<[all |-> TRUE]>>, where |-> w, groupBy |-> <<>>,
                 orderBy |-> <<>>, limit |-> l, distinct |-> FALSE]
update(sets, w, l) == [stmt |-> "update", set |-> sets, where |-> w, limit |-> l]
delete(w, l) == [stmt |-> "delete", where |-> w, limit |-> l]
insert(v, w) == [stmt |-> "insert", values |-> <<v, w>>]

swap == <<to("a", ColumnRef("b")), to("b", ColumnRef("a"))>>

\* By scan and, where there is an index, through it; SET that moves a row within
\* the range it is found by; SET to NULL, which b refuses.
Selects == {select(w, NoLimit) : w \in {cmp("a", ">=", 1), cmp("b", "=", 1)}} \cup {select(NoExpr, 1)}
Updates == {update(swap, NoExpr, NoLimit), update(swap, cmp("b", ">=", 1), 1),
            update(<<to("b", LiteralInt(2))>>, cmp("b", ">=", 1), NoLimit),
            update(<<to("b", ColumnRef("a"))>>, cmp("b", "=", 1), NoLimit)}
Deletes == {delete(cmp("a", "=", 2), NoLimit), delete(cmp("b", ">=", 2), 1), delete(NoExpr, NoLimit)}
Inserts == {insert(LiteralInt(1), LiteralInt(2)), insert(LiteralInt(2), LiteralFloat(1))}

\* Values that are not of the kind of their column.
OtherKinds == {insert(LiteralString(<<1>>), LiteralInt(W32 + 1)),
               update(<<to("b", LiteralFloat(Unit(W64)))>>, NoExpr, NoLimit)}

DML == Updates \cup Deletes \cup Inserts
All == DML \cup Selects

Rows == {<<one, two>>, <<two, one>>, <<NewNullValue, one>>}

Indexes == {[indexed |-> {}, unique |-> {}], [indexed |-> {"b"}, unique |-> {}],
            [indexed |-> {"a", "b"}, unique |-> {}]}

setup(rows, ix, first, second) ==
    [schema |-> Ints, rows |-> rows, indexed |-> ix.indexed, unique |-> ix.unique,
     scripts |-> (c1 :> first @@ c2 :> second)]

\* Two rows of which one may become the other, two equal rows, a NULL.
Pairs == {<<<<one, two>>, <<two, one>>>>, <<<<two, one>>, <<two, one>>>>, <<<<NewNullValue, one>>, <<one, two>>>>}

\* A statement alone on up to three rows, two in a script, two clients; with a
\* unique index, whose violation undoes an INSERT.
MCSetups ==
    {setup(rows, ix, <<s>>, <<>>) : rows \in BoundedSeq(Rows, 3), ix \in Indexes, s \in Updates \cup Deletes}
    \cup {setup(rows, ix, <<s, t>>, <<>>) : rows \in BoundedSeq(Rows, 1), ix \in Indexes, s \in DML, t \in All}
    \cup {setup(rows, ix, <<s>>, <<t>>) : rows \in Pairs, ix \in Indexes, s \in All, t \in DML}
    \cup {setup(<<<<one, two>>>>, [indexed |-> {}, unique |-> {}], <<s>>, <<>>) : s \in OtherKinds}
    \cup {setup(<<<<one, one>>>>, [indexed |-> {"a", "b"}, unique |-> {"b"}], <<s>>, <<t>>) :
             s \in All, t \in Inserts}
=============================================================================
