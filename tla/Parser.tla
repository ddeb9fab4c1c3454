------------------------------- MODULE Parser -------------------------------
(***************************************************************************)
(* From tokens to statements (parser/parser.go).  A token is a type and a   *)
(* text, here a string; keywords are in capitals.  A parse function takes   *)
(* the position of its first token and gives the position after its last    *)
(* one and what was read, or Fails.                                         *)
(***************************************************************************)
EXTENDS Planner, Lexer

CONSTANTS Numerals     \* numeral -> literal, NotANumber where strconv refuses it

NotANumber == [nan |-> TRUE]

Kw(v) == token("keyword", v)
Id(v) == token("identifier", v)
Op(v) == token("operator", v)
Num(v) == token("number", v)
Str(v) == token("string", v)
Sep(v) == token("separator", v)

Fails == [ok |-> FALSE, pos |-> 0, val |-> <<>>]
Read(pos, val) == [ok |-> TRUE, pos |-> pos, val |-> val]

EOF == token("eof", "")
peek(ts, i) == IF i <= Len(ts) THEN ts[i] ELSE EOF
isId(ts, i) == peek(ts, i).t = "identifier"

\* The tokens ks stand at i.
expect(ts, i, ks) == \A k \in DOMAIN ks : peek(ts, i + k - 1) = ks[k]

then(r, f(_)) == IF r.ok THEN f(r) ELSE Fails

\* A loop of at most one round per token: step gives its next state, with go
\* FALSE at the break.
Going(pos, val) == [ok |-> TRUE, go |-> TRUE, pos |-> pos, val |-> val]
ended(a) == IF a.ok /\ ~a.go THEN Read(a.pos, a.val) ELSE Fails
loop(ts, i, val, step(_)) ==
    ended(FoldLeft(LAMBDA a, t : IF a.go THEN step(a) ELSE a, Going(i, val), Append(ts, EOF)))
Broken == [Going(0, <<>>) EXCEPT !.ok = FALSE, !.go = FALSE]
break(a) == [a EXCEPT !.go = FALSE]

\* r was read: the loop goes on behind it; a list only if a comma follows.
added(a, r) == IF r.ok THEN [a EXCEPT !.pos = r.pos, !.val = Append(@, r.val)] ELSE Broken
listed(ts, a, r) ==
    IF ~r.ok THEN Broken
    ELSE IF peek(ts, r.pos) = Sep(",") THEN [added(a, r) EXCEPT !.pos = @ + 1]
    ELSE break(added(a, r))

\* item, item, ...
listOf(ts, i, item(_)) ==
    LET step(a) == listed(ts, a, item(a.pos)) IN loop(ts, i, <<>>, step)

ident(ts, i) == IF isId(ts, i) THEN Read(i + 1, ts[i].v) ELSE Fails

----------------------------------------------------------------------------
\* Expressions

parseNumber(ts, i) ==
    IF peek(ts, i).t = "number" /\ Numerals[ts[i].v] # NotANumber THEN Read(i + 1, Numerals[ts[i].v]) ELSE Fails

\* A literal or a column, as in comparisons, VALUES and SET.
parseOperand(ts, i) ==
    CASE peek(ts, i).t = "string" -> Read(i + 1, LiteralString(ts[i].v))
      [] peek(ts, i).t = "identifier" -> Read(i + 1, ColumnRef(ts[i].v))
      [] OTHER -> parseNumber(ts, i)

parseComparison(ts, i) ==
    IF ~isId(ts, i) \/ peek(ts, i + 1).t # "operator" THEN Fails
    ELSE LET r == parseOperand(ts, i + 2)
         IN  IF r.ok THEN Read(r.pos, ComparisonOp(ts[i + 1].v, ColumnRef(ts[i].v), r.val)) ELSE Fails

\* AND and OR have one precedence and group from the left.
parseLogical(ts, i) ==
    LET step(a) == IF peek(ts, a.pos) \notin {Kw("AND"), Kw("OR")} THEN break(a)
                   ELSE LET r == parseComparison(ts, a.pos + 1)
                        IN  IF r.ok THEN [a EXCEPT !.pos = r.pos, !.val = LogicalOp(ts[a.pos].v, @, r.val)]
                            ELSE Broken
    IN  then(parseComparison(ts, i), LAMBDA r : loop(ts, r.pos, r.val, step))

parseWhere(ts, i) == IF peek(ts, i) = Kw("WHERE") THEN parseLogical(ts, i + 1) ELSE Read(i, NoExpr)

\* ParseUint refuses a fraction.
parseLimit(ts, i) ==
    IF peek(ts, i) # Kw("LIMIT") THEN Read(i, NoLimit)
    ELSE then(parseNumber(ts, i + 1), LAMBDA r : IF "int" \in DOMAIN r.val THEN Read(r.pos, r.val.int) ELSE Fails)

----------------------------------------------------------------------------
\* SELECT

Aggregates == {"COUNT", "SUM", "AVG", "MIN", "MAX"}

parseAggregateFunction(ts, i) ==
    IF peek(ts, i + 1) # Sep("(") \/ peek(ts, i + 3) # Sep(")") THEN Fails
    ELSE IF peek(ts, i + 2) = Sep("*")
    THEN IF ts[i].v = "COUNT" THEN Read(i + 4, [agg |-> "COUNT", arg |-> "*"]) ELSE Fails
    ELSE then(ident(ts, i + 2), LAMBDA r : Read(i + 4, [agg |-> ts[i].v, arg |-> r.val]))

parseProjection(ts, i) ==
    IF peek(ts, i) \in {Kw(f) : f \in Aggregates} THEN parseAggregateFunction(ts, i)
    ELSE then(ident(ts, i), LAMBDA r : Read(r.pos, [column |-> r.val]))

parseOrderItem(ts, i) ==
    LET desc == peek(ts, i + 1) = Kw("DESC")
        word == desc \/ peek(ts, i + 1) = Kw("ASC")
    IN  then(ident(ts, i), LAMBDA r : Read(IF word THEN i + 2 ELSE i + 1,
                                          [column |-> r.val, direction |-> IF desc THEN "DESC" ELSE "ASC"]))

parseGroupBy(ts, i) ==
    IF peek(ts, i) # Kw("GROUP") THEN Read(i, <<>>)
    ELSE IF peek(ts, i + 1) # Kw("BY") THEN Fails
    ELSE listOf(ts, i + 2, LAMBDA k : ident(ts, k))

parseOrderBy(ts, i) ==
    IF peek(ts, i) # Kw("ORDER") THEN Read(i, <<>>)
    ELSE IF peek(ts, i + 1) # Kw("BY") THEN Fails
    ELSE listOf(ts, i + 2, LAMBDA k : parseOrderItem(ts, k))

parseSelect(ts, i) ==
    LET distinct == peek(ts, i + 1) = Kw("DISTINCT")
        p == IF distinct THEN i + 2 ELSE i + 1
        items == IF peek(ts, p) = Sep("*") THEN Read(p + 1, <<[all |-> TRUE]>>)
                 ELSE listOf(ts, p, LAMBDA k : parseProjection(ts, k))
    IN  then(items, LAMBDA it :
        IF peek(ts, it.pos) # Kw("FROM") THEN Fails ELSE
        then(ident(ts, it.pos + 1), LAMBDA t :
        then(parseWhere(ts, t.pos), LAMBDA w :
        then(parseGroupBy(ts, w.pos), LAMBDA g :
        then(parseOrderBy(ts, g.pos), LAMBDA o :
        then(parseLimit(ts, o.pos), LAMBDA l :
            Read(l.pos, [stmt |-> "select", table |-> t.val, items |-> it.val, where |-> w.val,
                         groupBy |-> g.val, orderBy |-> o.val, limit |-> l.val, distinct |-> distinct])))))))

----------------------------------------------------------------------------
\* The other statements

\* A comma before the closing parenthesis is accepted.
parseValues(ts, i) ==
    LET step(a) ==
            IF peek(ts, a.pos) = Sep(")") /\ a.val # <<>> THEN break(a)
            ELSE listed(ts, a, parseOperand(ts, a.pos))
    IN  then(loop(ts, i, <<>>, step), LAMBDA r :
            IF peek(ts, r.pos) = Sep(")") THEN Read(r.pos + 1, r.val) ELSE Fails)

\* The columns named after the table are skipped, whatever tokens they are.
skipColumns(ts, i) ==
    LET step(a) == IF peek(ts, a.pos) = EOF THEN Broken
                   ELSE IF ts[a.pos] = Sep(")") THEN break([a EXCEPT !.pos = @ + 1])
                   ELSE [a EXCEPT !.pos = IF peek(ts, @ + 1) = Sep(",") THEN @ + 2 ELSE @ + 1]
    IN  IF peek(ts, i) = Sep("(") THEN loop(ts, i + 1, <<>>, step) ELSE Read(i, <<>>)

parseInsert(ts, i) ==
    IF peek(ts, i + 1) # Kw("INTO") THEN Fails ELSE
    then(ident(ts, i + 2), LAMBDA t :
    then(skipColumns(ts, t.pos), LAMBDA c :
    IF ~expect(ts, c.pos, <<Kw("VALUES"), Sep("(")>>) THEN Fails ELSE
    then(parseValues(ts, c.pos + 2), LAMBDA v :
        Read(v.pos, [stmt |-> "insert", table |-> t.val, values |-> v.val]))))

parseSetItem(ts, i) ==
    IF ~isId(ts, i) \/ peek(ts, i + 1) # Op("=") THEN Fails
    ELSE then(parseOperand(ts, i + 2), LAMBDA r : Read(r.pos, [column |-> ts[i].v, value |-> r.val]))

parseUpdate(ts, i) ==
    then(ident(ts, i + 1), LAMBDA t :
    IF peek(ts, t.pos) # Kw("SET") THEN Fails ELSE
    then(listOf(ts, t.pos + 1, LAMBDA k : parseSetItem(ts, k)), LAMBDA s :
    then(parseWhere(ts, s.pos), LAMBDA w :
    then(parseLimit(ts, w.pos), LAMBDA l :
        Read(l.pos, [stmt |-> "update", table |-> t.val, set |-> s.val, where |-> w.val, limit |-> l.val])))))

parseDelete(ts, i) ==
    IF peek(ts, i + 1) # Kw("FROM") THEN Fails ELSE
    then(ident(ts, i + 2), LAMBDA t :
    then(parseWhere(ts, t.pos), LAMBDA w :
    then(parseLimit(ts, w.pos), LAMBDA l :
        Read(l.pos, [stmt |-> "delete", table |-> t.val, where |-> w.val, limit |-> l.val]))))

BaseTypes == {"INT", "BIGINT", "FLOAT", "DOUBLE", "BOOLEAN", "DATETIME", "VARCHAR", "TEXT", ""}
marked(t) == t \o "?"

\* A column: name, type with an optional "?", the length of a VARCHAR, a "?" of its own.
parseColumnDef(ts, i) ==
    LET typ == IF isId(ts, i) /\ isId(ts, i + 1) THEN ts[i + 1].v ELSE ""
        suffix == \E b \in BaseTypes : typ = marked(b)
        base == IF suffix THEN CHOOSE b \in BaseTypes : typ = marked(b) ELSE typ
        long == peek(ts, i + 2) = Sep("(")
        len == parseNumber(ts, i + 3)
        p == IF long THEN i + 5 ELSE i + 2
        mark == peek(ts, p) = Id("?")
    IN  IF \/ typ = "" \/ long # (base = "VARCHAR")
           \/ long /\ (~len.ok \/ peek(ts, i + 4) # Sep(")"))
        THEN Fails
        ELSE IF long /\ ("int" \notin DOMAIN len.val \/ len.val.int \notin 1..(W16 - 1)) THEN Fails
        ELSE Read(IF mark THEN p + 1 ELSE p,
                  [name |-> ts[i].v, type |-> base, maxLen |-> IF long THEN len.val.int ELSE 0,
                   nullable |-> suffix \/ mark])

\* The comma between two columns may be missing, one may follow the last.
columnAdded(ts, a, r) ==
    IF ~r.ok THEN Broken
    ELSE [added(a, r) EXCEPT !.pos = IF peek(ts, r.pos) = Sep(",") THEN @ + 1 ELSE @]

parseColumnDefs(ts, i) ==
    LET step(a) ==
            IF peek(ts, a.pos) = Sep(")")
            THEN IF a.val = <<>> THEN Broken ELSE break([a EXCEPT !.pos = @ + 1])
            ELSE columnAdded(ts, a, parseColumnDef(ts, a.pos))
    IN  loop(ts, i, <<>>, step)

parseCreateTableBody(ts, i) ==
    IF ~(peek(ts, i) = Kw("TABLE") /\ isId(ts, i + 1) /\ peek(ts, i + 2) = Sep("(")) THEN Fails
    ELSE then(parseColumnDefs(ts, i + 3), LAMBDA r :
              Read(r.pos, [stmt |-> "createTable", table |-> ts[i + 1].v, columns |-> r.val]))

\* Parentheses are recognised by their text alone.
parseCreateIndexBody(ts, i, unique) ==
    IF /\ expect(ts, i, <<Kw("INDEX"), Kw("ON")>>)
       /\ isId(ts, i + 2) /\ peek(ts, i + 3).v = "(" /\ isId(ts, i + 4) /\ peek(ts, i + 5).v = ")"
    THEN Read(i + 6, [stmt |-> "createIndex", table |-> ts[i + 2].v, column |-> ts[i + 4].v, unique |-> unique])
    ELSE Fails

\* <word> <name>
parseNamed(ts, i, word, kind) ==
    IF peek(ts, i) = Kw(word) /\ isId(ts, i + 1)
    THEN Read(i + 2, [stmt |-> kind, name |-> ts[i + 1].v]) ELSE Fails

parseCreate(ts, i) ==
    CASE peek(ts, i + 1).v = "TABLE" -> parseCreateTableBody(ts, i + 1)
      [] peek(ts, i + 1).v = "DATABASE" -> parseNamed(ts, i + 1, "DATABASE", "createDatabase")
      [] peek(ts, i + 1).v = "INDEX" -> parseCreateIndexBody(ts, i + 1, FALSE)
      [] peek(ts, i + 1).v = "UNIQUE" -> parseCreateIndexBody(ts, i + 2, TRUE)
      [] OTHER -> Fails

parseDrop(ts, i) ==
    CASE peek(ts, i + 1).v = "TABLE" -> parseNamed(ts, i + 1, "TABLE", "dropTable")
      [] peek(ts, i + 1).v = "DATABASE" -> parseNamed(ts, i + 1, "DATABASE", "dropDatabase")
      [] OTHER -> Fails

parseRenameDatabase(ts, i) ==
    IF peek(ts, i + 1) = Kw("DATABASE") /\ isId(ts, i + 2) /\ peek(ts, i + 3) = Kw("TO") /\ isId(ts, i + 4)
    THEN Read(i + 5, [stmt |-> "renameDatabase", name |-> ts[i + 2].v, to |-> ts[i + 4].v]) ELSE Fails

\* Any token is a name.
parseUseDatabase(ts, i) ==
    LET p == IF peek(ts, i + 1).v = "DATABASE" THEN i + 2 ELSE i + 1
    IN  IF peek(ts, p) = EOF THEN Fails ELSE Read(p + 1, [stmt |-> "use", name |-> ts[p].v])

parseShow(ts, i) ==
    IF peek(ts, i + 1).v \in {"TABLES", "DATABASES"}
    THEN Read(i + 2, [stmt |-> "show", name |-> ts[i + 1].v]) ELSE Fails

----------------------------------------------------------------------------
parseStatement(ts, i) ==
    CASE peek(ts, i) = Kw("SELECT") -> parseSelect(ts, i)
      [] peek(ts, i) = Kw("INSERT") -> parseInsert(ts, i)
      [] peek(ts, i) = Kw("CREATE") -> parseCreate(ts, i)
      [] peek(ts, i) = Kw("UPDATE") -> parseUpdate(ts, i)
      [] peek(ts, i) = Kw("DELETE") -> parseDelete(ts, i)
      [] peek(ts, i) = Kw("DROP") -> parseDrop(ts, i)
      [] peek(ts, i) = Kw("RENAME") -> parseRenameDatabase(ts, i)
      [] peek(ts, i) = Kw("SHOW") -> parseShow(ts, i)
      [] peek(ts, i) = Kw("USE") -> parseUseDatabase(ts, i)
      [] OTHER -> Fails

\* Mutant: what cannot be read ends the script.
parseStatements_Lenient(ts) ==
    LET step(a) == IF peek(ts, a.pos) = EOF THEN break(a)
                   ELSE IF peek(ts, a.pos) = Sep(";") THEN [a EXCEPT !.pos = @ + 1]
                   ELSE LET r == parseStatement(ts, a.pos)
                        IN  IF r.ok THEN added(a, r) ELSE break(a)
    IN  loop(ts, 1, <<>>, step)

\* Semicolons are skipped, and not needed.
parseStatements(ts) ==
    LET step(a) == IF peek(ts, a.pos) = EOF THEN break(a)
                   ELSE IF peek(ts, a.pos) = Sep(";") THEN [a EXCEPT !.pos = @ + 1]
                   ELSE added(a, parseStatement(ts, a.pos))
    IN  loop(ts, 1, <<>>, step)
=============================================================================
