------------------------------- MODULE Script -------------------------------
(***************************************************************************)
(* How statements are written, as tokens and as characters: the references  *)
(* that the properties of Query hold Parser and Lexer against.  Nothing     *)
(* here is translated from the code.                                        *)
(***************************************************************************)
EXTENDS Parser

commas(seqs) == FoldLeftDomain(LAMBDA acc, i : acc \o (IF i = 1 THEN <<>> ELSE <<Sep(",")>>) \o seqs[i], <<>>, seqs)
commaMap(f(_), seq) == commas([i \in DOMAIN seq |-> f(seq[i])])

numeral(lit) == CHOOSE n \in DOMAIN Numerals : Numerals[n] = lit

\* An expression without parentheses: AND and OR group from the left.
RECURSIVE exprText(_)
exprText(e) == CASE IsColumnRef(e) -> <<Id(e.col)>>
                 [] "str" \in DOMAIN e -> <<Str(e.str)>>
                 [] IsComparison(e) -> exprText(e.left) \o <<Op(e.cmp)>> \o exprText(e.right)
                 [] IsLogical(e) -> exprText(e.left) \o <<Kw(e.logic)>> \o exprText(e.right)
                 [] OTHER -> <<Num(numeral(e))>>

clause(words, given, body) == IF given THEN [i \in DOMAIN words |-> Kw(words[i])] \o body ELSE <<>>
whereText(e) == clause(<<"WHERE">>, e # NoExpr, IF e = NoExpr THEN <<>> ELSE exprText(e))
limitText(l) == clause(<<"LIMIT">>, l # NoLimit, IF l = NoLimit THEN <<>> ELSE <<Num(numeral(LiteralInt(l)))>>)

itemText(it) == CASE "all" \in DOMAIN it -> <<Sep("*")>>
                  [] "column" \in DOMAIN it -> <<Id(it.column)>>
                  [] OTHER -> <<Kw(it.agg), Sep("("), IF it.arg = "*" THEN Sep("*") ELSE Id(it.arg), Sep(")")>>

orderText(k) == <<Id(k.column), Kw(k.direction)>>
setText(a) == <<Id(a.column), Op("=")>> \o exprText(a.value)

columnText(c) ==
    IF c.type = "VARCHAR"
    THEN <<Id(c.name), Id("VARCHAR"), Sep("("), Num(numeral(LiteralInt(c.maxLen))), Sep(")")>>
         \o (IF c.nullable THEN <<Id("?")>> ELSE <<>>)
    ELSE <<Id(c.name), Id(IF c.nullable THEN marked(c.type) ELSE c.type)>>

statementText(s) ==
    CASE s.stmt = "select" ->
            <<Kw("SELECT")>> \o clause(<<"DISTINCT">>, s.distinct, <<>>) \o commaMap(itemText, s.items)
            \o <<Kw("FROM"), Id(s.table)>> \o whereText(s.where)
            \o clause(<<"GROUP", "BY">>, s.groupBy # <<>>, commaMap(LAMBDA g : <<Id(g)>>, s.groupBy))
            \o clause(<<"ORDER", "BY">>, s.orderBy # <<>>, commaMap(orderText, s.orderBy)) \o limitText(s.limit)
      [] s.stmt = "insert" ->
            <<Kw("INSERT"), Kw("INTO"), Id(s.table), Kw("VALUES"), Sep("(")>> \o commaMap(exprText, s.values)
            \o <<Sep(")")>>
      [] s.stmt = "update" ->
            <<Kw("UPDATE"), Id(s.table), Kw("SET")>> \o commaMap(setText, s.set)
            \o whereText(s.where) \o limitText(s.limit)
      [] s.stmt = "delete" -> <<Kw("DELETE"), Kw("FROM"), Id(s.table)>> \o whereText(s.where) \o limitText(s.limit)
      [] s.stmt = "createTable" ->
            <<Kw("CREATE"), Kw("TABLE"), Id(s.table), Sep("(")>> \o commaMap(columnText, s.columns) \o <<Sep(")")>>
      [] s.stmt = "createIndex" ->
            <<Kw("CREATE")>> \o clause(<<"UNIQUE">>, s.unique, <<>>)
            \o <<Kw("INDEX"), Kw("ON"), Id(s.table), Sep("("), Id(s.column), Sep(")")>>
      [] s.stmt = "createDatabase" -> <<Kw("CREATE"), Kw("DATABASE"), Id(s.name)>>
      [] s.stmt = "dropTable" -> <<Kw("DROP"), Kw("TABLE"), Id(s.name)>>
      [] s.stmt = "dropDatabase" -> <<Kw("DROP"), Kw("DATABASE"), Id(s.name)>>
      [] s.stmt = "renameDatabase" -> <<Kw("RENAME"), Kw("DATABASE"), Id(s.name), Kw("TO"), Id(s.to)>>
      [] s.stmt = "use" -> <<Kw("USE"), Kw("DATABASE"), Id(s.name)>>
      [] s.stmt = "show" -> <<Kw("SHOW"), Id(s.name)>>

scriptText(stmts, semis) ==
    FlattenSeq([i \in DOMAIN stmts |-> statementText(stmts[i]) \o (IF semis THEN <<Sep(";")>> ELSE <<>>)])

\* What a text says: its tokens' texts without the optional ones.
essence(ts) == SelectSeq([i \in DOMAIN ts |-> ts[i].v], LAMBDA v : v \notin {";", ",", "ASC", "DATABASE"})

hasColumnList(ts) == \E i \in DOMAIN ts : ts[i] = Kw("INTO") /\ peek(ts, i + 2) = Sep("(")

\* A space is needed between two words, and where two operators would read as one.
needsSpace(l, r) ==
    LET word(t) == t.t \in {"keyword", "identifier", "number"}
    IN  \/ word(l) /\ word(r)
        \/ l.t = "operator" /\ r.t = "operator" /\ (l.v \o SubSeq(r.v, 1, 1)) \in operators

lexemeText(t) == IF t.t = "string" THEN <<"'">> \o t.v \o <<"'">> ELSE t.v

\* The lexemes with a space after those in gaps, and wherever one is needed.
written(lexemes, gaps) ==
    FlattenSeq([i \in DOMAIN lexemes |->
        lexemeText(lexemes[i])
        \o (IF i \in gaps \/ (i < Len(lexemes) /\ needsSpace(lexemes[i], lexemes[i + 1])) THEN <<" ">> ELSE <<>>)])
=============================================================================
