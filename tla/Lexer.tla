------------------------------- MODULE Lexer --------------------------------
(***************************************************************************)
(* From characters to tokens (lexer/lexer.go).  Characters are strings of   *)
(* length one, letters of one case.                                         *)
(***************************************************************************)
EXTENDS SequencesExt, Integers

CONSTANTS keywords     \* the words that are keywords, as sequences of characters

operators == {<<"=">>, <<"!", "=">>, <<"<">>, <<">">>, <<"<", "=">>, <<">", "=">>}
separators == {",", ";", "(", ")", "*"}
isWhitespace(ch) == ch \in {" ", "\t", "\n", "\r"}
isNumeric(w) == ToSet(w) \subseteq {"0", "1", "2", "3", "4", "5", "6", "7", "8", "9", "."}

token(t, v) == [t |-> t, v |-> v]

createToken(w) == token(IF w \in keywords THEN "keyword" ELSE IF isNumeric(w) THEN "number" ELSE "identifier", w)

\* Mutant: operators of one character only.
operatorAt_Short(s, i) == IF <<s[i]>> \in operators THEN <<s[i]>> ELSE <<>>

\* The operator that starts at i, the longer one first.
operatorAt(s, i) ==
    CASE i < Len(s) /\ SubSeq(s, i, i + 1) \in operators -> SubSeq(s, i, i + 1)
      [] OTHER -> IF <<s[i]>> \in operators THEN <<s[i]>> ELSE <<>>

\* The characters one by one: the tokens so far, the word or string being read,
\* its quote, and whether the next character is the second of an operator.
Tokenize(s) ==
    LET flushed(a) == IF a.cur = <<>> THEN a.toks ELSE Append(a.toks, createToken(a.cur))
        end(a, toks) == [a EXCEPT !.toks = toks, !.cur = <<>>]
        step(a, i) ==
            IF a.skip THEN [a EXCEPT !.skip = FALSE]
            ELSE IF a.quote = s[i] THEN [end(a, Append(a.toks, token("string", a.cur))) EXCEPT !.quote = ""]
            ELSE IF a.quote # "" THEN [a EXCEPT !.cur = Append(@, s[i])]
            ELSE IF isWhitespace(s[i]) THEN end(a, flushed(a))
            ELSE IF s[i] \in separators THEN end(a, Append(flushed(a), token("separator", <<s[i]>>)))
            ELSE IF operatorAt(s, i) # <<>>
                 THEN [end(a, Append(flushed(a), token("operator", operatorAt(s, i))))
                          EXCEPT !.skip = Len(operatorAt(s, i)) = 2]
            ELSE IF s[i] \in {"'", "\""} THEN [end(a, flushed(a)) EXCEPT !.quote = s[i]]
            ELSE [a EXCEPT !.cur = Append(@, s[i])]
        last == FoldLeftDomain(step, [toks |-> <<>>, cur |-> <<>>, quote |-> "", skip |-> FALSE], s)
    IN  IF last.quote # "" THEN Append(last.toks, token("string", last.cur)) ELSE flushed(last)
=============================================================================
