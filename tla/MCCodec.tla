------------------------------ MODULE MCCodec -------------------------------
(* The constants of the Codec run. *)
EXTENDS Codec

column(name, t, null) == [name |-> name, type |-> t, maxLen |-> 2, nullable |-> null]

MCSchemas == {
    <<column("a", KindInt, TRUE)>>,
    <<column("a", KindVarchar, FALSE), column("b", KindText, TRUE)>>,
    <<column("a", KindVarchar, TRUE), column("b", KindText, TRUE), column("c", KindVarchar, FALSE)>>,
    <<column("a", KindText, TRUE), column("b", KindBoolean, TRUE), column("c", KindText, TRUE)>>,
    <<column("a", KindInt, TRUE), column("b", KindVarchar, TRUE),
      column("c", KindDouble, FALSE), column("d", KindBoolean, TRUE)>>,
    <<column("a", KindFloat, TRUE), column("b", KindBigInt, TRUE),
      column("c", KindDatetime, TRUE), column("d", KindText, TRUE)>> }

chars(n) == [k \in 1..n |-> k % Byte]

MCValuesOf(t) ==
    {NewNullValue}
    \cup (CASE t \in {KindInt, KindBigInt} -> {NewIntValue(-1), numericValue(t, 5), NewBigIntValue(-2)}
            [] t = KindBoolean -> {NewBooleanValue(FALSE), NewBooleanValue(TRUE), NewIntValue(W16)}
            [] t \in {KindFloat, KindDouble, KindDatetime} -> {numericValue(t, W32 - 1), NewIntValue(3)}
            [] t = KindVarchar -> {stringValue(t, s) : s \in {<<>>, <<1>>, <<7, 0>>, <<1, 2, 3>>}}
            [] t = KindText -> {stringValue(t, s) : s \in {<<>>, <<1, 2, 3>>, chars(9), chars(13)}}
                               \cup {NewIntValue(3)})

MCKeys == {NewNullValue, NewIntValue(-1), NewIntValue(2), NewVarcharValue(<<1>>)}

\* Searches in larger trees, none of which is saved; and small ones that are saved
\* again and again.
Searches == [keys |-> MCKeys, maxEntries |-> 3, maxPast |-> 0]
Saves == [keys |-> {NewIntValue(-1), NewVarcharValue(<<1>>)}, maxEntries |-> 2, maxPast |-> 2]
MCUses == {Searches, Saves}

MCLongKeys ==
    MCKeys \cup {numericValue(k, n) : k \in {KindFloat, KindDouble}, n \in {0, 1, W32 \div 2, W32 \div 2 + 1}}
    \cup {NewBigIntValue(i) : i \in {-1, 1}}
    \cup {numericValue(KindDatetime, 3), NewBooleanValue(TRUE), NewBooleanValue(FALSE)}
    \cup {stringValue(KindText, s) : s \in {<<>>, <<0>>, <<0, 0>>, <<0, 1>>, <<1>>, [k \in 1..(W16 - 1) |-> 1]}}

\* A text whose length 16 bits cannot count (README).
TooLong == {stringValue(KindText, [k \in 1..W16 |-> 1])}
=============================================================================
