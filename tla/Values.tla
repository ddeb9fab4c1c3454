------------------------------- MODULE Values -------------------------------
(***************************************************************************)
(* storage.Value (storage/record.go), its order (CompareValues,            *)
(* storage/index.go) and the conversions the query engine makes between     *)
(* numeric kinds (query/evaluator.go).                                      *)
(*                                                                         *)
(* A byte has Byte values (256 in the code, 8 in the models), so that       *)
(* 16-bit lengths, 32-bit integers and 64-bit integers wrap early.  A value *)
(* keeps both fields of the Go struct: numeric, a 64-bit word, and strVal,  *)
(* a string as its bytes.  A float is its bit pattern; the patterns of one  *)
(* sign are in the order of the numbers, and a pattern is Unit times the    *)
(* number it stands for.  NaN, infinities and rounding are left out.        *)
(***************************************************************************)
EXTENDS Integers, Sequences

CONSTANT Byte   \* the number of values of a byte

ASSUME ByteAssumption == Byte \in Nat /\ Byte >= 2

W16 == Byte ^ 2
W32 == Byte ^ 4
W64 == Byte ^ 8

KindNull == 0
KindInt == 1
KindBigInt == 2
KindFloat == 3
KindDouble == 4
KindBoolean == 5
KindDatetime == 6
KindVarchar == 7
KindText == 8

\* DataType has the numbers of the kinds: a column of type t holds values of kind t.
TypeVARCHAR == KindVarchar
TypeTEXT == KindText
IsFixedLength(t) == t \in KindInt..KindDatetime

numericValue(k, n) == [kind |-> k, numeric |-> n, strVal |-> <<>>]
stringValue(k, s) == [kind |-> k, numeric |-> 0, strVal |-> s]

NewNullValue == numericValue(KindNull, 0)
NewIntValue(i) == numericValue(KindInt, i % W32)
NewBigIntValue(i) == numericValue(KindBigInt, i % W64)
NewBooleanValue(b) == numericValue(KindBoolean, IF b THEN 1 ELSE 0)
NewVarcharValue(s) == stringValue(KindVarchar, s)

NoBound == numericValue(-1, 0)   \* a nil *Value

IsNull(v) == v.kind = KindNull
AsBoolean(v) == v.numeric # 0

----------------------------------------------------------------------------
\* Numbers

signed(n, w) == IF n < w \div 2 THEN n ELSE n - w

\* The units of a float of width w in 1.0, its pattern for the number n/1 units,
\* and back.
Unit(w) == IF w = W32 THEN Byte ELSE Byte ^ 3
pattern(n, w) == IF n < 0 THEN (w \div 2) - n ELSE n
units(p, w) == IF p < w \div 2 THEN p ELSE (w \div 2) - p

wordOf(k) == IF k \in {KindInt, KindFloat} THEN W32 ELSE W64

\* The number a fixed-width value stands for, in units of its kind.
number(v) ==
    CASE v.kind \in {KindInt, KindBigInt, KindDatetime} -> signed(v.numeric, wordOf(v.kind))
      [] v.kind \in {KindFloat, KindDouble} -> units(v.numeric, wordOf(v.kind))
      [] v.kind = KindBoolean -> IF AsBoolean(v) THEN 1 ELSE 0

----------------------------------------------------------------------------
\* The order

cmpInt(x, y) == IF x < y THEN -1 ELSE IF x > y THEN 1 ELSE 0

\* Byte by byte; a proper prefix is smaller.
lessString(s, t) ==
    \/ \E i \in DOMAIN s \cap DOMAIN t :
          s[i] < t[i] /\ \A j \in 1..(i - 1) : s[j] = t[j]
    \/ Len(s) < Len(t) /\ \A j \in DOMAIN s : s[j] = t[j]
cmpString(s, t) == IF lessString(s, t) THEN -1 ELSE IF lessString(t, s) THEN 1 ELSE 0

\* NULL (kind 0) comes first, then the kinds by number, then the values.
CompareValues(a, b) ==
    IF IsNull(a) \/ IsNull(b) \/ a.kind # b.kind THEN cmpInt(a.kind, b.kind)
    ELSE IF IsFixedLength(a.kind) THEN cmpInt(number(a), number(b))
    ELSE cmpString(a.strVal, b.strVal)

----------------------------------------------------------------------------
\* Conversions

\* What a column of type t gives back for the value v it was given: the word or
\* the string is kept, cut to the column's width, and read as the column's kind,
\* whatever the kind of v (validateRow does not look at it).
Stored(t, v) ==
    CASE IsNull(v) -> v
      [] ~IsNull(v) /\ t = KindBoolean -> NewBooleanValue(AsBoolean(v))
      [] ~IsNull(v) /\ IsFixedLength(t) /\ t # KindBoolean -> numericValue(t, v.numeric % wordOf(t))
      [] ~IsNull(v) /\ ~IsFixedLength(t) -> stringValue(t, v.strVal)

numericRank(k) == IF k \in KindInt..KindDouble THEN k - 1 ELSE -1

\* A float widened to a double has its units scaled; an integer becomes that
\* many units of the target.
promoteNumeric(v, target) ==
    CASE target = KindBigInt /\ v.kind = KindInt -> NewBigIntValue(number(v))
      [] target \in {KindFloat, KindDouble} /\ v.kind \in {KindInt, KindBigInt} ->
           numericValue(target, pattern(number(v) * Unit(wordOf(target)), wordOf(target)))
      [] target = KindDouble /\ v.kind = KindFloat ->
           numericValue(target, pattern(number(v) * (Unit(W64) \div Unit(W32)), W64))
      [] OTHER -> v
=============================================================================
