------------------------------- MODULE Codec --------------------------------
(***************************************************************************)
(* Inputs for the encodings: one row of one schema, or one value, at a time *)
(* beside the index of IndexFile.                                           *)
(***************************************************************************)
EXTENDS IndexFile

CONSTANTS Schemas,     \* the schemas tried
          ValuesOf(_), \* the values tried in a column of a type
          LongKeys     \* the values tried in an index file

VARIABLE input         \* [schema, row], [value] or NoInput

NoInput == [none |-> TRUE]
cvars == <<use, idx, saving, tmp, file, saved, past, input>>

Rows(schema) ==
    {r \in [DOMAIN schema -> UNION {ValuesOf(schema[i].type) : i \in DOMAIN schema}] :
        \A i \in DOMAIN schema : r[i] \in ValuesOf(schema[i].type)}

Init == IndexInit /\ input = NoInput

TryRow == /\ ~idx.open /\ file = NoFile /\ tmp = NoFile /\ input = NoInput
          /\ \E s \in Schemas : \E r \in Rows(s) : input' = [schema |-> s, row |-> r]
          /\ UNCHANGED ivars
TryValue == /\ ~idx.open /\ file = NoFile /\ tmp = NoFile /\ input = NoInput
            /\ \E v \in LongKeys : input' = [value |-> v]
            /\ UNCHANGED ivars
Done == input # NoInput /\ input' = NoInput /\ UNCHANGED ivars

Next == \/ TryRow
        \/ TryValue
        \/ Done
        \/ input = NoInput /\ IndexNext /\ UNCHANGED input

Spec == Init /\ [][Next]_cvars

----------------------------------------------------------------------------
\* Properties

isRow == "row" \in DOMAIN input
schema_ == input.schema
texts == spilled(schema_, input.row)
pages == [k \in DOMAIN texts |-> 10 + k]
data == encodeWithOverflow(schema_, input.row, pages)
chains == [p \in ToSet(pages) |-> input.row[texts[p - 10]].strVal]

\* What Encode accepts, Decode gives back as the column stores it, whatever mix of
\* NULLs, fixed columns, inline strings and overflow chains (record.go:213, 305,
\* overflow.go:248); for values of the column's own kind that is the value itself.
\* What comes back can be stored again (record.go:278), and a record cut short
\* anywhere is refused (record.go:307, 356).
RoundTrip ==
    isRow /\ data # EncodeError =>
        LET back == decodeWithOverflow(schema_, data, chains)
        IN  /\ back = [i \in DOMAIN schema_ |-> Stored(schema_[i].type, input.row[i])]
            /\ \A i \in DOMAIN schema_ : input.row[i].kind = schema_[i].type => back[i] = input.row[i]
            /\ validateRow(schema_, back)
            /\ \A n \in 0..(Len(data) - 1) :
                  decodeWithOverflow(schema_, SubSeq(data, 1, n), chains) = DecodeError

size(S) == inlineSize(schema_, input.row, [i \in S |-> 0])
allTexts == {i \in DOMAIN schema_ : schema_[i].type = TypeTEXT /\ ~IsNull(input.row[i])}

\* A valid row is refused only if it does not fit a page with all its texts out of
\* line, a record never exceeds a page, a row that fits a page keeps its texts, and
\* nothing but a text leaves the record: "VARCHAR columns are always inline"
\* (overflow.go:181, 201-240).
SpillsToFit ==
    isRow /\ validateRow(schema_, input.row) =>
        /\ (data = EncodeError) = (size(allTexts) > MaxTupleSize)
        /\ data # EncodeError => Len(data) <= MaxTupleSize
        /\ texts # <<>> => size({}) > MaxTupleSize /\ ToSet(texts) \subseteq allTexts

\* "all non-null TEXT column values are moved" out of a row that does not fit
\* (overflow.go:179-181).  encodeWithOverflow stops as soon as the rest fits
\* (overflow.go:229-231).
MovesAllTexts ==
    isRow /\ validateRow(schema_, input.row) /\ size({}) > MaxTupleSize => ToSet(texts) = allTexts

\* An index entry is read back as it was written and takes exactly the cells it
\* took (index.go:395, 410), up to the longest string that 16 bits can count; and
\* CompareValues (index.go:36), on which the B-tree and the sort rely, orders keys
\* totally up to equality.
KeysExact ==
    "value" \in DOMAIN input =>
        LET a == input.value
            e == entry(a, 1)
            r == readEntries(writeEntry(e) \o writeEntry(e) \o <<0>>, 2)
        IN  /\ r.ok /\ r.tree = {e} /\ r.off = 2 * Len(writeEntry(e))
            /\ \A b, c \in LongKeys :
                  /\ CompareValues(a, b) = -CompareValues(b, a)
                  /\ CompareValues(a, b) <= 0 /\ CompareValues(b, c) <= 0 => CompareValues(a, c) <= 0
                  /\ CompareValues(a, b) = 0 /\ a.kind \notin {KindFloat, KindDouble} => a = b
=============================================================================
