------------------------------- MODULE Record -------------------------------
(***************************************************************************)
(* Schemas and the row encoding (storage/schema.go, storage/record.go and   *)
(* the encoding half of storage/overflow.go): a null bitmap, the fixed      *)
(* columns, a directory of 12 bytes per variable column, and the strings.   *)
(* A schema is a sequence of columns, a row a sequence of values, a record  *)
(* a sequence of bytes.  Indices start at 1, the code's at 0.               *)
(***************************************************************************)
EXTENDS Values, SequencesExt

CONSTANTS BitsPerByte,     \* 8 in the code
          MaxTupleSize     \* PageSize - HeaderSize - SlotSize

ASSUME BitsAssumption == Byte = 2 ^ BitsPerByte
ASSUME OffsetsFit == MaxTupleSize < W16

varDirEntrySize == 12
varDirInlineFlag == 0
varDirOverflowFlag == 1

FixedSize(t) == CASE t \in {KindInt, KindFloat} -> 4
                  [] t \in {KindBigInt, KindDouble, KindDatetime} -> 8
                  [] t = KindBoolean -> 1

varIndices(schema) ==
    SetToSortSeq({i \in DOMAIN schema : ~IsFixedLength(schema[i].type)}, <)

\* 0 when there is no such column.
ColumnIndex(schema, name) == SelectInSeq(schema, LAMBDA c : c.name = name)
HasColumn(schema, name) == ColumnIndex(schema, name) > 0

ValidSchema(columns) ==
    /\ columns # <<>>
    /\ \A i, j \in DOMAIN columns : columns[i].name = columns[j].name => i = j
    /\ \A i \in DOMAIN columns : /\ columns[i].name # ""
                                 /\ columns[i].type \in KindInt..KindText
                                 /\ columns[i].type = TypeVARCHAR => columns[i].maxLen > 0

----------------------------------------------------------------------------
\* The layout.  Offsets count bytes from 0.

nullBitmapSize(schema) == (Len(schema) + BitsPerByte - 1) \div BitsPerByte

\* The bytes of the fixed columns before column i.
fixedOffset(schema, i) ==
    MapThenSumSet(LAMBDA j : FixedSize(schema[j].type),
                  {j \in 1..(i - 1) : IsFixedLength(schema[j].type)})

varDirOffset(schema) == nullBitmapSize(schema) + fixedOffset(schema, Len(schema) + 1)
varDataOffset(schema) == varDirOffset(schema) + varDirEntrySize * Len(varIndices(schema))

----------------------------------------------------------------------------
\* Little-endian words

PutUint(n, size) == [k \in 1..size |-> (n \div Byte ^ (k - 1)) % Byte]

Uint(data, off, size) ==
    MapThenSumSet(LAMBDA k : data[off + k] * Byte ^ (k - 1), 1..size)

----------------------------------------------------------------------------
\* Encoding

\* The kind of a value is not compared with the type of its column.
validateRow(schema, row) ==
    /\ Len(row) = Len(schema)
    /\ \A i \in DOMAIN schema :
          IF IsNull(row[i]) THEN schema[i].nullable
          ELSE schema[i].type = TypeVARCHAR => Len(row[i].strVal) <= schema[i].maxLen

encodeFixed(v, t) ==
    IF t = KindBoolean THEN <<IF v.numeric # 0 THEN 1 ELSE 0>>
    ELSE PutUint(v.numeric, FixedSize(t))

nullBitmap(schema, row) ==
    [b \in 1..nullBitmapSize(schema) |->
        MapThenSumSet(LAMBDA i : 2 ^ ((i - 1) % BitsPerByte),
                      {i \in DOMAIN row : IsNull(row[i]) /\ (i - 1) \div BitsPerByte = b - 1})]

zeros(n) == [k \in 1..n |-> 0]

\* The string bytes stored in the record for column i: none for NULL and for a
\* column whose text is in an overflow chain.
inlineString(row, over, i) == IF i \in DOMAIN over \/ IsNull(row[i]) THEN <<>> ELSE row[i].strVal

inlineSize(schema, row, over) ==
    varDataOffset(schema)
    + MapThenSumSet(LAMBDA i : Len(inlineString(row, over, i)), ToSet(varIndices(schema)))

\* Mutant: every column's offset is where the data region starts.
dataOffset_Zero(row, over, vars, vi) == 0

\* The bytes of the inline strings before the vi-th variable column.
dataOffset(row, over, vars, vi) ==
    MapThenSumSet(LAMBDA j : Len(inlineString(row, over, vars[j])), 1..(vi - 1))

\* over: the first overflow page of each column that was moved out of line.
encodeGeneral(schema, row, over) ==
    LET vars == varIndices(schema)
        fixed(i) == IF ~IsFixedLength(schema[i].type) THEN <<>>
                    ELSE IF IsNull(row[i]) THEN zeros(FixedSize(schema[i].type))
                    ELSE encodeFixed(row[i], schema[i].type)
        dir(vi) == LET i == vars[vi]
                   IN  IF IsNull(row[i]) THEN zeros(varDirEntrySize)
                       ELSE IF i \in DOMAIN over
                            THEN PutUint(varDirOverflowFlag, 4) \o PutUint(over[i], 8)
                       ELSE PutUint(varDirInlineFlag, 4) \o PutUint(dataOffset(row, over, vars, vi), 2)
                            \o PutUint(Len(row[i].strVal), 2) \o zeros(4)
    IN  nullBitmap(schema, row)
        \o FlattenSeq([i \in DOMAIN schema |-> fixed(i)])
        \o FlattenSeq([vi \in DOMAIN vars |-> dir(vi)])
        \o FlattenSeq([vi \in DOMAIN vars |-> inlineString(row, over, vars[vi])])

\* An error is the record <<-1>>, which no row has.
EncodeError == <<-1>>

Encode(schema, row) ==
    IF validateRow(schema, row) /\ inlineSize(schema, row, <<>>) <= MaxTupleSize
    THEN encodeGeneral(schema, row, <<>>) ELSE EncodeError

\* Mutant: one text is spilled, whether that is enough or not.
spilled_One(schema, row) ==
    LET texts == SelectSeq(varIndices(schema),
                           LAMBDA i : schema[i].type = TypeTEXT /\ ~IsNull(row[i]))
    IN  IF inlineSize(schema, row, <<>>) <= MaxTupleSize \/ texts = <<>> THEN <<>>
        ELSE <<texts[1]>>

\* The TEXT columns that are spilled: from the first on, until the rest fits.
spilled(schema, row) ==
    LET texts == SelectSeq(varIndices(schema),
                           LAMBDA i : schema[i].type = TypeTEXT /\ ~IsNull(row[i]))
        fits(k) == inlineSize(schema, row, [i \in ToSet(SubSeq(texts, 1, k)) |-> 0]) <= MaxTupleSize
        ks == {k \in 0..Len(texts) : fits(k)}
    IN  SubSeq(texts, 1, IF ks = {} THEN Len(texts) ELSE Min(ks))

\* The k-th spilled column goes to the chain that starts at pages[k].
encodeWithOverflow(schema, row, pages) ==
    LET cols == spilled(schema, row)
        over == [i \in ToSet(cols) |-> pages[CHOOSE k \in DOMAIN cols : cols[k] = i]]
    IN  IF validateRow(schema, row) /\ inlineSize(schema, row, over) <= MaxTupleSize
        THEN encodeGeneral(schema, row, over) ELSE EncodeError

----------------------------------------------------------------------------
\* Decoding

DecodeError == <<>>
Corrupt == numericValue(-1, 0)

isNullBit(data, i) ==
    (data[(i - 1) \div BitsPerByte + 1] \div 2 ^ ((i - 1) % BitsPerByte)) % 2 = 1

decodeFixed(data, off, t) == Stored(t, numericValue(t, Uint(data, off, FixedSize(t))))

outOfBounds(off, len, size) == off + len > size

slice(data, from, to) == SubSeq(data, from + 1, Min({to, Len(data)}))

\* A variable column; chains[p] is the text in the chain that starts at page p,
\* and DecodeColumn and Decode know of none.
decodeVar(schema, data, i, chains) ==
    LET vi   == SelectInSeq(varIndices(schema), LAMBDA c : c = i)
        dir  == varDirOffset(schema) + (vi - 1) * varDirEntrySize
        off  == Uint(data, dir + 4, 2)
        len  == Uint(data, dir + 6, 2)
        base == varDataOffset(schema)
    IN  CASE Uint(data, dir, 4) = varDirOverflowFlag ->
               LET p == Uint(data, dir + 4, 8)
               IN  IF p \in DOMAIN chains THEN stringValue(TypeTEXT, chains[p]) ELSE Corrupt
          [] Uint(data, dir, 4) # varDirOverflowFlag /\ outOfBounds(off, len, Len(data) - base) -> Corrupt
          [] OTHER -> stringValue(schema[i].type, slice(data, base + off, base + off + len))

columnOf(schema, data, i, chains) ==
    IF Len(data) < varDataOffset(schema) THEN Corrupt
    ELSE IF isNullBit(data, i) THEN NewNullValue
    ELSE IF IsFixedLength(schema[i].type)
         THEN decodeFixed(data, nullBitmapSize(schema) + fixedOffset(schema, i), schema[i].type)
    ELSE decodeVar(schema, data, i, chains)

DecodeColumn(schema, data, i) == columnOf(schema, data, i, <<>>)

\* The whole row, or an error as soon as one column is corrupt.
decodeWithOverflow(schema, data, chains) ==
    LET row == [i \in DOMAIN schema |-> columnOf(schema, data, i, chains)]
    IN  IF Corrupt \in Range(row) THEN DecodeError ELSE row

Decode(schema, data) == decodeWithOverflow(schema, data, <<>>)
=============================================================================
