----------------------------- MODULE PageProofs -----------------------------
(***************************************************************************)
(* Proofs about the slotted page, for every page size, every set of bytes  *)
(* and every set of tuples.                                                *)
(*                                                                         *)
(* NoOverlap is not inductive: Compact slides tuples towards the end of    *)
(* the page one at a time and would run over a tuple it has not reached if *)
(* the slots were not stored in descending order of offset.  That order is *)
(* an invariant of the page (Descending), and together with the position   *)
(* of the write cursor between moved and unmoved tuples (Cursor) it makes  *)
(* the invariant inductive.                                                *)
(***************************************************************************)
EXTENDS Page, SequenceTheorems, TLAPS

\* The slot array ends where the free space starts.
Layout ==
    /\ hdr.FreeSpaceOffset = HeaderSize + hdr.NumSlots * SlotSize
    /\ hdr.FreeSpaceOffset <= hdr.FreeSpaceEnd
    /\ hdr.FreeSpaceEnd <= PageSize

\* A live tuple is not empty and lies in the tuple region.
Placed ==
    \A s \in Live :
        /\ slots[s].Length >= 1
        /\ hdr.FreeSpaceEnd <= slots[s].Offset
        /\ slots[s].Offset + slots[s].Length <= PageSize

\* A tuple inserted later lies below every tuple inserted earlier.
Descending ==
    \A s, t \in Live : s < t => slots[t].Offset + slots[t].Length <= slots[s].Offset

\* Compact has packed the live tuples before slot i at the end of the page,
\* down to writeCursor, and the others still lie below it.
Cursor ==
    pc = "compact" =>
        /\ hdr.FreeSpaceEnd <= writeCursor
        /\ \A s \in Live : s < i => writeCursor <= slots[s].Offset
        /\ \A s \in Live : s >= i => slots[s].Offset + slots[s].Length <= writeCursor
        /\ \A k \in writeCursor .. PageSize - 1 :
              \E s \in Live : /\ s < i
                              /\ slots[s].Offset <= k
                              /\ k < slots[s].Offset + slots[s].Length

\* A live slot reads as a tuple some caller inserted.
Stored == \A s \in Live : tupleAt(raw, slots[s]) \in Data

Inv ==
    /\ TypeOK
    /\ Layout
    /\ Placed
    /\ Descending
    /\ Cursor
    /\ InSync
    /\ Stored

-----------------------------------------------------------------------------
(***************************************************************************)
(* Facts about reading and writing tuples.                                 *)
(***************************************************************************)
\* A tuple of a page is a sequence of as many cells as its slot entry says.
LEMMA TupleLen ==
    ASSUME NEW r \in [0 .. PageSize - 1 -> Cell], NEW e \in SlotEntry,
           e.Offset + e.Length <= PageSize
    PROVE  /\ tupleAt(r, e) \in Seq(Cell)
           /\ Len(tupleAt(r, e)) = e.Length
           /\ \A k \in 1 .. e.Length : tupleAt(r, e)[k] = r[e.Offset + k - 1]
  <1>1. e.Offset \in Nat /\ e.Length \in Nat
    BY DEF SlotEntry
  <1>2. \A k \in 1 .. e.Length : r[e.Offset + k - 1] \in Cell
    BY <1>1, PageAssumption, SMTT(30)
  <1>3. tupleAt(r, e) \in [1 .. e.Length -> Cell]
    BY <1>1, <1>2 DEF tupleAt
  <1>4. \A k \in 1 .. e.Length : tupleAt(r, e)[k] = r[e.Offset + k - 1]
    BY DEF tupleAt
  <1>5. tupleAt(r, e) \in Seq(Cell) /\ Len(tupleAt(r, e)) = e.Length
    <2>1. tupleAt(r, e) \in Seq(Cell)
      BY <1>1, <1>3, SeqDef
    <2>2. DOMAIN tupleAt(r, e) = 1 .. e.Length
      BY <1>3
    <2>3. /\ DOMAIN tupleAt(r, e) = 1 .. Len(tupleAt(r, e))
          /\ Len(tupleAt(r, e)) \in Nat
      BY <2>1, LenProperties
    <2> QED BY <1>1, <2>1, <2>2, <2>3
  <1> QED BY <1>4, <1>5

\* A write that leaves a tuple's bytes alone leaves the tuple alone.
LEMMA TupleFrame ==
    ASSUME NEW r, NEW q, NEW e \in SlotEntry,
           \A k \in Int : e.Offset <= k /\ k < e.Offset + e.Length => r[k] = q[k]
    PROVE  tupleAt(r, e) = tupleAt(q, e)
  <1>1. e.Offset \in Nat /\ e.Length \in Nat
    BY DEF SlotEntry
  <1>2. \A k \in 1 .. e.Length : r[e.Offset + k - 1] = q[e.Offset + k - 1]
    BY <1>1
  <1> QED BY <1>2 DEF tupleAt

\* A tuple copied to a page is read back from where it was copied.
LEMMA TupleWritten ==
    ASSUME NEW r, NEW e \in SlotEntry, NEW data \in Seq(Cell), Len(data) = e.Length,
           \A k \in Int : e.Offset <= k /\ k < e.Offset + e.Length
                            => r[k] = data[k - e.Offset + 1]
    PROVE  tupleAt(r, e) = data
  <1>1. e.Offset \in Nat /\ e.Length \in Nat
    BY DEF SlotEntry
  <1>2. \A k \in 1 .. e.Length : r[e.Offset + k - 1] = data[k]
    <2> TAKE k \in 1 .. e.Length
    <2>1. /\ e.Offset + k - 1 \in Int
          /\ e.Offset <= e.Offset + k - 1
          /\ e.Offset + k - 1 < e.Offset + e.Length
          /\ (e.Offset + k - 1) - e.Offset + 1 = k
      BY <1>1, SMTT(30)
    <2> QED BY <2>1
  <1>3. data = [k \in 1 .. e.Length |-> data[k]]
    OBVIOUS
  <1> QED BY <1>2, <1>3 DEF tupleAt

-----------------------------------------------------------------------------
(***************************************************************************)
(* Inv is inductive.  Each action's lemma also says what it does to the    *)
(* tuples, which the refinement needs.                                     *)
(***************************************************************************)
\* NewPage establishes the invariant.
LEMMA InitInv == Init => Inv
  <1> SUFFICES ASSUME Init PROVE Inv
    OBVIOUS
  <1> USE PageAssumption, DataAssumption DEF Init, NewPage, EmptyHeader, HeaderSize, SlotSize
  <1>1. hdr \in Header /\ hdr.NumSlots = 0 /\ hdr.FreeSpaceOffset = HeaderSize /\ hdr.FreeSpaceEnd = PageSize
    BY DEF Header
  <1>2. SlotIDs = {} /\ Live = {}
    BY <1>1 DEF SlotIDs, Live
  <1>3. raw \in [0 .. PageSize - 1 -> Cell]
    BY <1>1 DEF marshalHeader, Cell
  <1>4. slots \in [SlotIDs -> SlotEntry]
    BY <1>2
  <1>5. \A k \in 0 .. HeaderSize - 1 : raw[k] = hdr
    BY DEF marshalHeader
  <1>6. TypeOK
    <2>1. i = 0 /\ pc = "idle" /\ writeCursor = PageSize
      OBVIOUS
    <2>2. i \in 0 .. hdr.NumSlots /\ writeCursor \in 0 .. PageSize
      BY <1>1, <2>1
    <2> QED BY ONLY <1>1, <1>3, <1>4, <2>1, <2>2 DEF TypeOK
  <1>7. InSync
    BY <1>2, <1>5 DEF InSync
  <1> QED BY <1>1, <1>2, <1>6, <1>7 DEF Inv, Layout, Placed, Descending, Cursor, Stored

\* What the other lemmas use of Inv, with the types spelled out.
LEMMA InvFacts ==
    ASSUME Inv
    PROVE  /\ hdr \in Header
           /\ hdr.NumSlots \in Nat /\ hdr.FreeSpaceEnd \in Nat
           /\ hdr.FreeSpaceOffset = 19 + hdr.NumSlots * 4
           /\ hdr.FreeSpaceOffset <= hdr.FreeSpaceEnd /\ hdr.FreeSpaceEnd <= PageSize
           /\ SlotIDs = 0 .. hdr.NumSlots - 1
           /\ slots \in [0 .. hdr.NumSlots - 1 -> SlotEntry]
           /\ raw \in [0 .. PageSize - 1 -> Cell]
           /\ i \in 0 .. hdr.NumSlots
           /\ writeCursor \in 0 .. PageSize
           /\ \A s \in Live : /\ s \in 0 .. hdr.NumSlots - 1
                              /\ slots[s] \in SlotEntry
                              /\ slots[s].Offset \in Nat /\ slots[s].Length \in Nat
                              /\ slots[s].Length >= 1
                              /\ hdr.FreeSpaceEnd <= slots[s].Offset
                              /\ slots[s].Offset + slots[s].Length <= PageSize
  <1>1. TypeOK /\ Layout /\ Placed
    BY DEF Inv
  <1>2. hdr \in Header /\ hdr.NumSlots \in Nat /\ hdr.FreeSpaceEnd \in Nat
    BY <1>1 DEF TypeOK, Header
  <1>3. /\ hdr.FreeSpaceOffset = 19 + hdr.NumSlots * 4
        /\ hdr.FreeSpaceOffset <= hdr.FreeSpaceEnd /\ hdr.FreeSpaceEnd <= PageSize
    BY <1>1 DEF Layout, HeaderSize, SlotSize
  <1>4. SlotIDs = 0 .. hdr.NumSlots - 1
    BY DEF SlotIDs
  <1>5. /\ slots \in [0 .. hdr.NumSlots - 1 -> SlotEntry]
        /\ raw \in [0 .. PageSize - 1 -> Cell]
        /\ i \in 0 .. hdr.NumSlots
        /\ writeCursor \in 0 .. PageSize
    BY <1>1, <1>4 DEF TypeOK
  <1>6. ASSUME NEW s \in Live
        PROVE  /\ s \in 0 .. hdr.NumSlots - 1
               /\ slots[s] \in SlotEntry
               /\ slots[s].Offset \in Nat /\ slots[s].Length \in Nat
               /\ slots[s].Length >= 1
               /\ hdr.FreeSpaceEnd <= slots[s].Offset
               /\ slots[s].Offset + slots[s].Length <= PageSize
    <2>1. s \in 0 .. hdr.NumSlots - 1
      BY <1>4 DEF Live
    <2>2. slots[s] \in SlotEntry
      BY <2>1, <1>5
    <2>3. slots[s].Offset \in Nat /\ slots[s].Length \in Nat
      BY <2>2 DEF SlotEntry
    <2> QED BY <1>1, <2>1, <2>2, <2>3 DEF Placed
  <1> QED BY <1>2, <1>3, <1>4, <1>5, <1>6

\* InsertTuple preserves the invariant.
LEMMA InsertInv ==
    ASSUME Inv, NEW data \in Data, InsertTuple(data)
    PROVE  /\ Inv'
           /\ hdr'.NumSlots = hdr.NumSlots + 1
           /\ Live' = Live \cup {hdr.NumSlots}
           /\ \A s \in Live : tupleAt(raw', slots'[s]) = tupleAt(raw, slots[s])
           /\ tupleAt(raw', slots'[hdr.NumSlots]) = data
  <1> DEFINE n == hdr.NumSlots
             end == hdr.FreeSpaceEnd
             len == Len(data)
             newEnd == end - len
             entry == [Offset |-> newEnd, Length |-> len]
             newHdr == [NumSlots |-> n + 1, FreeSpaceOffset |-> hdr.FreeSpaceOffset + 4,
                        FreeSpaceEnd |-> newEnd]
  <1>0. /\ n \in Nat /\ end \in Nat /\ hdr.FreeSpaceOffset = 19 + n * 4
        /\ 19 + n * 4 <= end /\ end <= PageSize
        /\ SlotIDs = 0 .. n - 1
        /\ slots \in [0 .. n - 1 -> SlotEntry]
        /\ raw \in [0 .. PageSize - 1 -> Cell]
        /\ i \in 0 .. n /\ writeCursor \in 0 .. PageSize
        /\ PageSize \in Nat /\ 23 < PageSize /\ PageSize < 65535
    BY InvFacts, PageAssumption DEF HeaderSize, SlotSize, DeletedOffset
  <1>1. /\ pc = "idle" /\ len # 0
        /\ end - hdr.FreeSpaceOffset >= 4 + len
        /\ slots' = [s \in 0 .. n |-> IF s = n THEN entry ELSE slots[s]]
        /\ hdr' = newHdr
        /\ raw' = marshalHeader(marshalSlot(copyTuple(raw, newEnd, data), n, entry), newHdr)
        /\ pc' = pc /\ i' = i /\ writeCursor' = writeCursor
    BY DEF InsertTuple, FreeSpace, SlotSize
  <1>2. /\ data \in Seq(Cell) /\ len \in Nat
        /\ \A k \in 1 .. len : data[k] \in Cell
    <2>1. data \in Seq(Byte)
      BY DataAssumption
    <2>2. data \in Seq(Cell)
      BY <2>1, SeqMonotonic DEF Cell
    <2> QED BY <2>2, LenProperties, ElementOfSeq
  <1>L. \A s \in Live : /\ s \in 0 .. n - 1 /\ slots[s] \in SlotEntry
                        /\ slots[s].Offset \in Nat /\ slots[s].Length \in Nat
                        /\ slots[s].Length >= 1 /\ end <= slots[s].Offset
                        /\ slots[s].Offset + slots[s].Length <= PageSize
    BY InvFacts
  <1> HIDE DEF n, end, len
  <1>3. len >= 1 /\ 19 + n * 4 + 4 <= newEnd /\ newEnd \in Nat /\ newEnd < PageSize
        /\ newEnd + len = end
    BY <1>0, <1>1, <1>2
  <1>4. /\ entry \in SlotEntry /\ ~ isDeleted(entry)
        /\ entry.Offset = newEnd /\ entry.Length = len
    BY <1>0, <1>2, <1>3 DEF SlotEntry, isDeleted, DeletedOffset
  <1>5. /\ newHdr \in Header
        /\ newHdr.NumSlots = n + 1 /\ newHdr.FreeSpaceEnd = newEnd
        /\ newHdr.FreeSpaceOffset = 19 + (n + 1) * 4
    BY <1>0, <1>3 DEF Header
  <1> HIDE DEF newEnd, entry, newHdr
  <1>6. /\ SlotIDs' = 0 .. n
        /\ slots' \in [0 .. n -> SlotEntry]
        /\ slots'[n] = entry
        /\ \A s \in 0 .. n - 1 : slots'[s] = slots[s]
    <2>1. n \in Nat /\ slots \in [0 .. n - 1 -> SlotEntry]
      BY <1>0
    <2>2. SlotIDs' = 0 .. n
      BY <1>1, <1>5, <2>1 DEF SlotIDs
    <2> QED BY <1>1, <1>4, <2>1, <2>2
  <1>7. /\ raw' \in [0 .. PageSize - 1 -> Cell]
        /\ \A k \in 0 .. PageSize - 1 : raw'[k] =
                IF k < 19 THEN newHdr
                ELSE IF slotPos(n) <= k /\ k < slotPos(n) + 4 THEN entry
                ELSE IF newEnd <= k /\ k < newEnd + len THEN data[k - newEnd + 1]
                ELSE raw[k]
    <2> DEFINE r1 == copyTuple(raw, newEnd, data)
               r2 == marshalSlot(r1, n, entry)
    <2>0. raw \in [0 .. PageSize - 1 -> Cell]
      BY <1>0
    <2>1. /\ r1 \in [0 .. PageSize - 1 -> Cell]
          /\ \A k \in 0 .. PageSize - 1 :
                r1[k] = IF newEnd <= k /\ k < newEnd + len THEN data[k - newEnd + 1]
                        ELSE raw[k]
      <3>1. \A k \in 0 .. PageSize - 1 :
                newEnd <= k /\ k < newEnd + len => data[k - newEnd + 1] \in Cell
        BY <1>2, <1>3
      <3> QED BY <2>0, <3>1 DEF copyTuple, len
    <2> HIDE DEF r1
    <2>2. /\ r2 \in [0 .. PageSize - 1 -> Cell]
          /\ \A k \in 0 .. PageSize - 1 :
                r2[k] = IF slotPos(n) <= k /\ k < slotPos(n) + 4 THEN entry ELSE r1[k]
      BY <2>1, <1>4 DEF marshalSlot, Cell, SlotSize
    <2>3. raw' = marshalHeader(r2, newHdr)
      BY <1>1 DEF r1
    <2> HIDE DEF r2
    <2>4. /\ raw' \in [0 .. PageSize - 1 -> Cell]
          /\ \A k \in 0 .. PageSize - 1 : raw'[k] = IF k < 19 THEN newHdr ELSE r2[k]
      BY <2>2, <2>3, <1>5 DEF marshalHeader, Cell, HeaderSize
    <2> QED BY <2>1, <2>2, <2>4
  <1>8. Live' = Live \cup {n}
    BY <1>4, <1>6, <1>0, <1>L DEF Live
  <1>9. \A s \in Live : slots'[s] = slots[s] /\ s \in 0 .. n - 1 /\ s # n
    BY <1>6, <1>0, <1>L
  <1>10. \A s \in Live : tupleAt(raw', slots'[s]) = tupleAt(raw, slots[s])
    <2> TAKE s \in Live
    <2>1. /\ slots[s] \in SlotEntry
          /\ slots[s].Offset \in Nat /\ slots[s].Length \in Nat
          /\ newEnd + len <= slots[s].Offset
          /\ slots[s].Offset + slots[s].Length <= PageSize
          /\ slotPos(n) + 4 <= newEnd /\ n \in Nat
      BY <1>3, <1>0, <1>L DEF slotPos, HeaderSize, SlotSize
    <2>2. ASSUME NEW k \in Int, slots[s].Offset <= k, k < slots[s].Offset + slots[s].Length
          PROVE  raw'[k] = raw[k]
      <3>1. /\ k \in 0 .. PageSize - 1 /\ ~ (k < 19)
            /\ ~ (k < slotPos(n) + 4) /\ ~ (k < newEnd + len)
        BY <1>0, <1>2, <1>3, <2>1, <2>2, SMTT(30) DEF slotPos, HeaderSize, SlotSize
      <3> QED BY <1>7, <3>1
    <2> QED BY <1>9, <2>1, <2>2, TupleFrame
  <1>11. tupleAt(raw', entry) = data
    <2>1. \A k \in Int : newEnd <= k /\ k < newEnd + len
                            => raw'[k] = data[k - newEnd + 1]
      BY <1>2, <1>3, <1>7, <1>0, <1>L DEF slotPos, HeaderSize, SlotSize
    <2> QED BY <1>2, <1>4, <2>1, TupleWritten DEF len
  <1>12. TypeOK'
    <2>1. /\ hdr' \in Header /\ pc' \in {"idle", "compact"} /\ i' \in 0 .. hdr'.NumSlots
          /\ writeCursor' \in 0 .. PageSize
      BY <1>1, <1>5, <1>0, <1>L
    <2> QED BY <1>6, <1>7, <2>1 DEF TypeOK
  <1>13. Layout'
    BY <1>1, <1>3, <1>5, <1>0, <1>L DEF Layout, HeaderSize, SlotSize
  <1>14. Placed'
    <2> SUFFICES ASSUME NEW s \in Live'
                 PROVE  /\ slots'[s].Length >= 1
                        /\ hdr'.FreeSpaceEnd <= slots'[s].Offset
                        /\ slots'[s].Offset + slots'[s].Length <= PageSize
      BY DEF Placed
    <2>0. hdr'.FreeSpaceEnd = newEnd
      BY <1>1, <1>5
    <2>1. CASE s \in Live
      <3>1. newEnd \in Nat /\ end \in Nat /\ newEnd <= end
        BY <1>0, <1>2, <1>3
      <3>2. slots'[s] = slots[s]
        BY <1>9, <2>1
      <3>3. /\ slots[s].Offset \in Nat /\ slots[s].Length >= 1
            /\ end <= slots[s].Offset /\ slots[s].Offset + slots[s].Length <= PageSize
        BY <1>L, <2>1
      <3> HIDE DEF newEnd, end
      <3> QED BY ONLY <2>0, <3>1, <3>2, <3>3
    <2>2. CASE s = n
      <3>1. slots'[s].Offset = newEnd /\ slots'[s].Length = len
        BY <1>4, <1>6, <2>2
      <3> HIDE DEF newEnd
      <3> QED BY ONLY <1>0, <1>3, <2>0, <3>1
    <2> QED BY <1>8, <2>1, <2>2
  <1>15. Descending'
    <2> SUFFICES ASSUME NEW s \in Live', NEW t \in Live', s < t
                 PROVE  slots'[t].Offset + slots'[t].Length <= slots'[s].Offset
      BY DEF Descending
    <2>1. s \in Live
      BY <1>6, <1>8, <1>0, <1>L DEF Live
    <2>2. CASE t \in Live
      BY <1>9, <2>1, <2>2 DEF Descending, Inv
    <2>3. CASE t = n
      BY <1>3, <1>4, <1>6, <1>9, <2>1, <2>3, <1>0, <1>L
    <2> QED BY <1>8, <2>2, <2>3
  <1>16. Cursor'
    BY <1>1 DEF Cursor
  <1>17. InSync'
    <2>1. \A k \in 0 .. HeaderSize - 1 : raw'[k] = hdr'
      BY <1>0, <1>1, <1>7 DEF HeaderSize
    <2>2. ASSUME NEW s \in 0 .. n, NEW k \in 0 .. 3
          PROVE  raw'[slotPos(s) + k] = slots'[s]
      <3>1. slotPos(s) + k \in 0 .. PageSize - 1 /\ ~ (slotPos(s) + k < 19)
            /\ slotPos(s) + k < newEnd
        BY <1>3, <1>0, <1>L DEF slotPos, HeaderSize, SlotSize
      <3>2. CASE s = n
        <4>1. slotPos(n) <= slotPos(s) + k /\ slotPos(s) + k < slotPos(n) + 4
          BY <3>2, <1>0, <1>L DEF slotPos, HeaderSize, SlotSize
        <4> QED BY <1>6, <1>7, <3>1, <3>2, <4>1
      <3>3. CASE s # n
        <4>1. ~ (slotPos(n) <= slotPos(s) + k) /\ s \in SlotIDs
          BY <3>3, <1>0, <1>L DEF slotPos, HeaderSize, SlotSize
        <4>2. raw[slotPos(s) + k] = slots[s]
          BY <4>1 DEF Inv, InSync, SlotSize
        <4>3. raw'[slotPos(s) + k] = raw[slotPos(s) + k]
          BY <1>3, <1>7, <3>1, <4>1
        <4> QED BY <1>6, <3>3, <4>2, <4>3, <1>0, <1>L
      <3> QED BY <3>2, <3>3
    <2> QED BY <1>6, <2>1, <2>2 DEF InSync, SlotSize
  <1>18. Stored'
    BY <1>6, <1>8, <1>10, <1>11 DEF Stored, Inv
  <1>19. hdr'.NumSlots = n + 1
    BY <1>1, <1>5
  <1> QED
    BY <1>6, <1>8, <1>10, <1>11, <1>12, <1>13, <1>14, <1>15, <1>16, <1>17, <1>18, <1>19 DEF Inv, n

\* What writing entry id of an array of n slots does to the bytes of a page.
SlotWritten(q, r, n, id, e) ==
    /\ q \in [0 .. PageSize - 1 -> Cell]
    /\ \A k \in 0 .. 18 : q[k] = r[k]
    /\ \A t \in 0 .. n - 1 : \A k \in 0 .. 3 :
          q[slotPos(t) + k] = IF t = id THEN e ELSE r[slotPos(t) + k]
    /\ \A k \in 0 .. PageSize - 1 : 19 + n * 4 <= k => q[k] = r[k]

\* marshalSlot writes the entry it is given and nothing else.
LEMMA SlotWrite ==
    ASSUME NEW n \in Nat, NEW id \in 0 .. n - 1, NEW e \in SlotEntry,
           NEW r \in [0 .. PageSize - 1 -> Cell], 19 + n * 4 <= PageSize,
           NEW q, q = marshalSlot(r, id, e)
    PROVE  SlotWritten(q, r, n, id, e)
  <1> USE PageAssumption
  <1>1. /\ q \in [0 .. PageSize - 1 -> Cell]
        /\ \A k \in 0 .. PageSize - 1 : q[k] =
                IF 19 + id * 4 <= k /\ k < 19 + id * 4 + 4 THEN e ELSE r[k]
    BY DEF marshalSlot, Cell, slotPos, HeaderSize, SlotSize
  <1>2. \A k \in 0 .. 18 : q[k] = r[k]
    BY <1>1 DEF HeaderSize, SlotSize
  <1>3. ASSUME NEW t \in 0 .. n - 1, NEW k \in 0 .. 3
        PROVE  q[slotPos(t) + k] = IF t = id THEN e ELSE r[slotPos(t) + k]
    <2>1. 19 + t * 4 + k \in 0 .. PageSize - 1
      OBVIOUS
    <2>2. CASE t = id
      BY <1>1, <2>1, <2>2 DEF slotPos, HeaderSize, SlotSize
    <2>3. CASE t # id
      <3>1. ~ (19 + id * 4 <= 19 + t * 4 + k /\ 19 + t * 4 + k < 19 + id * 4 + 4)
        BY <2>3
      <3> QED BY <1>1, <2>1, <2>3, <3>1 DEF slotPos, HeaderSize, SlotSize
    <2> QED BY <2>2, <2>3
  <1>4. \A k \in 0 .. PageSize - 1 : 19 + n * 4 <= k => q[k] = r[k]
    BY <1>1
  <1> QED BY <1>1, <1>2, <1>3, <1>4 DEF SlotWritten

\* What copying a tuple to offset at does to the bytes of a page.
TupleCopied(q, r, at, data) ==
    /\ q \in [0 .. PageSize - 1 -> Cell]
    /\ \A k \in 0 .. PageSize - 1 :
          q[k] = IF at <= k /\ k < at + Len(data) THEN data[k - at + 1] ELSE r[k]

\* copyTuple writes the bytes of the tuple and nothing else.
LEMMA CopyWrite ==
    ASSUME NEW r \in [0 .. PageSize - 1 -> Cell], NEW data \in Seq(Cell), NEW at \in Nat,
           NEW q, q = copyTuple(r, at, data)
    PROVE  TupleCopied(q, r, at, data)
  <1> USE PageAssumption
  <1>1. Len(data) \in Nat /\ \A k \in 1 .. Len(data) : data[k] \in Cell
    BY LenProperties, ElementOfSeq
  <1>2. \A k \in 0 .. PageSize - 1 :
            at <= k /\ k < at + Len(data) => data[k - at + 1] \in Cell
    BY <1>1
  <1> QED BY <1>2 DEF copyTuple, TupleCopied

\* DeleteTuple preserves the invariant.
LEMMA DeleteInv ==
    ASSUME Inv, NEW d \in SlotIDs, DeleteTuple(d)
    PROVE  /\ Inv'
           /\ hdr' = hdr
           /\ d \in Live
           /\ Live' = Live \ {d}
           /\ \A s \in Live' : tupleAt(raw', slots'[s]) = tupleAt(raw, slots[s])
  <1> DEFINE n == hdr.NumSlots
             end == hdr.FreeSpaceEnd
  <1>0. /\ n \in Nat /\ end \in Nat /\ 19 + n * 4 <= end /\ end <= PageSize
        /\ SlotIDs = 0 .. n - 1 /\ slots \in [0 .. n - 1 -> SlotEntry]
        /\ raw \in [0 .. PageSize - 1 -> Cell]
    BY InvFacts
  <1>L. \A s \in Live : /\ s \in 0 .. n - 1 /\ slots[s] \in SlotEntry
                        /\ slots[s].Offset \in Nat /\ slots[s].Length \in Nat
                        /\ slots[s].Length >= 1 /\ end <= slots[s].Offset
                        /\ slots[s].Offset + slots[s].Length <= PageSize
    BY InvFacts
  <1>1. /\ pc = "idle" /\ d \in Live
        /\ slots' = [slots EXCEPT ![d] = Tombstone]
        /\ raw' = marshalSlot(raw, d, Tombstone)
        /\ hdr' = hdr /\ pc' = pc /\ i' = i /\ writeCursor' = writeCursor
    BY DEF DeleteTuple
  <1>2. Tombstone \in SlotEntry /\ isDeleted(Tombstone)
    BY DEF Tombstone, SlotEntry, isDeleted, DeletedOffset, DeletedLength
  <1>3. /\ SlotIDs' = SlotIDs
        /\ slots' \in [0 .. n - 1 -> SlotEntry]
        /\ slots'[d] = Tombstone
        /\ \A s \in 0 .. n - 1 : s # d => slots'[s] = slots[s]
    BY <1>0, <1>1, <1>2 DEF SlotIDs
  <1>4. Live' = Live \ {d} /\ \A s \in Live' : s \in Live /\ slots'[s] = slots[s]
    BY <1>0, <1>2, <1>3 DEF Live
  <1> HIDE DEF n, end
  <1>5. /\ raw' \in [0 .. PageSize - 1 -> Cell]
        /\ \A k \in 0 .. 18 : raw'[k] = raw[k]
        /\ \A t \in 0 .. n - 1 : \A k \in 0 .. 3 :
              raw'[slotPos(t) + k] = IF t = d THEN Tombstone ELSE raw[slotPos(t) + k]
        /\ \A k \in 0 .. PageSize - 1 : 19 + n * 4 <= k => raw'[k] = raw[k]
    <2>1. d \in 0 .. n - 1 /\ 19 + n * 4 <= PageSize
      BY <1>0, PageAssumption
    <2>2. n \in Nat /\ raw \in [0 .. PageSize - 1 -> Cell] /\ Tombstone \in SlotEntry
          /\ raw' = marshalSlot(raw, d, Tombstone)
      BY <1>0, <1>1, <1>2
    <2>3. SlotWritten(raw', raw, n, d, Tombstone)
      BY ONLY <2>1, <2>2, SlotWrite
    <2> QED BY <2>3 DEF SlotWritten
  <1>6. \A s \in Live' : tupleAt(raw', slots'[s]) = tupleAt(raw, slots[s])
    <2> TAKE s \in Live'
    <2>1. ASSUME NEW k \in Int, slots[s].Offset <= k, k < slots[s].Offset + slots[s].Length
          PROVE  raw'[k] = raw[k]
      <3>1. k \in 0 .. PageSize - 1 /\ 19 + n * 4 <= k
        BY <1>0, <1>4, <1>L, <2>1, PageAssumption
      <3> QED BY <1>5, <3>1
    <2> QED BY <1>4, <1>L, <2>1, TupleFrame
  <1>7. TypeOK'
    <2>1. TypeOK
      BY DEF Inv
    <2> QED BY <1>0, <1>1, <1>3, <1>5, <2>1, SMTT(30) DEF TypeOK
  <1>8. Layout'
    BY <1>1 DEF Layout, Inv
  <1>9. Placed' /\ Descending'
    BY <1>1, <1>4 DEF Placed, Descending, Inv
  <1>10. Cursor'
    BY <1>1 DEF Cursor
  <1>11. InSync'
    <2>1. \A k \in 0 .. HeaderSize - 1 : raw'[k] = hdr'
      <3>1. \A k \in 0 .. 18 : raw[k] = hdr
        BY DEF HeaderSize, InSync, Inv
      <3>2. hdr' = hdr /\ \A k \in 0 .. 18 : raw'[k] = raw[k]
        BY <1>1, <1>5
      <3> QED BY ONLY <3>1, <3>2 DEF HeaderSize
    <2>2. ASSUME NEW s \in 0 .. n - 1, NEW k \in 0 .. 3
          PROVE  raw'[slotPos(s) + k] = slots'[s]
      <3>1. raw[slotPos(s) + k] = slots[s]
        BY <1>0 DEF Inv, InSync, SlotSize
      <3> QED BY <1>3, <1>5, <3>1, Zenon
    <2> QED BY <1>0, <1>3, <2>1, <2>2 DEF InSync, SlotSize
  <1>12. Stored'
    BY <1>4, <1>6 DEF Stored, Inv
  <1> QED BY <1>1, <1>4, <1>6, <1>7, <1>8, <1>9, <1>10, <1>11, <1>12 DEF Inv

\* Entering Compact preserves the invariant.
LEMMA CompactBeginInv ==
    ASSUME Inv, CompactBegin
    PROVE  Inv' /\ raw' = raw /\ hdr' = hdr /\ slots' = slots
  <1>1. /\ raw' = raw /\ hdr' = hdr /\ slots' = slots
        /\ pc' = "compact" /\ i' = 0 /\ writeCursor' = PageSize
    BY DEF CompactBegin
  <1>2. SlotIDs' = SlotIDs /\ Live' = Live
    BY <1>1 DEF SlotIDs, Live
  <1>3. TypeOK'
    <2>1. 0 \in 0 .. hdr.NumSlots /\ PageSize \in 0 .. PageSize
      BY InvFacts, PageAssumption
    <2> QED BY <1>1, <1>2, <2>1 DEF TypeOK, Inv
  <1>4. Layout' /\ Placed' /\ Descending' /\ InSync' /\ Stored'
    BY <1>1, <1>2 DEF Layout, Placed, Descending, InSync, Stored, Inv
  <1>5. Cursor'
    <2>1. \A s \in Live : s \in Nat /\ ~ (s < 0)
      BY InvFacts
    <2>2. PageSize .. PageSize - 1 = {} /\ hdr.FreeSpaceEnd <= PageSize
      BY InvFacts, PageAssumption
    <2>3. \A s \in Live : slots[s].Offset + slots[s].Length <= PageSize
      BY InvFacts
    <2> QED BY <1>1, <1>2, <2>1, <2>2, <2>3 DEF Cursor
  <1> QED BY <1>1, <1>3, <1>4, <1>5 DEF Inv

\* Compact's loop preserves the invariant at a tombstone.
LEMMA CompactSkipInv ==
    ASSUME Inv, CompactSkip
    PROVE  Inv' /\ raw' = raw /\ hdr' = hdr /\ slots' = slots
  <1>1. /\ raw' = raw /\ hdr' = hdr /\ slots' = slots
        /\ pc = "compact" /\ pc' = pc /\ i' = i + 1 /\ writeCursor' = writeCursor
        /\ i < hdr.NumSlots /\ isDeleted(slots[i])
    BY DEF CompactSkip
  <1>2. SlotIDs' = SlotIDs /\ Live' = Live
    BY <1>1 DEF SlotIDs, Live
  <1>3. TypeOK'
    <2>1. i + 1 \in 0 .. hdr.NumSlots
      BY <1>1, InvFacts
    <2> QED BY <1>1, <1>2, <2>1 DEF TypeOK, Inv
  <1>4. Layout' /\ Placed' /\ Descending' /\ InSync' /\ Stored'
    BY <1>1, <1>2 DEF Layout, Placed, Descending, InSync, Stored, Inv
  <1>5. Cursor'
    <2>1. \A s \in Live : /\ s < i + 1 <=> s < i
                          /\ s >= i + 1 => s >= i
      <3>1. i \notin Live /\ i \in Nat
        BY <1>1, InvFacts DEF Live
      <3> QED BY <3>1, InvFacts
    <2> QED BY <1>1, <1>2, <2>1 DEF Cursor, Inv
  <1> QED BY <1>1, <1>3, <1>4, <1>5 DEF Inv

\* Compact's loop preserves the invariant when it moves a tuple.
LEMMA CompactMoveInv ==
    ASSUME Inv, CompactMove
    PROVE  /\ Inv' /\ hdr' = hdr /\ Live' = Live
           /\ \A s \in Live : tupleAt(raw', slots'[s]) = tupleAt(raw, slots[s])
  <1> DEFINE n == hdr.NumSlots
             end == hdr.FreeSpaceEnd
             off == slots[i].Offset
             len == slots[i].Length
             newOffset == writeCursor - len
             entry == [slots[i] EXCEPT !.Offset = newOffset]
             tuple == tupleAt(raw, slots[i])
  <1>0. /\ n \in Nat /\ end \in Nat /\ 19 + n * 4 <= end /\ end <= PageSize
        /\ SlotIDs = 0 .. n - 1 /\ slots \in [0 .. n - 1 -> SlotEntry]
        /\ raw \in [0 .. PageSize - 1 -> Cell]
        /\ i \in 0 .. n /\ writeCursor \in 0 .. PageSize
        /\ PageSize \in Nat /\ 23 < PageSize /\ PageSize < 65535
    BY InvFacts, PageAssumption DEF HeaderSize, SlotSize, DeletedOffset
  <1>L. \A s \in Live : /\ s \in 0 .. n - 1 /\ slots[s] \in SlotEntry
                        /\ slots[s].Offset \in Nat /\ slots[s].Length \in Nat
                        /\ slots[s].Length >= 1 /\ end <= slots[s].Offset
                        /\ slots[s].Offset + slots[s].Length <= PageSize
    BY InvFacts
  <1>1. /\ pc = "compact" /\ i < n /\ ~ isDeleted(slots[i])
        /\ raw' = marshalSlot(copyTuple(raw, newOffset, tuple), i, entry)
        /\ slots' = [slots EXCEPT ![i] = entry]
        /\ writeCursor' = newOffset /\ i' = i + 1 /\ hdr' = hdr /\ pc' = pc
    BY DEF CompactMove
  <1>2. i \in Live /\ i \in 0 .. n - 1
    BY <1>0, <1>1 DEF Live
  <1>3. /\ \A s \in Live : s < i => writeCursor <= slots[s].Offset
        /\ \A s \in Live : s > i => slots[s].Offset + slots[s].Length <= off
        /\ off + len <= writeCursor
    <2>1. \A s \in Live : i < s => slots[s].Offset + slots[s].Length <= off
      BY <1>2 DEF Inv, Descending
    <2>2. i >= i
      BY <1>0
    <2> QED BY <1>0, <1>1, <1>2, <1>L, <2>1, <2>2 DEF Inv, Cursor
  <1>4. /\ slots[i] \in SlotEntry /\ off \in Nat /\ len \in Nat /\ len >= 1
        /\ end <= off /\ off + len <= PageSize
    BY <1>2, <1>L
  <1>5. tuple \in Seq(Cell) /\ Len(tuple) = len
    BY <1>0, <1>4, TupleLen, SMTT(30)
  <1>6. /\ entry \in SlotEntry /\ entry.Offset = newOffset /\ entry.Length = len
        /\ newOffset \in Nat /\ off <= newOffset /\ newOffset + len = writeCursor
        /\ newOffset < PageSize
    <2>1. newOffset \in Nat /\ off <= newOffset /\ newOffset + len = writeCursor
          /\ newOffset < PageSize
      <3> HIDE DEF len, off, n, end
      <3> QED BY <1>0, <1>3, <1>4
    <2> HIDE DEF newOffset
    <2> QED BY <1>4, <2>1 DEF SlotEntry
  <1>7. ~ isDeleted(entry)
    BY <1>0, <1>6 DEF isDeleted, DeletedOffset
  <1> HIDE DEF n, end, off, len, newOffset, entry, tuple
  <1>8. /\ SlotIDs' = SlotIDs
        /\ slots' \in [0 .. n - 1 -> SlotEntry]
        /\ slots'[i] = entry
        /\ \A s \in 0 .. n - 1 : s # i => slots'[s] = slots[s]
    BY <1>0, <1>1, <1>2, <1>6 DEF SlotIDs
  <1>9. Live' = Live
    BY <1>0, <1>1, <1>2, <1>7, <1>8 DEF Live
  <1> DEFINE r1 == copyTuple(raw, newOffset, tuple)
  <1>10. /\ r1 \in [0 .. PageSize - 1 -> Cell]
         /\ \A k \in 0 .. PageSize - 1 : r1[k] =
               IF newOffset <= k /\ k < newOffset + len THEN tuple[k - newOffset + 1] ELSE raw[k]
    <2>1. TupleCopied(r1, raw, newOffset, tuple)
      BY <1>0, <1>6, <1>5, CopyWrite
    <2> QED BY <1>5, <2>1 DEF TupleCopied
  <1>11. SlotWritten(raw', r1, n, i, entry)
    <2>1. n \in Nat /\ i \in 0 .. n - 1 /\ entry \in SlotEntry /\ 19 + n * 4 <= PageSize
          /\ raw' = marshalSlot(r1, i, entry)
      BY <1>0, <1>1, <1>2, <1>6
    <2> QED BY ONLY <1>10, <2>1, SlotWrite
  <1> HIDE DEF r1
  <1>12. \A k \in 0 .. PageSize - 1 : end <= k => raw'[k] =
               IF newOffset <= k /\ k < newOffset + len THEN tuple[k - newOffset + 1] ELSE raw[k]
    <2>1. \A k \in 0 .. PageSize - 1 : 19 + n * 4 <= k => raw'[k] = r1[k]
      BY ONLY <1>11 DEF SlotWritten
    <2>2. \A k \in 0 .. PageSize - 1 : end <= k => 19 + n * 4 <= k
      BY <1>0
    <2>3. \A k \in 0 .. PageSize - 1 : end <= k => raw'[k] = r1[k]
      BY ONLY <2>1, <2>2
    <2> QED BY ONLY <1>10, <2>3
  <1>13. ASSUME NEW s \in Live PROVE tupleAt(raw', slots'[s]) = tupleAt(raw, slots[s])
    <2>1. CASE s = i
      <3>1. ASSUME NEW k \in Int, newOffset <= k, k < newOffset + len
            PROVE  raw'[k] = tuple[k - newOffset + 1]
        <4>1. k \in 0 .. PageSize - 1 /\ end <= k
          BY <1>0, <1>4, <1>6, <3>1
        <4> QED BY <1>12, <3>1, <4>1
      <3>2. tupleAt(raw', entry) = tuple
        BY <1>6, <1>5, <3>1, TupleWritten
      <3> QED BY <1>8, <2>1, <3>2 DEF tuple
    <2>2. CASE s # i
      <3>1. ASSUME NEW k \in Int, slots[s].Offset <= k, k < slots[s].Offset + slots[s].Length
            PROVE  raw'[k] = raw[k]
        <4>1. k \in 0 .. PageSize - 1 /\ end <= k
          BY <1>0, <1>L, <3>1
        <4>2. s < i \/ s > i
          BY <1>0, <1>L, <2>2
        <4>3. ~ (newOffset <= k /\ k < newOffset + len)
          BY <1>0, <1>3, <1>4, <1>6, <1>L, <3>1, <4>2, SMTT(30)
        <4> QED BY <1>12, <4>1, <4>3
      <3>2. tupleAt(raw', slots[s]) = tupleAt(raw, slots[s])
        BY <1>L, <3>1, TupleFrame
      <3> QED BY <1>8, <1>L, <2>2, <3>2
    <2> QED BY <2>1, <2>2
  <1>14. TypeOK'
    <2>1. i + 1 \in 0 .. hdr.NumSlots /\ newOffset \in 0 .. PageSize
      BY <1>0, <1>2, <1>6 DEF n
    <2>2. raw' \in [0 .. PageSize - 1 -> Cell]
      BY <1>11 DEF SlotWritten
    <2> QED BY <1>0, <1>1, <1>8, <2>1, <2>2 DEF TypeOK, Inv
  <1>15. Layout'
    BY <1>1 DEF Layout, Inv
  <1>16. Placed'
    <2> SUFFICES ASSUME NEW s \in Live
                 PROVE  /\ slots'[s].Length >= 1
                        /\ end <= slots'[s].Offset
                        /\ slots'[s].Offset + slots'[s].Length <= PageSize
      BY <1>1, <1>9 DEF Placed, end
    <2>1. CASE s = i
      BY <1>0, <1>4, <1>6, <1>8, <2>1
    <2>2. CASE s # i
      BY <1>8, <1>L, <2>2
    <2> QED BY <2>1, <2>2
  <1>17. Descending'
    <2> SUFFICES ASSUME NEW s \in Live, NEW t \in Live, s < t
                 PROVE  slots'[t].Offset + slots'[t].Length <= slots'[s].Offset
      BY <1>9 DEF Descending
    <2>1. CASE s # i /\ t # i
      BY <1>8, <1>L, <2>1 DEF Descending, Inv
    <2>2. CASE s = i
      <3>1. t # i /\ t > i
        BY <1>0, <1>L, <2>2
      <3> QED BY <1>0, <1>3, <1>4, <1>6, <1>8, <1>L, <2>2, <3>1, SMTT(30)
    <2>3. CASE t = i
      <3>1. s # i /\ s < i
        BY <1>0, <1>L, <2>3
      <3> QED BY <1>0, <1>3, <1>4, <1>6, <1>8, <1>L, <2>3, <3>1
    <2> QED BY <2>1, <2>2, <2>3
  <1>18. Cursor'
    <2>1. end <= newOffset
      BY <1>0, <1>4, <1>6
    <2>2. ASSUME NEW s \in Live, s < i + 1 PROVE newOffset <= slots'[s].Offset
      <3>1. s = i \/ (s < i /\ s # i)
        BY <1>0, <1>L, <2>2
      <3>2. CASE s = i
        BY <1>6, <1>8, <3>2
      <3>3. CASE s < i /\ s # i
        BY <1>0, <1>3, <1>4, <1>6, <1>8, <1>L, <3>3
      <3> QED BY <3>1, <3>2, <3>3
    <2>3. ASSUME NEW s \in Live, s >= i + 1
          PROVE  slots'[s].Offset + slots'[s].Length <= newOffset
      <3>1. s > i /\ s # i
        BY <1>0, <1>L, <2>3
      <3> QED BY <1>0, <1>3, <1>4, <1>6, <1>8, <1>L, <3>1, SMTT(30)
    <2>4. ASSUME NEW k \in newOffset .. PageSize - 1
          PROVE  \E s \in Live : /\ s < i + 1
                                 /\ slots'[s].Offset <= k
                                 /\ k < slots'[s].Offset + slots'[s].Length
      <3>1. CASE k < writeCursor
        <4>1. i < i + 1 /\ slots'[i].Offset <= k /\ k < slots'[i].Offset + slots'[i].Length
          BY <1>0, <1>4, <1>6, <1>8, <3>1
        <4> QED BY <1>2, <4>1
      <3>2. CASE ~ (k < writeCursor)
        <4>1. k \in writeCursor .. PageSize - 1
          BY <1>0, <1>6, <3>2
        <4>2. PICK s \in Live : /\ s < i /\ slots[s].Offset <= k
                                /\ k < slots[s].Offset + slots[s].Length
          BY <1>1, <4>1 DEF Inv, Cursor
        <4>3. s < i + 1 /\ slots'[s] = slots[s]
          BY <1>0, <1>8, <1>L, <4>2
        <4> QED BY <4>2, <4>3
      <3> QED BY <3>1, <3>2
    <2> QED BY <1>1, <1>9, <2>1, <2>2, <2>3, <2>4 DEF Cursor, end
  <1>19. InSync'
    <2>1. ASSUME NEW k \in 0 .. 18 PROVE raw'[k] = hdr'
      <3>1. raw[k] = hdr
        BY DEF HeaderSize, InSync, Inv
      <3>2. k \in 0 .. PageSize - 1 /\ ~ (newOffset <= k)
        BY <1>0, <1>4, <1>6
      <3> QED BY <1>1, <1>10, <1>11, <3>1, <3>2, Zenon DEF SlotWritten
    <2>2. ASSUME NEW s \in 0 .. n - 1, NEW k \in 0 .. 3
          PROVE  raw'[slotPos(s) + k] = slots'[s]
      <3>1. raw[slotPos(s) + k] = slots[s]
        BY <1>0 DEF Inv, InSync, SlotSize
      <3>2. slotPos(s) + k \in 0 .. PageSize - 1 /\ ~ (newOffset <= slotPos(s) + k)
        BY <1>0, <1>4, <1>6 DEF slotPos, HeaderSize, SlotSize
      <3>3. r1[slotPos(s) + k] = slots[s]
        BY <1>10, <3>1, <3>2
      <3> QED BY <1>8, <1>11, <3>3, Zenon DEF SlotWritten
    <2> QED BY <1>0, <1>8, <2>1, <2>2, SMTT(30) DEF InSync, HeaderSize, SlotSize
  <1>20. Stored'
    BY <1>9, <1>13 DEF Stored, Inv
  <1> QED
    BY <1>1, <1>9, <1>13, <1>14, <1>15, <1>16, <1>17, <1>18, <1>19, <1>20 DEF Inv

\* Leaving Compact preserves the invariant.
LEMMA CompactEndInv ==
    ASSUME Inv, CompactEnd
    PROVE  /\ Inv' /\ hdr'.NumSlots = hdr.NumSlots /\ slots' = slots /\ Live' = Live
           /\ \A s \in Live : tupleAt(raw', slots'[s]) = tupleAt(raw, slots[s])
           /\ \A k \in hdr'.FreeSpaceEnd .. PageSize - 1 :
                 \E s \in Live : slots[s].Offset <= k /\ k < slots[s].Offset + slots[s].Length
  <1> DEFINE n == hdr.NumSlots
             end == hdr.FreeSpaceEnd
             newHdr == [hdr EXCEPT !.FreeSpaceEnd = writeCursor]
  <1>0. /\ hdr \in Header
        /\ n \in Nat /\ end \in Nat /\ hdr.FreeSpaceOffset = 19 + n * 4
        /\ 19 + n * 4 <= end /\ end <= PageSize
        /\ SlotIDs = 0 .. n - 1 /\ slots \in [0 .. n - 1 -> SlotEntry]
        /\ raw \in [0 .. PageSize - 1 -> Cell]
        /\ i \in 0 .. n /\ writeCursor \in 0 .. PageSize
        /\ PageSize \in Nat /\ 23 < PageSize
    BY InvFacts, PageAssumption DEF HeaderSize, SlotSize
  <1>L. \A s \in Live : /\ s \in 0 .. n - 1 /\ slots[s] \in SlotEntry
                        /\ slots[s].Offset \in Nat /\ slots[s].Length \in Nat
                        /\ slots[s].Length >= 1 /\ end <= slots[s].Offset
                        /\ slots[s].Offset + slots[s].Length <= PageSize
    BY InvFacts
  <1>1. /\ pc = "compact" /\ i = n
        /\ hdr' = newHdr /\ raw' = marshalHeader(raw, newHdr)
        /\ pc' = "idle" /\ i' = 0 /\ writeCursor' = PageSize /\ slots' = slots
    BY DEF CompactEnd
  <1>2. /\ newHdr \in Header /\ newHdr.NumSlots = n /\ newHdr.FreeSpaceEnd = writeCursor
        /\ newHdr.FreeSpaceOffset = hdr.FreeSpaceOffset
    <2>1. hdr \in Header /\ writeCursor \in Nat
      BY <1>0
    <2> QED BY ONLY <2>1 DEF Header
  <1> HIDE DEF newHdr
  <1>3. SlotIDs' = SlotIDs /\ Live' = Live
    BY <1>1, <1>2 DEF SlotIDs, Live
  <1>4. /\ end <= writeCursor
        /\ \A s \in Live : writeCursor <= slots[s].Offset
        /\ \A k \in writeCursor .. PageSize - 1 :
              \E s \in Live : slots[s].Offset <= k /\ k < slots[s].Offset + slots[s].Length
    <2>1. \A s \in Live : s < i
      BY <1>0, <1>1, <1>L
    <2>2. Cursor
      BY DEF Inv
    <2> QED BY <1>1, <2>1, <2>2 DEF Cursor
  <1> HIDE DEF n, end
  <1>5. /\ raw' \in [0 .. PageSize - 1 -> Cell]
        /\ \A k \in 0 .. PageSize - 1 : raw'[k] = IF k < 19 THEN newHdr ELSE raw[k]
    BY <1>0, <1>1, <1>2 DEF marshalHeader, Cell, HeaderSize
  <1>6. ASSUME NEW s \in Live PROVE tupleAt(raw', slots'[s]) = tupleAt(raw, slots[s])
    <2>1. ASSUME NEW k \in Int, slots[s].Offset <= k, k < slots[s].Offset + slots[s].Length
          PROVE  raw'[k] = raw[k]
      <3>1. k \in 0 .. PageSize - 1 /\ ~ (k < 19)
        BY <1>0, <1>L, <2>1
      <3> QED BY <1>5, <3>1
    <2> QED BY <1>1, <1>L, <2>1, TupleFrame
  <1>7. TypeOK'
    <2>1. 0 \in 0 .. hdr'.NumSlots /\ PageSize \in 0 .. PageSize
      BY <1>0, <1>1, <1>2
    <2> QED BY <1>0, <1>1, <1>2, <1>3, <1>5, <2>1 DEF TypeOK
  <1>8. Layout'
    BY <1>0, <1>1, <1>2, <1>4 DEF Layout, HeaderSize, SlotSize
  <1>9. Placed' /\ Descending'
    BY <1>1, <1>2, <1>3, <1>4, <1>L DEF Placed, Descending, Inv
  <1>10. Cursor'
    BY <1>1 DEF Cursor
  <1>11. InSync'
    <2>1. \A k \in 0 .. HeaderSize - 1 : raw'[k] = hdr'
      BY <1>0, <1>1, <1>5 DEF HeaderSize
    <2>2. ASSUME NEW s \in 0 .. n - 1, NEW k \in 0 .. 3
          PROVE  raw'[slotPos(s) + k] = slots'[s]
      <3>1. raw[slotPos(s) + k] = slots[s]
        BY <1>0 DEF Inv, InSync, SlotSize
      <3>2. slotPos(s) + k \in 0 .. PageSize - 1 /\ ~ (slotPos(s) + k < 19)
        BY <1>0 DEF slotPos, HeaderSize, SlotSize
      <3> QED BY <1>1, <1>5, <3>1, <3>2
    <2> QED BY <1>0, <1>3, <2>1, <2>2 DEF InSync, SlotSize
  <1>12. Stored'
    BY <1>3, <1>6 DEF Stored, Inv
  <1>13. hdr'.NumSlots = hdr.NumSlots /\ hdr'.FreeSpaceEnd = writeCursor
    BY <1>1, <1>2 DEF n
  <1> QED
    BY <1>1, <1>3, <1>4, <1>6, <1>7, <1>8, <1>9, <1>10, <1>11, <1>12, <1>13 DEF Inv

\* Reading a page back changes nothing: the bytes were in sync.
LEMMA ReloadInv ==
    ASSUME Inv, Reload
    PROVE  UNCHANGED vars
  <1>1. /\ raw' = raw /\ pc' = pc /\ i' = i /\ writeCursor' = writeCursor
        /\ hdr' = raw[0]
        /\ slots' = [s \in 0 .. hdr'.NumSlots - 1 |-> raw[slotPos(s)]]
    BY DEF Reload, unmarshalHeader, unmarshalSlot
  <1>2. raw[0] = hdr /\ \A s \in SlotIDs : raw[slotPos(s) + 0] = slots[s]
    BY DEF Inv, InSync, HeaderSize, SlotSize
  <1>3. \A s \in SlotIDs : slotPos(s) + 0 = slotPos(s)
    BY InvFacts DEF slotPos, HeaderSize, SlotSize
  <1>4. slots = [s \in SlotIDs |-> slots[s]] /\ SlotIDs = 0 .. hdr.NumSlots - 1
    BY InvFacts
  <1>5. slots' = slots
    BY <1>1, <1>2, <1>3, <1>4, Zenon
  <1> QED BY <1>1, <1>2, <1>5 DEF vars

\* So does a step that changes nothing.
LEMMA StutterInv ==
    ASSUME Inv, UNCHANGED vars
    PROVE  Inv'
  BY DEF vars, Inv, TypeOK, Layout, Placed, Descending, Cursor, InSync, Stored, SlotIDs, Live

\* The inductive invariant holds in every state of the page.
THEOREM PageInvariant == Spec => []Inv
  <1>1. Inv /\ [Next]_vars => Inv'
    <2> SUFFICES ASSUME Inv, [Next]_vars PROVE Inv'
      OBVIOUS
    <2>1. ASSUME NEW data \in Data, InsertTuple(data) PROVE Inv'
      BY <2>1, InsertInv
    <2>2. ASSUME NEW s \in SlotIDs, DeleteTuple(s) PROVE Inv'
      BY <2>2, DeleteInv
    <2>3. CASE Compact
      BY <2>3, CompactBeginInv, CompactSkipInv, CompactMoveInv, CompactEndInv DEF Compact
    <2>4. CASE Reload
      BY <2>4, ReloadInv, StutterInv
    <2>5. CASE UNCHANGED vars
      BY <2>5, StutterInv
    <2> QED BY <2>1, <2>2, <2>3, <2>4, <2>5 DEF Next
  <1> QED BY <1>1, InitInv, PTL DEF Spec

\* The parsed header and slot array of a page always have their types.
THEOREM PageTypeOK == Spec => []TypeOK
  <1>1. Inv => TypeOK
    BY DEF Inv
  <1> QED BY <1>1, PageInvariant, PTL

\* The bytes of a page always decode to its parsed view (page.go:98-100).
THEOREM PageInSync == Spec => []InSync
  <1>1. Inv => InSync
    BY DEF Inv
  <1> QED BY <1>1, PageInvariant, PTL

\* Live tuples never overlap, whatever the page size, the tuples and the
\* history of inserts, deletes and compactions.
THEOREM PageNoOverlap == Spec => []NoOverlap
  <1>1. Inv => NoOverlap
    <2> SUFFICES ASSUME Inv PROVE NoOverlap
      OBVIOUS
    <2>1. ASSUME NEW s \in Live
          PROVE  /\ hdr.FreeSpaceOffset <= slots[s].Offset
                 /\ slots[s].Offset + slots[s].Length <= PageSize
      BY InvFacts, SMTT(30)
    <2>2. ASSUME NEW s \in Live, NEW t \in Live
          PROVE  \/ s = t
                 \/ slots[s].Offset + slots[s].Length <= slots[t].Offset
                 \/ slots[t].Offset + slots[t].Length <= slots[s].Offset
      <3>1. s < t \/ t < s \/ s = t
        BY InvFacts
      <3> QED BY <3>1 DEF Inv, Descending
    <2> QED BY <2>1, <2>2 DEF NoOverlap
  <1> QED BY <1>1, PageInvariant, PTL

\* Unmarshal accepts every page the mutating methods can produce.
THEOREM PageReadsBack == Spec => []ReadsBack
  <1>1. Inv => ReadsBack
    <2> SUFFICES ASSUME Inv PROVE Unmarshals
      BY DEF ReadsBack
    <2>1. raw[0] = hdr
      BY DEF Inv, InSync, HeaderSize
    <2>2. \A s \in 0 .. hdr.NumSlots - 1 : raw[slotPos(s)] = slots[s]
      <3> TAKE s \in 0 .. hdr.NumSlots - 1
      <3>1. raw[slotPos(s) + 0] = slots[s]
        BY DEF Inv, InSync, SlotSize, SlotIDs
      <3>2. slotPos(s) + 0 = slotPos(s)
        BY InvFacts DEF slotPos, HeaderSize, SlotSize
      <3> QED BY <3>1, <3>2
    <2>3. /\ hdr.FreeSpaceOffset >= HeaderSize /\ hdr.FreeSpaceEnd <= PageSize
          /\ hdr.FreeSpaceOffset <= hdr.FreeSpaceEnd
          /\ hdr.FreeSpaceOffset - HeaderSize = hdr.NumSlots * SlotSize
      BY InvFacts DEF HeaderSize, SlotSize
    <2>4. \A s \in 0 .. hdr.NumSlots - 1 :
            ~ isDeleted(slots[s]) => slots[s].Offset + slots[s].Length <= PageSize
      BY InvFacts DEF Live
    <2> QED BY <2>1, <2>2, <2>3, <2>4 DEF Unmarshals, unmarshalHeader, unmarshalSlot
  <1> QED BY <1>1, PageInvariant, PTL

\* Compact always leaves the live tuples packed at the end of the page.
THEOREM PageCompactPacks == Spec => CompactPacks
  <1> DEFINE Packed ==
        pc = "compact" /\ pc' = "idle" =>
            \A k \in hdr'.FreeSpaceEnd .. PageSize - 1 :
                \E s \in Live' :
                    slots'[s].Offset <= k /\ k < slots'[s].Offset + slots'[s].Length
  <1>1. Inv /\ [Next]_vars => [Packed]_vars
    <2> SUFFICES ASSUME Inv, Next, pc = "compact", pc' = "idle" PROVE Packed
      OBVIOUS
    <2>1. CompactEnd
      BY DEF Next, InsertTuple, DeleteTuple, Compact, CompactBegin, CompactSkip,
             CompactMove, Reload
    <2> QED BY <2>1, CompactEndInv
  <1> QED BY <1>1, PageInvariant, PTL DEF Spec, CompactPacks

-----------------------------------------------------------------------------
(***************************************************************************)
(* The page implements SlotStore: inserts and deletes are the table's own, *)
(* every other step leaves what GetTuple returns unchanged.                *)
(***************************************************************************)
\* What GetTuple yields for every slot, as a function.
Tuples == [s \in SlotIDs |-> GetTuple(s)]

\* A step that keeps the slot IDs, which of them are live and their tuples
\* is invisible through GetTuple.
LEMMA SameTuples ==
    ASSUME hdr'.NumSlots = hdr.NumSlots, Live' = Live,
           \A s \in Live : tupleAt(raw', slots'[s]) = tupleAt(raw, slots[s])
    PROVE  Tuples' = Tuples
  <1>1. SlotIDs' = SlotIDs
    BY DEF SlotIDs
  <1>2. \A s \in SlotIDs : GetTuple(s)' = GetTuple(s)
    BY <1>1 DEF GetTuple, Live
  <1> QED BY <1>1, <1>2 DEF Tuples

\* A slot ID keeps naming the bytes it was handed out for until it is
\* deleted, and is never reused ("SlotIDs are never reused or renumbered,
\* even after compaction", page.go:58-60).
THEOREM PageRefinesSlotStore == Spec => SlotIDsStable
  <1>1. Init => Store!Init
    <2> SUFFICES ASSUME Init PROVE Store!Init
      OBVIOUS
    <2>1. hdr.NumSlots = 0 /\ SlotIDs = 0 .. -1
      BY DEF Init, NewPage, EmptyHeader, SlotIDs
    <2>2. 0 .. -1 = {}
      OBVIOUS
    <2> QED BY <2>1, <2>2 DEF Store!Init
  <1>2. Inv /\ [Next]_vars => [Store!Next]_(Store!vars)
    <2> SUFFICES ASSUME Inv, [Next]_vars
                 PROVE  Store!Next \/ (hdr'.NumSlots = hdr.NumSlots /\ Tuples' = Tuples)
      BY DEF Store!vars, Tuples
    <2>1. ASSUME NEW data \in Data, InsertTuple(data) PROVE Store!Insert(data)
      <3>1. /\ hdr'.NumSlots = hdr.NumSlots + 1
            /\ Live' = Live \cup {hdr.NumSlots}
            /\ \A s \in Live : tupleAt(raw', slots'[s]) = tupleAt(raw, slots[s])
            /\ tupleAt(raw', slots'[hdr.NumSlots]) = data
        BY <2>1, InsertInv
      <3>2. hdr.NumSlots \in Nat /\ SlotIDs = 0 .. hdr.NumSlots - 1
        BY InvFacts
      <3>3. SlotIDs' = 0 .. hdr.NumSlots
        BY <3>1, <3>2 DEF SlotIDs
      <3>4. ASSUME NEW s \in 0 .. hdr.NumSlots
            PROVE  GetTuple(s)' = IF s = hdr.NumSlots THEN data ELSE Tuples[s]
        <4>1. CASE s = hdr.NumSlots
          BY <3>1, <3>3, <4>1 DEF GetTuple, Live
        <4>2. CASE s # hdr.NumSlots
          <5>1. s \in SlotIDs
            BY <3>2, <4>2
          <5>2. s \in Live' <=> s \in Live
            BY <3>1, <4>2
          <5> QED BY <3>1, <3>3, <4>2, <5>1, <5>2 DEF GetTuple, Live, Tuples
        <4> QED BY <4>1, <4>2
      <3> QED BY <3>1, <3>3, <3>4 DEF Store!Insert, Tuples
    <2>2. ASSUME NEW d \in SlotIDs, DeleteTuple(d)
          PROVE  d \in 0 .. hdr.NumSlots - 1 /\ Store!Delete(d)
      <3>1. /\ hdr' = hdr /\ d \in Live /\ Live' = Live \ {d}
            /\ \A s \in Live' : tupleAt(raw', slots'[s]) = tupleAt(raw, slots[s])
        BY <2>2, DeleteInv
      <3>2. Tuples[d] # Deleted
        BY <3>1, DataAssumption DEF Tuples, GetTuple, Live, Inv, Stored
      <3>3. SlotIDs' = SlotIDs /\ SlotIDs = 0 .. hdr.NumSlots - 1
        BY <3>1 DEF SlotIDs
      <3>4. \A s \in SlotIDs : GetTuple(s)' = IF s = d THEN Deleted ELSE GetTuple(s)
        BY <3>1, <3>3 DEF GetTuple, Live
      <3>5. Tuples' = [Tuples EXCEPT ![d] = Deleted]
        BY <3>3, <3>4, Zenon DEF Tuples
      <3> QED BY <3>1, <3>2, <3>3, <3>5 DEF Store!Delete, Tuples
    <2>3. CASE CompactBegin \/ CompactSkip \/ UNCHANGED vars
      <3>1. raw' = raw /\ hdr' = hdr /\ slots' = slots
        BY <2>3, CompactBeginInv, CompactSkipInv DEF vars
      <3> QED BY <3>1 DEF Tuples, GetTuple, SlotIDs
    <2>4. CASE CompactMove
      BY <2>4, CompactMoveInv, SameTuples
    <2>5. CASE CompactEnd
      BY <2>5, CompactEndInv, SameTuples
    <2>6. CASE Reload
      <3>1. raw' = raw /\ hdr' = hdr /\ slots' = slots
        BY <2>6, ReloadInv DEF vars
      <3> QED BY <3>1 DEF Tuples, GetTuple, SlotIDs
    <2> QED BY <2>1, <2>2, <2>3, <2>4, <2>5, <2>6 DEF Next, Compact, Store!Next
  <1> QED BY <1>1, <1>2, PageInvariant, PTL DEF Spec, SlotIDsStable, Store!Spec

=============================================================================
