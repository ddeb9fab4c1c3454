-------------------------------- MODULE Page --------------------------------
(***************************************************************************)
(* The slotted page of storage/page.go: a fixed array of bytes that holds  *)
(* a header, an array of slot entries growing up and tuples growing down.  *)
(*                                                                         *)
(* A byte of a tuple is a member of Byte.  A byte of the header, or of a   *)
(* slot entry, is modelled by the header or entry it is part of: equal     *)
(* cells decode to equal fields, and a tuple written over one is seen.     *)
(*                                                                         *)
(* Compact is one call of the code; its loop is one step per slot here,    *)
(* with every other operation disabled until it is over, so that what      *)
(* holds between two iterations can be stated.                             *)
(***************************************************************************)
EXTENDS Integers, Sequences

CONSTANTS
    PageSize,   \* 8192 in the code
    Byte,       \* the values of a byte
    Zero,       \* the byte a fresh page is filled with
    Data,       \* the byte slices callers hand to InsertTuple
    Deleted     \* what reading a tombstone yields

HeaderSize == 19
SlotSize == 4
DeletedOffset == 65535
DeletedLength == 65535

ASSUME PageAssumption ==
    /\ PageSize \in Nat
    /\ HeaderSize + SlotSize < PageSize
    /\ PageSize < DeletedOffset

ASSUME DataAssumption ==
    /\ Data \subseteq Seq(Byte)
    /\ Zero \in Byte
    /\ Deleted \notin Data

VARIABLES
    raw,            \* offset -> byte: what Marshal hands to the disk
    hdr,            \* the parsed header
    slots,          \* slot ID -> entry: the parsed slot array
    pc,             \* "idle", or "compact" inside Compact
    i,              \* the slot Compact's loop visits next
    writeCursor     \* where Compact's next tuple ends

vars == <<raw, hdr, slots, pc, i, writeCursor>>

Header == [NumSlots : Nat, FreeSpaceOffset : Nat, FreeSpaceEnd : Nat]
SlotEntry == [Offset : Nat, Length : Nat]
Cell == Byte \cup Header \cup SlotEntry
Tombstone == [Offset |-> DeletedOffset, Length |-> DeletedLength]

isDeleted(entry) ==
    entry.Offset = DeletedOffset /\ entry.Length = DeletedLength

SlotIDs == 0 .. hdr.NumSlots - 1
Live == {s \in SlotIDs : ~ isDeleted(slots[s])}

\* Mutant: the room of the next slot entry is counted twice.
FreeSpace_PlusSlot == hdr.FreeSpaceEnd - hdr.FreeSpaceOffset + SlotSize

FreeSpace == hdr.FreeSpaceEnd - hdr.FreeSpaceOffset

(***************************************************************************)
(* The bytes a mutating method writes.                                     *)
(***************************************************************************)
marshalHeader(r, h) ==
    [k \in DOMAIN r |-> IF k < HeaderSize THEN h ELSE r[k]]

slotPos(id) == HeaderSize + id * SlotSize

marshalSlot(r, id, entry) ==
    [k \in DOMAIN r |->
        IF slotPos(id) <= k /\ k < slotPos(id) + SlotSize THEN entry ELSE r[k]]

copyTuple(r, at, data) ==
    [k \in DOMAIN r |->
        IF at <= k /\ k < at + Len(data) THEN data[k - at + 1] ELSE r[k]]

\* The tuple an entry points at.
tupleAt(r, entry) == [k \in 1 .. entry.Length |-> r[entry.Offset + k - 1]]

\* What GetTuple returns for a slot ID in range.
GetTuple(s) == IF isDeleted(slots[s]) THEN Deleted ELSE tupleAt(raw, slots[s])

-----------------------------------------------------------------------------
EmptyHeader ==
    [NumSlots |-> 0, FreeSpaceOffset |-> HeaderSize, FreeSpaceEnd |-> PageSize]

NewPage ==
    /\ hdr = EmptyHeader
    /\ slots = [s \in 0 .. -1 |-> Tombstone]
    /\ raw = marshalHeader([k \in 0 .. PageSize - 1 |-> Zero], EmptyHeader)

Init ==
    /\ NewPage
    /\ pc = "idle"
    /\ i = 0
    /\ writeCursor = PageSize

\* An empty or oversized slice, or one that does not fit, is rejected and
\* changes nothing.
InsertTuple(data) ==
    /\ pc = "idle"
    /\ Len(data) # 0
    /\ Len(data) <= PageSize
    /\ FreeSpace >= SlotSize + Len(data)
    /\ LET newEnd == hdr.FreeSpaceEnd - Len(data)
           entry  == [Offset |-> newEnd, Length |-> Len(data)]
           slotID == hdr.NumSlots
           newHdr == [NumSlots        |-> slotID + 1,
                      FreeSpaceOffset |-> hdr.FreeSpaceOffset + SlotSize,
                      FreeSpaceEnd    |-> newEnd]
       IN  /\ slots' = [s \in 0 .. slotID |->
                            IF s = slotID THEN entry ELSE slots[s]]
           /\ hdr' = newHdr
           /\ raw' = marshalHeader(
                        marshalSlot(copyTuple(raw, newEnd, data), slotID, entry),
                        newHdr)
    /\ UNCHANGED <<pc, i, writeCursor>>

\* Mutant: the tombstone is not written to the bytes.
DeleteTuple_NoMarshal(s) ==
    /\ pc = "idle"
    /\ s \in Live
    /\ slots' = [slots EXCEPT ![s] = Tombstone]
    /\ UNCHANGED <<raw, hdr, pc, i, writeCursor>>

\* The tuple's bytes stay where they are.
DeleteTuple(s) ==
    /\ pc = "idle"
    /\ s \in Live
    /\ slots' = [slots EXCEPT ![s] = Tombstone]
    /\ raw' = marshalSlot(raw, s, Tombstone)
    /\ UNCHANGED <<hdr, pc, i, writeCursor>>

CompactBegin ==
    /\ pc = "idle"
    /\ pc' = "compact"
    /\ i' = 0
    /\ writeCursor' = PageSize
    /\ UNCHANGED <<raw, hdr, slots>>

CompactSkip ==
    /\ pc = "compact"
    /\ i < hdr.NumSlots
    /\ isDeleted(slots[i])
    /\ i' = i + 1
    /\ UNCHANGED <<raw, hdr, slots, pc, writeCursor>>

\* Mutant: the entry is updated before the tuple it points at is read.
CompactMove_EntryFirst ==
    /\ pc = "compact"
    /\ i < hdr.NumSlots
    /\ ~ isDeleted(slots[i])
    /\ LET newOffset == writeCursor - slots[i].Length
           entry     == [slots[i] EXCEPT !.Offset = newOffset]
       IN  /\ raw' = marshalSlot(copyTuple(raw, newOffset, tupleAt(raw, entry)), i, entry)
           /\ slots' = [slots EXCEPT ![i] = entry]
           /\ writeCursor' = newOffset
    /\ i' = i + 1
    /\ UNCHANGED <<hdr, pc>>

CompactMove ==
    /\ pc = "compact"
    /\ i < hdr.NumSlots
    /\ ~ isDeleted(slots[i])
    /\ LET newOffset == writeCursor - slots[i].Length
           entry     == [slots[i] EXCEPT !.Offset = newOffset]
       IN  /\ raw' = marshalSlot(copyTuple(raw, newOffset, tupleAt(raw, slots[i])),
                                 i, entry)
           /\ slots' = [slots EXCEPT ![i] = entry]
           /\ writeCursor' = newOffset
    /\ i' = i + 1
    /\ UNCHANGED <<hdr, pc>>

\* Mutant: the slot array's end is reset with the tuples' start.
CompactEnd_ResetOffset ==
    /\ pc = "compact"
    /\ i = hdr.NumSlots
    /\ LET newHdr == [hdr EXCEPT !.FreeSpaceEnd = writeCursor, !.FreeSpaceOffset = HeaderSize]
       IN  /\ hdr' = newHdr
           /\ raw' = marshalHeader(raw, newHdr)
    /\ pc' = "idle"
    /\ i' = 0
    /\ writeCursor' = PageSize
    /\ UNCHANGED slots

CompactEnd ==
    /\ pc = "compact"
    /\ i = hdr.NumSlots
    /\ LET newHdr == [hdr EXCEPT !.FreeSpaceEnd = writeCursor]
       IN  /\ hdr' = newHdr
           /\ raw' = marshalHeader(raw, newHdr)
    /\ pc' = "idle"
    /\ i' = 0
    /\ writeCursor' = PageSize
    /\ UNCHANGED slots

(***************************************************************************)
(* Unmarshal parses the bytes Marshal wrote and checks their structure.    *)
(* The checksum is a function of the bytes that both recompute, so it      *)
(* agrees on a page that was not damaged on disk.                          *)
(***************************************************************************)
unmarshalHeader == raw[0]
unmarshalSlot(id) == raw[slotPos(id)]

Unmarshals ==
    LET h == unmarshalHeader
    IN  /\ h.FreeSpaceOffset >= HeaderSize
        /\ h.FreeSpaceEnd <= PageSize
        /\ h.FreeSpaceOffset <= h.FreeSpaceEnd
        /\ h.FreeSpaceOffset - HeaderSize = h.NumSlots * SlotSize
        /\ \A s \in 0 .. h.NumSlots - 1 :
              LET entry == unmarshalSlot(s)
              IN  ~ isDeleted(entry) => entry.Offset + entry.Length <= PageSize

\* The page is written to its file and read back, as the heap does around
\* every operation on it.
Reload ==
    /\ pc = "idle"
    /\ Unmarshals
    /\ hdr' = unmarshalHeader
    /\ slots' = [s \in 0 .. hdr'.NumSlots - 1 |-> unmarshalSlot(s)]
    /\ UNCHANGED <<raw, pc, i, writeCursor>>

Compact == CompactBegin \/ CompactSkip \/ CompactMove \/ CompactEnd

Next ==
    \/ \E data \in Data : InsertTuple(data)
    \/ \E s \in SlotIDs : DeleteTuple(s)
    \/ Compact
    \/ Reload

Spec == Init /\ [][Next]_vars

-----------------------------------------------------------------------------
\* The types of the variables: the bytes cover the page, the parsed slot array
\* has NumSlots entries, and Compact's cursor stays within the page.
TypeOK ==
    /\ raw \in [0 .. PageSize - 1 -> Cell]
    /\ hdr \in Header
    /\ slots \in [SlotIDs -> SlotEntry]
    /\ pc \in {"idle", "compact"}
    /\ i \in 0 .. hdr.NumSlots
    /\ writeCursor \in 0 .. PageSize

\* "The hdr and slots fields are the in-memory parsed view, kept in sync by
\* all mutating methods" (page.go:104-106): at any moment, inside Compact too, the
\* bytes decode to exactly the parsed header and slot array.
InSync ==
    /\ \A k \in 0 .. HeaderSize - 1 : raw[k] = hdr
    /\ \A s \in SlotIDs : \A k \in 0 .. SlotSize - 1 : raw[slotPos(s) + k] = slots[s]

\* Two live tuples never share a byte, and none reaches into the header, the
\* slot array or past the page: neither InsertTuple's arithmetic nor any
\* iteration of Compact, which moves tuples over each other's old bytes,
\* places one on top of another.
NoOverlap ==
    /\ \A s \in Live :
          /\ hdr.FreeSpaceOffset <= slots[s].Offset
          /\ slots[s].Offset + slots[s].Length <= PageSize
    /\ \A s, t \in Live :
          \/ s = t
          \/ slots[s].Offset + slots[s].Length <= slots[t].Offset
          \/ slots[t].Offset + slots[t].Length <= slots[s].Offset

\* A page the methods produced is always accepted when it is read back: no
\* sequence of inserts, deletes and compactions makes Unmarshal report
\* ErrInvalidPage.
ReadsBack == pc = "idle" => Unmarshals

\* Compact leaves no hole: when it returns, every byte from FreeSpaceEnd to
\* the end of the page belongs to a live tuple ("New tuples inserted after
\* compaction will reuse the recovered free space").
CompactPacks ==
    [][pc = "compact" /\ pc' = "idle" =>
        \A k \in hdr'.FreeSpaceEnd .. PageSize - 1 :
            \E s \in Live' :
                slots'[s].Offset <= k /\ k < slots'[s].Offset + slots'[s].Length]_vars

\* The page seen through GetTuple.
Store == INSTANCE SlotStore WITH
            count <- hdr.NumSlots,
            store <- [s \in SlotIDs |-> GetTuple(s)]

\* The page implements an append-only table of slots: a slot ID keeps naming
\* the bytes it was given for, through every other insert and delete, every
\* compaction step and every trip to disk, until it is deleted, and it is
\* never handed out again.
SlotIDsStable == Store!Spec
=============================================================================
