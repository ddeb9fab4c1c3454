----------------------------- MODULE IndexFile ------------------------------
(***************************************************************************)
(* One index (storage/index.go): the tree of entries in memory, ordered by  *)
(* compareIndexEntry, and its file.  save writes header and entries to a    *)
(* temporary file, syncs it and renames it over the index file; any of      *)
(* these steps may fail, and the machine may stop at any time.  A file that *)
(* was not synced loses an arbitrary tail then.  save does not sync the     *)
(* directory: its rename is on disk when the file system has written the    *)
(* directory, and until then a stop may bring back a file it replaced.      *)
(*                                                                         *)
(* An entry in the file is its RID, its kind and the bytes of its value; a  *)
(* checksum is the very data it was computed from.                          *)
(***************************************************************************)
EXTENDS Index

CONSTANTS RIDs,    \* positive numbers, in the order of RIDs
          Uses     \* the situations explored: [keys, maxEntries, maxPast]

VARIABLES use,     \* one of Uses
          idx,     \* the open Index: [tree, unique, dirty], or Closed
          saving,  \* the next step of save
          tmp,     \* the temporary file: a File or NoFile
          file,    \* the index file: a File or NoFile
          saved,   \* what the save that wrote file was to write, or Closed
          past     \* the versions [file, saved] replaced by renames not on disk

ivars == <<use, idx, saving, tmp, file, saved, past>>

Keys == use.keys               \* the values that are indexed
MaxEntries == use.maxEntries   \* bound: entries of the tree
MaxPast == use.maxPast         \* bound: renames that are not on disk

Closed == [tree |-> {}, unique |-> FALSE, dirty |-> FALSE, open |-> FALSE]
NoFile == [header |-> <<>>, data |-> <<>>, synced |-> TRUE]

----------------------------------------------------------------------------
\* The file

\* Mutant: the length of a string is written into one byte.
writeValueData_Uint8(v) ==
    CASE v.kind = KindNull -> <<>>
      [] IsFixedLength(v.kind) -> encodeFixed(v, v.kind)
      [] v.kind \in {KindVarchar, KindText} -> PutUint(Len(v.strVal) % Byte, 2) \o v.strVal

writeValueData(v) ==
    CASE v.kind = KindNull -> <<>>
      [] IsFixedLength(v.kind) -> encodeFixed(v, v.kind)
      [] v.kind \in {KindVarchar, KindText} -> PutUint(Len(v.strVal), 2) \o v.strVal

writeEntry(e) == <<e.rid, e.value.kind>> \o writeValueData(e.value)

\* The value at off, and the number of cells it takes; -1 when they are not there.
readValueData(data, off, kind) ==
    LET left == Len(data) - off
        size == IF kind = KindNull THEN 0
                ELSE IF IsFixedLength(kind) THEN FixedSize(kind)
                ELSE IF left < 2 THEN left + 1
                ELSE 2 + Uint(data, off, 2)
    IN  IF size > left THEN [value |-> NewNullValue, size |-> -1]
        ELSE [size |-> size,
              value |-> IF kind = KindNull THEN NewNullValue
                        ELSE IF IsFixedLength(kind) THEN decodeFixed(data, off, kind)
                        ELSE stringValue(kind, SubSeq(data, off + 3, off + size))]

\* n entries from the start of data.
readEntries(data, n) ==
    LET step(acc, i) ==
            IF ~acc.ok \/ acc.off + 2 > Len(data) THEN [acc EXCEPT !.ok = FALSE]
            ELSE LET r == readValueData(data, acc.off + 2, data[acc.off + 2])
                 IN  IF r.size < 0 THEN [acc EXCEPT !.ok = FALSE]
                     ELSE [ok |-> TRUE, off |-> acc.off + 2 + r.size,
                           tree |-> ReplaceOrInsert(acc.tree, entry(r.value, data[acc.off + 1]))]
    IN  FoldLeft(step, [ok |-> TRUE, off |-> 0, tree |-> {}], [i \in 1..n |-> i])

fileData(tree) == LET s == Ascend(tree) IN FlattenSeq([i \in DOMAIN s |-> writeEntry(s[i])])
fileHeader(i) == <<2, IF i.unique THEN 1 ELSE 0, fileData(i.tree), Cardinality(i.tree)>>

\* Version 1 files, which save no longer writes, have no checksum.
load(f) ==
    IF Len(f.header) < 4 \/ f.header[3] # f.data
    THEN [ok |-> FALSE, tree |-> {}, unique |-> FALSE]
    ELSE LET r == readEntries(f.data, f.header[4])
         IN  [ok |-> r.ok, tree |-> r.tree, unique |-> f.header[2] = 1]

----------------------------------------------------------------------------
\* The machine

IndexInit == /\ use \in Uses
             /\ idx = Closed
             /\ saving = "idle"
             /\ tmp = NoFile
             /\ file = NoFile
             /\ saved = Closed
             /\ past = <<>>

Opened(tree, u) == [tree |-> tree, unique |-> u, dirty |-> FALSE, open |-> TRUE]

\* The flag of the caller counts only for a new file.
OpenIndex(unique) ==
    /\ ~idx.open
    /\ \/ file = NoFile /\ idx' = Opened({}, unique)
       \/ file # NoFile /\ load(file).ok /\ idx' = Opened(load(file).tree, load(file).unique)
    /\ UNCHANGED <<saving, tmp, file, saved, past>>

Busy == saving # "idle"

\* A value that violates uniqueness is refused and nothing changes.
Insert(v, r) ==
    /\ idx.open /\ ~Busy
    /\ ~(idx.unique /\ Violates(idx.tree, v, r))
    /\ LET t == ReplaceOrInsert(idx.tree, entry(v, r))
       IN  /\ Cardinality(t) <= MaxEntries
           /\ idx' = [idx EXCEPT !.tree = t, !.dirty = TRUE]
    /\ UNCHANGED <<saving, tmp, file, saved, past>>

\* Marks the index dirty even when the entry is not there.
Delete(v, r) ==
    /\ idx.open /\ ~Busy
    /\ idx' = [idx EXCEPT !.tree = TreeDelete(@, entry(v, r)), !.dirty = TRUE]
    /\ UNCHANGED <<saving, tmp, file, saved, past>>

\* Checkpoint, and Close of a dirty index, begin with os.Create.
SaveCreate ==
    /\ idx.open /\ ~Busy /\ idx.dirty
    /\ saving' = "header"
    /\ tmp' = [header |-> <<>>, data |-> <<>>, synced |-> FALSE]
    /\ UNCHANGED <<idx, file, saved, past>>

SaveHeader ==
    /\ saving = "header"
    /\ tmp' = [tmp EXCEPT !.header = fileHeader(idx)]
    /\ saving' = "entries"
    /\ UNCHANGED <<idx, file, saved, past>>

SaveEntries ==
    /\ saving = "entries"
    /\ tmp' = [tmp EXCEPT !.data = fileData(idx.tree)]
    /\ saving' = "sync"
    /\ UNCHANGED <<idx, file, saved, past>>

\* Mutant: the file is renamed without Sync.
SaveSync_Skip ==
    /\ saving = "sync"
    /\ saving' = "rename"
    /\ UNCHANGED <<idx, tmp, file, saved, past>>

SaveSync ==
    /\ saving = "sync"
    /\ tmp' = [tmp EXCEPT !.synced = TRUE]
    /\ saving' = "rename"
    /\ UNCHANGED <<idx, file, saved, past>>

version == [file |-> file, saved |-> saved]

SaveRename ==
    /\ saving = "rename" /\ Len(past) < MaxPast
    /\ past' = Append(past, version)
    /\ file' = tmp
    /\ tmp' = NoFile
    /\ idx' = [idx EXCEPT !.dirty = FALSE]
    /\ saved' = [idx EXCEPT !.dirty = FALSE]
    /\ saving' = "idle"

\* Any of the five calls fails: the temporary file is removed, the index stays dirty.
SaveFails ==
    /\ Busy
    /\ tmp' = NoFile
    /\ saving' = "idle"
    /\ UNCHANGED <<idx, file, saved, past>>

\* Close of a clean index; of a dirty one, after its save.
Close ==
    /\ idx.open /\ ~Busy /\ ~idx.dirty
    /\ idx' = Closed
    /\ UNCHANGED <<saving, tmp, file, saved, past>>

\* What is left of a file that was not synced.
Torn(f) == IF f.synced THEN {f}
           ELSE {[header |-> h, data |-> SubSeq(f.data, 1, n), synced |-> TRUE] :
                    h \in {<<>>, f.header}, n \in 0..Len(f.data)}

\* The file system writes one more rename to disk.
DirWritten ==
    /\ past # <<>>
    /\ past' = Tail(past)
    /\ UNCHANGED <<idx, saving, tmp, file, saved>>

\* The machine stops, with the index open or not.  Renames that are not on disk
\* may be undone, from the last one back.  A temporary file that is left over is
\* read by nobody, and os.Create empties it.
Crash ==
    /\ idx' = Closed
    /\ saving' = "idle"
    /\ tmp' = NoFile
    /\ \E v \in ToSet(past) \cup {version} : file' \in Torn(v.file) /\ saved' = v.saved
    /\ past' = <<>>

IndexStep ==
    \/ \E u \in BOOLEAN : OpenIndex(u)
    \/ \E v \in Keys, r \in RIDs : Insert(v, r)
    \/ \E v \in Keys, r \in RIDs : Delete(v, r)
    \/ SaveCreate
    \/ SaveHeader
    \/ SaveEntries
    \/ SaveSync
    \/ SaveRename
    \/ SaveFails
    \/ Close
    \/ DirWritten
    \/ Crash

IndexNext == IndexStep /\ UNCHANGED use

IndexSpec == IndexInit /\ [][IndexNext]_ivars

----------------------------------------------------------------------------
\* Properties

\* The index file loads, and what it loads is the tree and the flag of one save
\* that came to its end: the last one, or after a stop of the machine an earlier
\* one whose successors' renames were not on disk.  No stop inside or after save
\* (index.go:254) and no failed call of it leaves a file that OpenIndex refuses,
\* that is a mixture of two, or none where there was one on disk.  An index that
\* Checkpoint and Close would not write (dirty is FALSE, index.go:158) holds what
\* opening its file again would give.
FileIsSaved ==
    /\ \A v \in ToSet(past) \cup {version} :
          IF v.file = NoFile THEN v.saved = Closed
          ELSE load(v.file) = [ok |-> TRUE, tree |-> v.saved.tree, unique |-> v.saved.unique]
    /\ idx.open /\ ~idx.dirty => idx.tree = IF file = NoFile THEN {} ELSE load(file).tree

\* What a save has written stays until another one: "Flush syncs the heap and all
\* indexes to disk, ensuring all previous writes are durable" (handle.go:289-290).
\* True of a process that dies; a stop of the machine may undo the rename.
SavedStays == [][saved' # saved => saving = "rename"]_ivars

\* Lookup and RangeScan (index.go:203, 222), which descend to a pivot and stop at
\* the first entry outside, return every entry in the bounds and no other; and a
\* unique index has one entry per value, although Insert (index.go:174) looks at
\* one entry only and the flag may come from the file.
SearchExact ==
    LET bounds == Keys \cup {NoBound}
        inside(e, lo, hi) == /\ lo # NoBound => CompareValues(lo, e.value) <= 0
                             /\ hi # NoBound => CompareValues(e.value, hi) <= 0
    IN  /\ \A lo, hi \in bounds :
             /\ ToSet(RangeScan(idx.tree, lo, hi)) = {e \in idx.tree : inside(e, lo, hi)}
             /\ lo # NoBound => ToSet(Lookup(idx.tree, lo)) =
                                    {e.rid : e \in {x \in idx.tree : inside(x, lo, lo)}}
        /\ idx.unique => \A a, b \in idx.tree : CompareValues(a.value, b.value) = 0 => a = b
=============================================================================
