---------------------------- MODULE TableHandle ----------------------------
(***************************************************************************)
(* storage.TableHandle with its column indexes (storage/handle.go,         *)
(* storage/index.go).  One handle is shared by every goroutine that opened  *)
(* the table (DB.OpenTable caches it).  The handle has no lock of its own:  *)
(* each HeapFile method runs under h.mu and each Index method under idx.mu, *)
(* so a handle operation is a sequence of steps, one per lock acquisition,  *)
(* and the operations of two clients interleave between them.               *)
(*                                                                         *)
(* The heap is what HeapFile promises for rows that do not spill: a fresh   *)
(* RID per insert, taken in the last page, and a page count that is on disk *)
(* only after Flush or Close.  A column value is a member of Values (NULL   *)
(* is one of them: CompareValues makes two NULLs equal).                    *)
(***************************************************************************)
EXTENDS Integers, FiniteSets

CONSTANTS
    Clients,       \* goroutines that use the handle
    Values,        \* column values
    Uses,          \* the tables, and what their clients do
    Null           \* what is neither a row, a column nor the contents of a file

ASSUME TableAssumption ==
    \A u \in Uses :
        /\ u.unique \subseteq u.columns /\ u.indexed \subseteq u.columns
        /\ u.maxPages \in Nat \ {0} /\ u.slotsPerPage \in Nat \ {0}
        /\ u.scanRIDs \in BOOLEAN /\ u.crashes \in BOOLEAN
        /\ Null \notin u.columns /\ Null \notin [u.columns -> Values]

VARIABLES
    use,       \* the member of Uses of this behaviour
    rows,      \* the heap: a function from the RIDs handed out to a Row or Dead
    total,     \* meta.TotalPages - 1 in memory: the last data page
    diskTotal, \* the same on page 0 of the file
    indexes,   \* the keys of t.indexes
    tree,      \* idx.tree for every column of indexes
    dirty,     \* idx.dirty
    disk,      \* the .idx file of a column: a set of entries, or NoFile
    client,    \* the call each goroutine is in
    acked,     \* ghost: the RIDs a call has returned (after a crash: and that were flushed)
    flushed    \* ghost: the RIDs returned before a Flush that has returned

vars == <<use, rows, total, diskTotal, indexes, tree, dirty, disk, client, acked, flushed>>
heapVars == <<rows, total, diskTotal>>
indexVars == <<indexes, tree, dirty, disk>>
ghosts == <<acked, flushed>>

Columns == use.columns           \* columns that may be indexed
Unique == use.unique             \* the columns whose index is created UNIQUE
Indexed == use.indexed           \* the columns indexed when the table was created
MaxPages == use.maxPages         \* bound: data pages
SlotsPerPage == use.slotsPerPage \* rows that fit in one page
Ops == use.ops                   \* the operations the clients call
ScanRIDs == use.scanRIDs         \* may a client use a RID it read from Scan (not from a return value)?
Crashes == use.crashes           \* may the process crash?

Row == [Columns -> Values]
RIDs == (1..MaxPages) \X (1..SlotsPerPage)
Entries == Values \X RIDs
Dead == Null
NoFile == Null
NoRow == Null
NoCol == Null
NoRID == <<0, 0>>

\* A goroutine between two calls.  old, new and row are the call's locals,
\* done the indexes its range loop has visited, built the index CreateIndex
\* has not published yet.
Idle == [op |-> "idle", step |-> "", rid |-> NoRID, new |-> NoRID, row |-> NoRow,
         old |-> NoRow, col |-> NoCol, done |-> {}, todo |-> {}, built |-> {},
         seen |-> {}]

----------------------------------------------------------------------------
\* HeapFile

live == {r \in DOMAIN rows : rows[r] # Dead}

\* SlotCount of a page, whose slots are taken in order.
slots(p) == CHOOSE k \in 0..SlotsPerPage :
                \A s \in 1..SlotsPerPage : <<p, s>> \in DOMAIN rows <=> s <= k

\* insertEncoded: the next slot of the last page, else the first of a new one.
freshRID == IF slots(total) < SlotsPerPage THEN <<total, slots(total) + 1>>
                                           ELSE <<total + 1, 1>>

\* Bound: a call that will need a RID starts only when one is left for it.
room == Cardinality(DOMAIN rows) + Cardinality({p \in Clients : client[p].op = "Update" /\ client[p].step = "heap"})
          < MaxPages * SlotsPerPage

heapInsert(old, row) ==
    /\ rows' = [r \in DOMAIN rows \cup {freshRID} |->
                  CASE r = freshRID -> row [] r = old -> Dead [] OTHER -> rows[r]]
    /\ total' = freshRID[1]
    /\ UNCHANGED diskTotal

----------------------------------------------------------------------------
\* Index

\* Mutant: only the page of the RIDs is compared.
violates_PageOnly(c, entries, e) ==
    c \in Unique /\ \E f \in entries : f[1] = e[1] /\ f[2][1] # e[2][1]

\* Insert meets an entry with this value and another RID.
violates(c, entries, e) == c \in Unique /\ \E f \in entries : f[1] = e[1] /\ f[2] # e[2]

put(c, entries) == /\ tree' = [tree EXCEPT ![c] = entries]
                   /\ dirty' = [dirty EXCEPT ![c] = TRUE]
                   /\ UNCHANGED <<indexes, disk>>

Lookup(c, v) == {e[2] : e \in {f \in tree[c] : f[1] = v}}

\* save, if there is something to save.
saved(c) == IF dirty[c] THEN tree[c] ELSE disk[c]

----------------------------------------------------------------------------
Init == /\ use \in Uses
        /\ rows = <<>> /\ total = 1 /\ diskTotal = 1
        /\ indexes = Indexed
        /\ tree = [c \in Columns |-> {}]
        /\ dirty = [c \in Columns |-> FALSE]
        /\ disk = [c \in Columns |-> NoFile]
        /\ client = [p \in Clients |-> Idle]
        /\ acked = {} /\ flushed = {}

goto(p, fields) == client' = [client EXCEPT ![p] = fields]
Return(p) == goto(p, Idle)
at(p, op, step) == client[p].op = op /\ client[p].step = step

\* The RIDs a client can name.
usable == IF ScanRIDs THEN DOMAIN rows ELSE acked

\* for _, idx := range t.indexes: the loop visits every index that is in the
\* map from its start to its end; one that is added on the way may be visited.
visit(p, c) == c \in indexes \ client[p].done

\* Mutant: the loop ends after the first index.
looped_First(p) == client[p].todo \cap indexes = {} \/ client[p].done # {}

looped(p) == client[p].todo \cap indexes \subseteq client[p].done

----------------------------------------------------------------------------
\* Insert: heap.Insert, then idx.Insert for each index; on a violation the
\* heap row is removed again.

InsertHeap(p) ==
    /\ "Insert" \in Ops /\ client[p] = Idle /\ room
    /\ \E row \in Row :
         /\ heapInsert(NoRID, row)
         /\ goto(p, [Idle EXCEPT !.op = "Insert", !.step = "index", !.new = freshRID,
                                 !.row = row, !.todo = indexes])
    /\ UNCHANGED <<indexVars, ghosts>>

InsertIndex(p) ==
    /\ at(p, "Insert", "index")
    /\ \E c \in Columns :
         LET e == <<client[p].row[c], client[p].new>>
         IN  /\ visit(p, c)
             /\ IF violates(c, tree[c], e)
                THEN /\ goto(p, [client[p] EXCEPT !.step = "rollback"])
                     /\ UNCHANGED indexVars
                ELSE /\ goto(p, [client[p] EXCEPT !.done = @ \cup {c}])
                     /\ put(c, tree[c] \cup {e})
    /\ UNCHANGED <<heapVars, ghosts>>

InsertRollback(p) ==
    /\ at(p, "Insert", "rollback")
    /\ rows' = [rows EXCEPT ![client[p].new] = Dead]
    /\ Return(p)
    /\ UNCHANGED <<total, diskTotal, indexVars, ghosts>>

InsertReturn(p) ==
    /\ at(p, "Insert", "index") /\ looped(p)
    /\ acked' = acked \cup {client[p].new}
    /\ Return(p)
    /\ UNCHANGED <<heapVars, indexVars, flushed>>

----------------------------------------------------------------------------
\* Update and Delete read the old row first, but only when the table has an
\* index at that moment.

Get(p, op) ==
    /\ op \in Ops /\ client[p] = Idle
    /\ \E r \in usable, row \in IF op = "Update" THEN Row ELSE {NoRow} :
         /\ op = "Update" => room
         /\ indexes # {} => r \in live
         /\ goto(p, [Idle EXCEPT !.op = op, !.step = "heap", !.rid = r, !.row = row,
                                 !.old = IF indexes # {} THEN rows[r] ELSE NoRow])
    /\ UNCHANGED <<heapVars, indexVars, ghosts>>

UpdateGet(p) == Get(p, "Update")

\* heap.Update fails with ErrDeletedSlot when the row is gone by now.
UpdateHeap(p) ==
    /\ at(p, "Update", "heap")
    /\ \/ /\ client[p].rid \in live
          /\ heapInsert(client[p].rid, client[p].row)
          /\ goto(p, [client[p] EXCEPT !.step = "delete", !.new = freshRID, !.todo = indexes])
       \/ /\ client[p].rid \notin live
          /\ Return(p)
          /\ UNCHANGED heapVars
    /\ UNCHANGED <<indexVars, ghosts>>

\* Mutant: the entry is looked for under the new value.
UpdateIndexDelete_NewValue(p) ==
    /\ at(p, "Update", "delete") /\ client[p].old # NoRow
    /\ \E c \in Columns :
         /\ visit(p, c)
         /\ put(c, tree[c] \ {<<client[p].row[c], client[p].rid>>})
         /\ goto(p, [client[p] EXCEPT !.step = "insert", !.col = c])
    /\ UNCHANGED <<heapVars, ghosts>>

UpdateIndexDelete(p) ==
    /\ at(p, "Update", "delete") /\ client[p].old # NoRow
    /\ \E c \in Columns :
         /\ visit(p, c)
         /\ put(c, tree[c] \ {<<client[p].old[c], client[p].rid>>})
         /\ goto(p, [client[p] EXCEPT !.step = "insert", !.col = c])
    /\ UNCHANGED <<heapVars, ghosts>>

\* _ = idx.Insert(...): a unique violation is dropped.  If the index has left
\* the map in between (col is NoCol) the entry goes to an object nobody reads.
UpdateIndexInsert(p) ==
    /\ at(p, "Update", "insert")
    /\ LET c == client[p].col
           e == <<client[p].row[c], client[p].new>>
       IN  /\ goto(p, [client[p] EXCEPT !.step = "delete", !.col = NoCol, !.done = @ \cup {c}])
           /\ IF c \notin indexes \/ violates(c, tree[c], e)
              THEN UNCHANGED indexVars
              ELSE put(c, tree[c] \cup {e})
    /\ UNCHANGED <<heapVars, ghosts>>

\* oldRow is nil because there was no index when the call began: indexing it
\* panics; the HTTP server recovers and drops the request.
UpdatePanic(p) ==
    /\ at(p, "Update", "delete") /\ client[p].old = NoRow
    /\ \E c \in Columns : visit(p, c)
    /\ Return(p)
    /\ UNCHANGED <<heapVars, indexVars, ghosts>>

UpdateReturn(p) ==
    /\ at(p, "Update", "delete") /\ looped(p)
    /\ acked' = acked \cup {client[p].new}
    /\ Return(p)
    /\ UNCHANGED <<heapVars, indexVars, flushed>>

DeleteGet(p) == Get(p, "Delete")

DeleteHeap(p) ==
    /\ at(p, "Delete", "heap")
    /\ \/ /\ client[p].rid \in live
          /\ rows' = [rows EXCEPT ![client[p].rid] = Dead]
          /\ goto(p, [client[p] EXCEPT !.step = "delete", !.todo = indexes])
       \/ /\ client[p].rid \notin live
          /\ Return(p)
          /\ UNCHANGED rows
    /\ UNCHANGED <<total, diskTotal, indexVars, ghosts>>

DeleteIndex(p) ==
    /\ at(p, "Delete", "delete") /\ client[p].old # NoRow
    /\ \E c \in Columns :
         /\ visit(p, c)
         /\ put(c, tree[c] \ {<<client[p].old[c], client[p].rid>>})
         /\ goto(p, [client[p] EXCEPT !.done = @ \cup {c}])
    /\ UNCHANGED <<heapVars, ghosts>>

DeletePanic(p) ==
    /\ at(p, "Delete", "delete") /\ client[p].old = NoRow
    /\ \E c \in Columns : visit(p, c)
    /\ Return(p)
    /\ UNCHANGED <<heapVars, indexVars, ghosts>>

DeleteReturn(p) ==
    /\ at(p, "Delete", "delete") /\ looped(p)
    /\ Return(p)
    /\ UNCHANGED <<heapVars, indexVars, ghosts>>

----------------------------------------------------------------------------
\* CreateIndex fills a private index under h.mu, checkpoints it (no file is
\* written for an index without entries: it is not dirty) and publishes it.

scanned(c) == {<<rows[r][c], r>> : r \in live}

CreateIndexBuild(p) ==
    /\ "CreateIndex" \in Ops /\ client[p] = Idle
    /\ \E c \in Columns \ indexes :
         LET loaded == IF disk[c] = NoFile THEN {} ELSE disk[c]
             built  == loaded \cup scanned(c)
         IN  /\ \A e \in scanned(c) : ~violates(c, built, e)
             /\ disk' = [disk EXCEPT ![c] = IF live = {} THEN @ ELSE built]
             /\ goto(p, [Idle EXCEPT !.op = "CreateIndex", !.col = c, !.built = built])
    /\ UNCHANGED <<heapVars, indexes, tree, dirty, ghosts>>

CreateIndexPublish(p) ==
    /\ client[p].op = "CreateIndex"
    /\ LET c == client[p].col
       IN  /\ indexes' = indexes \cup {c}
           /\ tree' = [tree EXCEPT ![c] = client[p].built]
           /\ dirty' = [dirty EXCEPT ![c] = FALSE]
    /\ Return(p)
    /\ UNCHANGED <<heapVars, disk, ghosts>>

\* The locals of a call in whose range loop the index on c disappears: the loop
\* need not visit an index that replaces it, and an idx.Insert that is still to
\* come goes to the object that has left the map.
dropped(call, c) ==
    [call EXCEPT !.todo = @ \ {c}, !.done = @ \ {c},
                 !.col = IF call.op = "Update" /\ @ = c THEN NoCol ELSE @]

\* DropIndex takes the index out of the map and saves it (Close), then removes
\* its file.
DropIndexUnlink(p) ==
    /\ "DropIndex" \in Ops /\ client[p] = Idle
    /\ \E c \in indexes :
         /\ indexes' = indexes \ {c}
         /\ disk' = [disk EXCEPT ![c] = saved(c)]
         /\ tree' = [tree EXCEPT ![c] = {}]
         /\ dirty' = [dirty EXCEPT ![c] = FALSE]
         /\ client' = [q \in Clients |-> IF q = p
                                          THEN [Idle EXCEPT !.op = "DropIndex", !.col = c]
                                          ELSE dropped(client[q], c)]
    /\ UNCHANGED <<heapVars, ghosts>>

DropIndexRemove(p) ==
    /\ client[p].op = "DropIndex"
    /\ disk' = [disk EXCEPT ![client[p].col] = NoFile]
    /\ Return(p)
    /\ UNCHANGED <<heapVars, indexes, tree, dirty, ghosts>>

----------------------------------------------------------------------------
\* Flush: heap.Flush, then Checkpoint for each index.

\* Mutant: the page count is not written.
FlushHeap_NoMeta(p) ==
    /\ "Flush" \in Ops /\ client[p] = Idle
    /\ goto(p, [Idle EXCEPT !.op = "Flush", !.todo = indexes, !.seen = acked])
    /\ UNCHANGED <<heapVars, indexVars, ghosts>>

FlushHeap(p) ==
    /\ "Flush" \in Ops /\ client[p] = Idle
    /\ diskTotal' = total
    /\ goto(p, [Idle EXCEPT !.op = "Flush", !.todo = indexes, !.seen = acked])
    /\ UNCHANGED <<rows, total, indexVars, ghosts>>

FlushIndex(p) ==
    /\ client[p].op = "Flush"
    /\ \E c \in Columns :
         /\ visit(p, c)
         /\ disk' = [disk EXCEPT ![c] = saved(c)]
         /\ dirty' = [dirty EXCEPT ![c] = FALSE]
         /\ goto(p, [client[p] EXCEPT !.done = @ \cup {c}])
    /\ UNCHANGED <<heapVars, indexes, tree, ghosts>>

FlushReturn(p) ==
    /\ client[p].op = "Flush" /\ looped(p)
    /\ flushed' = flushed \cup client[p].seen
    /\ Return(p)
    /\ UNCHANGED <<heapVars, indexVars, acked>>

----------------------------------------------------------------------------
\* DB.OpenTable attaches every index file it finds.
openTable(files) ==
    /\ indexes' = {c \in Columns : files[c] # NoFile}
    /\ tree' = [c \in Columns |-> IF files[c] = NoFile THEN {} ELSE files[c]]
    /\ dirty' = [c \in Columns |-> FALSE]
    /\ disk' = files
    /\ client' = [p \in Clients |-> Idle]

\* DB.Close with no call in flight (closeHeap: Close of every index, then of
\* the heap, which writes the page count), then OpenTable.
Reopen ==
    /\ \A p \in Clients : client[p] = Idle
    /\ diskTotal' = total
    /\ openTable([c \in Columns |-> IF c \in indexes THEN saved(c) ELSE disk[c]])
    /\ UNCHANGED <<rows, total, ghosts>>

\* The process dies and the table is opened again.  Pages written are in the
\* file; those past the page count on page 0 are lost.
Crash ==
    LET kept == {r \in DOMAIN rows : r[1] <= diskTotal}
    IN  /\ Crashes
        /\ rows' = [r \in kept |-> rows[r]]
        /\ total' = diskTotal
        /\ acked' = flushed
        /\ openTable(disk)
        /\ UNCHANGED <<diskTotal, flushed>>

Step(p) ==
    \/ InsertHeap(p) \/ InsertIndex(p) \/ InsertRollback(p) \/ InsertReturn(p)
    \/ UpdateGet(p) \/ UpdateHeap(p) \/ UpdateIndexDelete(p) \/ UpdateIndexInsert(p)
    \/ UpdatePanic(p) \/ UpdateReturn(p)
    \/ DeleteGet(p) \/ DeleteHeap(p) \/ DeleteIndex(p) \/ DeletePanic(p) \/ DeleteReturn(p)
    \/ CreateIndexBuild(p) \/ CreateIndexPublish(p)
    \/ DropIndexUnlink(p) \/ DropIndexRemove(p)
    \/ FlushHeap(p) \/ FlushIndex(p) \/ FlushReturn(p)

Next == ((\E p \in Clients : Step(p)) \/ Reopen \/ Crash) /\ UNCHANGED use

Spec == Init /\ [][Next]_vars

----------------------------------------------------------------------------
\* Properties

\* The types of the variables.  Every entry of an index names a RID the heap
\* has handed out and every index file belongs to a column of the table.
TypeOK ==
    /\ DOMAIN rows \subseteq RIDs /\ \A r \in DOMAIN rows : rows[r] \in Row \cup {Dead}
    /\ total \in 1..MaxPages /\ diskTotal \in 1..total
    /\ indexes \subseteq Columns
    /\ tree \in [Columns -> SUBSET Entries]
    /\ dirty \in [Columns -> BOOLEAN]
    /\ \A c \in Columns : disk[c] # NoFile => disk[c] \subseteq Entries
    /\ acked \subseteq DOMAIN rows /\ flushed \subseteq acked

\* "LookupExact returns all RIDs whose value for colName equals val"
\* (handle.go:236): a live row is found under its value in every index, from
\* the moment the call that wrote it has returned until the row is deleted,
\* whatever the other clients are doing, as long as the set of indexes stays
\* the same and no Update meets a unique index.
Findable ==
    ~Crashes /\ "CreateIndex" \notin Ops /\ ("Update" \in Ops => Unique = {}) =>
    \A c \in indexes, r \in live :
        r \in Lookup(c, rows[r][c]) \/ \E p \in Clients : client[p].new = r

\* "Open indexes are updated by removing the corresponding entry" (Delete,
\* handle.go:101-102; Update and the rollback of Insert likewise).  An entry that
\* names a live row carries that row's value, which RangeScan and the index scans
\* of the query engine do not look at again.  An entry whose row is not in the
\* heap is one that a call in progress is about to remove, when clients use the
\* RIDs that calls returned to them.
EntriesTrue ==
    \A c \in indexes : \A e \in tree[c] :
        IF e[2] \in live THEN Crashes \/ rows[e[2]][c] = e[1]
        ELSE ScanRIDs \/ \E p \in Clients : e[2] \in {client[p].rid, client[p].new}

\* "If unique is true, the index enforces one RID per distinct value"
\* (handle.go:150-151): two rows whose inserts have both returned differ in
\* every column with a unique index.
UniqueRows ==
    \A c \in indexes \cap Unique : \A q, r \in acked \cap live :
        rows[q][c] = rows[r][c] => q = r

\* CreateIndex is "persisting it to <tableName>.<colName>.idx"
\* (handle.go:149-150): an index that is open has a file, so that opening the
\* table again finds it.
IndexHasFile == \A c \in indexes : disk[c] # NoFile

\* "Flush syncs the heap and all indexes to disk, ensuring all previous writes
\* are durable" (handle.go:289-290): a row whose insert or update returned
\* before a Flush began is in the heap after any crash that follows, and every
\* index attached then finds it.
FlushDurable ==
    \A r \in flushed :
        /\ r \in DOMAIN rows
        /\ r \in live => \A c \in indexes : r \in Lookup(c, rows[r][c])
=============================================================================
