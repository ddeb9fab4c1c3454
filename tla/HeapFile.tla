------------------------------ MODULE HeapFile ------------------------------
(***************************************************************************)
(* The heap of a table (storage/heap.go, storage/overflow.go): pages in a  *)
(* file, page 0 holding the metadata, rows on data pages, and TEXT values  *)
(* too long for their row in chains of overflow pages that are recycled    *)
(* through a free list.                                                    *)
(*                                                                         *)
(* A method runs under HeapFile.mu, so no other method sees its            *)
(* intermediate states; the disk does.  A call is therefore one step that  *)
(* computes the writes the method issues, followed by one step per write,  *)
(* and the process may die between two of them.  A write that was issued   *)
(* survives the death of the process.                                      *)
(*                                                                         *)
(* Page contents are abstracted to what the methods tell apart: the tuples *)
(* of the slots and the bytes in use (module Page has the bytes).  The     *)
(* text of column c of row r is the sequence of its chunks <<r, c, 1>>,    *)
(* <<r, c, 2>>, ...                                                        *)
(***************************************************************************)
EXTENDS Integers, Sequences, FiniteSets, Functions, Folds

CONSTANTS
    PageCap,        \* bytes of a page after its header (PageSize - HeaderSize)
    SlotSize,       \* bytes of a slot entry
    LinkSize,       \* bytes of the page ID at the start of an overflow body
    Uses            \* what a heap may be used for

Null == -1
RowType == [id : STRING, base : Nat, texts : Seq(Nat \cup {Null}), valid : BOOLEAN]

ASSUME HeapAssumption ==
    /\ \A n \in {PageCap, SlotSize, LinkSize} : n \in Nat
    /\ SlotSize + LinkSize < PageCap
    /\ \A u \in Uses : /\ u.maxPages \in Nat /\ u.maxCalls \in Nat
                       /\ \A row \in u.rows : row \in RowType
                       /\ u.afterClose \in BOOLEAN

VARIABLES
    use,        \* the member of Uses of this behaviour
    file,       \* page ID -> page: what is on disk
    meta,       \* HeapFile.meta: [TotalPages, FreeListHead]
    metaDirty,
    handle,     \* "none": no HeapFile; "open"; "closed": Close was called
    call,       \* the method that holds HeapFile.mu, or Idle
    pending,    \* the writes it has still to issue
    calls,      \* mutating calls so far
    table,      \* RID -> row ID: the rows callers were told are stored
    durable,    \* the part of table that a Flush or a Close covered
    dead        \* RIDs of rows that were deleted

vars == <<use, file, meta, metaDirty, handle, call, pending, calls, table, durable, dead>>

Rows == use.rows                \* the rows callers store (see RowType)
MaxPages == use.maxPages        \* bound: pages a heap may grow to
MaxCalls == use.maxCalls        \* bound: mutating calls in a behaviour
CrashDuring == use.crash        \* methods in which the process may die; "idle": between two
UseAfterClose == use.afterClose \* whether a caller keeps using a heap that was closed

Idle == [op |-> "idle"]
DeletedSlot == [tomb |-> TRUE]
NoRID == [page |-> 0, slot |-> 0]
RowOf(id) == CHOOSE row \in Rows : row.id = id
With(f, x, y) == [z \in DOMAIN f \cup {x} |-> IF z = x THEN y ELSE f[z]]
Without(f, S) == [x \in DOMAIN f \ S |-> f[x]]

\* Step after step for 1, 2, ..., n.
Loop(n, start, step(_, _)) ==
    MapThenFoldSet(LAMBDA j, acc : step(acc, j), start, LAMBDA j : j,
                   LAMBDA S : CHOOSE j \in S : \A k \in S : k <= j, 1 .. n)

-----------------------------------------------------------------------------
(***************************************************************************)
(* Pages.  Slot s of the code is slots[s + 1].                             *)
(***************************************************************************)
NewPage(type) == [type |-> type, slots |-> << >>, used |-> 0]

FreeSpace(pg) == PageCap - SlotSize * Len(pg.slots) - pg.used

Fits(pg, size) == FreeSpace(pg) >= SlotSize + size

InsertTuple(pg, tuple) ==
    [pg EXCEPT !.slots = Append(@, tuple), !.used = @ + tuple.size]

LiveSlots(pg) == {s \in DOMAIN pg.slots : pg.slots[s] # DeletedSlot}

Compact(pg) ==
    [pg EXCEPT !.used = SumFunction([s \in DOMAIN pg.slots |->
                                   IF s \in LiveSlots(pg) THEN pg.slots[s].size ELSE 0])]

DeleteTuple(pg, slot) == [pg EXCEPT !.slots[slot + 1] = DeletedSlot]

MetaTuple(total, free) == [TotalPages |-> total, FreeListHead |-> free, size |-> 2 * LinkSize]
MetaPage(m) == InsertTuple(NewPage("Meta"), MetaTuple(m.TotalPages, m.FreeListHead))

maxTupleSize == PageCap - SlotSize
overflowChunkSize == PageCap - SlotSize - LinkSize

(***************************************************************************)
(* A method works on the heap h: the file as it will be once its writes    *)
(* are issued, the writes, the cached metadata, and whether no error has   *)
(* ended the method yet.                                                   *)
(***************************************************************************)
heap == [file |-> file, writes |-> << >>, total |-> meta.TotalPages,
         free |-> meta.FreeListHead, dirty |-> metaDirty, ok |-> TRUE,
         ids |-> << >>, at |-> 0, rid |-> NoRID]

Fail(h) == [h EXCEPT !.ok = FALSE]

writePage(h, id, pg) ==
    [h EXCEPT !.file = With(@, id, pg), !.writes = Append(@, <<id, pg>>)]

\* Whether slot 0 of a page can be read as an overflow body, and the page ID
\* it starts with.  The first bytes of a row are no page ID; read as one they
\* name a page outside the file.
HasBody(h, id) == id \in DOMAIN h.file /\ 1 \in LiveSlots(h.file[id])
Link(h, id) ==
    LET body == h.file[id].slots[1]
    IN  IF "next" \in DOMAIN body THEN body.next ELSE MaxPages + 1

allocateFreePage(h) ==
    IF h.free = 0
    THEN [h EXCEPT !.total = @ + 1, !.dirty = TRUE, !.ids = Append(@, h.total)]
    ELSE IF HasBody(h, h.free)
         THEN [h EXCEPT !.free = Link(h, h.free), !.dirty = TRUE, !.ids = Append(@, h.free)]
         ELSE Fail(h)

numPages(len) ==
    LET n == (len + overflowChunkSize - 1) \div overflowChunkSize
    IN  IF n = 0 THEN 1 ELSE n

Chunk(rowID, col, len, j) == [text |-> <<rowID, col, j>>,
                              len  |-> IF j < numPages(len) THEN overflowChunkSize
                                       ELSE len - (j - 1) * overflowChunkSize]

\* All pages are allocated first, then written from the last to the first.
writeOverflowChain(h, rowID, col, len) ==
    LET n == numPages(len)
        a == Loop(n, [h EXCEPT !.ids = << >>],
                  LAMBDA acc, j : IF acc.ok THEN allocateFreePage(acc) ELSE acc)
        body(j) == LET chunk == Chunk(rowID, col, len, j)
                   IN  [next |-> IF j < n THEN a.ids[j + 1] ELSE 0,
                        chunk |-> chunk.text, size |-> LinkSize + chunk.len]
    IN  IF ~ a.ok THEN a
        ELSE Loop(n, a, LAMBDA acc, j : writePage(acc, a.ids[n + 1 - j],
                                            InsertTuple(NewPage("Overflow"), body(n + 1 - j))))

\* Every page of the chain is pushed on the free list; only the link at the
\* start of its slot 0 is overwritten.
freeOverflowChain(h, first) ==
    LET push(acc) ==
            [writePage(acc, acc.at,
                       [acc.file[acc.at] EXCEPT !.slots[1] = With(@, "next", acc.free)])
                EXCEPT !.free = acc.at, !.dirty = TRUE, !.at = Link(acc, acc.at)]
        step(acc, j) ==
            IF ~ acc.ok \/ acc.at = 0 THEN acc
            ELSE IF HasBody(acc, acc.at) THEN push(acc) ELSE Fail(acc)
    IN  Loop(2 * MaxPages, [h EXCEPT !.at = first], step)

\* Mutant: only the first column's chain is freed.
freeRowOverflow_FirstColumn(h, tuple) ==
    IF "over" \notin DOMAIN tuple \/ 1 \notin DOMAIN tuple.over THEN h
    ELSE freeOverflowChain(h, tuple.over[1])

\* Columns in order, as scanOverflowPageIDs lists them.
freeRowOverflow(h, tuple) ==
    IF "over" \notin DOMAIN tuple \/ DOMAIN tuple.over = {} THEN h
    ELSE Loop(Len(RowOf(tuple.row).texts), h,
              LAMBDA acc, c : IF acc.ok /\ c \in DOMAIN tuple.over
                              THEN freeOverflowChain(acc, tuple.over[c]) ELSE acc)

\* Chunks of a chain, in order; an error is a result no text has.
readOverflowChain(h, first) ==
    LET step(acc, j) ==
            IF acc.at = 0 \/ ~ acc.ok THEN acc
            ELSE IF acc.at \in acc.seen \/ ~ HasBody(h, acc.at)
                    \/ "chunk" \notin DOMAIN h.file[acc.at].slots[1]
                 THEN [acc EXCEPT !.ok = FALSE]
                 ELSE [acc EXCEPT !.at = Link(h, acc.at), !.seen = @ \cup {acc.at},
                                  !.text = Append(@, h.file[acc.at].slots[1].chunk)]
        end == Loop(MaxPages + 1, [at |-> first, seen |-> {}, text |-> << >>, ok |-> TRUE], step)
    IN  IF end.ok THEN end.text ELSE <<"error">>

(***************************************************************************)
(* Rows.  A stored tuple is its row, its size and, per spilled column, the *)
(* first page of the chain.                                                *)
(***************************************************************************)
LenOf(text) == IF text = Null THEN 0 ELSE text
Inline(row, over) ==
    row.base + SumFunction([c \in DOMAIN row.texts |->
                          IF c \in DOMAIN over THEN 0 ELSE LenOf(row.texts[c])])

Spillable(row) == {c \in DOMAIN row.texts : row.texts[c] # Null}

\* A row that fits is encoded at once.  Of another, TEXT columns are spilled one
\* after the other until it fits; if it does not even then, or has none, it is
\* rejected, after its chains were written.
spilledTo(over, c, w) == [h |-> w, over |-> IF w.ok THEN With(over, c, w.ids[1]) ELSE over]

encoded(row, e) ==
    [h     |-> IF Inline(row, e.over) > maxTupleSize THEN Fail(e.h) ELSE e.h,
     tuple |-> [row |-> row.id, over |-> e.over, size |-> Inline(row, e.over)]]

encodeWithOverflow(h, row) ==
    LET spill(acc, c) ==
            IF ~ acc.h.ok \/ c \notin Spillable(row) \/ Inline(row, acc.over) <= maxTupleSize
            THEN acc
            ELSE spilledTo(acc.over, c, writeOverflowChain(acc.h, row.id, c, row.texts[c]))
        start == [h |-> h, over |-> << >>]
    IN  IF ~ row.valid THEN encoded(row, [start EXCEPT !.h = Fail(h)])
        ELSE IF Inline(row, << >>) <= maxTupleSize \/ Spillable(row) = {}
        THEN encoded(row, start)
        ELSE encoded(row, Loop(Len(row.texts), start, spill))

\* The row a tuple decodes to, or Garbled.
Garbled == "garbled"
decodeWithOverflow(h, tuple) ==
    IF "row" \notin DOMAIN tuple \/ "next" \in DOMAIN tuple THEN Garbled
    ELSE LET texts == RowOf(tuple.row).texts
         IN  IF \A c \in DOMAIN tuple.over :
                   readOverflowChain(h, tuple.over[c])
                     = [j \in 1 .. numPages(texts[c]) |-> <<tuple.row, c, j>>]
             THEN tuple.row ELSE Garbled

lastDataPageID(h) == h.total - 1

appendPage(h) ==
    [writePage(h, h.total, NewPage("Data")) EXCEPT !.total = @ + 1, !.dirty = TRUE]

\* Mutant: the tuple of a new page is written under the old page's ID.
insertEncoded_OldPage(h, tuple) ==
    LET store(g, id, pg) ==
            [writePage(g, id, InsertTuple(pg, tuple)) EXCEPT
                !.rid = [page |-> id, slot |-> Len(pg.slots)]]
        last == lastDataPageID(h)
        pg   == h.file[last]
    IN  IF last \notin DOMAIN h.file THEN Fail(h)
        ELSE IF Fits(pg, tuple.size) THEN store(h, last, pg)
        ELSE IF Fits(Compact(pg), tuple.size) THEN store(h, last, Compact(pg))
        ELSE LET a == appendPage(h) IN store(a, last, a.file[h.total])

\* The last page; if it is full, the last page compacted; if it is still
\* full, a new page, which is written empty first.
insertEncoded(h, tuple) ==
    LET store(g, id, pg) ==
            [writePage(g, id, InsertTuple(pg, tuple)) EXCEPT
                !.rid = [page |-> id, slot |-> Len(pg.slots)]]
        last == lastDataPageID(h)
        pg   == h.file[last]
    IN  IF last \notin DOMAIN h.file THEN Fail(h)
        ELSE IF Fits(pg, tuple.size) THEN store(h, last, pg)
        ELSE IF Fits(Compact(pg), tuple.size) THEN store(h, last, Compact(pg))
        ELSE LET a == appendPage(h) IN store(a, h.total, a.file[h.total])

\* validateRID, readPage and GetTuple all succeed.
Reads(h, rid) ==
    /\ rid.page # 0 /\ rid.page < h.total
    /\ rid.page \in DOMAIN h.file
    /\ rid.slot + 1 \in LiveSlots(h.file[rid.page])

rowTuple(h, rid) == h.file[rid.page].slots[rid.slot + 1]

inserted(e) == IF e.h.ok THEN insertEncoded(e.h, e.tuple) ELSE e.h

InsertResult(row) == inserted(encodeWithOverflow(heap, row))

\* The page is read before the chains are freed, and the copy read then is
\* what is written back.
DeleteResult(rid) ==
    LET pg == file[rid.page]
        f  == freeRowOverflow(heap, rowTuple(heap, rid))
    IN  IF ~ Reads(heap, rid) THEN Fail(heap)
        ELSE IF ~ f.ok THEN f
        ELSE writePage(f, rid.page, DeleteTuple(pg, rid.slot))

UpdateResult(rid, row) ==
    LET pg == file[rid.page]
        f  == freeRowOverflow(heap, rowTuple(heap, rid))
        replaced(e) == IF ~ e.h.ok THEN e
                       ELSE [e EXCEPT !.h = writePage(@, rid.page, DeleteTuple(pg, rid.slot))]
    IN  IF ~ Reads(heap, rid) THEN Fail(heap)
        ELSE IF ~ f.ok THEN f
        ELSE inserted(replaced(encodeWithOverflow(f, row)))

Fetch(rid) ==
    IF Reads(heap, rid) THEN decodeWithOverflow(heap, rowTuple(heap, rid)) ELSE "error"

\* Mutant: overflow pages are not skipped.
Scan_AllPages ==
    LET rids == UNION {{[page |-> id, slot |-> s - 1] : s \in LiveSlots(file[id])} :
                          id \in 1 .. meta.TotalPages - 1}
    IN  [rid \in rids |-> Fetch(rid)]

\* RID -> row of everything Scan hands to its callback.  Scan gives up at the
\* first page or row it cannot read.
Scan ==
    LET pages   == 1 .. meta.TotalPages - 1
        scanned == {id \in pages : id \in DOMAIN file /\ file[id].type # "Overflow"}
        rids    == UNION {{[page |-> id, slot |-> s - 1] : s \in LiveSlots(file[id])} :
                             id \in scanned}
    IN  IF pages \subseteq DOMAIN file THEN [rid \in rids |-> Fetch(rid)] ELSE << >>

-----------------------------------------------------------------------------
(***************************************************************************)
(* The methods as steps.                                                   *)
(***************************************************************************)
Init ==
    /\ use \in Uses
    /\ file = << >>
    /\ meta = [TotalPages |-> 0, FreeListHead |-> 0]
    /\ metaDirty = FALSE
    /\ handle = "none"
    /\ call = Idle
    /\ pending = << >>
    /\ calls = 0
    /\ table = << >>
    /\ durable = << >>
    /\ dead = {}

ghosts == <<table, durable, dead>>

\* A method takes HeapFile.mu: its effect on the cached metadata is h's, its
\* writes follow.  A method that writes nothing has failed and returns.
Begin(op, old, row, h) ==
    /\ h.total <= MaxPages
    /\ meta' = [TotalPages |-> h.total, FreeListHead |-> h.free]
    /\ metaDirty' = h.dirty
    /\ pending' = h.writes
    /\ call' = IF h.writes = << >> THEN Idle
               ELSE [op |-> op, old |-> old, row |-> row, rid |-> h.rid, ok |-> h.ok]
    /\ UNCHANGED <<file, handle, ghosts>>

Usable == call = Idle /\ (handle = "open" \/ (UseAfterClose /\ handle = "closed"))

Mutate == Usable /\ calls < MaxCalls /\ calls' = calls + 1

Insert(row) ==
    /\ Mutate
    /\ Begin("Insert", NoRID, row.id, InsertResult(row))

Delete(rid) ==
    /\ Mutate
    /\ Begin("Delete", rid, "", DeleteResult(rid))

Update(rid, row) ==
    /\ Mutate
    /\ Begin("Update", rid, row.id, UpdateResult(rid, row))

\* What the method's caller learns when it returns.
Return ==
    LET gone == IF call.ok /\ call.op \in {"Delete", "Update"} THEN {call.old} ELSE {}
        kept == Without(table, gone)
    IN  /\ table' = IF call.ok /\ call.op \in {"Insert", "Update"}
                    THEN With(kept, call.rid, call.row) ELSE kept
        /\ durable' = Without(durable, gone)
        /\ dead' = dead \cup gone
        /\ handle' = IF call.op = "Open" THEN "open" ELSE handle
        /\ call' = Idle

WriteAt ==
    /\ call # Idle
    /\ file' = With(file, pending[1][1], pending[1][2])
    /\ pending' = Tail(pending)
    /\ IF pending' = << >> THEN Return ELSE UNCHANGED <<call, handle, ghosts>>
    /\ UNCHANGED <<meta, metaDirty, calls>>

\* Page 0, then page 1.
initNew ==
    LET m == [TotalPages |-> 2, FreeListHead |-> 0]
    IN  /\ meta' = m
        /\ metaDirty' = FALSE
        /\ pending' = <<<<0, MetaPage(m)>>, <<1, NewPage("Data")>>>>
        /\ call' = [op |-> "Open", old |-> NoRID, row |-> "", rid |-> NoRID, ok |-> TRUE]
        /\ UNCHANGED handle

readMeta ==
    /\ meta' = [TotalPages |-> file[0].slots[1].TotalPages,
                FreeListHead |-> file[0].slots[1].FreeListHead]
    /\ metaDirty' = FALSE
    /\ handle' = "open"
    /\ UNCHANGED <<call, pending>>

OpenHeapFile ==
    /\ call = Idle
    /\ handle # "open"
    /\ IF DOMAIN file = {} THEN initNew ELSE readMeta
    /\ UNCHANGED <<file, calls, ghosts>>

\* Flush and Close issue one write, of page 0, and sync.
writeMeta ==
    /\ file' = IF metaDirty THEN With(file, 0, MetaPage(meta)) ELSE file
    /\ metaDirty' = FALSE
    /\ durable' = table
    /\ UNCHANGED <<meta, call, pending, calls, table, dead>>

Flush == Usable /\ writeMeta /\ UNCHANGED handle

Close == Usable /\ writeMeta /\ handle' = "closed"

\* The process dies.  What a caller may still rely on: rows a Flush covered,
\* but for the one a dying call was removing; deleted rows of pages that the
\* metadata on disk knows.
Crash ==
    /\ handle # "none" \/ call # Idle
    /\ call.op \in CrashDuring
    /\ LET kept == Without(durable, IF call.op \in {"Delete", "Update"} THEN {call.old} ELSE {})
           total == IF 0 \in DOMAIN file THEN file[0].slots[1].TotalPages ELSE 0
       IN  /\ table' = kept
           /\ durable' = kept
           /\ dead' = {rid \in dead : rid.page < total}
    /\ handle' = "none"
    /\ call' = Idle
    /\ pending' = << >>
    /\ meta' = [TotalPages |-> 0, FreeListHead |-> 0]
    /\ metaDirty' = FALSE
    /\ UNCHANGED <<file, calls>>

Step ==
    \/ OpenHeapFile
    \/ \E row \in Rows : Insert(row)
    \/ \E rid \in DOMAIN table \cup dead : Delete(rid)
    \/ \E rid \in DOMAIN table \cup dead, row \in Rows : Update(rid, row)
    \/ WriteAt
    \/ Flush
    \/ Close
    \/ Crash

Next == Step /\ UNCHANGED use

Spec == Init /\ [][Next]_vars

-----------------------------------------------------------------------------
(***************************************************************************)
(* Properties.  They are about the states a caller can observe: the heap   *)
(* is open and no method holds its mutex.                                  *)
(***************************************************************************)
Quiet == call = Idle /\ handle = "open"

\* The types of the variables.  No page holds more bytes than it has, and the
\* metadata of an open heap names pages of the file.
TypeOK ==
    /\ DOMAIN file \subseteq 0 .. MaxPages
    /\ \A id \in DOMAIN file : FreeSpace(file[id]) \in 0 .. PageCap
    /\ handle \in {"none", "open", "closed"}
    /\ Quiet => meta.TotalPages \in 2 .. MaxPages /\ meta.FreeListHead \in 0 .. MaxPages
    /\ (call = Idle) <=> (pending = << >>)
    /\ calls \in 0 .. MaxCalls

\* Insert "returns the stable RID of the new row" (heap.go:144): Fetch of a
\* RID yields the row that was stored under it, whatever else is inserted,
\* deleted, updated, compacted, spilled or recycled in the meantime.  After a
\* crash this is about the rows that a Flush covered ("ensuring all previous
\* writes are durable", heap.go:112), so it needs the cached metadata to be
\* marked dirty whenever page 0 is behind.  A RID whose row was deleted or moved
\* by Update is an error for ever: no other row gets it, nor does its row come
\* back.
FetchCorrect ==
    Quiet => /\ \A rid \in DOMAIN table : Fetch(rid) = table[rid]
             /\ \A rid \in dead : Fetch(rid) = "error"

\* "Scan iterates over all live tuples in the heap" (heap.go:258), over
\* nothing else, and yields the rows that were stored.  After a call was cut
\* short by a crash it may also show rows that no Flush covered, but those a
\* Flush covered are all there.
ScanExact ==
    Quiet => /\ \A rid \in DOMAIN table : rid \in DOMAIN Scan /\ Scan[rid] = table[rid]
             /\ CrashDuring = {} => DOMAIN Scan = DOMAIN table

\* "lastDataPageID returns the global ID of the last data page ... this is
\* TotalPages-1" (heap.go:446-447): the page the next Insert tries first
\* exists and is a data page.
LastDataPage ==
    Quiet => /\ meta.TotalPages - 1 \in DOMAIN file
             /\ file[meta.TotalPages - 1].type = "Data"

\* The pages of a chain, followed for at most MaxPages + 1 links.
chainPages(first) ==
    LET step(acc, j) ==
            IF acc.at = 0 THEN acc
            ELSE [at    |-> IF HasBody(heap, acc.at) THEN Link(heap, acc.at) ELSE 0,
                  pages |-> Append(acc.pages, acc.at)]
    IN  Loop(MaxPages + 1, [at |-> first, pages |-> << >>], step).pages

\* The free list and the chains of the rows.
chains ==
    {meta.FreeListHead} \cup
    UNION {{rowTuple(heap, rid).over[c] : c \in DOMAIN rowTuple(heap, rid).over} :
              rid \in {r \in DOMAIN table : Reads(heap, r)}}

\* No page is in two chains, or in a chain and on the free list, or twice in
\* one of them, and none of them is a data page: freeOverflowChain and
\* allocateFreePage never hand out a page that something still uses.
NoSharing ==
    Quiet =>
        /\ \A f \in chains :
              /\ IsInjective(chainPages(f))
              /\ \A id \in Range(chainPages(f)) :
                    id \in DOMAIN file /\ file[id].type = "Overflow"
        /\ \A f, g \in chains :
              f = g \/ Range(chainPages(f)) \cap Range(chainPages(g)) = {}

\* Every overflow page belongs to a row or is on the free list: Delete and
\* Update return all the pages of a row for reuse.  (A crash leaks pages,
\* heap.go:147.)
NoLeak ==
    Quiet /\ CrashDuring = {} =>
        \A id \in 1 .. meta.TotalPages - 1 :
            file[id].type = "Overflow" => \E f \in chains : id \in Range(chainPages(f))

\* Every overflow page has one owner, or none after a crash (overflow.go:24, 363).
PagesOwned == NoSharing /\ NoLeak

\* "After Close all methods return an error" (heap.go:85-86): a method called
\* on a closed heap changes nothing.
ClosedRejects ==
    [][handle = "closed" /\ handle' = "closed" => UNCHANGED <<file, meta, table>>]_vars
=============================================================================
