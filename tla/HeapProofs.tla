----------------------------- MODULE HeapProofs -----------------------------
(***************************************************************************)
(* FetchCorrect and ScanExact of HeapFile for any rows that are not spilled, *)
(* any page size and bounds, with crashes between any two page writes.      *)
(***************************************************************************)
EXTENDS HeapFile, SeqFacts, TLAPS

\* Most steps are first-order: Zenon proves them unless they name another prover.
USE Zenon

RID == [page : Nat \ {0}, slot : Nat]
CallFields == {"op", "old", "row", "rid", "ok"}
PageFields == {"type", "slots", "used"}
TupleFields == {"row", "over", "size"}

\* The uses the results are about: no row has to be spilled, and a heap that was
\* closed is not used any more.
inline == /\ ~UseAfterClose
          /\ \A r \in Rows : r.valid => Inline(r, << >>) <= maxTupleSize \/ Spillable(r) = {}

\* What a slot of a data page holds, and a data page.
isRow(t) == DOMAIN t = TupleFields /\ t.over = << >>
pageOK(pg) ==
    /\ DOMAIN pg = PageFields /\ pg.type = "Data" /\ IsSeq(pg.slots)
    /\ \A s \in DOMAIN pg.slots : pg.slots[s] = DeletedSlot \/ isRow(pg.slots[s])

\* Page pg has row id in slot s; its slot s is deleted.
has(pg, s, id) == s \in DOMAIN pg.slots /\ isRow(pg.slots[s]) /\ pg.slots[s].row = id
tomb(pg, s) == s \in DOMAIN pg.slots /\ pg.slots[s] = DeletedSlot

\* The row that the running call takes away, and the one it stores.
removes == call.op \in {"Delete", "Update"}
stores == call.op \in {"Insert", "Update"}
removing(rid) == removes /\ rid = call.old

\* Page q, written over page p with this ID, keeps every slot of it, but for the
\* one that the running call deletes.
keeps(id, p, q) ==
    \A s \in DOMAIN p.slots :
        /\ s \in DOMAIN q.slots
        /\ \/ q.slots[s] = p.slots[s]
           \/ removes /\ call.old.page = id /\ call.old.slot + 1 = s /\ q.slots[s] = DeletedSlot

known == DOMAIN table \cup dead
newPage(id) == \A rid \in known : rid.page # id

\* The number of pages that page 0 tells on disk.
disk == file[0].slots[1].TotalPages

----------------------------------------------------------------------------
Shape ==
    /\ use \in Uses
    /\ DOMAIN file \subseteq Nat
    /\ DOMAIN file # {} => 0 \in DOMAIN file /\ disk \in Nat /\ disk >= 2
    /\ \A id \in DOMAIN file : id # 0 => pageOK(file[id])
    /\ known \subseteq RID
    /\ IsSeq(pending)
    /\ call = Idle <=> pending = << >>
    /\ call # Idle => /\ DOMAIN call = CallFields
                      /\ call.op \in {"Open", "Insert", "Delete", "Update"}

\* The metadata: page 0 and its copy in memory, and the pages they speak of.
MetaOK ==
    /\ handle \in {"none", "open", "closed"}
    /\ handle # "none" => /\ DOMAIN file # {} /\ meta.TotalPages \in Nat
                          /\ meta.TotalPages >= disk
                          /\ ~metaDirty => meta.TotalPages = disk
    /\ handle = "closed" => call = Idle /\ meta.TotalPages = disk
    /\ stores \/ removes => handle = "open"
    /\ call.op = "Open" =>
          /\ handle = "none" /\ meta.TotalPages = 2 /\ ~metaDirty /\ known = {}
          /\ \/ DOMAIN file = {} /\ pending = <<<<0, MetaPage(meta)>>, <<1, NewPage("Data")>>>>
             \/ DOMAIN file = {0} /\ disk = 2 /\ pending = <<<<1, NewPage("Data")>>>>

\* The rows in the file, and what is left of deleted ones.
RowsOK ==
    /\ \A rid \in DOMAIN table :
          rid.page \in DOMAIN file /\ (removing(rid) \/ has(file[rid.page], rid.slot + 1, table[rid]))
    /\ \A rid \in dead : rid.page \in DOMAIN file /\ tomb(file[rid.page], rid.slot + 1)
    /\ \A rid \in known : rid.page < IF handle = "none" THEN disk ELSE meta.TotalPages
    /\ DOMAIN durable \subseteq DOMAIN table
    /\ \A rid \in DOMAIN durable : durable[rid] = table[rid] /\ rid.page < disk

\* The pages up to the last one exist, or will once the running call is over; or
\* the process died in initNew.
PagesOK ==
    /\ DOMAIN file # {} /\ call.op # "Open" =>
          \/ DOMAIN file = {0} /\ call = Idle
          \/ 1 .. disk - 1 \subseteq DOMAIN file
    /\ handle # "none" =>
          \/ DOMAIN file = {0} /\ call = Idle
          \/ \A id \in 1 .. meta.TotalPages - 1 :
                id \in DOMAIN file \/ \E i \in DOMAIN pending : pending[i][1] = id

\* A write of a page that nobody relies on, or that keeps what is there.
writeOK(id, pg) ==
    /\ id \in 1 .. meta.TotalPages - 1 /\ pageOK(pg)
    /\ newPage(id) \/ (id \in DOMAIN file /\ keeps(id, file[id], pg))

\* The writes that a running call has still to issue.
WritesOK ==
    stores \/ removes =>
        /\ call.ok = TRUE
        /\ \A i \in DOMAIN pending : writeOK(pending[i][1], pending[i][2])
        /\ \A i, j \in DOMAIN pending :
              i < j /\ pending[i][1] = pending[j][1] =>
                  newPage(pending[i][1]) \/ keeps(pending[i][1], pending[i][2], pending[j][2])
        /\ removes =>
              /\ call.old \in DOMAIN table
              /\ \/ tomb(file[call.old.page], call.old.slot + 1)
                 \/ \E i \in DOMAIN pending : /\ pending[i][1] = call.old.page
                                              /\ tomb(pending[i][2], call.old.slot + 1)
        /\ stores =>
              LET last == pending[Len(pending)]
              IN  /\ call.rid \in RID \ known /\ call.rid.page = last[1]
                  /\ has(last[2], call.rid.slot + 1, call.row)

at(id, s) == [page |-> id, slot |-> s - 1]

\* Without crashes the rows in the file are those of the table.
OnlyRows ==
    CrashDuring = {} =>
        /\ \A id \in DOMAIN file \ {0} : \A s \in LiveSlots(file[id]) : at(id, s) \in DOMAIN table
        /\ stores \/ removes =>
              \A i \in DOMAIN pending : \A s \in LiveSlots(pending[i][2]) :
                  \/ at(pending[i][1], s) \in DOMAIN table
                  \/ stores /\ i = Len(pending) /\ at(pending[i][1], s) = call.rid

IInv == Shape /\ MetaOK /\ RowsOK /\ PagesOK /\ WritesOK /\ OnlyRows

HInv == inline => IInv

----------------------------------------------------------------------------
\* The rest of a sequence.
LEMMA TailFacts ==
    ASSUME NEW s, IsSeq(s), s # << >>
    PROVE  /\ IsSeq(Tail(s)) /\ Len(s) >= 1 /\ Len(Tail(s)) = Len(s) - 1
           /\ \A i \in 1 .. Len(s) - 1 : Tail(s)[i] = s[i + 1]
<1> DEFINE S == {s[i] : i \in 1 .. Len(s)}
<1>1. s \in Seq(S)
  BY SMT DEF IsSeq
<1> HIDE DEF S
<1>2. Tail(s) \in Seq(S) /\ Len(s) >= 1 /\ Len(Tail(s)) = Len(s) - 1
  BY <1>1, SMT
<1>3. \A i \in 1 .. Len(s) - 1 : Tail(s)[i] = s[i + 1]
  BY <1>1, <1>2, SMT
<1>4. IsSeq(Tail(s))
  <2> DEFINE t == Tail(s)
  <2>1. Len(t) \in Nat /\ t \in [1 .. Len(t) -> S]
    BY <1>2, LenProperties
  <2>2. t = [i \in 1 .. Len(t) |-> t[i]]
    BY <2>1
  <2> QED
    BY <2>1, <2>2 DEF IsSeq
<1> QED
  BY <1>2, <1>3, <1>4

\* A sequence is empty when it has no element.
LEMMA SeqDomain ==
    ASSUME NEW s, IsSeq(s)
    PROVE  /\ DOMAIN s = 1 .. Len(s) /\ Len(s) \in Nat
           /\ (s = << >>) <=> Len(s) = 0
<1>1. DOMAIN s = 1 .. Len(s) /\ Len(s) \in Nat
  BY DEF IsSeq
<1>2. s \in Seq({s[i] : i \in 1 .. Len(s)})
  BY SMT DEF IsSeq
<1>3. (s = << >>) <=> Len(s) = 0
  BY <1>2, SMT
<1> QED
  BY <1>1, <1>3

\* A RID is its page and its slot.
LEMMA RIDFacts ==
    /\ \A r \in RID : r.page \in Nat /\ r.page # 0 /\ r.slot \in Nat /\ at(r.page, r.slot + 1) = r
    /\ \A r, q \in RID : r.page = q.page /\ r.slot = q.slot => r = q
    /\ \A p \in Nat \ {0}, s \in Nat : [page |-> p, slot |-> s] \in RID
<1>1. \A r \in RID : r = [page |-> r.page, slot |-> r.slot] /\ r.page \in Nat /\ r.page # 0 /\ r.slot \in Nat
  BY SMT DEF RID
<1>2. \A r \in RID : at(r.page, r.slot + 1) = r
  BY <1>1, SMT DEF at
<1>3. \A r, q \in RID : r.page = q.page /\ r.slot = q.slot => r = q
  BY <1>1
<1>4. \A p \in Nat \ {0}, s \in Nat : [page |-> p, slot |-> s] \in RID
  BY SMT DEF RID
<1> QED
  BY <1>1, <1>2, <1>3, <1>4

\* A stored row is no tombstone.
LEMMA RowIsLive == ASSUME NEW t, isRow(t)  PROVE t # DeletedSlot
<1>1. DOMAIN DeletedSlot = {"tomb"}
  BY DEF DeletedSlot
<1>2. "row" \in DOMAIN t
  BY DEF isRow, TupleFields
<1> QED
  BY <1>1, <1>2, SMT

----------------------------------------------------------------------------
\* Page q is page p with tuple t in a new slot after its last.
extends(p, q, t) ==
    /\ pageOK(q) /\ Len(q.slots) = Len(p.slots) + 1 /\ q.slots[Len(p.slots) + 1] = t
    /\ \A s \in 1 .. Len(p.slots) : q.slots[s] = p.slots[s]

\* InsertTuple (page.go) adds a slot and keeps the others.
LEMMA InsertTupleOK ==
    ASSUME NEW p, pageOK(p), NEW t, isRow(t)
    PROVE  extends(p, InsertTuple(p, t), t)
<1> DEFINE q == InsertTuple(p, t)
<1>1. DOMAIN q = PageFields /\ q.type = "Data" /\ q.slots = Append(p.slots, t)
  BY DEF InsertTuple, pageOK, PageFields
<1> HIDE DEF q
<1>2. /\ IsSeq(q.slots) /\ Len(q.slots) = Len(p.slots) + 1 /\ q.slots[Len(p.slots) + 1] = t
      /\ \A s \in 1 .. Len(p.slots) : q.slots[s] = p.slots[s]
  <2>1. IsSeq(p.slots)
    BY DEF pageOK
  <2> QED
    BY <1>1, <2>1, AppendFacts, SMT
<1>3. Len(p.slots) \in Nat /\ DOMAIN p.slots = 1 .. Len(p.slots) /\ DOMAIN q.slots = 1 .. Len(p.slots) + 1
  BY <1>2, SeqDomain DEF pageOK
<1>4. \A s \in DOMAIN q.slots : s \in DOMAIN p.slots \/ s = Len(p.slots) + 1
  BY <1>3, SMT
<1>5. \A s \in DOMAIN q.slots : q.slots[s] = DeletedSlot \/ isRow(q.slots[s])
  BY <1>2, <1>3, <1>4 DEF pageOK
<1>6. extends(p, q, t)
  BY <1>1, <1>2, <1>5 DEF pageOK, extends
<1> QED
  BY <1>6 DEF q

\* Compact (page.go) keeps the slots.
LEMMA CompactOK ==
    ASSUME NEW p, pageOK(p)
    PROVE  pageOK(Compact(p)) /\ Compact(p).slots = p.slots
<1>1. PICK n : Compact(p) = [p EXCEPT !.used = n]
  BY DEF Compact
<1> QED
  BY <1>1 DEF pageOK, PageFields

\* A new page has no slots.
LEMMA NewPageOK == pageOK(NewPage("Data")) /\ NewPage("Data").slots = << >>
<1>1. IsSeq(<< >>)
  BY SMT DEF IsSeq
<1> QED
  BY <1>1, SMT DEF NewPage, pageOK, PageFields

\* DeleteTuple (page.go) makes one slot a tombstone.
LEMMA DeleteTupleOK ==
    ASSUME NEW p, pageOK(p), NEW n \in Nat, n + 1 \in DOMAIN p.slots, NEW q, q = DeleteTuple(p, n)
    PROVE  /\ pageOK(q) /\ Len(q.slots) = Len(p.slots) /\ q.slots[n + 1] = DeletedSlot
           /\ \A s \in DOMAIN p.slots : s # n + 1 => q.slots[s] = p.slots[s]
<1>1. DOMAIN q = PageFields /\ q.type = "Data" /\ q.slots = [p.slots EXCEPT ![n + 1] = DeletedSlot]
  BY DEF DeleteTuple, pageOK, PageFields
<1>2. DOMAIN q.slots = DOMAIN p.slots /\ q.slots[n + 1] = DeletedSlot
      /\ \A s \in DOMAIN p.slots : s # n + 1 => q.slots[s] = p.slots[s]
  BY <1>1
<1>3. DOMAIN p.slots = 1 .. Len(p.slots)
  BY SeqDomain DEF pageOK
<1>4. q.slots = [i \in 1 .. Len(p.slots) |-> q.slots[i]]
  BY <1>1, <1>3
<1>5. IsSeq(q.slots) /\ Len(q.slots) = Len(p.slots)
  BY <1>4, SameDomain DEF pageOK
<1>6. \A s \in DOMAIN q.slots : q.slots[s] = DeletedSlot \/ isRow(q.slots[s])
  BY <1>2 DEF pageOK
<1>7. pageOK(q)
  BY <1>1, <1>5, <1>6 DEF pageOK
<1> QED
  BY <1>2, <1>5, <1>7

----------------------------------------------------------------------------
HeapFields == {"file", "writes", "total", "free", "dirty", "ok", "ids", "at", "rid"}

\* A method starts from the file and the cached metadata.
LEMMA HeapFacts ==
    /\ DOMAIN heap = HeapFields /\ heap.file = file /\ heap.writes = << >> /\ heap.ok = TRUE
    /\ heap.total = meta.TotalPages /\ heap.free = meta.FreeListHead /\ heap.dirty = metaDirty
  BY DEF heap, HeapFields

\* An error ends a method and changes nothing else.
LEMMA FailFacts ==
    ASSUME NEW h, DOMAIN h = HeapFields
    PROVE  /\ Fail(h).ok = FALSE /\ Fail(h).writes = h.writes /\ Fail(h).total = h.total
           /\ Fail(h).dirty = h.dirty
  BY DEF Fail, HeapFields

\* Heap w is heap h after one more write.
wrote(h, id, pg, w) ==
    /\ DOMAIN w = HeapFields /\ w.file = With(h.file, id, pg)
    /\ w.writes = Append(h.writes, <<id, pg>>)
    /\ w.total = h.total /\ w.dirty = h.dirty /\ w.ok = h.ok

\* writePage (heap.go:348) issues one write.
LEMMA WritePageFacts ==
    ASSUME NEW h, DOMAIN h = HeapFields, NEW id, NEW pg, NEW w, w = writePage(h, id, pg)
    PROVE  wrote(h, id, pg, w)
  BY DEF writePage, HeapFields, wrote

\* e is a row encoded on heap h, or rejected.
encodes(h, row, e) ==
    /\ DOMAIN e = {"h", "tuple"}
    /\ \/ e.h.ok = FALSE /\ e.h.writes = h.writes /\ e.h.total = h.total /\ e.h.dirty = h.dirty
       \/ e.h = h /\ isRow(e.tuple) /\ e.tuple.row = row.id

\* A row that need not be spilled (overflow.go:206) is encoded without a write, or
\* it is rejected.
LEMMA EncodeOK ==
    ASSUME inline, NEW row \in Rows, NEW h, DOMAIN h = HeapFields, NEW e, e = encodeWithOverflow(h, row)
    PROVE  encodes(h, row, e)
<1> DEFINE start == [h |-> h, over |-> << >>]
<1>1. [start EXCEPT !.h = Fail(h)] = [h |-> Fail(h), over |-> << >>]
  BY SMT
<1>2. \/ e = encoded(row, start)
      \/ e = encoded(row, [h |-> Fail(h), over |-> << >>])
  BY <1>1 DEF encodeWithOverflow, inline
<1>3. ASSUME NEW g, e = encoded(row, [h |-> g, over |-> << >>])
      PROVE  (e.h = Fail(g) \/ e.h = g) /\ isRow(e.tuple) /\ e.tuple.row = row.id
  BY <1>3, SMT DEF encoded, isRow, TupleFields
<1>4. DOMAIN Fail(h) = HeapFields
  BY DEF Fail
<1>5. \A g \in {Fail(h), Fail(Fail(h))} :
        g.ok = FALSE /\ g.writes = h.writes /\ g.total = h.total /\ g.dirty = h.dirty
  BY <1>4, FailFacts
<1>6. DOMAIN e = {"h", "tuple"}
  BY <1>2 DEF encoded
<1> QED
  BY <1>2, <1>3, <1>5, <1>6 DEF encodes

\* Heap r is h after insertEncoded of tuple t, p being the last page.
inserts(h, t, p, r) ==
    \/ h.total - 1 \notin DOMAIN h.file /\ r = Fail(h)
    \/ /\ h.total - 1 \in DOMAIN h.file /\ r.ok = h.ok
       /\ \E pg : /\ extends(p, pg, t) /\ r.total = h.total /\ r.dirty = h.dirty
                  /\ r.writes = Append(h.writes, <<h.total - 1, pg>>)
                  /\ r.rid = [page |-> h.total - 1, slot |-> Len(p.slots)]
    \/ /\ h.total - 1 \in DOMAIN h.file /\ r.ok = h.ok
       /\ \E pg : /\ extends(NewPage("Data"), pg, t) /\ r.total = h.total + 1 /\ r.dirty = TRUE
                  /\ r.writes = Append(Append(h.writes, <<h.total, NewPage("Data")>>), <<h.total, pg>>)
                  /\ r.rid = [page |-> h.total, slot |-> 0]

\* insertEncoded (heap.go:468) finds no last page and fails, adds the tuple to the
\* last page, or writes a new page twice, empty and with the tuple.
LEMMA InsertEncodedOK ==
    ASSUME NEW h, DOMAIN h = HeapFields, h.total \in Nat, h.total >= 2, NEW t, isRow(t),
           NEW p, p = h.file[h.total - 1], h.total - 1 \in DOMAIN h.file => pageOK(p),
           NEW r, r = insertEncoded(h, t)
    PROVE  inserts(h, t, p, r)
<1> DEFINE store(g, id, pg) == [writePage(g, id, InsertTuple(pg, t)) EXCEPT
                                   !.rid = [page |-> id, slot |-> Len(pg.slots)]]
           stored(g, id, pg, x) ==
               /\ x.ok = g.ok /\ x.total = g.total /\ x.dirty = g.dirty
               /\ x.writes = Append(g.writes, <<id, InsertTuple(pg, t)>>)
               /\ x.rid = [page |-> id, slot |-> Len(pg.slots)]
           a == appendPage(h)
<1>1. ASSUME NEW g, DOMAIN g = HeapFields, NEW id, NEW pg, NEW x, x = store(g, id, pg)
      PROVE  stored(g, id, pg, x)
  <2>1. PICK w : w = writePage(g, id, InsertTuple(pg, t))
    OBVIOUS
  <2>2. /\ DOMAIN w = HeapFields /\ w.writes = Append(g.writes, <<id, InsertTuple(pg, t)>>)
        /\ w.total = g.total /\ w.dirty = g.dirty /\ w.ok = g.ok
    <3>1. wrote(g, id, InsertTuple(pg, t), w)
      BY <1>1, <2>1, WritePageFacts
    <3> QED
      BY <3>1 DEF wrote
  <2>3. x = [w EXCEPT !.rid = [page |-> id, slot |-> Len(pg.slots)]]
    BY <1>1, <2>1
  <2> QED
    BY <2>2, <2>3 DEF HeapFields
<1>2. /\ DOMAIN a = HeapFields /\ a.ok = h.ok /\ a.total = h.total + 1 /\ a.dirty = TRUE
      /\ a.writes = Append(h.writes, <<h.total, NewPage("Data")>>) /\ a.file[h.total] = NewPage("Data")
  <2>0. PICK w : w = writePage(h, h.total, NewPage("Data"))
    OBVIOUS
  <2>1. /\ DOMAIN w = HeapFields /\ w.file = With(h.file, h.total, NewPage("Data"))
        /\ w.writes = Append(h.writes, <<h.total, NewPage("Data")>>)
        /\ w.total = h.total /\ w.ok = h.ok
    <3>1. wrote(h, h.total, NewPage("Data"), w)
      BY <2>0, WritePageFacts
    <3> QED
      BY <3>1 DEF wrote
  <2>2. a = [w EXCEPT !.total = w.total + 1, !.dirty = TRUE]
    BY <2>0 DEF appendPage
  <2>3. w.file[h.total] = NewPage("Data")
    <3>1. With(h.file, h.total, NewPage("Data"))[h.total] = NewPage("Data")
      BY DEF With
    <3> QED
      BY <2>1, <3>1
  <2> HIDE DEF a
  <2> QED
    BY <2>1, <2>2, <2>3 DEF HeapFields
<1>3. \/ h.total - 1 \notin DOMAIN h.file /\ r = Fail(h)
      \/ h.total - 1 \in DOMAIN h.file /\ r = store(h, h.total - 1, p)
      \/ h.total - 1 \in DOMAIN h.file /\ r = store(h, h.total - 1, Compact(p))
      \/ h.total - 1 \in DOMAIN h.file /\ r = store(a, h.total, a.file[h.total])
  BY DEF insertEncoded, lastDataPageID
<1> HIDE DEF store, stored, a
<1>4. CASE h.total - 1 \in DOMAIN h.file /\ r = store(h, h.total - 1, p)
  <2>1. extends(p, InsertTuple(p, t), t)
    BY <1>4, InsertTupleOK
  <2>2. /\ r.ok = h.ok /\ r.total = h.total /\ r.dirty = h.dirty
        /\ r.writes = Append(h.writes, <<h.total - 1, InsertTuple(p, t)>>)
        /\ r.rid = [page |-> h.total - 1, slot |-> Len(p.slots)]
    <3>1. stored(h, h.total - 1, p, r)
      BY <1>1, <1>4
    <3> QED
      BY <3>1 DEF stored
  <2> QED
    BY <1>4, <2>1, <2>2 DEF inserts
<1>5. CASE h.total - 1 \in DOMAIN h.file /\ r = store(h, h.total - 1, Compact(p))
  <2>1. pageOK(Compact(p)) /\ Compact(p).slots = p.slots
    BY <1>5, CompactOK
  <2>2. extends(Compact(p), InsertTuple(Compact(p), t), t)
    BY <2>1, InsertTupleOK
  <2>3. extends(p, InsertTuple(Compact(p), t), t)
    BY <2>1, <2>2 DEF extends
  <2>4. /\ r.ok = h.ok /\ r.total = h.total /\ r.dirty = h.dirty
        /\ r.writes = Append(h.writes, <<h.total - 1, InsertTuple(Compact(p), t)>>)
        /\ r.rid = [page |-> h.total - 1, slot |-> Len(Compact(p).slots)]
    <3>1. stored(h, h.total - 1, Compact(p), r)
      BY <1>1, <1>5
    <3> QED
      BY <3>1 DEF stored
  <2> QED
    BY <1>5, <2>1, <2>3, <2>4 DEF inserts
<1>6. CASE h.total - 1 \in DOMAIN h.file /\ r = store(a, h.total, a.file[h.total])
  <2>1. extends(NewPage("Data"), InsertTuple(NewPage("Data"), t), t)
    BY NewPageOK, InsertTupleOK
  <2>2. Len(NewPage("Data").slots) = 0
    BY NewPageOK, SMT
  <2>3. /\ r.ok = a.ok /\ r.total = a.total /\ r.dirty = a.dirty
        /\ r.writes = Append(a.writes, <<h.total, InsertTuple(a.file[h.total], t)>>)
        /\ r.rid = [page |-> h.total, slot |-> Len(a.file[h.total].slots)]
    <3>1. stored(a, h.total, a.file[h.total], r)
      BY <1>1, <1>2, <1>6
    <3> QED
      BY <3>1 DEF stored
  <2>4. /\ r.ok = h.ok /\ r.total = h.total + 1 /\ r.dirty = TRUE
        /\ r.writes = Append(Append(h.writes, <<h.total, NewPage("Data")>>),
                             <<h.total, InsertTuple(NewPage("Data"), t)>>)
        /\ r.rid = [page |-> h.total, slot |-> 0]
    BY <1>2, <2>2, <2>3
  <2> QED
    BY <1>6, <2>1, <2>4 DEF inserts
<1> QED
  BY <1>3, <1>4, <1>5, <1>6 DEF inserts

----------------------------------------------------------------------------
\* No method is running.
LEMMA IdleFacts ==
    ASSUME call = Idle
    PROVE  call.op = "idle" /\ ~stores /\ ~removes /\ \A rid : ~removing(rid)
  BY DEF Idle, stores, removes, removing

\* A list of one write, of two, of three.
writes1(s, a) == IsSeq(s) /\ Len(s) = 1 /\ DOMAIN s = {1} /\ s # << >> /\ s[1] = a
writes2(s, a, b) ==
    IsSeq(s) /\ Len(s) = 2 /\ DOMAIN s = {1, 2} /\ s # << >> /\ s[1] = a /\ s[2] = b
writes3(s, a, b, c) ==
    /\ IsSeq(s) /\ Len(s) = 3 /\ DOMAIN s = {1, 2, 3} /\ s # << >>
    /\ s[1] = a /\ s[2] = b /\ s[3] = c

\* Sequence t is s with e at its end.
appended(s, e, t) ==
    IsSeq(t) /\ Len(t) = Len(s) + 1 /\ t[Len(s) + 1] = e /\ \A i \in 1 .. Len(s) : t[i] = s[i]

\* A write is put behind the others.
LEMMA AppendOne ==
    ASSUME NEW s, NEW e, IsSeq(s), NEW t, t = Append(s, e)  PROVE appended(s, e, t)
<1>1. /\ IsSeq(Append(s, e))
      /\ Len(Append(s, e)) = Len(s) + 1
      /\ \A i \in 1 .. Len(s) : Append(s, e)[i] = s[i]
      /\ Append(s, e)[Len(s) + 1] = e
  BY AppendFacts
<1> QED
  BY <1>1 DEF appended

\* The writes of a method are appended one after the other.
LEMMA Writes1 == ASSUME NEW a, NEW s, s = Append(<< >>, a)  PROVE writes1(s, a)
<1>1. PICK z : z = << >>
  OBVIOUS
<1>2. IsSeq(z) /\ Len(z) = 0
  BY <1>1, SMT DEF IsSeq
<1>3. s = Append(z, a)
  BY <1>1
<1>4. IsSeq(s) /\ Len(s) = Len(z) + 1 /\ s[Len(z) + 1] = a
  <2>1. appended(z, a, s)
    BY <1>2, <1>3, AppendOne
  <2> QED
    BY <2>1 DEF appended
<1>5. Len(z) + 1 = 1 /\ 1 .. 1 = {1} /\ 1 # 0
  BY <1>2, SMT
<1>6. DOMAIN s = 1 .. Len(s) /\ ((s = << >>) <=> Len(s) = 0)
  BY <1>4, SeqDomain
<1> QED
  BY <1>4, <1>5, <1>6 DEF writes1

\* The same for two writes.
LEMMA Writes2 ==
    ASSUME NEW a, NEW b, NEW s, s = Append(Append(<< >>, a), b)  PROVE writes2(s, a, b)
<1>1. PICK z : z = Append(<< >>, a)
  OBVIOUS
<1>2. writes1(z, a)
  BY <1>1, Writes1
<1>3. IsSeq(z) /\ Len(z) = 1 /\ z[1] = a
  BY <1>2 DEF writes1
<1>4. s = Append(z, b)
  BY <1>1
<1>5. IsSeq(s) /\ Len(s) = Len(z) + 1 /\ s[Len(z) + 1] = b /\ \A i \in 1 .. Len(z) : s[i] = z[i]
  <2>1. appended(z, b, s)
    BY <1>3, <1>4, AppendOne
  <2> QED
    BY <2>1 DEF appended
<1>6. Len(z) + 1 = 2 /\ 1 .. 2 = {1, 2} /\ 2 # 0 /\ 1 \in 1 .. Len(z)
  BY <1>3, SMT
<1>7. DOMAIN s = 1 .. Len(s) /\ ((s = << >>) <=> Len(s) = 0)
  BY <1>5, SeqDomain
<1> QED
  BY <1>3, <1>5, <1>6, <1>7 DEF writes2

\* The same for three writes.
LEMMA Writes3 ==
    ASSUME NEW a, NEW b, NEW c, NEW s, s = Append(Append(Append(<< >>, a), b), c)
    PROVE  writes3(s, a, b, c)
<1>1. PICK z : z = Append(Append(<< >>, a), b)
  OBVIOUS
<1>2. writes2(z, a, b)
  BY <1>1, Writes2
<1>3. IsSeq(z) /\ Len(z) = 2 /\ z[1] = a /\ z[2] = b
  BY <1>2 DEF writes2
<1>4. s = Append(z, c)
  BY <1>1
<1>5. IsSeq(s) /\ Len(s) = Len(z) + 1 /\ s[Len(z) + 1] = c /\ \A i \in 1 .. Len(z) : s[i] = z[i]
  <2>1. appended(z, c, s)
    BY <1>3, <1>4, AppendOne
  <2> QED
    BY <2>1 DEF appended
<1>6. Len(z) + 1 = 3 /\ 1 .. 3 = {1, 2, 3} /\ 3 # 0 /\ 1 \in 1 .. Len(z) /\ 2 \in 1 .. Len(z)
  BY <1>3, SMT
<1>7. DOMAIN s = 1 .. Len(s) /\ ((s = << >>) <=> Len(s) = 0)
  BY <1>5, SeqDomain
<1> QED
  BY <1>3, <1>5, <1>6, <1>7 DEF writes3

\* What is known while the heap is open and no method runs.
LEMMA QuietFacts ==
    ASSUME IInv, handle = "open", call = Idle
    PROVE  /\ meta.TotalPages \in Nat /\ meta.TotalPages >= 2
           /\ DOMAIN file # {0} => 1 .. meta.TotalPages - 1 \subseteq DOMAIN file
           /\ \A rid \in DOMAIN table : rid.page \in DOMAIN file /\ has(file[rid.page], rid.slot + 1, table[rid])
           /\ \A rid \in dead : rid.page \in DOMAIN file /\ tomb(file[rid.page], rid.slot + 1)
           /\ \A rid \in known : /\ rid \in RID /\ rid.page < meta.TotalPages
                                 /\ rid.slot + 1 \in DOMAIN file[rid.page].slots
<1>1. ~stores /\ ~removes /\ (\A rid : ~removing(rid)) /\ pending = << >>
  BY IdleFacts DEF IInv, Shape
<1>2. meta.TotalPages \in Nat /\ meta.TotalPages >= 2
  BY SMT DEF IInv, MetaOK, Shape
<1>3. DOMAIN file # {0} => 1 .. meta.TotalPages - 1 \subseteq DOMAIN file
  <2>1. DOMAIN pending = {}
    BY <1>1, SMT
  <2> QED
    BY <2>1 DEF IInv, PagesOK
<1>4. \A rid \in DOMAIN table : rid.page \in DOMAIN file /\ has(file[rid.page], rid.slot + 1, table[rid])
  BY <1>1 DEF IInv, RowsOK
<1>5. \A rid \in dead : rid.page \in DOMAIN file /\ tomb(file[rid.page], rid.slot + 1)
  BY DEF IInv, RowsOK
<1>6. \A rid \in known : rid \in RID /\ rid.page < meta.TotalPages
  BY DEF IInv, RowsOK, Shape
<1>7. \A rid \in known : rid.slot + 1 \in DOMAIN file[rid.page].slots
  BY <1>4, <1>5 DEF known, has, tomb
<1> QED
  BY <1>2, <1>3, <1>4, <1>5, <1>6, <1>7

\* The RID that the next row gets, on the last page or on a new one, is no other
\* row's and was none's.
LEMMA FreshRID ==
    ASSUME IInv, handle = "open", call = Idle, meta.TotalPages - 1 \in DOMAIN file
    PROVE  /\ [page |-> meta.TotalPages - 1, slot |-> Len(file[meta.TotalPages - 1].slots)] \in RID \ known
           /\ [page |-> meta.TotalPages, slot |-> 0] \in RID \ known
           /\ newPage(meta.TotalPages)
           /\ meta.TotalPages - 1 # 0 /\ pageOK(file[meta.TotalPages - 1])
<1> DEFINE T == meta.TotalPages
<1>1. T \in Nat /\ T >= 2
  BY QuietFacts
<1>2. \A rid \in known : /\ rid \in RID /\ rid.page < T
                         /\ rid.slot + 1 \in DOMAIN file[rid.page].slots
  BY QuietFacts
<1> HIDE DEF T
<1>3. \A rid \in known : rid.page # T
  BY <1>1, <1>2, RIDFacts, SMT
<1>4. T - 1 # 0 /\ T - 1 \in Nat /\ T # 0
  BY <1>1, SMT
<1>5. pageOK(file[T - 1])
  BY <1>4 DEF T, IInv, Shape
<1>6. DOMAIN file[T - 1].slots = 1 .. Len(file[T - 1].slots) /\ Len(file[T - 1].slots) \in Nat
  BY <1>5, SeqDomain DEF pageOK
<1>7. \A rid \in known : rid.page = T - 1 => rid.slot # Len(file[T - 1].slots)
  BY <1>2, <1>6, RIDFacts, SMT
<1>8. /\ [page |-> T - 1, slot |-> Len(file[T - 1].slots)] \in RID
      /\ [page |-> T, slot |-> 0] \in RID
  BY <1>1, <1>4, <1>6, RIDFacts
<1>9. /\ [page |-> T - 1, slot |-> Len(file[T - 1].slots)] \notin known
      /\ [page |-> T, slot |-> 0] \notin known
  BY <1>3, <1>7
<1> QED
  BY <1>3, <1>4, <1>5, <1>8, <1>9 DEF newPage, T

\* A method that fails before it has written anything changes nothing.
LEMMA SameOK ==
    ASSUME IInv, use' = use, call = Idle,
           UNCHANGED <<file, handle, call, pending, table, durable, dead>>,
           meta'.TotalPages = meta.TotalPages, metaDirty' = metaDirty
    PROVE  IInv'
<1>1. ~stores /\ ~removes /\ call.op # "Open" /\ \A rid : ~removing(rid)
  BY IdleFacts
<1>2. ~stores' /\ ~removes' /\ call'.op # "Open" /\ \A rid : ~removing(rid)'
  BY <1>1 DEF stores, removes, removing
<1>3. Shape'
  BY DEF IInv, Shape, known, disk
<1>4. MetaOK'
  BY <1>2 DEF IInv, MetaOK, disk
<1>5. RowsOK'
  BY <1>1, <1>2 DEF IInv, RowsOK, known, disk
<1>6. PagesOK'
  BY DEF IInv, PagesOK, disk
<1>7. WritesOK' /\ OnlyRows'
  BY <1>2 DEF IInv, WritesOK, OnlyRows, CrashDuring
<1> QED
  BY <1>3, <1>4, <1>5, <1>6, <1>7 DEF IInv

\* A page with a tuple more holds that tuple's row and what it held.
LEMMA GrowOK ==
    ASSUME NEW p, pageOK(p), NEW pg, NEW t, isRow(t), extends(p, pg, t)
    PROVE  /\ pageOK(pg) /\ Len(p.slots) \in Nat
           /\ \A s \in DOMAIN p.slots : s \in DOMAIN pg.slots /\ pg.slots[s] = p.slots[s]
           /\ has(pg, Len(p.slots) + 1, t.row)
           /\ \A s \in LiveSlots(pg) : s \in LiveSlots(p) \/ s = Len(p.slots) + 1
<1>1. /\ DOMAIN p.slots = 1 .. Len(p.slots) /\ Len(p.slots) \in Nat
      /\ DOMAIN pg.slots = 1 .. Len(p.slots) + 1
  BY SeqDomain DEF pageOK, extends
<1>2. \A s \in DOMAIN pg.slots : s \in DOMAIN p.slots \/ s = Len(p.slots) + 1
  BY <1>1, SMT
<1>3. Len(p.slots) + 1 \in DOMAIN pg.slots /\ DOMAIN p.slots \subseteq DOMAIN pg.slots
  BY <1>1, SMT
<1> QED
  BY <1>1, <1>2, <1>3 DEF extends, has, LiveSlots

\* A new page with one tuple.
LEMMA NewPageGrows ==
    /\ LiveSlots(NewPage("Data")) = {}
    /\ \A t, pg : isRow(t) /\ extends(NewPage("Data"), pg, t) =>
          /\ pageOK(pg) /\ has(pg, 1, t.row) /\ \A s \in LiveSlots(pg) : s = 1
<1>1. NewPage("Data").slots = << >> /\ pageOK(NewPage("Data"))
  BY NewPageOK
<1>2. DOMAIN << >> = {} /\ Len(<< >>) = 0 /\ 0 + 1 = 1
  BY SMT
<1>3. LiveSlots(NewPage("Data")) = {}
  BY <1>1, <1>2 DEF LiveSlots
<1> QED
  BY <1>1, <1>2, <1>3, GrowOK, SMT

\* A method that writes has begun: but for its writes the invariant holds.
LEMMA StartOK ==
    ASSUME IInv, use' = use, call = Idle, handle = "open", DOMAIN file # {0},
           UNCHANGED <<file, handle, table, durable, dead>>,
           DOMAIN call' = CallFields, call'.op \in {"Insert", "Delete", "Update"},
           IsSeq(pending'), pending' # << >>,
           \/ meta'.TotalPages = meta.TotalPages /\ metaDirty' = metaDirty
           \/ /\ meta'.TotalPages = meta.TotalPages + 1 /\ metaDirty' = TRUE
              /\ \E i \in DOMAIN pending' : pending'[i][1] = meta.TotalPages
    PROVE  Shape' /\ MetaOK' /\ RowsOK' /\ PagesOK'
<1>1. meta.TotalPages \in Nat /\ meta.TotalPages >= 2 /\ meta.TotalPages >= disk /\ disk \in Nat
  BY QuietFacts DEF IInv, MetaOK, Shape
<1>2. /\ meta'.TotalPages \in Nat /\ meta'.TotalPages >= meta.TotalPages /\ meta'.TotalPages >= disk
  BY <1>1, SMT
<1>3. call'.op # "Open" /\ call'.op # "idle" /\ call' # Idle
  BY SMT DEF Idle
<1>4. DOMAIN file # {} /\ disk' = disk /\ known' = known
  BY DEF IInv, MetaOK, disk, known
<1>5. Shape'
  BY <1>3, <1>4 DEF IInv, Shape
<1>6. MetaOK'
  <2>1. ~metaDirty' => meta'.TotalPages = disk
    BY DEF IInv, MetaOK
  <2> QED
    BY <1>2, <1>3, <1>4, <2>1 DEF MetaOK
<1>7. RowsOK'
  <2>1. \A rid \in known : rid.page < meta'.TotalPages
    <3>1. \A rid \in known : rid.page \in Nat /\ rid.page < meta.TotalPages
      BY QuietFacts, RIDFacts
    <3> QED
      BY <1>1, <1>2, <3>1, SMT
  <2>2. \A rid \in DOMAIN table : rid.page \in DOMAIN file /\ has(file[rid.page], rid.slot + 1, table[rid])
    BY QuietFacts
  <2> QED
    BY <1>4, <2>1, <2>2 DEF IInv, RowsOK
<1>8. PagesOK'
  <2>1. 1 .. meta.TotalPages - 1 \subseteq DOMAIN file
    BY QuietFacts
  <2>2. ASSUME NEW id \in 1 .. meta'.TotalPages - 1
        PROVE  id \in DOMAIN file \/ \E i \in DOMAIN pending' : pending'[i][1] = id
    <3>1. id \in 1 .. meta.TotalPages - 1 \/ (id = meta.TotalPages /\ meta'.TotalPages = meta.TotalPages + 1)
      BY <1>1, <2>2, SMT
    <3>2. meta'.TotalPages # meta.TotalPages + 1 \/ meta'.TotalPages # meta.TotalPages
      BY <1>1, SMT
    <3> QED
      BY <2>1, <3>1, <3>2
  <2>3. 1 .. disk - 1 \subseteq DOMAIN file
    BY <1>3, <1>4, IdleFacts DEF IInv, PagesOK
  <2> QED
    BY <1>3, <1>4, <2>2, <2>3 DEF PagesOK
<1> QED
  BY <1>5, <1>6, <1>7, <1>8

----------------------------------------------------------------------------
\* Insert (heap.go:153): whatever it plans, on the last page or on a new one, keeps
\* every row and gives the new one a RID of its own.
LEMMA InsertOK ==
    ASSUME inline, IInv, use' = use, NEW row \in Rows, Insert(row)
    PROVE  IInv'
<1>1. call = Idle /\ handle = "open"
  BY DEF Insert, Mutate, Usable, inline
<1>2. PICK h : h = InsertResult(row) /\ Begin("Insert", NoRID, row.id, h)
  BY DEF Insert
<1>3. /\ meta'.TotalPages = h.total /\ metaDirty' = h.dirty /\ pending' = h.writes
      /\ call' = IF h.writes = << >> THEN Idle
                 ELSE [op |-> "Insert", old |-> NoRID, row |-> row.id, rid |-> h.rid, ok |-> h.ok]
      /\ UNCHANGED <<file, handle, table, durable, dead>>
  BY <1>2 DEF Begin, ghosts
<1>4. PICK e : e = encodeWithOverflow(heap, row)
  OBVIOUS
<1>5. h = IF e.h.ok THEN insertEncoded(e.h, e.tuple) ELSE e.h
  BY <1>2, <1>4 DEF InsertResult, inserted
<1>6. ASSUME h.writes = << >>, h.total = meta.TotalPages, h.dirty = metaDirty
      PROVE  IInv'
  <2>1. call' = call /\ pending' = pending
    BY <1>1, <1>3, <1>6 DEF IInv, Shape
  <2> QED
    BY <1>1, <1>3, <1>6, <2>1, SameOK
<1>7. CASE e.h.ok = FALSE /\ e.h.writes = heap.writes /\ e.h.total = heap.total /\ e.h.dirty = heap.dirty
  BY <1>5, <1>6, <1>7, HeapFacts
<1>8. CASE e.h = heap /\ isRow(e.tuple) /\ e.tuple.row = row.id
  <2>1. PICK T, p, t : T = meta.TotalPages /\ p = file[T - 1] /\ t = e.tuple
    OBVIOUS
  <2>2. T \in Nat /\ T >= 2 /\ isRow(t) /\ t.row = row.id /\ h = insertEncoded(heap, t)
    BY <1>1, <1>5, <1>8, <2>1, HeapFacts, QuietFacts
  <2>3. T - 1 \in DOMAIN file => pageOK(p)
    BY <1>1, <2>1, FreshRID
  <2>4. \/ h = Fail(heap)
        \/ /\ T - 1 \in DOMAIN file /\ h.ok = TRUE
           /\ \E pg : /\ extends(p, pg, t) /\ h.total = T /\ h.dirty = metaDirty
                      /\ h.writes = Append(<< >>, <<T - 1, pg>>)
                      /\ h.rid = [page |-> T - 1, slot |-> Len(p.slots)]
        \/ /\ T - 1 \in DOMAIN file /\ h.ok = TRUE
           /\ \E pg : /\ extends(NewPage("Data"), pg, t) /\ h.total = T + 1 /\ h.dirty = TRUE
                      /\ h.writes = Append(Append(<< >>, <<T, NewPage("Data")>>), <<T, pg>>)
                      /\ h.rid = [page |-> T, slot |-> 0]
    <3>1. PICK g : g = heap
      OBVIOUS
    <3>2. /\ DOMAIN g = HeapFields /\ g.file = file /\ g.writes = << >> /\ g.ok = TRUE
          /\ g.total = T /\ g.dirty = metaDirty
      BY <2>1, <3>1, HeapFacts
    <3>3. h = insertEncoded(g, t) /\ p = g.file[g.total - 1] /\ (g.total - 1 \in DOMAIN g.file => pageOK(p))
      BY <2>1, <2>2, <2>3, <3>1, <3>2
    <3>4. \/ h = Fail(g)
          \/ /\ g.total - 1 \in DOMAIN g.file /\ h.ok = g.ok
             /\ \E pg : /\ extends(p, pg, t) /\ h.total = g.total /\ h.dirty = g.dirty
                        /\ h.writes = Append(g.writes, <<g.total - 1, pg>>)
                        /\ h.rid = [page |-> g.total - 1, slot |-> Len(p.slots)]
          \/ /\ g.total - 1 \in DOMAIN g.file /\ h.ok = g.ok
             /\ \E pg : /\ extends(NewPage("Data"), pg, t) /\ h.total = g.total + 1 /\ h.dirty = TRUE
                        /\ h.writes = Append(Append(g.writes, <<g.total, NewPage("Data")>>), <<g.total, pg>>)
                        /\ h.rid = [page |-> g.total, slot |-> 0]
      <4>1. g.total \in Nat /\ g.total >= 2
        BY <2>2, <3>2
      <4>2. inserts(g, t, p, h)
        BY <2>2, <3>2, <3>3, <4>1, InsertEncodedOK
      <4> QED
        BY <4>2 DEF inserts
    <3> QED
      BY <3>1, <3>2, <3>4
  <2>5. CASE h = Fail(heap)
    BY <1>6, <2>5, HeapFacts, FailFacts
  <2>6. ASSUME T - 1 \in DOMAIN file, h.ok = TRUE,
               NEW pg, extends(p, pg, t), h.total = T, h.dirty = metaDirty,
               h.writes = Append(<< >>, <<T - 1, pg>>), h.rid = [page |-> T - 1, slot |-> Len(p.slots)]
        PROVE  IInv'
    <3>1. /\ IsSeq(pending') /\ Len(pending') = 1 /\ DOMAIN pending' = {1} /\ pending' # << >>
          /\ pending'[1] = <<T - 1, pg>>
      <4>1. pending' = Append(<< >>, <<T - 1, pg>>)
        BY <1>3, <2>6
      <4>2. writes1(pending', <<T - 1, pg>>)
        BY <4>1, Writes1
      <4> QED
        BY <4>2 DEF writes1
    <3>2. pending'[1][1] = T - 1 /\ pending'[1][2] = pg
      BY <3>1, SMT
    <3>3. call' = [op |-> "Insert", old |-> NoRID, row |-> row.id, rid |-> h.rid, ok |-> h.ok]
      BY <1>3, <3>1
    <3>4. /\ DOMAIN call' = CallFields /\ call'.op = "Insert" /\ call'.row = row.id /\ call'.ok = TRUE
          /\ call'.rid = [page |-> T - 1, slot |-> Len(p.slots)]
      BY <2>6, <3>3 DEF CallFields
    <3>5. stores' /\ ~removes'
      BY <3>4 DEF stores, removes
    <3>6. /\ call'.rid \in RID \ known /\ T - 1 # 0 /\ pageOK(p)
      BY <1>1, <2>1, <2>6, <3>4, FreshRID
    <3>7. Shape' /\ MetaOK' /\ RowsOK' /\ PagesOK'
      <4>1. DOMAIN file # {0}
        BY <2>6, <3>6
      <4> QED
        BY <1>1, <1>3, <2>1, <2>6, <3>1, <3>4, <4>1, StartOK
    <3>8. /\ pageOK(pg) /\ Len(p.slots) \in Nat
          /\ \A s \in DOMAIN p.slots : s \in DOMAIN pg.slots /\ pg.slots[s] = p.slots[s]
          /\ has(pg, Len(p.slots) + 1, row.id)
          /\ \A s \in LiveSlots(pg) : s \in LiveSlots(p) \/ s = Len(p.slots) + 1
      BY <2>2, <2>6, <3>6, GrowOK
    <3>9. WritesOK'
      <4>1. T - 1 \in 1 .. meta'.TotalPages - 1
        BY <1>3, <2>2, <2>6, SMT
      <4>2. keeps(T - 1, p, pg)'
        BY <3>8 DEF keeps
      <4>3. writeOK(T - 1, pg)'
        BY <1>3, <2>1, <2>6, <3>8, <4>1, <4>2 DEF writeOK
      <4>4. \A i, j \in {1} : ~(i < j)
        BY SMT
      <4>5. call'.rid \in RID \ known' /\ call'.rid.page = T - 1 /\ has(pg, call'.rid.slot + 1, call'.row)
        <5>1. known' = known
          BY <1>3 DEF known
        <5>2. call'.rid.page = T - 1 /\ call'.rid.slot = Len(p.slots)
          BY <3>4, SMT
        <5>3. call'.rid \in RID \ known'
          BY <3>6, <5>1
        <5>4. call'.rid.slot + 1 = Len(p.slots) + 1 /\ call'.row = row.id
          BY <3>4, <5>2
        <5> QED
          BY <3>8, <5>2, <5>3, <5>4
      <4>6. \A i, j \in DOMAIN pending' :
              i < j /\ pending'[i][1] = pending'[j][1] =>
                  newPage(pending[i][1])' \/ keeps(pending[i][1], pending[i][2], pending[j][2])'
        BY <3>1, <4>4
      <4>7. \A i \in DOMAIN pending' : writeOK(pending[i][1], pending[i][2])'
        BY <3>1, <3>2, <4>3
      <4>8. /\ call'.rid \in RID \ known' /\ call'.rid.page = pending'[Len(pending')][1]
            /\ has(pending[Len(pending)][2], call.rid.slot + 1, call.row)'
        BY <3>1, <3>2, <4>5 DEF has
      <4> QED
        BY <3>4, <3>5, <4>6, <4>7, <4>8 DEF WritesOK
    <3>10. OnlyRows'
      <4> SUFFICES ASSUME CrashDuring = {}
                   PROVE  OnlyRows'
        BY DEF OnlyRows, CrashDuring
      <4>1. \A id \in DOMAIN file \ {0} : \A s \in LiveSlots(file[id]) : at(id, s) \in DOMAIN table
        BY DEF IInv, OnlyRows
      <4>2. at(T - 1, Len(p.slots) + 1) = call'.rid
        <5>1. Len(p.slots) + 1 - 1 = Len(p.slots)
          BY <3>8, SMT
        <5> QED
          BY <3>4, <5>1, SMT DEF at
      <4>3. \A s \in LiveSlots(pg) : at(T - 1, s) \in DOMAIN table \/ at(T - 1, s) = call'.rid
        BY <2>1, <2>6, <3>6, <3>8, <4>1, <4>2
      <4> QED
        BY <1>3, <3>1, <3>2, <3>5, <4>1, <4>3, SMT DEF OnlyRows
    <3> QED
      BY <3>7, <3>9, <3>10 DEF IInv
  <2>7. ASSUME T - 1 \in DOMAIN file, h.ok = TRUE,
               NEW pg, extends(NewPage("Data"), pg, t), h.total = T + 1, h.dirty = TRUE,
               h.writes = Append(Append(<< >>, <<T, NewPage("Data")>>), <<T, pg>>),
               h.rid = [page |-> T, slot |-> 0]
        PROVE  IInv'
    <3>1. /\ IsSeq(pending') /\ Len(pending') = 2 /\ DOMAIN pending' = {1, 2} /\ pending' # << >>
          /\ pending'[1] = <<T, NewPage("Data")>> /\ pending'[2] = <<T, pg>>
      <4>1. pending' = Append(Append(<< >>, <<T, NewPage("Data")>>), <<T, pg>>)
        BY <1>3, <2>7
      <4>2. writes2(pending', <<T, NewPage("Data")>>, <<T, pg>>)
        BY <4>1, Writes2
      <4> QED
        BY <4>2 DEF writes2
    <3>2. /\ pending'[1][1] = T /\ pending'[1][2] = NewPage("Data")
          /\ pending'[2][1] = T /\ pending'[2][2] = pg
      BY <3>1, SMT
    <3>3. call' = [op |-> "Insert", old |-> NoRID, row |-> row.id, rid |-> h.rid, ok |-> h.ok]
      BY <1>3, <3>1
    <3>4. /\ DOMAIN call' = CallFields /\ call'.op = "Insert" /\ call'.row = row.id /\ call'.ok = TRUE
          /\ call'.rid = [page |-> T, slot |-> 0]
      BY <2>7, <3>3 DEF CallFields
    <3>5. stores' /\ ~removes'
      BY <3>4 DEF stores, removes
    <3>6. /\ call'.rid \in RID \ known /\ T - 1 # 0 /\ newPage(T)
      BY <1>1, <2>1, <2>7, <3>4, FreshRID
    <3>7. Shape' /\ MetaOK' /\ RowsOK' /\ PagesOK'
      <4>1. DOMAIN file # {0}
        BY <2>7, <3>6
      <4>2. \E i \in DOMAIN pending' : pending'[i][1] = meta.TotalPages
        BY <2>1, <3>1, <3>2
      <4> QED
        BY <1>1, <1>3, <2>1, <2>7, <3>1, <3>4, <4>1, <4>2, StartOK
    <3>8. pageOK(pg) /\ has(pg, 1, row.id) /\ \A s \in LiveSlots(pg) : s = 1
      BY <2>2, <2>7, NewPageGrows
    <3>9. WritesOK'
      <4>1. T \in 1 .. meta'.TotalPages - 1
        BY <1>3, <2>2, <2>7, SMT
      <4>2. newPage(T)'
        BY <1>3, <3>6 DEF newPage, known
      <4>3. writeOK(T, pg)' /\ writeOK(T, NewPage("Data"))'
        BY <3>8, <4>1, <4>2, NewPageOK DEF writeOK
      <4>4. 0 + 1 = 1
        BY SMT
      <4>5. call'.rid \in RID \ known' /\ call'.rid.page = T /\ has(pg, call'.rid.slot + 1, call'.row)
        <5>1. known' = known
          BY <1>3 DEF known
        <5>2. call'.rid.page = T /\ call'.rid.slot = 0
          BY <3>4, SMT
        <5>3. call'.rid \in RID \ known'
          BY <3>6, <5>1
        <5>4. call'.rid.slot + 1 = 1 /\ call'.row = row.id
          BY <3>4, <5>2, <4>4
        <5> QED
          BY <3>8, <5>2, <5>3, <5>4
      <4>6. \A i, j \in DOMAIN pending' :
              i < j /\ pending'[i][1] = pending'[j][1] =>
                  newPage(pending[i][1])' \/ keeps(pending[i][1], pending[i][2], pending[j][2])'
        BY <3>1, <3>2, <4>2
      <4>7. \A i \in DOMAIN pending' : writeOK(pending[i][1], pending[i][2])'
        BY <3>1, <3>2, <4>3
      <4>8. /\ call'.rid \in RID \ known' /\ call'.rid.page = pending'[Len(pending')][1]
            /\ has(pending[Len(pending)][2], call.rid.slot + 1, call.row)'
        BY <3>1, <3>2, <4>5 DEF has
      <4> QED
        BY <3>4, <3>5, <4>6, <4>7, <4>8 DEF WritesOK
    <3>10. OnlyRows'
      <4> SUFFICES ASSUME CrashDuring = {}
                   PROVE  OnlyRows'
        BY DEF OnlyRows, CrashDuring
      <4>1. \A id \in DOMAIN file \ {0} : \A s \in LiveSlots(file[id]) : at(id, s) \in DOMAIN table
        BY DEF IInv, OnlyRows
      <4>2. at(T, 1) = call'.rid
        <5>1. 1 - 1 = 0
          BY SMT
        <5> QED
          BY <3>4, <5>1 DEF at
      <4>3. LiveSlots(NewPage("Data")) = {}
        BY NewPageGrows
      <4> QED
        BY <1>3, <3>1, <3>2, <3>5, <3>8, <4>1, <4>2, <4>3 DEF OnlyRows
    <3> QED
      BY <3>7, <3>9, <3>10 DEF IInv
  <2> QED
    BY <2>4, <2>5, <2>6, <2>7
<1>9. \/ e.h.ok = FALSE /\ e.h.writes = heap.writes /\ e.h.total = heap.total /\ e.h.dirty = heap.dirty
      \/ e.h = heap /\ isRow(e.tuple) /\ e.tuple.row = row.id
  <2>1. DOMAIN heap = HeapFields
    BY HeapFacts
  <2>2. encodes(heap, row, e)
    BY <1>4, <2>1, EncodeOK
  <2> QED
    BY <2>2 DEF encodes
<1> QED
  BY <1>7, <1>8, <1>9

----------------------------------------------------------------------------
\* Delete and Update (heap.go:190, 217) get past their checks only for a stored row,
\* and such a row has no overflow chain to free.
LEMMA ReadsFacts ==
    ASSUME IInv, handle = "open", call = Idle, NEW rid \in known, Reads(heap, rid)
    PROVE  /\ rid \in DOMAIN table /\ rid \in RID /\ rid.page \in DOMAIN file
           /\ rid.page \in 1 .. meta.TotalPages - 1 /\ pageOK(file[rid.page])
           /\ rid.slot + 1 \in DOMAIN file[rid.page].slots /\ DOMAIN file # {0}
           /\ freeRowOverflow(heap, rowTuple(heap, rid)) = heap
<1>1. /\ rid.page # 0 /\ rid.page \in DOMAIN file /\ rid.slot + 1 \in LiveSlots(file[rid.page])
  BY HeapFacts DEF Reads
<1>2. rid \in RID /\ rid.page < meta.TotalPages /\ meta.TotalPages \in Nat
  BY QuietFacts
<1>3. rid.page \in 1 .. meta.TotalPages - 1
  BY <1>2, RIDFacts, SMT
<1>4. pageOK(file[rid.page])
  BY <1>1 DEF IInv, Shape
<1>5. /\ rid.slot + 1 \in DOMAIN file[rid.page].slots
      /\ file[rid.page].slots[rid.slot + 1] # DeletedSlot
  BY <1>1 DEF LiveSlots
<1>6. rid \notin dead
  BY <1>5, QuietFacts DEF tomb
<1>7. isRow(file[rid.page].slots[rid.slot + 1])
  BY <1>4, <1>5 DEF pageOK
<1>8. freeRowOverflow(heap, rowTuple(heap, rid)) = heap
  <2>1. PICK t : t = rowTuple(heap, rid)
    OBVIOUS
  <2>2. t.over = << >>
    BY <1>7, <2>1, HeapFacts DEF rowTuple, isRow
  <2>3. DOMAIN << >> = {}
    BY SMT
  <2>4. freeRowOverflow(heap, t) = heap
    BY <2>2, <2>3 DEF freeRowOverflow
  <2> QED
    BY <2>1, <2>4
<1> QED
  BY <1>1, <1>2, <1>3, <1>4, <1>5, <1>6, <1>8 DEF known

\* The page a row is deleted from.
LEMMA DeletedFrom ==
    ASSUME NEW p, pageOK(p), NEW n \in Nat, n + 1 \in DOMAIN p.slots, NEW q, q = DeleteTuple(p, n)
    PROVE  /\ pageOK(q) /\ tomb(q, n + 1) /\ DOMAIN q.slots = DOMAIN p.slots /\ Len(q.slots) = Len(p.slots)
           /\ LiveSlots(q) \subseteq LiveSlots(p)
           /\ \A s \in DOMAIN p.slots : s # n + 1 => q.slots[s] = p.slots[s]
           /\ q.slots[n + 1] = DeletedSlot
<1>1. /\ pageOK(q) /\ Len(q.slots) = Len(p.slots) /\ q.slots[n + 1] = DeletedSlot
      /\ \A s \in DOMAIN p.slots : s # n + 1 => q.slots[s] = p.slots[s]
  BY DeleteTupleOK
<1>2. DOMAIN q.slots = DOMAIN p.slots
  <2>1. IsSeq(q.slots) /\ IsSeq(p.slots)
    BY <1>1 DEF pageOK
  <2>2. DOMAIN q.slots = 1 .. Len(q.slots) /\ DOMAIN p.slots = 1 .. Len(p.slots)
    BY <2>1, SeqDomain
  <2> QED
    BY <1>1, <2>2
<1> QED
  BY <1>1, <1>2 DEF tomb, LiveSlots

\* Delete makes the row's slot a tombstone and touches no other.
LEMMA DeleteOK ==
    ASSUME inline, IInv, use' = use, NEW rid \in known, Delete(rid)
    PROVE  IInv'
<1>1. call = Idle /\ handle = "open"
  BY DEF Delete, Mutate, Usable, inline
<1>2. PICK h : h = DeleteResult(rid) /\ Begin("Delete", rid, "", h)
  BY DEF Delete
<1>3. /\ meta'.TotalPages = h.total /\ metaDirty' = h.dirty /\ pending' = h.writes
      /\ call' = IF h.writes = << >> THEN Idle
                 ELSE [op |-> "Delete", old |-> rid, row |-> "", rid |-> h.rid, ok |-> h.ok]
      /\ UNCHANGED <<file, handle, table, durable, dead>>
  BY <1>2 DEF Begin, ghosts
<1>4. CASE ~Reads(heap, rid)
  <2>1. h = Fail(heap)
    BY <1>2, <1>4 DEF DeleteResult
  <2>2. h.writes = << >> /\ h.total = meta.TotalPages /\ h.dirty = metaDirty
    BY <2>1, HeapFacts, FailFacts
  <2>3. call' = call /\ pending' = pending
    BY <1>1, <1>3, <2>2 DEF IInv, Shape
  <2> QED
    BY <1>1, <1>3, <2>2, <2>3, SameOK
<1>5. CASE Reads(heap, rid)
  <2>1. PICK T, p, del : T = meta.TotalPages /\ p = file[rid.page] /\ del = DeleteTuple(p, rid.slot)
    OBVIOUS
  <2>2. /\ rid \in DOMAIN table /\ rid \in RID /\ rid.page \in DOMAIN file
        /\ rid.page \in 1 .. T - 1 /\ pageOK(p)
        /\ rid.slot + 1 \in DOMAIN p.slots /\ DOMAIN file # {0}
        /\ freeRowOverflow(heap, rowTuple(heap, rid)) = heap
    BY <1>1, <1>5, <2>1, ReadsFacts
  <2>3. h = writePage(heap, rid.page, del)
    BY <1>2, <1>5, <2>1, <2>2, HeapFacts DEF DeleteResult
  <2>4. h.writes = Append(<< >>, <<rid.page, del>>) /\ h.total = T /\ h.dirty = metaDirty /\ h.ok = TRUE
    <3>1. PICK g : g = heap
      OBVIOUS
    <3>2. DOMAIN g = HeapFields /\ g.writes = << >> /\ g.ok = TRUE /\ g.total = T /\ g.dirty = metaDirty
      BY <2>1, <3>1, HeapFacts
    <3>3. h.writes = Append(g.writes, <<rid.page, del>>) /\ h.total = g.total /\ h.dirty = g.dirty /\ h.ok = g.ok
      <4>1. wrote(g, rid.page, del, h)
        BY <2>3, <3>1, <3>2, WritePageFacts
      <4> QED
        BY <4>1 DEF wrote
    <3> QED
      BY <3>2, <3>3
  <2>5. /\ IsSeq(pending') /\ Len(pending') = 1 /\ DOMAIN pending' = {1} /\ pending' # << >>
        /\ pending'[1] = <<rid.page, del>>
    <3>1. pending' = Append(<< >>, <<rid.page, del>>)
      BY <1>3, <2>4
    <3>2. writes1(pending', <<rid.page, del>>)
      BY <3>1, Writes1
    <3> QED
      BY <3>2 DEF writes1
  <2>6. pending'[1][1] = rid.page /\ pending'[1][2] = del
    BY <2>5, SMT
  <2>7. call' = [op |-> "Delete", old |-> rid, row |-> "", rid |-> h.rid, ok |-> h.ok]
    BY <1>3, <2>5
  <2>8. DOMAIN call' = CallFields /\ call'.op = "Delete" /\ call'.old = rid /\ call'.ok = TRUE
    BY <2>4, <2>7 DEF CallFields
  <2>9. ~stores' /\ removes'
    BY <2>8 DEF stores, removes
  <2>10. Shape' /\ MetaOK' /\ RowsOK' /\ PagesOK'
    BY <1>1, <1>3, <2>1, <2>2, <2>4, <2>5, <2>8, StartOK
  <2>11. /\ pageOK(del) /\ tomb(del, rid.slot + 1) /\ DOMAIN del.slots = DOMAIN p.slots
         /\ LiveSlots(del) \subseteq LiveSlots(p)
         /\ \A s \in DOMAIN p.slots : s # rid.slot + 1 => del.slots[s] = p.slots[s]
         /\ del.slots[rid.slot + 1] = DeletedSlot
    BY <2>1, <2>2, RIDFacts, DeletedFrom, SMT
  <2>12. WritesOK'
    <3>1. keeps(rid.page, p, del)'
      BY <2>8, <2>9, <2>11 DEF keeps
    <3>2. writeOK(rid.page, del)'
      BY <1>3, <2>1, <2>2, <2>4, <2>11, <3>1 DEF writeOK
    <3>3. \A i, j \in {1} : ~(i < j)
      BY SMT
    <3>4. tomb(del, rid.slot + 1)'
      BY <2>11 DEF tomb
    <3> QED
      BY <1>3, <2>2, <2>5, <2>6, <2>8, <2>9, <3>2, <3>3, <3>4 DEF WritesOK
  <2>13. OnlyRows'
    <3> SUFFICES ASSUME CrashDuring = {}
                 PROVE  OnlyRows'
      BY DEF OnlyRows, CrashDuring
    <3>1. \A id \in DOMAIN file \ {0} : \A s \in LiveSlots(file[id]) : at(id, s) \in DOMAIN table
      BY DEF IInv, OnlyRows
    <3>2. rid.page # 0
      BY <2>2, RIDFacts
    <3>3. \A s \in LiveSlots(del) : at(rid.page, s) \in DOMAIN table
      BY <2>1, <2>2, <2>11, <3>1, <3>2
    <3> QED
      BY <1>3, <2>5, <2>6, <2>9, <3>1, <3>3 DEF OnlyRows
  <2> QED
    BY <2>10, <2>12, <2>13 DEF IInv
<1> QED
  BY <1>4, <1>5

\* Heap h is what Update of rid has made of a heap with T pages: nothing; or the page
\* with the old row deleted is written, then the new row on the last page, which is q
\* then; or on a new page.
updates(rid, row, T, del, q, h) ==
    \/ h.writes = << >> /\ h.total = T /\ h.dirty = metaDirty
    \/ /\ h.ok = TRUE
       /\ \E t, pg : /\ isRow(t) /\ t.row = row.id
                     /\ extends(q, pg, t) /\ h.total = T /\ h.dirty = metaDirty
                     /\ h.writes = Append(Append(<< >>, <<rid.page, del>>), <<T - 1, pg>>)
                     /\ h.rid = [page |-> T - 1, slot |-> Len(q.slots)]
    \/ /\ h.ok = TRUE
       /\ \E t, pg : /\ isRow(t) /\ t.row = row.id
                     /\ extends(NewPage("Data"), pg, t) /\ h.total = T + 1 /\ h.dirty = TRUE
                     /\ h.writes = Append(Append(Append(<< >>, <<rid.page, del>>),
                                                 <<T, NewPage("Data")>>), <<T, pg>>)
                     /\ h.rid = [page |-> T, slot |-> 0]

\* What Update has planned when it got past its checks: the page with the old row
\* deleted, then the new row on the last page, perhaps the same one, or on a new page.
LEMMA UpdatePlan ==
    ASSUME inline, IInv, handle = "open", call = Idle, NEW rid \in known, Reads(heap, rid),
           NEW row \in Rows, NEW h, h = UpdateResult(rid, row), NEW T, T = meta.TotalPages,
           NEW del, del = DeleteTuple(file[rid.page], rid.slot),
           NEW q, q = IF rid.page = T - 1 THEN del ELSE file[T - 1], pageOK(q)
    PROVE  updates(rid, row, T, del, q, h)
<1>1. /\ rid \in DOMAIN table /\ rid.page \in DOMAIN file /\ DOMAIN file # {0}
      /\ freeRowOverflow(heap, rowTuple(heap, rid)) = heap
  BY ReadsFacts
<1>2. T \in Nat /\ T >= 2 /\ T - 1 \in DOMAIN file
  <2>1. T \in Nat /\ T >= 2 /\ 1 .. T - 1 \subseteq DOMAIN file
    BY <1>1, QuietFacts
  <2> QED
    BY <2>1, SMT
<1>3. PICK g, e : g = heap /\ e = encodeWithOverflow(g, row)
  OBVIOUS
<1>4. /\ DOMAIN g = HeapFields /\ g.file = file /\ g.writes = << >> /\ g.ok = TRUE
      /\ g.total = T /\ g.dirty = metaDirty
  BY <1>3, HeapFacts
<1>5. PICK w : w = writePage(g, rid.page, del)
  OBVIOUS
<1>6. h = inserted(IF ~e.h.ok THEN e ELSE [e EXCEPT !.h = writePage(@, rid.page, del)])
  BY <1>1, <1>3, <1>4 DEF UpdateResult
<1>7. /\ DOMAIN e = {"h", "tuple"}
      /\ \/ e.h.ok = FALSE /\ e.h.writes = g.writes /\ e.h.total = g.total /\ e.h.dirty = g.dirty
         \/ e.h = g /\ isRow(e.tuple) /\ e.tuple.row = row.id
  <2>1. encodes(g, row, e)
    BY <1>3, <1>4, EncodeOK
  <2> QED
    BY <2>1 DEF encodes
<1>8. CASE e.h.ok = FALSE /\ e.h.writes = g.writes /\ e.h.total = g.total /\ e.h.dirty = g.dirty
  <2>1. h = e.h
    BY <1>6, <1>8 DEF inserted
  <2> QED
    BY <1>4, <1>8, <2>1 DEF updates
<1>9. CASE e.h = g /\ isRow(e.tuple) /\ e.tuple.row = row.id
  <2>1. PICK t : t = e.tuple
    OBVIOUS
  <2>2. /\ DOMAIN w = HeapFields /\ w.file = With(file, rid.page, del)
        /\ w.writes = Append(<< >>, <<rid.page, del>>)
        /\ w.total = T /\ w.dirty = metaDirty /\ w.ok = TRUE
    <3>1. /\ DOMAIN w = HeapFields /\ w.file = With(g.file, rid.page, del)
          /\ w.writes = Append(g.writes, <<rid.page, del>>)
          /\ w.total = g.total /\ w.dirty = g.dirty /\ w.ok = g.ok
      <4>1. wrote(g, rid.page, del, w)
        BY <1>4, <1>5, WritePageFacts
      <4> QED
        BY <4>1 DEF wrote
    <3> QED
      BY <1>4, <3>1
  <2>3. h = insertEncoded(w, t)
    <3>1. PICK x : x = [e EXCEPT !.h = writePage(@, rid.page, del)]
      OBVIOUS
    <3>2. x = [e EXCEPT !.h = w]
      BY <1>5, <1>9, <3>1
    <3>3. x.h = w /\ x.tuple = t
      BY <1>7, <2>1, <3>2
    <3>4. h = inserted(x)
      BY <1>4, <1>6, <1>9, <3>1
    <3> QED
      BY <2>2, <3>3, <3>4 DEF inserted
  <2>4. T - 1 \in DOMAIN w.file /\ w.file[T - 1] = q
    BY <1>2, <2>2 DEF With
  <2>5. \/ w.total - 1 \notin DOMAIN w.file /\ h = Fail(w)
        \/ /\ w.total - 1 \in DOMAIN w.file /\ h.ok = w.ok
           /\ \E pg : /\ extends(q, pg, t) /\ h.total = w.total /\ h.dirty = w.dirty
                      /\ h.writes = Append(w.writes, <<w.total - 1, pg>>)
                      /\ h.rid = [page |-> w.total - 1, slot |-> Len(q.slots)]
        \/ /\ w.total - 1 \in DOMAIN w.file /\ h.ok = w.ok
           /\ \E pg : /\ extends(NewPage("Data"), pg, t) /\ h.total = w.total + 1 /\ h.dirty = TRUE
                      /\ h.writes = Append(Append(w.writes, <<w.total, NewPage("Data")>>), <<w.total, pg>>)
                      /\ h.rid = [page |-> w.total, slot |-> 0]
    <3>1. w.total \in Nat /\ w.total >= 2 /\ isRow(t) /\ q = w.file[w.total - 1]
      BY <1>2, <1>9, <2>1, <2>2, <2>4
    <3>2. inserts(w, t, q, h)
      BY <2>2, <2>3, <3>1, InsertEncodedOK
    <3> QED
      BY <3>2 DEF inserts
  <2>6. isRow(t) /\ t.row = row.id
    BY <1>9, <2>1
  <2> QED
    BY <2>2, <2>4, <2>5, <2>6 DEF updates
<1> QED
  BY <1>7, <1>8, <1>9

\* Update writes the tombstone before the new row, and both keep every other row.
LEMMA UpdateOK ==
    ASSUME inline, IInv, use' = use, NEW rid \in known, NEW row \in Rows, Update(rid, row)
    PROVE  IInv'
<1>1. call = Idle /\ handle = "open"
  BY DEF Update, Mutate, Usable, inline
<1>2. PICK h : h = UpdateResult(rid, row) /\ Begin("Update", rid, row.id, h)
  BY DEF Update
<1>3. /\ meta'.TotalPages = h.total /\ metaDirty' = h.dirty /\ pending' = h.writes
      /\ call' = IF h.writes = << >> THEN Idle
                 ELSE [op |-> "Update", old |-> rid, row |-> row.id, rid |-> h.rid, ok |-> h.ok]
      /\ UNCHANGED <<file, handle, table, durable, dead>>
  BY <1>2 DEF Begin, ghosts
<1>4. ASSUME h.writes = << >>, h.total = meta.TotalPages, h.dirty = metaDirty
      PROVE  IInv'
  <2>1. call' = call /\ pending' = pending
    BY <1>1, <1>3, <1>4 DEF IInv, Shape
  <2> QED
    BY <1>1, <1>3, <1>4, <2>1, SameOK
<1>5. CASE ~Reads(heap, rid)
  <2>1. h = Fail(heap)
    BY <1>2, <1>5 DEF UpdateResult
  <2> QED
    BY <1>4, <2>1, HeapFacts, FailFacts
<1>6. CASE Reads(heap, rid)
  <2>1. PICK T, p, o, del, q : /\ T = meta.TotalPages /\ p = file[T - 1] /\ o = file[rid.page]
                               /\ del = DeleteTuple(o, rid.slot)
                               /\ q = IF rid.page = T - 1 THEN del ELSE p
    OBVIOUS
  <2>2. /\ rid \in DOMAIN table /\ rid \in RID /\ rid.page \in DOMAIN file
        /\ rid.page \in 1 .. T - 1 /\ pageOK(o)
        /\ rid.slot + 1 \in DOMAIN o.slots /\ DOMAIN file # {0}
    BY <1>1, <1>6, <2>1, ReadsFacts
  <2>3. /\ pageOK(del) /\ tomb(del, rid.slot + 1) /\ DOMAIN del.slots = DOMAIN o.slots
        /\ Len(del.slots) = Len(o.slots) /\ LiveSlots(del) \subseteq LiveSlots(o)
        /\ \A s \in DOMAIN o.slots : s # rid.slot + 1 => del.slots[s] = o.slots[s]
        /\ del.slots[rid.slot + 1] = DeletedSlot
    BY <2>1, <2>2, RIDFacts, DeletedFrom, SMT
  <2>4. T \in Nat /\ T >= 2 /\ T - 1 \in DOMAIN file
    <3>1. T \in Nat /\ T >= 2 /\ 1 .. T - 1 \subseteq DOMAIN file
      BY <1>1, <2>1, <2>2, QuietFacts
    <3> QED
      BY <3>1, SMT
  <2>5. /\ [page |-> T - 1, slot |-> Len(p.slots)] \in RID \ known
        /\ [page |-> T, slot |-> 0] \in RID \ known
        /\ newPage(T) /\ T - 1 # 0 /\ pageOK(p)
    BY <1>1, <2>1, <2>4, FreshRID
  <2>6. pageOK(q) /\ Len(q.slots) = Len(p.slots) /\ LiveSlots(q) \subseteq LiveSlots(p)
    BY <2>1, <2>3, <2>5
  <2>7. \/ h.writes = << >> /\ h.total = T /\ h.dirty = metaDirty
        \/ /\ h.ok = TRUE
           /\ \E t, pg : /\ isRow(t) /\ t.row = row.id
                         /\ extends(q, pg, t) /\ h.total = T /\ h.dirty = metaDirty
                         /\ h.writes = Append(Append(<< >>, <<rid.page, del>>), <<T - 1, pg>>)
                         /\ h.rid = [page |-> T - 1, slot |-> Len(q.slots)]
        \/ /\ h.ok = TRUE
           /\ \E t, pg : /\ isRow(t) /\ t.row = row.id
                         /\ extends(NewPage("Data"), pg, t) /\ h.total = T + 1 /\ h.dirty = TRUE
                         /\ h.writes = Append(Append(Append(<< >>, <<rid.page, del>>),
                                                     <<T, NewPage("Data")>>), <<T, pg>>)
                         /\ h.rid = [page |-> T, slot |-> 0]
    <3>1. /\ del = DeleteTuple(file[rid.page], rid.slot)
          /\ q = IF rid.page = T - 1 THEN del ELSE file[T - 1]
      BY <2>1
    <3>2. updates(rid, row, T, del, q, h)
      BY <1>1, <1>2, <1>6, <2>1, <2>6, <3>1, UpdatePlan
    <3> QED
      BY <3>2 DEF updates
  <2>8. ASSUME call' = [op |-> "Update", old |-> rid, row |-> row.id, rid |-> h.rid, ok |-> h.ok],
               h.ok = TRUE
        PROVE  /\ DOMAIN call' = CallFields /\ call'.op = "Update" /\ call'.row = row.id /\ call'.ok = TRUE
               /\ call'.rid = h.rid /\ call'.old = rid /\ stores' /\ removes'
    <3>1. /\ DOMAIN call' = CallFields /\ call'.op = "Update" /\ call'.row = row.id /\ call'.ok = TRUE
          /\ call'.rid = h.rid /\ call'.old = rid
      BY <2>8 DEF CallFields
    <3> QED
      BY <3>1 DEF stores, removes
  <2>9. \A id \in DOMAIN file \ {0} : \A s \in LiveSlots(file[id]) : CrashDuring = {} => at(id, s) \in DOMAIN table
    BY DEF IInv, OnlyRows
  <2>10. \A s \in LiveSlots(del) : CrashDuring = {} => at(rid.page, s) \in DOMAIN table
    BY <2>1, <2>2, <2>3, <2>9, RIDFacts
  <2>11. ASSUME h.ok = TRUE, NEW t, NEW pg, isRow(t), t.row = row.id,
                extends(q, pg, t), h.total = T, h.dirty = metaDirty,
                h.writes = Append(Append(<< >>, <<rid.page, del>>), <<T - 1, pg>>),
                h.rid = [page |-> T - 1, slot |-> Len(q.slots)]
         PROVE  IInv'
    <3>1. /\ IsSeq(pending') /\ Len(pending') = 2 /\ DOMAIN pending' = {1, 2} /\ pending' # << >>
          /\ pending'[1] = <<rid.page, del>> /\ pending'[2] = <<T - 1, pg>>
      <4>1. pending' = Append(Append(<< >>, <<rid.page, del>>), <<T - 1, pg>>)
        BY <1>3, <2>11
      <4>2. writes2(pending', <<rid.page, del>>, <<T - 1, pg>>)
        BY <4>1, Writes2
      <4> QED
        BY <4>2 DEF writes2
    <3>2. /\ pending'[1][1] = rid.page /\ pending'[1][2] = del
          /\ pending'[2][1] = T - 1 /\ pending'[2][2] = pg
      BY <3>1, SMT
    <3>3. call' = [op |-> "Update", old |-> rid, row |-> row.id, rid |-> h.rid, ok |-> h.ok]
      BY <1>3, <3>1
    <3>4. /\ DOMAIN call' = CallFields /\ call'.op = "Update" /\ call'.row = row.id /\ call'.ok = TRUE
          /\ call'.rid = h.rid /\ call'.old = rid /\ stores' /\ removes'
      BY <2>8, <2>11, <3>3
    <3>5. Shape' /\ MetaOK' /\ RowsOK' /\ PagesOK'
      BY <1>1, <1>3, <2>1, <2>2, <2>11, <3>1, <3>4, StartOK
    <3>6. /\ pageOK(pg) /\ Len(q.slots) \in Nat
          /\ \A s \in DOMAIN q.slots : s \in DOMAIN pg.slots /\ pg.slots[s] = q.slots[s]
          /\ has(pg, Len(q.slots) + 1, row.id)
          /\ \A s \in LiveSlots(pg) : s \in LiveSlots(q) \/ s = Len(q.slots) + 1
      BY <2>6, <2>11, GrowOK
    <3>7. call'.rid = [page |-> T - 1, slot |-> Len(p.slots)]
      BY <2>6, <2>11, <3>4
    <3>8. WritesOK'
      <4>1. T - 1 \in 1 .. meta'.TotalPages - 1 /\ rid.page \in 1 .. meta'.TotalPages - 1
        BY <1>3, <2>2, <2>4, <2>11, SMT
      <4>2. keeps(rid.page, o, del)'
        BY <2>3, <3>4 DEF keeps
      <4>3. keeps(T - 1, p, pg)'
        BY <2>1, <3>6, <4>2, SMT DEF keeps
      <4>4. rid.page = T - 1 => keeps(rid.page, del, pg)'
        BY <2>1, <3>6 DEF keeps
      <4>5. writeOK(rid.page, del)' /\ writeOK(T - 1, pg)'
        BY <1>3, <2>1, <2>2, <2>3, <2>4, <3>6, <4>1, <4>2, <4>3 DEF writeOK
      <4>6. \A i, j \in {1, 2} : i < j => i = 1 /\ j = 2
        BY SMT
      <4>7. call'.rid \in RID \ known' /\ call'.rid.page = T - 1 /\ has(pg, call'.rid.slot + 1, call'.row)
        <5>1. known' = known
          BY <1>3 DEF known
        <5>2. call'.rid.page = T - 1 /\ call'.rid.slot = Len(p.slots)
          BY <3>7, SMT
        <5>3. call'.rid \in RID \ known'
          BY <2>5, <3>7, <5>1
        <5>4. call'.rid.slot + 1 = Len(p.slots) + 1 /\ call'.row = row.id
          BY <3>4, <5>2
        <5> QED
          BY <2>6, <3>6, <5>2, <5>3, <5>4
      <4>8. tomb(del, rid.slot + 1)'
        BY <2>3 DEF tomb
      <4>9. \A i, j \in DOMAIN pending' :
              i < j /\ pending'[i][1] = pending'[j][1] =>
                  newPage(pending[i][1])' \/ keeps(pending[i][1], pending[i][2], pending[j][2])'
        BY <3>1, <3>2, <4>4, <4>6
      <4>10. \A i \in DOMAIN pending' : writeOK(pending[i][1], pending[i][2])'
        BY <3>1, <3>2, <4>5
      <4>11. /\ call'.rid \in RID \ known' /\ call'.rid.page = pending'[Len(pending')][1]
            /\ has(pending[Len(pending)][2], call.rid.slot + 1, call.row)'
        BY <3>1, <3>2, <4>7 DEF has
      <4>12. /\ call'.old \in DOMAIN table'
            /\ \E i \in DOMAIN pending' : /\ pending'[i][1] = call'.old.page
                                         /\ tomb(pending[i][2], call.old.slot + 1)'
        BY <1>3, <2>2, <3>1, <3>2, <3>4, <4>8 DEF tomb
      <4> QED
        BY <3>4, <4>9, <4>10, <4>11, <4>12 DEF WritesOK
    <3>9. OnlyRows'
      <4> SUFFICES ASSUME CrashDuring = {}
                   PROVE  OnlyRows'
        BY DEF OnlyRows, CrashDuring
      <4>1. at(T - 1, Len(p.slots) + 1) = call'.rid
        <5>1. Len(p.slots) + 1 - 1 = Len(p.slots)
          BY <2>6, <3>6, SMT
        <5> QED
          BY <3>7, <5>1, SMT DEF at
      <4>2. \A s \in LiveSlots(pg) : at(T - 1, s) \in DOMAIN table \/ at(T - 1, s) = call'.rid
        BY <2>1, <2>4, <2>5, <2>6, <2>9, <3>6, <4>1
      <4> QED
        BY <1>3, <2>9, <2>10, <3>1, <3>2, <3>4, <4>2, SMTT(30) DEF OnlyRows
    <3> QED
      BY <3>5, <3>8, <3>9 DEF IInv
  <2>12. ASSUME h.ok = TRUE, NEW t, NEW pg, isRow(t), t.row = row.id,
                extends(NewPage("Data"), pg, t), h.total = T + 1, h.dirty = TRUE,
                h.writes = Append(Append(Append(<< >>, <<rid.page, del>>), <<T, NewPage("Data")>>), <<T, pg>>),
                h.rid = [page |-> T, slot |-> 0]
         PROVE  IInv'
    <3>1. /\ IsSeq(pending') /\ Len(pending') = 3 /\ DOMAIN pending' = {1, 2, 3} /\ pending' # << >>
          /\ pending'[1] = <<rid.page, del>> /\ pending'[2] = <<T, NewPage("Data")>> /\ pending'[3] = <<T, pg>>
      <4>1. pending' = Append(Append(Append(<< >>, <<rid.page, del>>), <<T, NewPage("Data")>>), <<T, pg>>)
        BY <1>3, <2>12
      <4>2. writes3(pending', <<rid.page, del>>, <<T, NewPage("Data")>>, <<T, pg>>)
        BY <4>1, Writes3
      <4> QED
        BY <4>2 DEF writes3
    <3>2. /\ pending'[1][1] = rid.page /\ pending'[1][2] = del
          /\ pending'[2][1] = T /\ pending'[2][2] = NewPage("Data")
          /\ pending'[3][1] = T /\ pending'[3][2] = pg
      BY <3>1, SMT
    <3>3. call' = [op |-> "Update", old |-> rid, row |-> row.id, rid |-> h.rid, ok |-> h.ok]
      BY <1>3, <3>1
    <3>4. /\ DOMAIN call' = CallFields /\ call'.op = "Update" /\ call'.row = row.id /\ call'.ok = TRUE
          /\ call'.rid = h.rid /\ call'.old = rid /\ stores' /\ removes'
      BY <2>8, <2>12, <3>3
    <3>5. Shape' /\ MetaOK' /\ RowsOK' /\ PagesOK'
      <4>1. \E i \in DOMAIN pending' : pending'[i][1] = meta.TotalPages
        BY <2>1, <3>1, <3>2
      <4> QED
        BY <1>1, <1>3, <2>1, <2>2, <2>12, <3>1, <3>4, <4>1, StartOK
    <3>6. pageOK(pg) /\ has(pg, 1, row.id) /\ \A s \in LiveSlots(pg) : s = 1
      BY <2>12, NewPageGrows
    <3>8. WritesOK'
      <4>1. T \in 1 .. meta'.TotalPages - 1 /\ rid.page \in 1 .. meta'.TotalPages - 1
        BY <1>3, <2>2, <2>4, <2>12, SMT
      <4>2. keeps(rid.page, o, del)'
        BY <2>3, <3>4 DEF keeps
      <4>3. newPage(T)'
        BY <1>3, <2>5 DEF newPage, known
      <4>4. writeOK(rid.page, del)'
        BY <1>3, <2>1, <2>2, <2>3, <4>1, <4>2 DEF writeOK
      <4>5. writeOK(T, pg)' /\ writeOK(T, NewPage("Data"))'
        BY <3>6, <4>1, <4>3, NewPageOK DEF writeOK
      <4>6. \A i, j \in {1, 2, 3} : i < j => j # 1
        BY SMT
      <4>7. 0 + 1 = 1
        BY SMT
      <4>8. call'.rid \in RID \ known' /\ call'.rid.page = T /\ has(pg, call'.rid.slot + 1, call'.row)
        <5>1. known' = known
          BY <1>3 DEF known
        <5>2. call'.rid.page = T /\ call'.rid.slot = 0
          BY <2>12, <3>4, SMT
        <5>3. call'.rid \in RID \ known'
          BY <2>5, <2>12, <3>4, <5>1
        <5>4. call'.rid.slot + 1 = 1 /\ call'.row = row.id
          BY <3>4, <5>2, <4>7
        <5> QED
          BY <3>6, <5>2, <5>3, <5>4
      <4>9. tomb(del, rid.slot + 1)'
        BY <2>3 DEF tomb
      <4>10. \A i, j \in DOMAIN pending' :
              i < j /\ pending'[i][1] = pending'[j][1] =>
                  newPage(pending[i][1])' \/ keeps(pending[i][1], pending[i][2], pending[j][2])'
        BY <3>1, <3>2, <4>3, <4>6
      <4>11. \A i \in DOMAIN pending' : writeOK(pending[i][1], pending[i][2])'
        BY <3>1, <3>2, <4>4, <4>5
      <4>12. /\ call'.rid \in RID \ known' /\ call'.rid.page = pending'[Len(pending')][1]
            /\ has(pending[Len(pending)][2], call.rid.slot + 1, call.row)'
        BY <3>1, <3>2, <4>8 DEF has
      <4>13. /\ call'.old \in DOMAIN table'
            /\ \E i \in DOMAIN pending' : /\ pending'[i][1] = call'.old.page
                                         /\ tomb(pending[i][2], call.old.slot + 1)'
        BY <1>3, <2>2, <3>1, <3>2, <3>4, <4>9 DEF tomb
      <4> QED
        BY <3>4, <4>10, <4>11, <4>12, <4>13 DEF WritesOK
    <3>9. OnlyRows'
      <4> SUFFICES ASSUME CrashDuring = {}
                   PROVE  OnlyRows'
        BY DEF OnlyRows, CrashDuring
      <4>1. at(T, 1) = call'.rid
        <5>1. 1 - 1 = 0
          BY SMT
        <5> QED
          BY <2>12, <3>4, <5>1 DEF at
      <4>2. LiveSlots(NewPage("Data")) = {}
        BY NewPageGrows
      <4> QED
        BY <1>3, <2>9, <2>10, <3>1, <3>2, <3>4, <3>6, <4>1, <4>2, SMTT(30) DEF OnlyRows
    <3> QED
      BY <3>5, <3>8, <3>9 DEF IInv
  <2> QED
    BY <1>4, <2>1, <2>7, <2>11, <2>12
<1> QED
  BY <1>5, <1>6

----------------------------------------------------------------------------
\* The metadata page tells the number of pages.
LEMMA MetaPageFacts == \A m : MetaPage(m).slots[1].TotalPages = m.TotalPages
<1> TAKE m
<1>1. PICK s : s = Append(<< >>, MetaTuple(m.TotalPages, m.FreeListHead))
  OBVIOUS
<1>2. s[1] = MetaTuple(m.TotalPages, m.FreeListHead)
  <2>1. writes1(s, MetaTuple(m.TotalPages, m.FreeListHead))
    BY <1>1, Writes1
  <2> QED
    BY <2>1 DEF writes1
<1>3. MetaPage(m).slots = s
  BY <1>1 DEF MetaPage, InsertTuple, NewPage
<1> QED
  BY <1>2, <1>3, SMT DEF MetaTuple

\* initNew writes page 0, then page 1, and the heap is open.
LEMMA WriteOpenOK ==
    ASSUME IInv, use' = use, WriteAt, call.op = "Open"
    PROVE  IInv'
<1>1. handle = "none" /\ meta.TotalPages = 2 /\ ~metaDirty /\ known = {}
  BY DEF IInv, MetaOK
<1>2. /\ file' = With(file, pending[1][1], pending[1][2]) /\ pending' = Tail(pending)
      /\ meta' = meta /\ metaDirty' = metaDirty
  BY DEF WriteAt
<1>3. table = [x \in {} |-> table[x]] /\ DOMAIN table = {} /\ dead = {} /\ DOMAIN durable = {}
  BY <1>1, SMT DEF known, IInv, RowsOK
<1>4. ~stores /\ ~removes
  BY DEF stores, removes
<1>5. CASE DOMAIN file = {} /\ pending = <<<<0, MetaPage(meta)>>, <<1, NewPage("Data")>>>>
  <2>1. pending[1][1] = 0 /\ pending[1][2] = MetaPage(meta) /\ pending' = <<<<1, NewPage("Data")>>>>
    BY <1>2, <1>5, SMT
  <2>2. pending' # << >> /\ IsSeq(pending')
    BY <2>1, SMT DEF IsSeq
  <2>3. UNCHANGED <<call, handle, table, durable, dead>>
    BY <2>2 DEF WriteAt, ghosts
  <2>4. DOMAIN file' = {0} /\ file'[0] = MetaPage(meta)
    BY <1>2, <1>5, <2>1 DEF With
  <2>5. disk' = 2
    BY <1>1, <2>4, MetaPageFacts DEF disk
  <2>6. 2 \in Nat /\ 2 >= 2 /\ 0 \in Nat
    BY SMT
  <2>7. known' = {} /\ ~stores' /\ ~removes'
    BY <1>1, <1>4, <2>3 DEF known, stores, removes
  <2>8. Shape'
    BY <2>2, <2>3, <2>4, <2>5, <2>6, <2>7 DEF IInv, Shape, WriteAt
  <2>9. MetaOK'
    BY <1>1, <1>2, <2>1, <2>3, <2>4, <2>5, <2>7 DEF MetaOK
  <2>10. RowsOK'
    BY <1>3, <2>3, <2>7 DEF RowsOK
  <2>11. PagesOK'
    BY <1>1, <2>3 DEF PagesOK
  <2>12. WritesOK' /\ OnlyRows'
    BY <2>4, <2>7 DEF WritesOK, OnlyRows
  <2> QED
    BY <2>8, <2>9, <2>10, <2>11, <2>12 DEF IInv
<1>6. CASE DOMAIN file = {0} /\ disk = 2 /\ pending = <<<<1, NewPage("Data")>>>>
  <2>1. pending[1][1] = 1 /\ pending[1][2] = NewPage("Data") /\ pending' = << >>
    BY <1>2, <1>6, SMT
  <2>2. Return
    BY <2>1 DEF WriteAt
  <2>3. /\ DOMAIN table' = {} /\ DOMAIN durable' = {} /\ dead' = {}
        /\ handle' = "open" /\ call' = Idle
    BY <1>3, <2>2 DEF Without, Return
  <2>4. /\ DOMAIN file' = {0, 1} /\ file'[0] = file[0] /\ file'[1] = NewPage("Data")
    <3>1. 0 # 1
      BY SMT
    <3> QED
      BY <1>2, <1>6, <2>1, <3>1 DEF With
  <2>5. disk' = 2 /\ disk' \in Nat /\ disk' >= 2 /\ 1 .. disk' - 1 = {1}
    <3>1. disk' = 2
      BY <1>6, <2>4 DEF disk
    <3> QED
      BY <3>1, SMT
  <2>6. IsSeq(<< >>)
    BY SMT DEF IsSeq
  <2>7. known' = {} /\ ~stores' /\ ~removes' /\ call'.op = "idle"
    BY <2>3 DEF known, stores, removes, Idle
  <2>8. 0 \in Nat /\ 1 \in Nat
    BY SMT
  <2>9. Shape'
    BY <2>1, <2>3, <2>4, <2>5, <2>6, <2>7, <2>8, NewPageOK DEF IInv, Shape
  <2>10. MetaOK'
    <3>1. meta'.TotalPages \in Nat /\ meta'.TotalPages >= disk' /\ meta'.TotalPages = disk'
      BY <1>1, <1>2, <2>5
    <3> QED
      BY <2>3, <2>4, <2>7, <3>1 DEF MetaOK
  <2>11. RowsOK'
    BY <2>3, <2>7 DEF RowsOK
  <2>12. PagesOK'
    <3>1. meta'.TotalPages = disk'
      BY <1>1, <1>2, <2>5
    <3> QED
      BY <2>4, <2>5, <3>1 DEF PagesOK
  <2>13. WritesOK'
    BY <2>7 DEF WritesOK
  <2>14. OnlyRows'
    BY <2>4, <2>7, NewPageGrows DEF OnlyRows
  <2> QED
    BY <2>9, <2>10, <2>11, <2>12, <2>13, <2>14 DEF IInv
<1> QED
  BY <1>5, <1>6 DEF IInv, MetaOK

\* One page write of Insert, Delete or Update: the rest of the file stays, the rows
\* that are not being removed are found as before, and tombstones stay.
LEMMA WriteFacts ==
    ASSUME IInv, WriteAt, stores \/ removes, NEW id, NEW pg, id = pending[1][1], pg = pending[1][2]
    PROVE  /\ IsSeq(pending) /\ Len(pending) >= 1 /\ 1 \in DOMAIN pending /\ writeOK(id, pg)
           /\ id \in 1 .. meta.TotalPages - 1 /\ id # 0 /\ id \in Nat /\ pageOK(pg)
           /\ DOMAIN file' = DOMAIN file \cup {id} /\ file'[id] = pg
           /\ \A x \in DOMAIN file : x # id => file'[x] = file[x]
           /\ 0 \in DOMAIN file /\ disk' = disk /\ handle = "open" /\ call.ok = TRUE
           /\ \A rid \in DOMAIN table : /\ rid.page \in DOMAIN file'
                                        /\ removing(rid) \/ has(file'[rid.page], rid.slot + 1, table[rid])
           /\ \A rid \in known : tomb(file[rid.page], rid.slot + 1) =>
                                     rid.page \in DOMAIN file' /\ tomb(file'[rid.page], rid.slot + 1)
           /\ \A rid \in dead : rid.page \in DOMAIN file' /\ tomb(file'[rid.page], rid.slot + 1)
<1>1. IsSeq(pending) /\ pending # << >> /\ call # Idle /\ known \subseteq RID
  BY DEF IInv, Shape, WriteAt
<1>2. Len(pending) >= 1 /\ 1 \in DOMAIN pending
  <2>1. DOMAIN pending = 1 .. Len(pending) /\ Len(pending) \in Nat /\ Len(pending) # 0
    BY <1>1, SeqDomain
  <2> QED
    BY <2>1, SMT
<1>3. writeOK(id, pg) /\ call.ok = TRUE
  BY <1>2 DEF IInv, WritesOK
<1>4. handle = "open" /\ DOMAIN file # {} /\ 0 \in DOMAIN file /\ meta.TotalPages \in Nat
  BY DEF IInv, MetaOK, Shape
<1>5. id \in 1 .. meta.TotalPages - 1 /\ pageOK(pg)
  BY <1>3 DEF writeOK
<1>6. id # 0 /\ id \in Nat
  BY <1>4, <1>5, SMT
<1>7. /\ DOMAIN file' = DOMAIN file \cup {id} /\ file'[id] = pg
      /\ \A x \in DOMAIN file : x # id => file'[x] = file[x]
  <2>1. file' = With(file, id, pg)
    BY DEF WriteAt
  <2> QED
    BY <2>1 DEF With
<1>8. disk' = disk
  BY <1>4, <1>6, <1>7 DEF disk
<1>9. \A rid \in known : rid.page \in DOMAIN file
  BY DEF known, IInv, RowsOK
<1>10. ASSUME NEW rid \in known
       PROVE  rid.page \in DOMAIN file' /\ keeps(rid.page, file[rid.page], file'[rid.page])
  <2>1. rid.page \in DOMAIN file'
    BY <1>7, <1>9
  <2>2. CASE rid.page = id
    <3>1. ~newPage(id)
      BY <2>2 DEF newPage
    <3>2. keeps(id, file[id], pg)
      BY <1>3, <3>1 DEF writeOK
    <3> QED
      BY <1>7, <2>1, <2>2, <3>2
  <2>3. CASE rid.page # id
    <3>1. file'[rid.page] = file[rid.page]
      BY <1>7, <1>9, <2>3
    <3> QED
      BY <2>1, <3>1 DEF keeps
  <2> QED
    BY <2>2, <2>3
<1>11. ASSUME NEW rid \in DOMAIN table
       PROVE  removing(rid) \/ has(file'[rid.page], rid.slot + 1, table[rid])
  <2> SUFFICES ASSUME ~removing(rid)
               PROVE  has(file'[rid.page], rid.slot + 1, table[rid])
    OBVIOUS
  <2>1. has(file[rid.page], rid.slot + 1, table[rid]) /\ rid \in known
    BY DEF IInv, RowsOK, known
  <2>2. rid.slot + 1 \in DOMAIN file[rid.page].slots
    BY <2>1 DEF has
  <2>3. ~(removes /\ call.old.page = rid.page /\ call.old.slot + 1 = rid.slot + 1)
    <3> SUFFICES ASSUME removes, call.old.page = rid.page, call.old.slot + 1 = rid.slot + 1
                 PROVE  FALSE
      OBVIOUS
    <3>1. call.old \in RID /\ rid \in RID
      BY <1>1, <2>1 DEF IInv, WritesOK, known
    <3>2. call.old.slot = rid.slot
      <4>1. call.old.slot \in Nat /\ rid.slot \in Nat
        BY <3>1, RIDFacts
      <4> QED
        BY <4>1, SMT
    <3>3. rid = call.old
      BY <3>1, <3>2, RIDFacts
    <3> QED
      BY <3>3 DEF removing
  <2>4. /\ rid.slot + 1 \in DOMAIN file'[rid.page].slots
        /\ file'[rid.page].slots[rid.slot + 1] = file[rid.page].slots[rid.slot + 1]
    BY <1>10, <2>1, <2>2, <2>3 DEF keeps
  <2> QED
    BY <2>1, <2>4 DEF has
<1>12. ASSUME NEW rid \in known, tomb(file[rid.page], rid.slot + 1)
       PROVE  rid.page \in DOMAIN file' /\ tomb(file'[rid.page], rid.slot + 1)
  BY <1>10, <1>12 DEF keeps, tomb
<1>13. \A rid \in dead : rid.page \in DOMAIN file' /\ tomb(file'[rid.page], rid.slot + 1)
  BY <1>12 DEF IInv, RowsOK, known
<1>14. \A rid \in DOMAIN table : rid.page \in DOMAIN file'
  BY <1>7, <1>9 DEF known
<1> QED
  BY <1>1, <1>2, <1>3, <1>4, <1>5, <1>6, <1>7, <1>8, <1>11, <1>12, <1>13, <1>14

\* A write that is not the method's last.
LEMMA WriteMoreOK ==
    ASSUME IInv, use' = use, WriteAt, stores \/ removes, Tail(pending) # << >>
    PROVE  IInv'
<1>1. /\ pending' = Tail(pending) /\ pending' # << >> /\ call # Idle
      /\ UNCHANGED <<call, handle, table, durable, dead, meta, metaDirty>>
  BY DEF WriteAt, ghosts
<1>2. PICK id, pg : id = pending[1][1] /\ pg = pending[1][2]
  OBVIOUS
<1>3. /\ IsSeq(pending) /\ Len(pending) >= 1 /\ 1 \in DOMAIN pending /\ writeOK(id, pg)
      /\ id \in 1 .. meta.TotalPages - 1 /\ id # 0 /\ id \in Nat /\ pageOK(pg)
      /\ DOMAIN file' = DOMAIN file \cup {id} /\ file'[id] = pg
      /\ \A x \in DOMAIN file : x # id => file'[x] = file[x]
      /\ 0 \in DOMAIN file /\ disk' = disk /\ handle = "open" /\ call.ok = TRUE
  BY <1>2, WriteFacts
<1>4. /\ \A rid \in DOMAIN table : /\ rid.page \in DOMAIN file'
                                   /\ removing(rid) \/ has(file'[rid.page], rid.slot + 1, table[rid])
      /\ \A rid \in known : tomb(file[rid.page], rid.slot + 1) => tomb(file'[rid.page], rid.slot + 1)
      /\ \A rid \in dead : rid.page \in DOMAIN file' /\ tomb(file'[rid.page], rid.slot + 1)
  BY <1>2, WriteFacts
<1>5. /\ IsSeq(pending') /\ Len(pending) \in Nat /\ Len(pending') = Len(pending) - 1 /\ Len(pending') \in Nat
      /\ DOMAIN pending = 1 .. Len(pending) /\ DOMAIN pending' = 1 .. Len(pending) - 1 /\ Len(pending') # 0
      /\ \A i \in 1 .. Len(pending) - 1 : pending'[i] = pending[i + 1]
  <2>1. /\ IsSeq(pending') /\ Len(pending') = Len(pending) - 1
        /\ \A i \in 1 .. Len(pending) - 1 : pending'[i] = pending[i + 1]
    BY <1>1, <1>3, TailFacts, SMT
  <2> QED
    BY <1>1, <1>3, <2>1, SeqDomain
<1>6. \A i \in DOMAIN pending' : /\ i + 1 \in DOMAIN pending /\ pending'[i] = pending[i + 1]
                                 /\ i + 1 # 1 /\ 1 < i + 1
                                 /\ (i + 1 = Len(pending) => i = Len(pending'))
  BY <1>5, SMT
<1>7. \A i \in DOMAIN pending : i = 1 \/ \E j \in DOMAIN pending' : i = j + 1
  <2> SUFFICES ASSUME NEW i \in DOMAIN pending, i # 1
               PROVE  i - 1 \in DOMAIN pending' /\ i = (i - 1) + 1
    OBVIOUS
  <2> QED
    BY <1>5, SMT
<1>8. /\ known' = known /\ (stores' <=> stores) /\ (removes' <=> removes)
      /\ \A rid : (removing(rid)' <=> removing(rid))
      /\ \A x : (newPage(x)' <=> newPage(x))
      /\ \A x, p, q : (keeps(x, p, q)' <=> keeps(x, p, q))
  BY <1>1 DEF known, stores, removes, removing, newPage, keeps
<1>9. call.op # "Open"
  BY DEF stores, removes
<1>10. Shape'
  BY <1>1, <1>3, <1>5, <1>8 DEF IInv, Shape
<1>11. MetaOK'
  <2>1. DOMAIN file' # {}
    BY <1>3
  <2> QED
    BY <1>1, <1>3, <1>8, <1>9, <2>1 DEF IInv, MetaOK
<1>12. RowsOK'
  BY <1>1, <1>3, <1>4, <1>8 DEF IInv, RowsOK
<1>13. PagesOK'
  <2>1. 1 .. disk - 1 \subseteq DOMAIN file'
    BY <1>1, <1>3, <1>9 DEF IInv, PagesOK
  <2>2. ASSUME NEW x \in 1 .. meta.TotalPages - 1
        PROVE  x \in DOMAIN file' \/ \E i \in DOMAIN pending' : pending'[i][1] = x
    <3>1. x \in DOMAIN file \/ \E i \in DOMAIN pending : pending[i][1] = x
      BY <1>1, <1>3 DEF IInv, PagesOK
    <3>2. CASE x \in DOMAIN file
      BY <1>3, <3>2
    <3>3. ASSUME NEW i \in DOMAIN pending, pending[i][1] = x
          PROVE  x \in DOMAIN file' \/ \E j \in DOMAIN pending' : pending'[j][1] = x
      <4>1. CASE i = 1
        BY <1>2, <1>3, <3>3, <4>1
      <4>2. ASSUME NEW j \in DOMAIN pending', i = j + 1
            PROVE  pending'[j][1] = x
        BY <1>6, <3>3, <4>2
      <4> QED
        BY <1>7, <4>1, <4>2
    <3> QED
      BY <3>1, <3>2, <3>3
  <2> QED
    BY <1>1, <1>3, <2>1, <2>2 DEF PagesOK
<1>14. WritesOK'
  <2>1. ASSUME NEW i \in DOMAIN pending'
        PROVE  writeOK(pending[i][1], pending[i][2])'
    <3>1. PICK x, p : x = pending'[i][1] /\ p = pending'[i][2]
      OBVIOUS
    <3>2. i + 1 \in DOMAIN pending /\ x = pending[i + 1][1] /\ p = pending[i + 1][2] /\ 1 < i + 1
      BY <1>6, <3>1
    <3>3. writeOK(x, p)
      BY <3>2 DEF IInv, WritesOK
    <3>4. CASE newPage(x)
      BY <1>1, <1>8, <3>1, <3>3, <3>4 DEF writeOK
    <3>5. CASE ~newPage(x) /\ x = id
      <4>1. keeps(id, pg, p)
        BY <1>2, <1>3, <3>2, <3>5 DEF IInv, WritesOK
      <4>2. writeOK(x, p)'
        BY <1>1, <1>3, <1>8, <3>3, <3>5, <4>1 DEF writeOK
      <4> QED
        BY <3>1, <4>2
    <3>6. CASE ~newPage(x) /\ x # id
      <4>1. x \in DOMAIN file /\ keeps(x, file[x], p)
        BY <3>3, <3>6 DEF writeOK
      <4>2. file'[x] = file[x] /\ x \in DOMAIN file'
        BY <1>3, <3>6, <4>1
      <4>3. writeOK(x, p)'
        BY <1>1, <1>8, <3>3, <4>1, <4>2 DEF writeOK
      <4> QED
        BY <3>1, <4>3
    <3> QED
      BY <3>4, <3>5, <3>6
  <2>2. ASSUME NEW i \in DOMAIN pending', NEW j \in DOMAIN pending', i < j, pending'[i][1] = pending'[j][1]
        PROVE  newPage(pending[i][1])' \/ keeps(pending[i][1], pending[i][2], pending[j][2])'
    <3>1. /\ i + 1 \in DOMAIN pending /\ pending'[i] = pending[i + 1]
          /\ j + 1 \in DOMAIN pending /\ pending'[j] = pending[j + 1]
      BY <1>6
    <3>2. i + 1 < j + 1
      BY <1>5, <2>2, SMT
    <3>3. newPage(pending[i + 1][1]) \/ keeps(pending[i + 1][1], pending[i + 1][2], pending[j + 1][2])
      BY <2>2, <3>1, <3>2 DEF IInv, WritesOK
    <3> QED
      BY <1>8, <3>1, <3>3
  <2>3. ASSUME removes
        PROVE  /\ call.old \in DOMAIN table
               /\ \/ tomb(file'[call.old.page], call.old.slot + 1)
                  \/ \E i \in DOMAIN pending' : /\ pending'[i][1] = call.old.page
                                                /\ tomb(pending'[i][2], call.old.slot + 1)
    <3>1. /\ call.old \in DOMAIN table
          /\ \/ tomb(file[call.old.page], call.old.slot + 1)
             \/ \E i \in DOMAIN pending : /\ pending[i][1] = call.old.page
                                          /\ tomb(pending[i][2], call.old.slot + 1)
      BY <2>3 DEF IInv, WritesOK
    <3>2. CASE tomb(file[call.old.page], call.old.slot + 1)
      BY <1>4, <3>1, <3>2 DEF known
    <3>3. ASSUME NEW i \in DOMAIN pending, pending[i][1] = call.old.page, tomb(pending[i][2], call.old.slot + 1)
          PROVE  \/ tomb(file'[call.old.page], call.old.slot + 1)
                 \/ \E j \in DOMAIN pending' : /\ pending'[j][1] = call.old.page
                                               /\ tomb(pending'[j][2], call.old.slot + 1)
      <4>1. CASE i = 1
        BY <1>2, <1>3, <3>3, <4>1
      <4>2. ASSUME NEW j \in DOMAIN pending', i = j + 1
            PROVE  pending'[j][1] = call.old.page /\ tomb(pending'[j][2], call.old.slot + 1)
        BY <1>6, <3>3, <4>2
      <4> QED
        BY <1>7, <4>1, <4>2
    <3> QED
      BY <3>1, <3>2, <3>3
  <2>4. ASSUME stores
        PROVE  /\ call.rid \in RID \ known /\ call.rid.page = pending'[Len(pending')][1]
               /\ has(pending'[Len(pending')][2], call.rid.slot + 1, call.row)
    <3>1. pending'[Len(pending')] = pending[Len(pending)]
      <4>1. Len(pending') \in DOMAIN pending' /\ Len(pending') + 1 = Len(pending)
        BY <1>5, SMT
      <4> QED
        BY <1>6, <4>1
    <3> QED
      BY <2>4, <3>1 DEF IInv, WritesOK
  <2>5. removes => /\ call'.old \in DOMAIN table'
                   /\ \/ tomb(file[call.old.page], call.old.slot + 1)'
                      \/ \E i \in DOMAIN pending' : /\ pending'[i][1] = call'.old.page
                                                    /\ tomb(pending[i][2], call.old.slot + 1)'
    BY <1>1, <2>3 DEF tomb
  <2>6. stores => /\ call'.rid \in RID \ known' /\ call'.rid.page = pending'[Len(pending')][1]
                  /\ has(pending[Len(pending)][2], call.rid.slot + 1, call.row)'
    BY <1>1, <1>8, <2>4 DEF has
  <2>7. call'.ok = TRUE
    BY <1>1, <1>3
  <2>8. /\ \A i \in DOMAIN pending' : writeOK(pending[i][1], pending[i][2])'
        /\ \A i, j \in DOMAIN pending' :
              i < j /\ pending'[i][1] = pending'[j][1] =>
                  newPage(pending[i][1])' \/ keeps(pending[i][1], pending[i][2], pending[j][2])'
    BY <2>1, <2>2
  <2> QED
    BY <1>8, <2>5, <2>6, <2>7, <2>8 DEF WritesOK
<1>15. OnlyRows'
  <2> SUFFICES ASSUME CrashDuring = {}
               PROVE  OnlyRows'
    BY DEF OnlyRows, CrashDuring
  <2>1. /\ \A x \in DOMAIN file \ {0} : \A s \in LiveSlots(file[x]) : at(x, s) \in DOMAIN table
        /\ \A i \in DOMAIN pending : \A s \in LiveSlots(pending[i][2]) :
                  \/ at(pending[i][1], s) \in DOMAIN table
                  \/ stores /\ i = Len(pending) /\ at(pending[i][1], s) = call.rid
    BY DEF IInv, OnlyRows
  <2>2. Len(pending) # 1
    BY <1>5, SMT
  <2>3. \A s \in LiveSlots(pg) : at(id, s) \in DOMAIN table
    BY <1>2, <1>3, <2>1, <2>2
  <2>4. \A x \in DOMAIN file' \ {0} : \A s \in LiveSlots(file'[x]) : at(x, s) \in DOMAIN table
    BY <1>3, <2>1, <2>3
  <2>5. \A i \in DOMAIN pending' : \A s \in LiveSlots(pending'[i][2]) :
                  \/ at(pending'[i][1], s) \in DOMAIN table
                  \/ stores /\ i = Len(pending') /\ at(pending'[i][1], s) = call.rid
    BY <1>6, <2>1, SMTT(30)
  <2> QED
    BY <1>1, <1>8, <2>4, <2>5 DEF OnlyRows
<1> QED
  BY <1>10, <1>11, <1>12, <1>13, <1>14, <1>15 DEF IInv

\* The last write of a method, after which it returns.
LEMMA WriteLastOK ==
    ASSUME IInv, use' = use, WriteAt, stores \/ removes, Tail(pending) = << >>
    PROVE  IInv'
<1>1. PICK id, pg : id = pending[1][1] /\ pg = pending[1][2]
  OBVIOUS
<1>2. /\ IsSeq(pending) /\ Len(pending) >= 1 /\ 1 \in DOMAIN pending /\ writeOK(id, pg)
      /\ id \in 1 .. meta.TotalPages - 1 /\ id # 0 /\ id \in Nat /\ pageOK(pg)
      /\ DOMAIN file' = DOMAIN file \cup {id} /\ file'[id] = pg
      /\ \A x \in DOMAIN file : x # id => file'[x] = file[x]
      /\ 0 \in DOMAIN file /\ disk' = disk /\ handle = "open" /\ call.ok = TRUE
  BY <1>1, WriteFacts
<1>3. /\ \A rid \in DOMAIN table : /\ rid.page \in DOMAIN file'
                                   /\ removing(rid) \/ has(file'[rid.page], rid.slot + 1, table[rid])
      /\ \A rid \in known : tomb(file[rid.page], rid.slot + 1) =>
                                rid.page \in DOMAIN file' /\ tomb(file'[rid.page], rid.slot + 1)
      /\ \A rid \in dead : rid.page \in DOMAIN file' /\ tomb(file'[rid.page], rid.slot + 1)
  BY <1>1, WriteFacts
<1>4. Len(pending) = 1 /\ DOMAIN pending = {1}
  <2>1. Len(pending) - 1 = Len(Tail(pending)) /\ Len(Tail(pending)) = 0
    <3>1. pending # << >>
      BY DEF IInv, Shape, WriteAt
    <3>2. Len(Tail(pending)) = Len(pending) - 1
      BY <1>2, <3>1, TailFacts
    <3>3. Len(<< >>) = 0
      BY SMT
    <3> QED
      BY <3>2, <3>3
  <2>2. DOMAIN pending = 1 .. Len(pending) /\ Len(pending) \in Nat
    BY <1>2, SeqDomain
  <2>3. Len(pending) = 1 /\ 1 .. 1 = {1}
    BY <2>1, <2>2, SMT
  <2> QED
    BY <2>2, <2>3
<1>5. /\ pending' = << >> /\ Return /\ meta' = meta /\ metaDirty' = metaDirty /\ call # Idle
  BY DEF WriteAt
<1>6. PICK gone, kept : /\ gone = IF removes THEN {call.old} ELSE {}
                        /\ kept = Without(table, gone)
  OBVIOUS
<1>7. call.op # "Open"
  BY DEF stores, removes
<1>8. /\ table' = IF stores THEN With(kept, call.rid, call.row) ELSE kept
      /\ durable' = Without(durable, gone) /\ dead' = dead \cup gone
      /\ handle' = "open" /\ call' = Idle
  BY <1>2, <1>5, <1>6, <1>7 DEF Return, stores, removes
<1>9. call'.op = "idle" /\ ~stores' /\ ~removes' /\ \A rid : ~removing(rid)'
  BY <1>8 DEF Idle, stores, removes, removing
<1>10. stores => /\ call.rid \in RID /\ call.rid \notin known /\ call.rid.page = id
                 /\ has(pg, call.rid.slot + 1, call.row)
  BY <1>1, <1>4 DEF IInv, WritesOK
<1>11. gone \subseteq DOMAIN table
  BY <1>6 DEF IInv, WritesOK
<1>12. \A rid \in gone : rid.page \in DOMAIN file' /\ tomb(file'[rid.page], rid.slot + 1)
  <2> SUFFICES ASSUME removes
               PROVE  call.old.page \in DOMAIN file' /\ tomb(file'[call.old.page], call.old.slot + 1)
    BY <1>6
  <2>1. /\ call.old \in known
        /\ \/ tomb(file[call.old.page], call.old.slot + 1)
           \/ pending[1][1] = call.old.page /\ tomb(pending[1][2], call.old.slot + 1)
    BY <1>4 DEF IInv, WritesOK, known
  <2> QED
    BY <1>1, <1>2, <1>3, <2>1
<1>13. DOMAIN kept = DOMAIN table \ gone /\ \A rid \in DOMAIN kept : kept[rid] = table[rid]
  BY <1>6 DEF Without
<1>14. /\ DOMAIN table' = DOMAIN kept \cup (IF stores THEN {call.rid} ELSE {})
       /\ \A rid \in DOMAIN kept : table'[rid] = table[rid]
       /\ stores => table'[call.rid] = call.row
  <2>1. CASE stores
    <3>1. call.rid \notin DOMAIN kept
      BY <1>10, <1>13, <2>1 DEF known
    <3> QED
      BY <1>8, <1>13, <2>1, <3>1 DEF With
  <2>2. CASE ~stores
    BY <1>8, <1>13, <2>2
  <2> QED
    BY <2>1, <2>2
<1>15. DOMAIN durable' = DOMAIN durable \ gone /\ \A rid \in DOMAIN durable' : durable'[rid] = durable[rid]
  BY <1>8 DEF Without
<1>16. known' = known \cup (IF stores THEN {call.rid} ELSE {})
  BY <1>8, <1>11, <1>13, <1>14 DEF known
<1>17. Shape'
  <2>1. known' \subseteq RID
    BY <1>10, <1>16 DEF IInv, Shape
  <2>2. IsSeq(<< >>)
    BY SMT DEF IsSeq
  <2>3. DOMAIN file' \subseteq Nat /\ \A x \in DOMAIN file' : x # 0 => pageOK(file'[x])
    BY <1>2 DEF IInv, Shape
  <2>4. \A x : pageOK(x)' <=> pageOK(x)
    BY DEF pageOK
  <2> QED
    BY <1>2, <1>5, <1>8, <2>1, <2>2, <2>3, <2>4 DEF IInv, Shape
<1>18. MetaOK'
  <2>1. DOMAIN file' # {}
    BY <1>2
  <2> QED
    BY <1>2, <1>5, <1>8, <1>9, <2>1 DEF IInv, MetaOK
<1>19. RowsOK'
  <2>1. ASSUME NEW rid \in DOMAIN table'
        PROVE  rid.page \in DOMAIN file' /\ has(file'[rid.page], rid.slot + 1, table'[rid])
    <3>1. CASE rid \in DOMAIN kept
      <4>1. rid \in DOMAIN table /\ ~removing(rid) /\ table'[rid] = table[rid]
        BY <1>6, <1>13, <1>14, <3>1 DEF removing
      <4> QED
        BY <1>3, <4>1
    <3>2. CASE stores /\ rid = call.rid
      BY <1>2, <1>10, <1>14, <3>2
    <3> QED
      BY <1>14, <2>1, <3>1, <3>2
  <2>2. \A rid \in dead' : rid.page \in DOMAIN file' /\ tomb(file'[rid.page], rid.slot + 1)
    BY <1>3, <1>8, <1>12
  <2>3. \A rid \in known' : rid.page < meta'.TotalPages
    <3>1. stores => call.rid.page < meta.TotalPages
      <4>1. id < meta.TotalPages
        <5>1. meta.TotalPages \in Nat
          BY <1>2 DEF IInv, MetaOK
        <5> QED
          BY <1>2, <5>1, SMT
      <4> QED
        BY <1>10, <4>1
    <3> QED
      BY <1>2, <1>5, <1>16, <3>1 DEF IInv, RowsOK
  <2>4. DOMAIN durable' \subseteq DOMAIN table'
    BY <1>13, <1>14, <1>15 DEF IInv, RowsOK
  <2>5. \A rid \in DOMAIN durable' : durable'[rid] = table'[rid] /\ rid.page < disk'
    BY <1>2, <1>13, <1>14, <1>15 DEF IInv, RowsOK
  <2>6. \A rid \in DOMAIN table' : has(file[rid.page], rid.slot + 1, table[rid])'
    BY <2>1 DEF has
  <2>7. \A rid \in dead' : tomb(file[rid.page], rid.slot + 1)'
    BY <2>2 DEF tomb
  <2> QED
    BY <1>8, <2>1, <2>2, <2>3, <2>4, <2>5, <2>6, <2>7 DEF RowsOK
<1>20. PagesOK'
  <2>1. 1 .. disk - 1 \subseteq DOMAIN file'
    BY <1>2, <1>5, <1>7 DEF IInv, PagesOK
  <2>2. \A x \in 1 .. meta.TotalPages - 1 : x \in DOMAIN file'
    BY <1>1, <1>2, <1>4, <1>5 DEF IInv, PagesOK
  <2> QED
    BY <1>2, <1>5, <2>1, <2>2 DEF PagesOK
<1>21. WritesOK'
  BY <1>9 DEF WritesOK
<1>22. OnlyRows'
  <2> SUFFICES ASSUME CrashDuring = {}
               PROVE  OnlyRows'
    BY DEF OnlyRows, CrashDuring
  <2>1. /\ \A x \in DOMAIN file \ {0} : \A s \in LiveSlots(file[x]) : at(x, s) \in DOMAIN table
        /\ \A s \in LiveSlots(pg) : at(id, s) \in DOMAIN table \/ (stores /\ at(id, s) = call.rid)
    BY <1>1, <1>4 DEF IInv, OnlyRows
  <2>2. ASSUME NEW x \in DOMAIN file' \ {0}, NEW s \in LiveSlots(file'[x])
        PROVE  at(x, s) \in DOMAIN table'
    <3>1. at(x, s) \in DOMAIN table \/ (stores /\ at(x, s) = call.rid)
      BY <1>2, <2>1, <2>2
    <3>2. at(x, s) \notin gone
      <4> SUFFICES ASSUME at(x, s) \in gone
                   PROVE  FALSE
        OBVIOUS
      <4>1. PICK r : r = at(x, s)
        OBVIOUS
      <4>2. tomb(file'[r.page], r.slot + 1)
        BY <1>12, <4>1
      <4>3. r.page = x /\ r.slot = s - 1
        BY <4>1 DEF at
      <4>4. s \in DOMAIN file'[x].slots /\ file'[x].slots[s] # DeletedSlot /\ pageOK(file'[x])
        BY <1>17, <2>2 DEF LiveSlots, Shape, pageOK
      <4>5. s \in 1 .. Len(file'[x].slots) /\ Len(file'[x].slots) \in Nat
        BY <4>4, SeqDomain DEF pageOK
      <4>6. s - 1 + 1 = s
        BY <4>5, SMT
      <4> QED
        BY <4>2, <4>3, <4>4, <4>6 DEF tomb
    <3> QED
      BY <1>13, <1>14, <3>1, <3>2
  <2> QED
    BY <1>9, <2>2 DEF OnlyRows, LiveSlots
<1> QED
  BY <1>17, <1>18, <1>19, <1>20, <1>21, <1>22 DEF IInv

\* The two writes of initNew are a list.
LEMMA PairIsSeq ==
    ASSUME NEW a, NEW b, NEW s, s = <<a, b>>  PROVE IsSeq(s) /\ s # << >>
<1>1. s \in Seq({a, b}) /\ Len(s) = 2
  BY SMT
<1>2. s # << >> /\ Len(s) \in Nat
  BY <1>1, SMT
<1>3. s \in [1 .. Len(s) -> {a, b}]
  BY <1>1, LenProperties
<1>4. s = [i \in 1 .. Len(s) |-> s[i]]
  BY <1>3
<1> QED
  BY <1>2, <1>4 DEF IsSeq

----------------------------------------------------------------------------
\* OpenHeapFile (heap.go:54) starts a new file, or takes the metadata from page 0.
LEMMA OpenOK ==
    ASSUME IInv, use' = use, OpenHeapFile
    PROVE  IInv'
<1>1. /\ call = Idle /\ handle # "open" /\ UNCHANGED <<file, table, durable, dead>>
      /\ IF DOMAIN file = {} THEN initNew ELSE readMeta
  BY DEF OpenHeapFile, ghosts
<1>2. disk' = disk /\ known' = known
  BY <1>1 DEF disk, known
<1>3. CASE DOMAIN file = {}
  <2>1. handle = "none" /\ known = {} /\ DOMAIN durable = {} /\ DOMAIN table = {} /\ dead = {}
    BY <1>3 DEF IInv, MetaOK, RowsOK, known
  <2>2. /\ meta' = [TotalPages |-> 2, FreeListHead |-> 0] /\ metaDirty' = FALSE /\ handle' = handle
        /\ pending' = <<<<0, MetaPage(meta')>>, <<1, NewPage("Data")>>>>
        /\ call' = [op |-> "Open", old |-> NoRID, row |-> "", rid |-> NoRID, ok |-> TRUE]
    BY <1>1, <1>3 DEF initNew
  <2>3. call'.op = "Open" /\ DOMAIN call' = CallFields /\ call' # Idle
    BY <2>2 DEF CallFields, Idle
  <2>4. IsSeq(pending') /\ pending' # << >>
    BY <2>2, PairIsSeq
  <2>5. ~stores' /\ ~removes'
    BY <2>3 DEF stores, removes
  <2>6. MetaPage(meta)' = MetaPage(meta') /\ NewPage("Data")' = NewPage("Data")
    BY DEF MetaPage, NewPage, InsertTuple
  <2>7. Shape'
    BY <1>1, <1>2, <1>3, <2>3, <2>4 DEF IInv, Shape
  <2>8. MetaOK'
    BY <1>1, <1>2, <1>3, <2>1, <2>2, <2>3, <2>5, <2>6 DEF MetaOK
  <2>9. RowsOK' /\ PagesOK'
    BY <1>1, <1>2, <1>3, <2>1, <2>2 DEF RowsOK, PagesOK
  <2>10. WritesOK' /\ OnlyRows'
    BY <1>1, <1>3, <2>5 DEF WritesOK, OnlyRows
  <2> QED
    BY <2>7, <2>8, <2>9, <2>10 DEF IInv
<1>4. CASE DOMAIN file # {}
  <2>1. meta'.TotalPages = disk /\ metaDirty' = FALSE /\ handle' = "open" /\ UNCHANGED <<call, pending>>
    BY <1>1, <1>4, SMT DEF readMeta, disk
  <2>2. ~stores' /\ ~removes' /\ call'.op = "idle" /\ (\A rid : ~removing(rid)') /\ \A rid : ~removing(rid)
    BY <1>1, <2>1, IdleFacts DEF stores, removes, removing, Idle
  <2>3. disk \in Nat /\ disk >= disk
    <3>1. disk \in Nat
      BY <1>4 DEF IInv, Shape
    <3> QED
      BY <3>1, SMT
  <2>4. \A rid \in known : rid.page < disk
    BY <1>1 DEF IInv, MetaOK, RowsOK
  <2>5. Shape'
    BY <1>1, <1>2, <2>1 DEF IInv, Shape
  <2>6. MetaOK'
    BY <1>1, <1>2, <1>4, <2>1, <2>2, <2>3 DEF MetaOK
  <2>7. RowsOK'
    BY <1>1, <1>2, <2>1, <2>2, <2>4 DEF IInv, RowsOK
  <2>8. PagesOK'
    <3>1. DOMAIN file = {0} \/ 1 .. disk - 1 \subseteq DOMAIN file
      BY <1>1, <1>4, IdleFacts DEF IInv, PagesOK
    <3> QED
      BY <1>1, <1>2, <2>1, <3>1 DEF PagesOK
  <2>9. WritesOK' /\ OnlyRows'
    BY <1>1, <2>2 DEF IInv, WritesOK, OnlyRows, CrashDuring
  <2> QED
    BY <2>5, <2>6, <2>7, <2>8, <2>9 DEF IInv
<1> QED
  BY <1>3, <1>4

\* Close and Flush (heap.go:87, 115) write page 0 when it is behind, and the rows are
\* durable: the pages they are on are counted there.
LEMMA MetaWriteOK ==
    ASSUME inline, IInv, use' = use, Usable, writeMeta, handle' \in {"open", "closed"}
    PROVE  IInv'
<1>1. call = Idle /\ handle = "open"
  BY DEF Usable, inline
<1>2. /\ metaDirty' = FALSE /\ durable' = table /\ UNCHANGED <<meta, call, pending, table, dead>>
      /\ file' = IF metaDirty THEN With(file, 0, MetaPage(meta)) ELSE file
  BY DEF writeMeta
<1>3. DOMAIN file # {} /\ 0 \in DOMAIN file /\ meta.TotalPages \in Nat /\ meta.TotalPages >= 2
  BY <1>1, QuietFacts DEF IInv, MetaOK, Shape
<1>4. /\ DOMAIN file' = DOMAIN file /\ disk' = meta.TotalPages
      /\ \A id \in DOMAIN file : id # 0 => file'[id] = file[id]
  <2>1. CASE metaDirty
    <3>1. file' = With(file, 0, MetaPage(meta))
      BY <1>2, <2>1
    <3>2. file'[0] = MetaPage(meta) /\ DOMAIN file' = DOMAIN file \cup {0}
      BY <3>1 DEF With
    <3>3. disk' = meta.TotalPages
      BY <3>2, MetaPageFacts DEF disk
    <3> QED
      BY <1>3, <3>1, <3>2, <3>3 DEF With
  <2>2. CASE ~metaDirty
    <3>1. file' = file
      BY <1>2, <2>2
    <3>2. meta.TotalPages = disk
      BY <1>1, <2>2 DEF IInv, MetaOK
    <3> QED
      BY <3>1, <3>2 DEF disk
  <2> QED
    BY <2>1, <2>2
<1>5. known' = known /\ ~stores' /\ ~removes' /\ call'.op = "idle" /\ \A rid : ~removing(rid)'
  BY <1>1, <1>2 DEF known, stores, removes, removing, Idle
<1>6. \A rid \in known : rid \in RID /\ rid.page # 0 /\ rid.page < meta.TotalPages
  BY <1>1, QuietFacts, RIDFacts
<1>7. Shape'
  BY <1>1, <1>2, <1>3, <1>4, <1>5 DEF IInv, Shape
<1>8. MetaOK'
  <2>1. meta'.TotalPages \in Nat /\ meta'.TotalPages >= disk' /\ meta'.TotalPages = disk'
    BY <1>2, <1>3, <1>4, SMT
  <2> QED
    BY <1>1, <1>2, <1>3, <1>4, <1>5, <2>1 DEF MetaOK
<1>9. RowsOK'
  <2>1. \A rid \in DOMAIN table : /\ rid.page \in DOMAIN file'
                                  /\ has(file'[rid.page], rid.slot + 1, table[rid])
    BY <1>1, <1>4, <1>6, QuietFacts DEF known
  <2>2. \A rid \in dead : rid.page \in DOMAIN file' /\ tomb(file'[rid.page], rid.slot + 1)
    BY <1>1, <1>4, <1>6, QuietFacts DEF known
  <2>3. \A rid \in DOMAIN table' : has(file[rid.page], rid.slot + 1, table[rid])'
    BY <1>2, <2>1 DEF has
  <2>4. \A rid \in dead' : tomb(file[rid.page], rid.slot + 1)'
    BY <1>2, <2>2 DEF tomb
  <2> QED
    BY <1>2, <1>4, <1>5, <1>6, <2>1, <2>2, <2>3, <2>4 DEF RowsOK, known
<1>10. PagesOK'
  <2>1. DOMAIN file = {0} \/ 1 .. meta.TotalPages - 1 \subseteq DOMAIN file
    BY <1>1, QuietFacts
  <2> QED
    BY <1>1, <1>2, <1>4, <2>1 DEF PagesOK
<1>11. WritesOK'
  BY <1>5 DEF WritesOK
<1>12. OnlyRows'
  BY <1>2, <1>4, <1>5 DEF IInv, OnlyRows, CrashDuring
<1> QED
  BY <1>7, <1>8, <1>9, <1>10, <1>11, <1>12 DEF IInv

\* The process dies: the rows that a Flush covered are in the file, on pages that its
\* page 0 counts.
LEMMA CrashOK ==
    ASSUME IInv, use' = use, Crash
    PROVE  IInv'
<1>1. PICK gone, total : /\ gone = IF removes THEN {call.old} ELSE {}
                         /\ total = IF 0 \in DOMAIN file THEN disk ELSE 0
  OBVIOUS
<1>2. /\ table' = Without(durable, gone) /\ durable' = Without(durable, gone)
      /\ dead' = {rid \in dead : rid.page < total}
      /\ handle' = "none" /\ call' = Idle /\ pending' = << >> /\ metaDirty' = FALSE /\ file' = file
      /\ call.op \in CrashDuring
  BY <1>1 DEF Crash, removes, disk
<1>3. ~stores' /\ ~removes' /\ call'.op = "idle" /\ (\A rid : ~removing(rid)') /\ disk' = disk
  BY <1>2 DEF stores, removes, removing, Idle, disk
<1>4. /\ DOMAIN table' = DOMAIN durable \ gone /\ durable' = table'
      /\ \A rid \in DOMAIN table' : table'[rid] = durable[rid]
  BY <1>2 DEF Without
<1>5. \A rid \in DOMAIN table' : rid \in DOMAIN table /\ ~removing(rid) /\ table'[rid] = table[rid] /\ rid.page < disk
  BY <1>1, <1>4 DEF IInv, RowsOK, removing
<1>6. known' \subseteq known
  BY <1>2, <1>5 DEF known
<1>7. \A rid \in dead' : rid \in dead /\ rid.page < disk
  BY <1>1, <1>2 DEF IInv, RowsOK, Shape
<1>8. Shape'
  <2>1. IsSeq(<< >>)
    BY SMT DEF IsSeq
  <2> QED
    BY <1>2, <1>3, <1>6, <2>1 DEF IInv, Shape
<1>9. MetaOK'
  BY <1>2, <1>3 DEF MetaOK
<1>10. RowsOK'
  <2>1. \A rid \in DOMAIN table' : rid.page \in DOMAIN file /\ has(file[rid.page], rid.slot + 1, table[rid])'
    BY <1>2, <1>5 DEF IInv, RowsOK, has
  <2>2. \A rid \in dead' : rid.page \in DOMAIN file /\ tomb(file[rid.page], rid.slot + 1)'
    BY <1>2, <1>7 DEF IInv, RowsOK, tomb
  <2>3. \A rid \in known' : rid.page < disk
    BY <1>5, <1>7 DEF known
  <2> QED
    BY <1>2, <1>3, <1>4, <1>5, <2>1, <2>2, <2>3 DEF RowsOK
<1>11. PagesOK'
  <2>1. DOMAIN file # {} => DOMAIN file = {0} \/ 1 .. disk - 1 \subseteq DOMAIN file
    BY DEF IInv, MetaOK, PagesOK
  <2> QED
    BY <1>2, <1>3, <2>1 DEF PagesOK
<1>12. WritesOK' /\ OnlyRows'
  BY <1>2, <1>3 DEF WritesOK, OnlyRows, CrashDuring
<1> QED
  BY <1>8, <1>9, <1>10, <1>11, <1>12 DEF IInv

\* The invariant holds when nothing has been opened yet.
LEMMA HeapInit == Init => IInv
<1> SUFFICES ASSUME Init
             PROVE  IInv
  OBVIOUS
<1>1. DOMAIN << >> = {} /\ IsSeq(<< >>)
  BY SMT DEF IsSeq
<1>2. DOMAIN file = {} /\ DOMAIN table = {} /\ DOMAIN durable = {} /\ dead = {} /\ known = {}
  BY <1>1 DEF Init, known
<1>3. call = Idle /\ ~stores /\ ~removes /\ call.op = "idle" /\ handle = "none" /\ pending = << >>
  BY IdleFacts DEF Init
<1>4. Shape
  BY <1>1, <1>2, <1>3 DEF Init, Shape
<1>5. MetaOK /\ RowsOK /\ PagesOK
  BY <1>2, <1>3 DEF MetaOK, RowsOK, PagesOK
<1>6. WritesOK /\ OnlyRows
  BY <1>2, <1>3 DEF WritesOK, OnlyRows
<1> QED
  BY <1>4, <1>5, <1>6 DEF IInv

\* Every step keeps the invariant.
LEMMA HeapNext == HInv /\ [Next]_vars => HInv'
<1> SUFFICES ASSUME HInv, [Next]_vars, inline'
             PROVE  IInv'
  BY DEF HInv
<1>1. use' = use
  BY DEF Next, vars
<1>2. inline /\ IInv
  BY <1>1 DEF HInv, inline, UseAfterClose, Rows
<1>3. CASE OpenHeapFile
  BY <1>1, <1>2, <1>3, OpenOK
<1>4. ASSUME NEW row \in Rows, Insert(row)
      PROVE  IInv'
  BY <1>1, <1>2, <1>4, InsertOK
<1>5. ASSUME NEW rid \in DOMAIN table \cup dead, Delete(rid)
      PROVE  IInv'
  BY <1>1, <1>2, <1>5, DeleteOK DEF known
<1>6. ASSUME NEW rid \in DOMAIN table \cup dead, NEW row \in Rows, Update(rid, row)
      PROVE  IInv'
  BY <1>1, <1>2, <1>6, UpdateOK DEF known
<1>7. CASE WriteAt
  <2>1. call.op = "Open" \/ stores \/ removes
    BY <1>2, <1>7 DEF IInv, Shape, WriteAt, stores, removes
  <2> QED
    BY <1>1, <1>2, <1>7, <2>1, WriteOpenOK, WriteMoreOK, WriteLastOK
<1>8. CASE Flush
  <2>1. Usable /\ writeMeta /\ handle' = handle
    BY <1>8 DEF Flush
  <2>2. handle = "open"
    BY <1>2, <2>1 DEF Usable, inline
  <2> QED
    BY <1>1, <1>2, <2>1, <2>2, MetaWriteOK
<1>9. CASE Close
  BY <1>1, <1>2, <1>9, MetaWriteOK DEF Close
<1>10. CASE Crash
  BY <1>1, <1>2, <1>10, CrashOK
<1>11. CASE UNCHANGED vars
  <2>1. UNCHANGED <<file, meta, metaDirty, handle, pending, call, table, durable, dead>>
    BY <1>11 DEF vars, ghosts
  <2>2. Shape' /\ MetaOK'
    BY <1>1, <1>2, <2>1 DEF IInv, Shape, MetaOK, known, disk, stores, removes
  <2>3. RowsOK' /\ PagesOK'
    BY <1>1, <1>2, <2>1 DEF IInv, RowsOK, PagesOK, known, disk, removes, removing
  <2>4. WritesOK'
    BY <1>1, <1>2, <2>1, SMT DEF IInv, WritesOK, known, stores, removes, newPage, keeps, writeOK
  <2>5. OnlyRows'
    BY <1>1, <1>2, <2>1 DEF IInv, OnlyRows, stores, removes, CrashDuring
  <2> QED
    BY <2>2, <2>3, <2>4, <2>5 DEF IInv
<1> QED
  BY <1>3, <1>4, <1>5, <1>6, <1>7, <1>8, <1>9, <1>10, <1>11 DEF Next, Step

\* The invariant of the heap of a table, in every reachable state.
THEOREM HeapInvariant == Spec => []HInv
<1>1. Init => HInv
  BY HeapInit DEF HInv
<1>2. HInv /\ [Next]_vars => HInv'
  BY HeapNext
<1> QED
  BY <1>1, <1>2, PTL DEF Spec

----------------------------------------------------------------------------
\* What Fetch (heap.go:169) answers while no method runs.
LEMMA FetchFacts ==
    ASSUME IInv, handle = "open", call = Idle
    PROVE  /\ \A rid \in DOMAIN table : Fetch(rid) = table[rid]
           /\ \A rid \in dead : Fetch(rid) = "error"
<1>1. ASSUME NEW rid \in DOMAIN table
      PROVE  Fetch(rid) = table[rid]
  <2>1. rid.page \in DOMAIN file /\ has(file[rid.page], rid.slot + 1, table[rid])
    BY QuietFacts
  <2>2. rid \in RID /\ rid.page < meta.TotalPages /\ rid.page # 0
    BY QuietFacts, RIDFacts DEF known
  <2>3. PICK t : t = file[rid.page].slots[rid.slot + 1]
    OBVIOUS
  <2>4. isRow(t) /\ t.row = table[rid] /\ rid.slot + 1 \in DOMAIN file[rid.page].slots
    BY <2>1, <2>3 DEF has
  <2>5. Reads(heap, rid)
    BY <2>1, <2>2, <2>3, <2>4, RowIsLive, HeapFacts DEF Reads, LiveSlots
  <2>6. rowTuple(heap, rid) = t
    BY <2>3, HeapFacts DEF rowTuple
  <2>7. "row" \in DOMAIN t /\ "next" \notin DOMAIN t /\ DOMAIN t.over = {}
    <3>1. DOMAIN << >> = {}
      BY SMT
    <3> QED
      BY <2>4, <3>1 DEF isRow, TupleFields
  <2>8. decodeWithOverflow(heap, t) = t.row
    BY <2>7 DEF decodeWithOverflow
  <2> QED
    BY <2>4, <2>5, <2>6, <2>8 DEF Fetch
<1>2. ASSUME NEW rid \in dead
      PROVE  Fetch(rid) = "error"
  <2>1. tomb(file[rid.page], rid.slot + 1)
    BY QuietFacts
  <2>2. ~Reads(heap, rid)
    BY <2>1, HeapFacts DEF Reads, LiveSlots, tomb
  <2> QED
    BY <2>2 DEF Fetch
<1> QED
  BY <1>1, <1>2

\* "Insert ... returns the stable RID of the new row" (heap.go:144): in a heap of any
\* size whose rows need no overflow pages, Fetch of a RID gives the row that was
\* stored under it, and after a crash at any page write every row that a Flush
\* covered; the RID of a deleted row is an error for ever.
THEOREM HeapFetchCorrect == Spec => [](inline => FetchCorrect)
<1>1. HInv => (inline => FetchCorrect)
  BY FetchFacts DEF HInv, FetchCorrect, Quiet
<1> QED
  BY <1>1, HeapInvariant, PTL

\* What Scan (heap.go:264) hands to its callback while no method runs.
LEMMA ScanFacts ==
    ASSUME IInv, handle = "open", call = Idle
    PROVE  /\ \A rid \in DOMAIN table : rid \in DOMAIN Scan /\ Scan[rid] = table[rid]
           /\ CrashDuring = {} => DOMAIN Scan = DOMAIN table
<1> DEFINE pages   == 1 .. meta.TotalPages - 1
           scanned == {id \in pages : id \in DOMAIN file /\ file[id].type # "Overflow"}
           rids    == UNION {{[page |-> id, slot |-> s - 1] : s \in LiveSlots(file[id])} : id \in scanned}
<1>1. Scan = IF pages \subseteq DOMAIN file THEN [rid \in rids |-> Fetch(rid)] ELSE << >>
  BY DEF Scan
<1>2. meta.TotalPages \in Nat /\ (pages \subseteq DOMAIN file \/ DOMAIN file = {0})
  BY QuietFacts
<1>3. 0 \notin pages
  BY <1>2, SMT
<1>4. ASSUME NEW rid \in DOMAIN table
      PROVE  pages \subseteq DOMAIN file /\ rid \in rids
  <2>1. rid.page \in DOMAIN file /\ has(file[rid.page], rid.slot + 1, table[rid])
    BY QuietFacts
  <2>2. /\ rid \in RID /\ rid.page < meta.TotalPages /\ rid.page # 0 /\ rid.page \in Nat
        /\ at(rid.page, rid.slot + 1) = rid
    BY QuietFacts, RIDFacts DEF known
  <2>3. rid.page \in pages
    BY <1>2, <2>2, SMT
  <2>4. file[rid.page].type = "Data"
    BY <2>1, <2>2 DEF IInv, Shape, pageOK
  <2>5. rid.page \in scanned
    BY <2>1, <2>3, <2>4
  <2>6. rid.slot + 1 \in LiveSlots(file[rid.page])
    BY <2>1, RowIsLive DEF has, LiveSlots
  <2>7. rid \in {[page |-> rid.page, slot |-> s - 1] : s \in LiveSlots(file[rid.page])}
    BY <2>2, <2>6 DEF at
  <2>8. rid \in rids
    BY <2>5, <2>7
  <2> QED
    BY <1>2, <2>1, <2>2, <2>8
<1>5. \A rid \in rids : \E id \in scanned : \E s \in LiveSlots(file[id]) : rid = at(id, s)
  BY DEF at
<1>6. ASSUME CrashDuring = {}, NEW rid \in rids
      PROVE  rid \in DOMAIN table
  <2>1. PICK id \in scanned : \E s \in LiveSlots(file[id]) : rid = at(id, s)
    BY <1>5, <1>6
  <2>2. id \in DOMAIN file \ {0}
    BY <1>3, <2>1
  <2> QED
    BY <1>6, <2>1, <2>2 DEF IInv, OnlyRows
<1> HIDE DEF pages, rids
<1>7. CASE pages \subseteq DOMAIN file
  <2>1. DOMAIN Scan = rids /\ \A rid \in rids : Scan[rid] = Fetch(rid)
    BY <1>1, <1>7
  <2> QED
    BY <1>4, <1>6, <2>1, FetchFacts
<1>8. CASE ~(pages \subseteq DOMAIN file)
  <2>1. DOMAIN table = {}
    BY <1>4, <1>8
  <2>2. DOMAIN << >> = {}
    BY SMT
  <2> QED
    BY <1>1, <1>8, <2>1, <2>2
<1> QED
  BY <1>7, <1>8

\* "Scan iterates over all live tuples in the heap" (heap.go:258): in such a heap it
\* yields every stored row under its RID, and when no crash came between nothing
\* else.
THEOREM HeapScanExact == Spec => [](inline => ScanExact)
<1>1. HInv => (inline => ScanExact)
  BY ScanFacts DEF HInv, ScanExact, Quiet
<1> QED
  BY <1>1, HeapInvariant, PTL
=============================================================================
