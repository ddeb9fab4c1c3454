----------------------------- MODULE TableProofs -----------------------------
(***************************************************************************)
(* Findable, EntriesTrue, UniqueRows and FlushDurable of TableHandle for    *)
(* any goroutines, columns, values and bounds.                              *)
(***************************************************************************)
EXTENDS TableHandle, TLAPS

\* Most steps are first-order: Zenon proves them unless they name another prover.
USE Zenon

CallFields == {"op", "step", "rid", "new", "row", "old", "col", "done", "todo", "built", "seen"}

\* The call has stored its row, and goes through the indexes to enter it.
writing(k) == k.op = "Insert" \/ (k.op = "Update" /\ k.step # "heap")

\* The call has removed its row, and goes through the indexes to remove it there.
removing(k) == k.op \in {"Update", "Delete"} /\ k.step # "heap"

looping(k) == writing(k) \/ removing(k) \/ k.op = "Flush"

Shape ==
    /\ use \in Uses
    /\ DOMAIN client = Clients /\ \A p \in Clients : DOMAIN client[p] = CallFields
    /\ DOMAIN tree = Columns /\ DOMAIN dirty = Columns /\ DOMAIN disk = Columns
    /\ indexes \subseteq Columns
    /\ \A p \in Clients : client[p].op = "idle" \/ client[p].op \in Ops

\* The heap: pages are filled from their first slot on, a slot is never reused,
\* and what a Flush covers is on pages that are counted.
HeapOK ==
    /\ rows = [r \in DOMAIN rows |-> rows[r]]
    /\ DOMAIN rows \subseteq (Nat \ {0}) \X (1..SlotsPerPage)
    /\ \A r \in DOMAIN rows : rows[r] \in Row \cup {Dead}
    /\ total \in Nat \ {0} /\ diskTotal \in 1..total
    /\ \A r \in DOMAIN rows : r[1] <= total
    /\ \A p \in Nat : \E k \in 0..SlotsPerPage :
          \A s \in 1..SlotsPerPage : <<p, s>> \in DOMAIN rows <=> s <= k
    /\ acked \subseteq DOMAIN rows /\ flushed \subseteq acked
    /\ \A r \in flushed : r[1] <= diskTotal

\* What a call knows of the heap.
callOK(k) ==
    /\ writing(k) => k.new \in DOMAIN rows /\ (k.new \in live => rows[k.new] = k.row)
    /\ k.op \in {"Insert", "Update"} => k.row \in Row
    /\ removing(k) => k.rid \notin live
    /\ k.op \in {"Update", "Delete"} =>
          /\ k.rid \in DOMAIN rows
          /\ k.old # NoRow => k.old \in Row
          /\ k.old # NoRow /\ k.rid \in live => rows[k.rid] = k.old
          /\ k.step = "heap" => k.done = {}
    /\ k.op \in {"CreateIndex", "DropIndex"} => k.col \in Columns
    /\ k.op = "Flush" => k.seen \subseteq acked /\ \A r \in k.seen : r[1] <= diskTotal

CallsOK ==
    /\ \A p \in Clients : callOK(client[p])
    /\ \A p, q \in Clients :
          writing(client[p]) /\ writing(client[q]) /\ client[p].new = client[q].new => p = q

Base == Shape /\ HeapOK /\ CallsOK

----------------------------------------------------------------------------
\* One RID per value of a unique index, in memory, on disk and in one that is
\* being created.
oneRID(entries) == \A e, f \in entries : e[1] = f[1] => e[2] = f[2]

UniqueOK ==
    \A c \in Unique :
        /\ oneRID(tree[c])
        /\ disk[c] # NoFile => oneRID(disk[c])
        /\ \A p \in Clients : client[p].op = "CreateIndex" /\ client[p].col = c => oneRID(client[p].built)

\* An entry is of a row that was stored with its value.
stored(c, e) ==
    e = <<e[1], e[2]>> /\ e[2] \in DOMAIN rows /\ (e[2] \in live => rows[e[2]][c] = e[1])

ValuesOK ==
    ~Crashes =>
    \A c \in Columns :
        /\ \A e \in tree[c] : stored(c, e)
        /\ disk[c] # NoFile => \A e \in disk[c] : stored(c, e)
        /\ \A p \in Clients : client[p].op = "CreateIndex" /\ client[p].col = c =>
              \A e \in client[p].built : stored(c, e)

\* While no index is created, the calls in a loop have all of them to visit, an
\* index that is not dirty is as on disk, and a file without an index is one
\* that is about to be removed.
fixed == "CreateIndex" \notin Ops

LoopsOK ==
    fixed =>
        /\ \A p \in Clients : looping(client[p]) => indexes \subseteq client[p].todo
        /\ \A p \in Clients : client[p].op \in {"Update", "Delete"} /\ client[p].old = NoRow => indexes = {}
        /\ \A c \in indexes : ~dirty[c] => disk[c] = tree[c] \/ (disk[c] = NoFile /\ tree[c] = {})
        /\ \A p \in Clients : client[p].op = "DropIndex" => client[p].col \notin indexes
        /\ \A c \in Columns \ indexes :
              disk[c] = NoFile \/ \E p \in Clients : client[p].op = "DropIndex" /\ client[p].col = c

----------------------------------------------------------------------------
\* The uses in which rows can be found: the indexes are given, no Update meets a
\* unique one, and no crash brings back an index that was dropped.
safe == fixed /\ ("Update" \in Ops => Unique = {}) /\ (Crashes => "DropIndex" \notin Ops)

found(c, r, entries) == <<rows[r][c], r>> \in entries

FoundOK ==
    safe =>
        /\ \A r \in acked \cap live, c \in indexes : found(c, r, tree[c])
        /\ \A p \in Clients : writing(client[p]) /\ client[p].new \in live =>
              \A c \in indexes \cap client[p].done : found(c, client[p].new, tree[c])
        /\ ~Crashes => \A r \in live : r \in acked \/ \E p \in Clients : writing(client[p]) /\ client[p].new = r
        /\ Crashes => \A r \in flushed \cap live, c \in Columns : disk[c] # NoFile => found(c, r, disk[c])
        /\ Crashes => \A p \in Clients : client[p].op = "Flush" =>
              \A r \in client[p].seen \cap live, c \in indexes \cap client[p].done :
                  disk[c] # NoFile => found(c, r, disk[c])

----------------------------------------------------------------------------
\* The uses in which no entry is left behind: clients use RIDs that were
\* returned, and an insert that is refused has entered nothing.
tidy == /\ fixed /\ ~Crashes /\ ~ScanRIDs
        /\ Unique = {} \/ \A c, d \in Columns : c = d

\* A row that is being entered is in the heap and was not returned yet; a row that
\* is being removed was.
TidyRows ==
    /\ \A p \in Clients : writing(client[p]) => client[p].new \in live /\ client[p].new \notin acked
    /\ \A p \in Clients : client[p].op \in {"Update", "Delete"} => client[p].rid \in acked

\* The entries of a row that is being inserted are in the indexes visited, and
\* there are none when the insert is refused.
TidyInserts ==
    \A p \in Clients : client[p].op = "Insert" =>
        \A c \in indexes : \A e \in tree[c] : e[2] = client[p].new =>
            client[p].step # "rollback" /\ c \in client[p].done

\* The entries of a row that is being removed have the values the call read.
TidyOld ==
    \A p \in Clients : client[p].op \in {"Update", "Delete"} /\ client[p].old # NoRow =>
        \A c \in indexes : \A e \in tree[c] : e[2] = client[p].rid => e[1] = client[p].old[c]

\* An entry of a row that was removed is one that a call has still to remove.
removes(k, c, e) ==
    removing(k) /\ k.rid = e[2] /\ c \notin k.done /\ ~(k.step = "insert" /\ k.col = c)

TidyDead ==
    \A c \in indexes : \A e \in tree[c] : e[2] \in live \/ \E p \in Clients : removes(client[p], c, e)

TidyOK == tidy => TidyRows /\ TidyInserts /\ TidyOld /\ TidyDead

TInv == Base /\ UniqueOK /\ ValuesOK /\ LoopsOK /\ FoundOK /\ TidyOK

----------------------------------------------------------------------------
\* The heap

\* The bounds of a use.
LEMMA UseFacts ==
    ASSUME use \in Uses
    PROVE  /\ SlotsPerPage \in Nat \ {0} /\ Unique \subseteq Columns
           /\ Null \notin Columns /\ Dead \notin Row /\ NoRow \notin Row
  BY TableAssumption DEF SlotsPerPage, Unique, Columns, Row, Dead, NoRow

\* The slots of a page that are taken are its first ones, slots(p) of them.
LEMMA PageSlots ==
    ASSUME HeapOK, NEW p \in Nat
    PROVE  /\ slots(p) \in 0..SlotsPerPage
           /\ \A s \in 1..SlotsPerPage : <<p, s>> \in DOMAIN rows <=> s <= slots(p)
<1>1. \E k \in 0..SlotsPerPage : \A s \in 1..SlotsPerPage : <<p, s>> \in DOMAIN rows <=> s <= k
  BY DEF HeapOK
<1> QED
  BY <1>1 DEF slots

\* The slot that insertEncoded takes has never been taken, and of its page the
\* slots before it have, and no others.
LEMMA FreshRID ==
    ASSUME Shape, HeapOK
    PROVE  /\ freshRID \in (Nat \ {0}) \X (1..SlotsPerPage)
           /\ freshRID[1] >= total
           /\ \A s \in 1..SlotsPerPage : <<freshRID[1], s>> \in DOMAIN rows <=> s < freshRID[2]
           /\ freshRID \notin DOMAIN rows
<1>1. total \in Nat \ {0} /\ SlotsPerPage \in Nat \ {0}
  BY UseFacts DEF Shape, HeapOK
<1>2. CASE slots(total) < SlotsPerPage
  <2>1. freshRID = <<total, slots(total) + 1>>
    BY <1>2 DEF freshRID
  <2> QED
    BY <1>1, <1>2, <2>1, PageSlots, SMT
<1>3. CASE ~(slots(total) < SlotsPerPage)
  <2>1. freshRID = <<total + 1, 1>>
    BY <1>3 DEF freshRID
  <2>2. \A r \in DOMAIN rows : r[1] <= total
    BY DEF HeapOK
  <2>3. \A s : <<total + 1, s>> \notin DOMAIN rows
    BY <1>1, <2>2, SMT
  <2> QED
    BY <1>1, <2>1, <2>3, SMT
<1> QED
  BY <1>2, <1>3

\* The use of a behaviour never changes, and with it the columns, the operations
\* and the conditions on them.
LEMMA SameUse ==
    ASSUME use' = use
    PROVE  /\ Columns' = Columns /\ Unique' = Unique /\ Ops' = Ops /\ Row' = Row
           /\ SlotsPerPage' = SlotsPerPage /\ Crashes' = Crashes /\ ScanRIDs' = ScanRIDs
           /\ (fixed' <=> fixed) /\ (safe' <=> safe) /\ (tidy' <=> tidy)
  BY DEF Columns, Unique, Ops, Row, SlotsPerPage, Crashes, ScanRIDs, fixed, safe, tidy

\* Outside a crash the heap only grows: a RID is never taken back, a row is
\* never replaced, only removed, and what was counted or returned stays so.
Grows ==
    /\ DOMAIN rows \subseteq DOMAIN rows'
    /\ \A r \in DOMAIN rows : rows'[r] \in {rows[r], Dead}
    /\ diskTotal <= diskTotal' /\ acked \subseteq acked'

\* heap.Insert and heap.Update store a row in a fresh slot.
LEMMA HeapInsertOK ==
    ASSUME Shape, HeapOK, use' = use, NEW old \in DOMAIN rows \cup {NoRID}, NEW row \in Row,
           heapInsert(old, row), acked' = acked, flushed' = flushed
    PROVE  /\ HeapOK' /\ Grows
           /\ rows'[freshRID] = row /\ DOMAIN rows' = DOMAIN rows \cup {freshRID}
           /\ \A r \in DOMAIN rows : rows'[r] = IF r = old THEN Dead ELSE rows[r]
<1> DEFINE f == freshRID
<1>1. /\ f \notin DOMAIN rows /\ f \in (Nat \ {0}) \X (1..SlotsPerPage) /\ f[1] >= total
      /\ \A s \in 1..SlotsPerPage : <<f[1], s>> \in DOMAIN rows <=> s < f[2]
  BY FreshRID
<1>2. rows' = [r \in DOMAIN rows \cup {f} |->
                  CASE r = f -> row [] r = old -> Dead [] OTHER -> rows[r]]
      /\ total' = f[1] /\ diskTotal' = diskTotal
  BY DEF heapInsert
<1> HIDE DEF f
<1>3. DOMAIN rows' = DOMAIN rows \cup {f} /\ rows'[f] = row
  <2>1. old # f
    BY <1>1, SMT DEF NoRID
  <2> QED
    BY <1>2, <2>1
<1>4. \A r \in DOMAIN rows : rows'[r] = IF r = old THEN Dead ELSE rows[r]
  BY <1>1, <1>2
<1>5. Grows
  BY <1>2, <1>3, <1>4, SMT DEF Grows, HeapOK
<1>6. rows' = [r \in DOMAIN rows' |-> rows'[r]]
  BY <1>2, SMT
<1>7. f = <<f[1], f[2]>>
  BY <1>1, SMT
<1>8. /\ \A r \in DOMAIN rows' : r[1] <= total'
      /\ \A p \in Nat : \E k \in 0..SlotsPerPage :
            \A s \in 1..SlotsPerPage : <<p, s>> \in DOMAIN rows' <=> s <= k
  <2>1. \A r \in DOMAIN rows' : r[1] <= total'
    BY <1>1, <1>2, <1>3, SMT DEF HeapOK
  <2>2. ASSUME NEW p \in Nat
        PROVE  \E k \in 0..SlotsPerPage : \A s \in 1..SlotsPerPage : <<p, s>> \in DOMAIN rows' <=> s <= k
    <3>1. CASE p = f[1]
      <4>1. \A s \in 1..SlotsPerPage : <<p, s>> \in DOMAIN rows' <=> s <= f[2]
        BY <1>1, <1>3, <1>7, <3>1, SMT
      <4> QED
        BY <1>1, <4>1, SMT
    <3>2. CASE p # f[1]
      <4>1. \A s : <<p, s>> \in DOMAIN rows' <=> <<p, s>> \in DOMAIN rows
        BY <1>3, <1>7, <3>2, SMT
      <4> QED
        BY <4>1 DEF HeapOK
    <3> QED
      BY <3>1, <3>2
  <2> QED
    BY <2>1, <2>2
<1>9. \A r \in DOMAIN rows' : rows'[r] \in Row \cup {Dead}
  BY <1>3, <1>4 DEF HeapOK
<1>10. total' \in Nat \ {0} /\ diskTotal' \in 1..total'
  BY <1>1, <1>2, SMT DEF HeapOK
<1>11. HeapOK'
  BY <1>1, <1>2, <1>3, <1>6, <1>8, <1>9, <1>10, SameUse DEF HeapOK
<1> QED
  BY <1>3, <1>4, <1>5, <1>11 DEF f

\* heap.Delete marks a slot dead.
LEMMA HeapRemoveOK ==
    ASSUME Shape, HeapOK, use' = use, NEW x \in DOMAIN rows, rows' = [rows EXCEPT ![x] = Dead],
           UNCHANGED <<total, diskTotal, acked, flushed>>
    PROVE  /\ HeapOK' /\ Grows /\ DOMAIN rows' = DOMAIN rows
           /\ \A r \in DOMAIN rows : rows'[r] = IF r = x THEN Dead ELSE rows[r]
<1>1. DOMAIN rows' = DOMAIN rows /\ rows' = [r \in DOMAIN rows' |-> rows'[r]]
  OBVIOUS
<1>2. \A r \in DOMAIN rows : rows'[r] = IF r = x THEN Dead ELSE rows[r]
  OBVIOUS
<1>3. Grows
  BY <1>1, <1>2, SMT DEF Grows, HeapOK
<1>4. HeapOK'
  BY <1>1, <1>2, SameUse DEF HeapOK
<1> QED
  BY <1>1, <1>2, <1>3, <1>4

\* A step that leaves the heap alone, or only counts or returns more of it.
LEMMA HeapKeptOK ==
    ASSUME HeapOK, use' = use, UNCHANGED <<rows, total>>, diskTotal' \in {diskTotal, total},
           acked \subseteq acked', acked' \subseteq DOMAIN rows, flushed' \subseteq acked',
           \A r \in flushed' : r[1] <= diskTotal'
    PROVE  HeapOK' /\ Grows
<1>1. diskTotal' \in 1..total /\ diskTotal <= diskTotal'
  BY SMT DEF HeapOK
<1>2. HeapOK'
  BY <1>1, SameUse DEF HeapOK
<1> QED
  BY <1>1, <1>2 DEF Grows, HeapOK

\* What a call knows stays true while the heap grows.
LEMMA CallKept ==
    ASSUME use' = use, Grows, HeapOK, HeapOK', NEW k, callOK(k)
    PROVE  callOK(k)'
<1>1. \A r \in DOMAIN rows : r \in live' => r \in live /\ rows'[r] = rows[r]
  BY DEF Grows, live
<1>2. k.op = "Flush" => \A r \in k.seen : r[1] <= diskTotal'
  BY SMT DEF callOK, Grows, HeapOK
<1> QED
  BY <1>1, <1>2, SameUse DEF callOK, Grows, removing

----------------------------------------------------------------------------
\* The calls

\* A goroutine between two calls.
LEMMA IdleFacts ==
    /\ DOMAIN Idle = CallFields /\ Idle.op = "idle" /\ Idle.new = NoRID /\ Idle.rid = NoRID
    /\ ~writing(Idle) /\ ~removing(Idle) /\ ~looping(Idle)
  BY DEF Idle, CallFields, writing, removing, looping

\* A step of one goroutine changes the call of that goroutine only.
LEMMA Goto ==
    ASSUME Shape, NEW p \in Clients, NEW r, goto(p, r)
    PROVE  DOMAIN client' = Clients /\ \A q \in Clients : client'[q] = IF q = p THEN r ELSE client[q]
  BY DEF Shape, goto

\* Such a step keeps what the calls know, if it does for the call it changes.
LEMMA StepBase ==
    ASSUME Base, use' = use, NEW p \in Clients, NEW r, goto(p, r), Grows, HeapOK',
           DOMAIN r = CallFields, r.op = "idle" \/ r.op \in Ops, callOK(r)',
           writing(r) => \A q \in Clients : q # p /\ writing(client[q]) => client[q].new # r.new,
           DOMAIN tree' = Columns, DOMAIN dirty' = Columns, DOMAIN disk' = Columns,
           indexes' \subseteq Columns
    PROVE  Base'
<1>1. DOMAIN client' = Clients /\ \A q \in Clients : client'[q] = IF q = p THEN r ELSE client[q]
  BY Goto DEF Base
<1>2. Shape'
  BY <1>1, SameUse DEF Shape, Base
<1>3. \A q \in Clients : callOK(client[q])'
  <2> SUFFICES ASSUME NEW q \in Clients  PROVE callOK(client[q])'
    OBVIOUS
  <2>1. CASE q = p
    BY <1>1, <2>1 DEF callOK
  <2>2. CASE q # p
    <3> DEFINE k == client[q]
    <3>1. client'[q] = client[q] /\ HeapOK /\ callOK(k)
      BY <1>1, <2>2 DEF Base, CallsOK
    <3> HIDE DEF k
    <3> QED
      BY <3>1, CallKept, SMT DEF callOK, k
  <2> QED
    BY <2>1, <2>2
<1>4. CallsOK'
  BY <1>1, <1>3, SMT DEF Base, CallsOK
<1> QED
  BY <1>2, <1>4 DEF Base

\* The RIDs that calls hold, and those that were returned, have been handed out.
LEMMA Known ==
    ASSUME Base
    PROVE  /\ acked \subseteq DOMAIN rows /\ flushed \subseteq acked
           /\ \A q \in Clients :
                 /\ writing(client[q]) => client[q].new \in DOMAIN rows
                 /\ client[q].op \in {"Update", "Delete"} => client[q].rid \in DOMAIN rows
                 /\ client[q].op = "Flush" => client[q].seen \subseteq acked
  BY DEF Base, HeapOK, CallsOK, callOK

\* Without crashes, so have those of the entries of an index.
LEMMA KnownEntries ==
    ASSUME Base, ValuesOK, tidy
    PROVE  \A c \in indexes : \A e \in tree[c] : stored(c, e) /\ e = <<e[1], e[2]>> /\ e[2] \in DOMAIN rows
  BY DEF Base, Shape, ValuesOK, stored, tidy

----------------------------------------------------------------------------
\* What a step of one goroutine keeps

\* Entries stay those of stored rows while the heap only grows, whatever is saved,
\* if those that are added are.
LEMMA ValuesKept ==
    ASSUME ValuesOK, use' = use, DOMAIN rows \subseteq DOMAIN rows',
           \A c \in Columns : \A e \in tree'[c] : e \in tree[c] \/ stored(c, e),
           \A x \in DOMAIN rows : x \in live' => x \in live /\ rows'[x] = rows[x],
           \A c \in Columns : disk'[c] \in {disk[c], tree[c], NoFile},
           NEW p \in Clients, NEW r, r.op # "CreateIndex",
           \A q \in Clients : client'[q] = IF q = p THEN r ELSE client[q]
    PROVE  ValuesOK'
<1> SUFFICES ASSUME ~Crashes, NEW c \in Columns
             PROVE  /\ \A e \in tree'[c] : stored(c, e)'
                    /\ disk'[c] # NoFile => \A e \in disk'[c] : stored(c, e)'
                    /\ \A q \in Clients : client'[q].op = "CreateIndex" /\ client'[q].col = c =>
                          \A e \in client'[q].built : stored(c, e)'
  BY SameUse DEF ValuesOK, NoFile
<1>1. \A e : stored(c, e) => stored(c, e)'
  BY DEF stored
<1>2. /\ \A e \in tree[c] : stored(c, e)
      /\ disk[c] # NoFile => \A e \in disk[c] : stored(c, e)
      /\ \A q \in Clients : client[q].op = "CreateIndex" /\ client[q].col = c =>
            \A e \in client[q].built : stored(c, e)
  BY DEF ValuesOK
<1>3. disk'[c] # NoFile => \A e \in disk'[c] : stored(c, e)
  BY <1>2
<1> QED
  BY <1>1, <1>2, <1>3

\* No index is saved, one that is changed is dirty, and no call of DropIndex starts
\* or ends.
LEMMA LoopsKept ==
    ASSUME LoopsOK, use' = use, UNCHANGED <<indexes, disk>>,
           \A c \in indexes : ~dirty'[c] => ~dirty[c] /\ tree'[c] = tree[c],
           NEW p \in Clients, NEW r, r.op # "DropIndex", client[p].op # "DropIndex",
           fixed /\ looping(r) => indexes \subseteq r.todo,
           fixed /\ r.op \in {"Update", "Delete"} /\ r.old = NoRow => indexes = {},
           \A q \in Clients : client'[q] = IF q = p THEN r ELSE client[q]
    PROVE  LoopsOK'
<1> SUFFICES ASSUME fixed
             PROVE  /\ \A q \in Clients : looping(client'[q]) => indexes \subseteq client'[q].todo
                    /\ \A q \in Clients : client'[q].op \in {"Update", "Delete"} /\ client'[q].old = NoRow => indexes = {}
                    /\ \A c \in indexes : ~dirty'[c] => disk[c] = tree'[c] \/ (disk[c] = NoFile /\ tree'[c] = {})
                    /\ \A q \in Clients : client'[q].op = "DropIndex" => client'[q].col \notin indexes
                    /\ \A c \in Columns \ indexes :
                          disk[c] = NoFile \/ \E q \in Clients : client'[q].op = "DropIndex" /\ client'[q].col = c
  BY SameUse DEF LoopsOK, looping, writing, removing, NoRow, NoFile
<1>1. \A q \in Clients : client[q].op = "DropIndex" => client'[q] = client[q]
  OBVIOUS
<1>2. \A c \in Columns \ indexes :
        disk[c] = NoFile \/ \E q \in Clients : client'[q].op = "DropIndex" /\ client'[q].col = c
  BY <1>1, SMT DEF LoopsOK
<1>3. \A q \in Clients : looping(client'[q]) => indexes \subseteq client'[q].todo
  BY DEF LoopsOK
<1>4. \A q \in Clients : client'[q].op \in {"Update", "Delete"} /\ client'[q].old = NoRow => indexes = {}
  BY DEF LoopsOK
<1>5. \A q \in Clients : client'[q].op = "DropIndex" => client'[q].col \notin indexes
  BY DEF LoopsOK
<1> QED
  BY <1>2, <1>3, <1>4, <1>5 DEF LoopsOK

\* The rows, the indexes and the calls that write are the same, and what is on
\* disk has what is asked of it.
LEMMA FoundKept ==
    ASSUME FoundOK, use' = use, UNCHANGED <<rows, indexes, tree, acked>>, live' = live,
           NEW p \in Clients, NEW r, ~writing(client[p]), ~writing(r),
           \A q \in Clients : client'[q] = IF q = p THEN r ELSE client[q],
           safe /\ Crashes => \A x \in flushed' \cap live, c \in Columns :
                                 disk'[c] # NoFile => found(c, x, disk'[c]),
           safe /\ Crashes => \A q \in Clients : client'[q].op = "Flush" =>
                                 \A x \in client'[q].seen \cap live, c \in indexes \cap client'[q].done :
                                     disk'[c] # NoFile => found(c, x, disk'[c])
    PROVE  FoundOK'
<1> SUFFICES ASSUME safe
             PROVE  /\ \A x \in acked \cap live, c \in indexes : found(c, x, tree[c])
                    /\ \A q \in Clients : writing(client'[q]) /\ client'[q].new \in live =>
                          \A c \in indexes \cap client'[q].done : found(c, client'[q].new, tree[c])
                    /\ ~Crashes => \A x \in live :
                          x \in acked \/ \E q \in Clients : writing(client'[q]) /\ client'[q].new = x
  BY SameUse DEF FoundOK, found, writing, NoFile
<1>1. \A q \in Clients : writing(client'[q]) => client'[q] = client[q]
  OBVIOUS
<1>2. \A q \in Clients : writing(client[q]) => client'[q] = client[q]
  OBVIOUS
<1>3. \A x \in acked \cap live, c \in indexes : found(c, x, tree[c])
  BY DEF FoundOK
<1>4. \A q \in Clients : writing(client'[q]) /\ client'[q].new \in live =>
        \A c \in indexes \cap client'[q].done : found(c, client'[q].new, tree[c])
  BY <1>1 DEF FoundOK
<1>5. ~Crashes => \A x \in live : x \in acked \/ \E q \in Clients : writing(client'[q]) /\ client'[q].new = x
  BY <1>2 DEF FoundOK
<1> QED
  BY <1>3, <1>4, <1>5

\* The rows, the indexes and the calls of Insert, Update and Delete are the same.
LEMMA TidyKept ==
    ASSUME TidyOK, use' = use, UNCHANGED <<indexes, tree, acked>>, live' = live,
           NEW p \in Clients, NEW r,
           client[p].op \notin {"Insert", "Update", "Delete"}, r.op \notin {"Insert", "Update", "Delete"},
           \A q \in Clients : client'[q] = IF q = p THEN r ELSE client[q]
    PROVE  TidyOK'
<1> SUFFICES ASSUME tidy  PROVE TidyRows' /\ TidyInserts' /\ TidyOld' /\ TidyDead'
  BY SameUse DEF TidyOK
<1>1. TidyRows /\ TidyInserts /\ TidyOld /\ TidyDead
  BY DEF TidyOK
<1>2. \A q \in Clients : client'[q].op \in {"Insert", "Update", "Delete"} => client'[q] = client[q]
  OBVIOUS
<1>3. \A q \in Clients : client[q].op \in {"Insert", "Update", "Delete"} => client'[q] = client[q]
  OBVIOUS
<1>4. TidyRows'
  BY <1>1, <1>2 DEF TidyRows, writing
<1>5. TidyInserts'
  BY <1>1, <1>2 DEF TidyInserts
<1>6. TidyOld'
  BY <1>1, <1>2, SMT DEF TidyOld, NoRow
<1>7. TidyDead'
  BY <1>1, <1>3, SMT DEF TidyDead, removes, removing
<1> QED
  BY <1>4, <1>5, <1>6, <1>7

----------------------------------------------------------------------------
\* The steps

\* Table.Insert stores its row before it visits the indexes.
LEMMA InsertHeapOK ==
    ASSUME TInv, use' = use, NEW p \in Clients, InsertHeap(p)
    PROVE  TInv'
<1>0. PICK row \in Row :
        /\ heapInsert(NoRID, row)
        /\ goto(p, [Idle EXCEPT !.op = "Insert", !.step = "index", !.new = freshRID, !.row = row, !.todo = indexes])
  BY DEF InsertHeap
<1>1. PICK r :
        goto(p, r) /\ r = [Idle EXCEPT !.op = "Insert", !.step = "index", !.new = freshRID,
                                       !.row = row, !.todo = indexes]
  BY <1>0
<1>2. /\ DOMAIN r = CallFields /\ r.op = "Insert" /\ r.step = "index" /\ r.new = freshRID /\ r.row = row
      /\ r.todo = indexes /\ r.done = {}
  BY <1>1 DEF Idle, CallFields
<1>3. UNCHANGED <<indexes, tree, dirty, disk, acked, flushed>> /\ "Insert" \in Ops /\ client[p] = Idle
  BY DEF InsertHeap, indexVars, ghosts
<1>4. /\ HeapOK' /\ Grows
      /\ rows'[freshRID] = row /\ DOMAIN rows' = DOMAIN rows \cup {freshRID}
      /\ \A q \in DOMAIN rows : rows'[q] = IF q = NoRID THEN Dead ELSE rows[q]
  BY <1>0, <1>3, HeapInsertOK DEF TInv, Base
<1>5. NoRID \notin DOMAIN rows
  BY DEF TInv, Base, HeapOK, NoRID
<1>6. freshRID \notin DOMAIN rows
  BY FreshRID DEF TInv, Base
<1>7. live' = live \cup {freshRID} /\ \A q \in live : rows'[q] = rows[q]
  BY <1>4, <1>5, <1>6, UseFacts, SMT DEF live, TInv, Base, Shape
<1>8. \A q \in Clients : client'[q] = IF q = p THEN r ELSE client[q]
  BY <1>1, Goto DEF TInv, Base
<1>9. Base'
  <2>1. callOK(r)'
    BY <1>2, <1>4, <1>7, SameUse DEF callOK, writing, removing
  <2>2. \A q \in Clients : writing(client[q]) => client[q].new # r.new
    BY <1>2, <1>6, Known DEF TInv
  <2> QED
    BY <1>1, <1>2, <1>3, <1>4, <2>1, <2>2, StepBase, ZenonT(30) DEF TInv, Base, Shape
<1>10. UniqueOK'
  BY <1>2, <1>3, <1>8, SameUse DEF TInv, UniqueOK
<1>11. ValuesOK'
  BY <1>2, <1>3, <1>4, <1>6, <1>7, <1>8, ValuesKept DEF TInv
<1>12. LoopsOK'
  BY <1>2, <1>3, <1>8, IdleFacts, LoopsKept DEF TInv
<1>13. FoundOK'
  BY <1>2, <1>3, <1>4, <1>6, <1>7, <1>8, Known, IdleFacts, SameUse, SMTT(30) DEF TInv, FoundOK, found, writing
<1>14. TidyOK'
  BY <1>2, <1>3, <1>6, <1>7, <1>8, Known, KnownEntries, IdleFacts, SameUse, SMT
     DEF TInv, TidyOK, TidyRows, TidyInserts, TidyOld, TidyDead, removes, writing, removing
<1> QED
  BY <1>9, <1>10, <1>11, <1>12, <1>13, <1>14 DEF TInv

\* A step that leaves the heap and what was returned of it alone.
LEMMA HeapSame ==
    ASSUME Base, use' = use, UNCHANGED <<rows, total, diskTotal, acked, flushed>>
    PROVE  HeapOK' /\ Grows /\ live' = live
<1>1. HeapOK' /\ Grows
  BY HeapKeptOK DEF Base, HeapOK
<1> QED
  BY <1>1 DEF live

\* A call ends, and neither left its row to be entered in an index nor one to be
\* removed from it.
LEMMA ReturnOK ==
    ASSUME TInv, use' = use, NEW p \in Clients, goto(p, Idle),
           UNCHANGED <<rows, total, diskTotal, indexes, tree, dirty, disk, acked, flushed>>,
           client[p].op # "DropIndex", safe => ~writing(client[p]),
           tidy /\ removing(client[p]) => indexes \subseteq client[p].done
    PROVE  TInv'
<1>1. HeapOK' /\ Grows /\ live' = live
  BY HeapSame DEF TInv
<1>2. \A q \in Clients : client'[q] = IF q = p THEN Idle ELSE client[q]
  BY Goto DEF TInv, Base
<1>3. Base'
  <2>1. callOK(Idle)'
    BY IdleFacts DEF callOK
  <2> QED
    BY <1>1, <2>1, IdleFacts, StepBase DEF TInv, Base, Shape
<1>4. UniqueOK'
  BY <1>2, IdleFacts, SameUse DEF TInv, UniqueOK
<1>5. ValuesOK'
  BY <1>1, <1>2, IdleFacts, ValuesKept DEF TInv
<1>6. LoopsOK'
  BY <1>2, IdleFacts, LoopsKept DEF TInv
<1>7. FoundOK'
  BY <1>1, <1>2, IdleFacts, SameUse, SMTT(30) DEF TInv, FoundOK, found
<1>8. TidyOK'
  BY <1>1, <1>2, IdleFacts, SameUse, SMT DEF TInv, TidyOK, TidyRows, TidyInserts, TidyOld, TidyDead, removes
<1> QED
  BY <1>3, <1>4, <1>5, <1>6, <1>7, <1>8 DEF TInv

\* Insert or Update returns the RID of its row when every index has it.
LEMMA AckOK ==
    ASSUME TInv, use' = use, NEW p \in Clients, goto(p, Idle), writing(client[p]), looped(p),
           acked' = acked \cup {client[p].new},
           UNCHANGED <<rows, total, diskTotal, indexes, tree, dirty, disk, flushed>>
    PROVE  TInv'
<1>1. HeapOK' /\ Grows
  BY Known, HeapKeptOK, ZenonT(30) DEF TInv, Base, HeapOK
<1>2. live' = live
  BY DEF live
<1>3. \A q \in Clients : client'[q] = IF q = p THEN Idle ELSE client[q]
  BY Goto DEF TInv, Base
<1>4. fixed => indexes \subseteq client[p].done
  BY DEF TInv, LoopsOK, looped, looping
<1>5. \A q \in Clients : q # p /\ writing(client[q]) => client[q].new # client[p].new
  BY DEF TInv, Base, CallsOK
<1>6. Base'
  <2>1. callOK(Idle)'
    BY IdleFacts DEF callOK
  <2> QED
    BY <1>1, <2>1, IdleFacts, StepBase DEF TInv, Base, Shape
<1>7. UniqueOK'
  BY <1>3, IdleFacts, SameUse DEF TInv, UniqueOK
<1>8. ValuesOK'
  BY <1>2, <1>3, IdleFacts, SameUse, SMT DEF TInv, ValuesOK, stored
<1>9. LoopsOK'
  BY <1>3, IdleFacts, SameUse, SMTT(30) DEF TInv, LoopsOK, writing
<1>10. FoundOK'
  BY <1>2, <1>3, <1>4, IdleFacts, SameUse, SMTT(30) DEF TInv, FoundOK, found, safe, writing
<1>11. TidyOK'
  BY <1>2, <1>3, <1>4, <1>5, IdleFacts, SameUse, SMT DEF TInv, TidyOK, TidyRows, TidyInserts, TidyOld, TidyDead, removes, tidy
<1> QED
  BY <1>6, <1>7, <1>8, <1>9, <1>10, <1>11 DEF TInv

\* The entry of a row is put into an index that the call had not visited yet.
LEMMA EnterOK ==
    ASSUME TInv, use' = use, NEW p \in Clients, NEW c \in indexes, NEW r, goto(p, r),
           writing(client[p]), client[p].step # "rollback",
           client[p].op = "Update" => client[p].step = "insert" /\ client[p].col = c,
           DOMAIN r = CallFields, r.op = client[p].op, r.step \notin {"heap", "rollback", "insert"},
           r.new = client[p].new, r.rid = client[p].rid, r.row = client[p].row,
           r.old = client[p].old, r.todo = client[p].todo, r.done = client[p].done \cup {c},
           ~violates(c, tree[c], <<client[p].row[c], client[p].new>>),
           put(c, tree[c] \cup {<<client[p].row[c], client[p].new>>}),
           UNCHANGED <<rows, total, diskTotal, acked, flushed>>
    PROVE  TInv'
<1> DEFINE e == <<client[p].row[c], client[p].new>>
<1>1. HeapOK' /\ Grows /\ live' = live
  BY HeapSame DEF TInv
<1>2. \A q \in Clients : client'[q] = IF q = p THEN r ELSE client[q]
  BY Goto DEF TInv, Base
<1>3. /\ c \in Columns /\ DOMAIN tree' = Columns /\ DOMAIN dirty' = Columns
      /\ \A d \in Columns : /\ tree'[d] = IF d = c THEN tree[c] \cup {e} ELSE tree[d]
                            /\ d # c => dirty'[d] = dirty[d]
      /\ dirty'[c] = TRUE /\ indexes' = indexes /\ disk' = disk
  BY DEF put, TInv, Base, Shape
<1>4. /\ e[1] = client[p].row[c] /\ e[2] = client[p].new /\ e[2] \in DOMAIN rows /\ e = <<e[1], e[2]>>
      /\ e[2] \in live => rows[e[2]][c] = e[1] /\ e = <<rows[e[2]][c], e[2]>>
  BY DEF TInv, Base, CallsOK, callOK
<1>5. \A f \in tree[c] : c \in Unique /\ f[1] = e[1] => f[2] = e[2]
  BY <1>4 DEF violates
<1>6. \A q \in Clients : q # p /\ writing(client[q]) => client[q].new # e[2]
  BY <1>4 DEF TInv, Base, CallsOK
<1>7. (writing(r) <=> writing(client[p])) /\ (removing(r) <=> removing(client[p]))
  BY DEF writing, removing
<1> HIDE DEF e
<1>8. Base'
  <2>1. callOK(r)'
    BY <1>1, <1>7, SameUse DEF callOK, TInv, Base, CallsOK, writing
  <2> QED
    BY <1>1, <1>3, <1>4, <1>6, <1>7, <2>1, StepBase, SMT DEF TInv, Base, Shape
<1>9. UniqueOK'
  <2> SUFFICES ASSUME NEW d \in Unique
               PROVE  /\ oneRID(tree'[d]) /\ (disk'[d] # NoFile => oneRID(disk'[d]))
                      /\ \A q \in Clients : client'[q].op = "CreateIndex" /\ client'[q].col = d =>
                            oneRID(client'[q].built)
    BY SameUse DEF UniqueOK
  <2>1. /\ d \in Columns /\ oneRID(tree[d]) /\ (disk[d] # NoFile => oneRID(disk[d]))
        /\ \A q \in Clients : client[q].op = "CreateIndex" /\ client[q].col = d => oneRID(client[q].built)
    BY UseFacts DEF TInv, UniqueOK, Base, Shape
  <2>2. oneRID(tree'[d])
    BY <1>3, <1>5, <2>1, SMT DEF oneRID
  <2> QED
    BY <1>2, <1>3, <2>1, <2>2 DEF writing
<1>10. ValuesOK'
  <2>1. \A d \in Columns : \A f \in tree'[d] : f \in tree[d] \/ stored(d, f)
    BY <1>3, <1>4, SMT DEF stored
  <2> QED
    BY <1>1, <1>2, <1>3, <2>1, ValuesKept DEF TInv, writing
<1>11. LoopsOK'
  <2>1. looping(client[p])
    BY DEF looping
  <2>2. fixed => indexes \subseteq r.todo /\ (r.op \in {"Update", "Delete"} /\ r.old = NoRow => indexes = {})
    BY <2>1 DEF TInv, LoopsOK
  <2>3. \A d \in indexes : ~dirty'[d] => ~dirty[d] /\ tree'[d] = tree[d]
    BY <1>3 DEF TInv, Base, Shape
  <2> QED
    BY <1>2, <1>3, <2>2, <2>3, LoopsKept DEF TInv, writing
<1>12. FoundOK'
  BY <1>1, <1>2, <1>3, <1>4, <1>7, SameUse, SMTT(30) DEF TInv, FoundOK, found, writing, Base, Shape
<1>13. TidyOK'
  <2> SUFFICES ASSUME tidy  PROVE TidyRows' /\ TidyInserts' /\ TidyOld' /\ TidyDead'
    BY SameUse DEF TidyOK
  <2>1. TidyRows /\ TidyInserts /\ TidyOld /\ TidyDead
    BY DEF TInv, TidyOK
  <2>2. TidyRows'
    BY <1>1, <1>2, <1>7, <2>1 DEF TidyRows
  <2>3. TidyInserts'
    BY <1>2, <1>3, <1>6, <2>1, SMTT(30) DEF TidyInserts, writing, TInv, Base, Shape
  <2>4. TidyOld'
    BY <1>2, <1>3, <1>4, <2>1, SMT DEF TidyOld, TidyRows, TInv, Base, Shape
  <2>5. TidyDead'
    <3> SUFFICES ASSUME NEW d \in indexes, NEW f \in tree'[d], f[2] \notin live
                 PROVE  \E q \in Clients : removes(client'[q], d, f)
      BY <1>1, <1>3 DEF TidyDead
    <3>1. f \in tree[d]
      BY <1>3, <1>4, <2>1, SMT DEF TidyRows, TInv, Base, Shape
    <3>2. PICK q \in Clients : removes(client[q], d, f)
      BY <2>1, <3>1 DEF TidyDead
    <3>3. removes(client'[q], d, f)
      BY <1>2, <3>2 DEF removes, removing, writing
    <3> QED
      BY <3>3
  <2> QED
    BY <2>2, <2>3, <2>4, <2>5
<1> QED
  BY <1>8, <1>9, <1>10, <1>11, <1>12, <1>13 DEF TInv

\* The entry of a removed row is taken out of an index that the call had not
\* visited yet.
LEMMA RemoveOK ==
    ASSUME TInv, use' = use, NEW p \in Clients, NEW c \in indexes \ client[p].done, NEW r, goto(p, r),
           removing(client[p]), client[p].old # NoRow, client[p].step # "insert",
           DOMAIN r = CallFields, r.op = client[p].op, r.step # "heap",
           r.new = client[p].new, r.rid = client[p].rid, r.row = client[p].row,
           r.old = client[p].old, r.todo = client[p].todo,
           \/ r.op = "Update" /\ r.step = "insert" /\ r.col = c /\ r.done = client[p].done
           \/ r.op = "Delete" /\ r.step = client[p].step /\ r.done = client[p].done \cup {c},
           put(c, tree[c] \ {<<client[p].old[c], client[p].rid>>}),
           UNCHANGED <<rows, total, diskTotal, acked, flushed>>
    PROVE  TInv'
<1> DEFINE e == <<client[p].old[c], client[p].rid>>
<1>1. HeapOK' /\ Grows /\ live' = live
  BY HeapSame DEF TInv
<1>2. \A q \in Clients : client'[q] = IF q = p THEN r ELSE client[q]
  BY Goto, SMT DEF TInv, Base
<1>3. /\ c \in Columns /\ DOMAIN tree' = Columns /\ DOMAIN dirty' = Columns
      /\ \A d \in Columns : /\ tree'[d] = IF d = c THEN tree[c] \ {e} ELSE tree[d]
                            /\ d # c => dirty'[d] = dirty[d]
      /\ dirty'[c] = TRUE /\ indexes' = indexes /\ disk' = disk
  BY DEF put, TInv, Base, Shape
<1>4. e[1] = client[p].old[c] /\ e[2] = client[p].rid /\ e[2] \notin live
  BY DEF TInv, Base, CallsOK, callOK
<1>5. (writing(r) <=> writing(client[p])) /\ removing(r)
  BY DEF writing, removing
<1>6. \A q : q \in live => <<rows[q][c], q>> # e
  BY <1>4
<1> HIDE DEF e
<1>8. Base'
  <2>1. callOK(r)'
    BY <1>1, <1>5, SameUse DEF callOK, TInv, Base, CallsOK, removing
  <2> QED
    BY <1>1, <1>3, <1>5, <2>1, StepBase, SMT DEF TInv, Base, Shape, CallsOK
<1>9. UniqueOK'
  <2> SUFFICES ASSUME NEW d \in Unique
               PROVE  /\ oneRID(tree'[d]) /\ (disk'[d] # NoFile => oneRID(disk'[d]))
                      /\ \A q \in Clients : client'[q].op = "CreateIndex" /\ client'[q].col = d =>
                            oneRID(client'[q].built)
    BY SameUse DEF UniqueOK
  <2>1. /\ d \in Columns /\ oneRID(tree[d]) /\ (disk[d] # NoFile => oneRID(disk[d]))
        /\ \A q \in Clients : client[q].op = "CreateIndex" /\ client[q].col = d => oneRID(client[q].built)
    BY UseFacts DEF TInv, UniqueOK, Base, Shape
  <2>2. oneRID(tree'[d])
    BY <1>3, <2>1, SMTT(30) DEF oneRID
  <2> QED
    BY <1>2, <1>3, <2>1, <2>2 DEF removing
<1>10. ValuesOK'
  <2>1. \A d \in Columns : \A f \in tree'[d] : f \in tree[d]
    BY <1>3
  <2> QED
    BY <1>1, <1>2, <1>3, <2>1, ValuesKept, SMT DEF TInv, removing
<1>11. LoopsOK'
  <2>1. looping(client[p])
    BY DEF looping
  <2>2. fixed => indexes \subseteq r.todo /\ (r.op \in {"Update", "Delete"} /\ r.old = NoRow => indexes = {})
    BY <2>1 DEF TInv, LoopsOK
  <2>3. \A d \in indexes : ~dirty'[d] => ~dirty[d] /\ tree'[d] = tree[d]
    BY <1>3 DEF TInv, Base, Shape
  <2> QED
    BY <1>2, <1>3, <2>2, <2>3, LoopsKept, SMTT(30) DEF TInv, removing
<1>12. FoundOK'
  BY <1>1, <1>2, <1>3, <1>5, <1>6, SameUse, SMT DEF TInv, FoundOK, found, writing, Base, Shape
<1>13. TidyOK'
  <2> SUFFICES ASSUME tidy  PROVE TidyRows' /\ TidyInserts' /\ TidyOld' /\ TidyDead'
    BY SameUse DEF TidyOK
  <2>1. TidyRows /\ TidyInserts /\ TidyOld /\ TidyDead
    BY DEF TInv, TidyOK
  <2>2. TidyRows'
    BY <1>1, <1>2, <1>5, <2>1 DEF TidyRows
  <2>3. \A d \in indexes : \A f \in tree'[d] : f \in tree[d]
    BY <1>3 DEF TInv, Base, Shape
  <2>4. TidyInserts'
    BY <1>2, <1>3, <2>1, <2>3, SMTT(30) DEF TidyInserts
  <2>5. TidyOld'
    BY <1>2, <1>3, <2>1, <2>3, SMT DEF TidyOld
  <2>6. TidyDead'
    <3> SUFFICES ASSUME NEW d \in indexes, NEW f \in tree'[d], f[2] \notin live
                 PROVE  \E q \in Clients : removes(client'[q], d, f)
      BY <1>1, <1>3 DEF TidyDead
    <3>1. f \in tree[d]
      BY <2>3
    <3>2. PICK q \in Clients : removes(client[q], d, f)
      BY <2>1, <3>1 DEF TidyDead
    <3>3. q = p /\ d = c => FALSE
      <4> SUFFICES ASSUME q = p, d = c  PROVE FALSE
        OBVIOUS
      <4>1. f[1] = client[p].old[c] /\ f[2] = client[p].rid
        BY <2>1, <3>1, <3>2 DEF TidyOld, removes, removing
      <4>2. f = <<f[1], f[2]>>
        BY <3>1, KnownEntries DEF TInv
      <4> QED
        BY <1>3, <4>1, <4>2, SMT DEF e
    <3>4. removes(client'[q], d, f)
      BY <1>2, <1>5, <3>2, <3>3, SMT DEF removes
    <3> QED
      BY <3>4
  <2> QED
    BY <2>2, <2>4, <2>5, <2>6
<1> QED
  BY <1>8, <1>9, <1>10, <1>11, <1>12, <1>13 DEF TInv

\* A unique index refuses the row of an Insert: the call will remove it again.
LEMMA RefuseOK ==
    ASSUME TInv, use' = use, NEW p \in Clients, NEW c \in indexes \ client[p].done, NEW r, goto(p, r),
           client[p].op = "Insert", c \in Unique,
           DOMAIN r = CallFields, r.op = "Insert", r.step = "rollback",
           r.new = client[p].new, r.row = client[p].row, r.todo = client[p].todo,
           r.done = client[p].done,
           UNCHANGED <<rows, total, diskTotal, indexes, tree, dirty, disk, acked, flushed>>
    PROVE  TInv'
<1>1. HeapOK' /\ Grows /\ live' = live
  BY HeapSame DEF TInv
<1>2. \A q \in Clients : client'[q] = IF q = p THEN r ELSE client[q]
  BY Goto DEF TInv, Base
<1>3. writing(r) /\ ~removing(r) /\ writing(client[p])
  BY DEF writing, removing
<1>4. Base'
  <2>1. callOK(r)'
    BY <1>1, <1>3, SameUse DEF callOK, TInv, Base, CallsOK
  <2>2. \A q \in Clients : q # p /\ writing(client[q]) => client[q].new # r.new
    BY <1>3 DEF TInv, Base, CallsOK
  <2>3. "Insert" \in Ops
    BY DEF TInv, Base, Shape
  <2> QED
    BY <1>1, <2>1, <2>2, <2>3, StepBase DEF TInv, Base, Shape
<1>5. UniqueOK'
  BY <1>2, SameUse, SMTT(30) DEF TInv, UniqueOK
<1>6. ValuesOK'
  BY <1>1, <1>2, ValuesKept DEF TInv
<1>7. LoopsOK'
  <2>1. looping(client[p])
    BY <1>3 DEF looping
  <2>2. fixed => indexes \subseteq r.todo
    BY <2>1 DEF TInv, LoopsOK
  <2> QED
    BY <1>2, <2>2, LoopsKept DEF TInv
<1>8. FoundOK'
  BY <1>1, <1>2, <1>3, SameUse, SMTT(30) DEF TInv, FoundOK, found
<1>9. TidyOK'
  <2> SUFFICES ASSUME tidy  PROVE TidyRows' /\ TidyInserts' /\ TidyOld' /\ TidyDead'
    BY SameUse DEF TidyOK
  <2>1. TidyRows /\ TidyInserts /\ TidyOld /\ TidyDead
    BY DEF TInv, TidyOK
  <2>2. \A d \in indexes : d = c
    BY DEF tidy, TInv, Base, Shape
  <2>3. \A f \in tree[c] : f[2] # client[p].new
    BY <2>1 DEF TidyInserts
  <2>4. TidyInserts'
    BY <1>2, <2>1, <2>2, <2>3, SMT DEF TidyInserts
  <2>5. \A q \in Clients : client'[q].op \in {"Update", "Delete"} => client'[q] = client[q]
    BY <1>2
  <2>6. TidyRows'
    BY <1>1, <1>2, <1>3, <2>1, <2>5 DEF TidyRows
  <2>7. TidyOld'
    BY <2>1, <2>5, SMT DEF TidyOld
  <2>8. TidyDead'
    BY <1>1, <1>2, <2>1, SMT DEF TidyDead, removes, removing
  <2> QED
    BY <2>4, <2>6, <2>7, <2>8
<1> QED
  BY <1>4, <1>5, <1>6, <1>7, <1>8, <1>9 DEF TInv

\* Insert puts the row's entry into the next index, or meets a unique value.
LEMMA InsertIndexOK ==
    ASSUME TInv, use' = use, NEW p \in Clients, InsertIndex(p)
    PROVE  TInv'
<1>1. /\ client[p].op = "Insert" /\ client[p].step = "index" /\ DOMAIN client[p] = CallFields
      /\ UNCHANGED <<rows, total, diskTotal, acked, flushed>>
  BY DEF InsertIndex, at, heapVars, ghosts, TInv, Base, Shape
<1>2. PICK c \in indexes \ client[p].done :
        IF violates(c, tree[c], <<client[p].row[c], client[p].new>>)
        THEN /\ goto(p, [client[p] EXCEPT !.step = "rollback"])
             /\ UNCHANGED indexVars
        ELSE /\ goto(p, [client[p] EXCEPT !.done = @ \cup {c}])
             /\ put(c, tree[c] \cup {<<client[p].row[c], client[p].new>>})
  BY DEF InsertIndex, visit
<1>3. CASE violates(c, tree[c], <<client[p].row[c], client[p].new>>)
  <2>1. PICK r : goto(p, r) /\ r = [client[p] EXCEPT !.step = "rollback"]
    BY <1>2, <1>3
  <2>2. /\ DOMAIN r = CallFields /\ r.op = "Insert" /\ r.step = "rollback"
        /\ r.new = client[p].new /\ r.row = client[p].row
        /\ r.todo = client[p].todo /\ r.done = client[p].done
    BY <1>1, <2>1 DEF CallFields
  <2> QED
    BY <1>1, <1>2, <1>3, <2>1, <2>2, RefuseOK DEF violates, indexVars
<1>4. CASE ~violates(c, tree[c], <<client[p].row[c], client[p].new>>)
  <2>1. PICK r : goto(p, r) /\ r = [client[p] EXCEPT !.done = @ \cup {c}]
    BY <1>2, <1>4
  <2>2. /\ DOMAIN r = CallFields /\ r.op = "Insert" /\ r.step = "index"
        /\ r.new = client[p].new /\ r.rid = client[p].rid /\ r.row = client[p].row
        /\ r.old = client[p].old /\ r.todo = client[p].todo /\ r.done = client[p].done \cup {c}
    BY <1>1, <2>1 DEF CallFields
  <2> QED
    BY <1>1, <1>2, <1>4, <2>1, <2>2, EnterOK DEF writing
<1> QED
  BY <1>3, <1>4

\* A failed Insert removes its row again; the entries it made are of no row.
LEMMA InsertRollbackOK ==
    ASSUME TInv, use' = use, NEW p \in Clients, InsertRollback(p)
    PROVE  TInv'
<1> DEFINE x == client[p].new
<1>1. /\ client[p].op = "Insert" /\ client[p].step = "rollback" /\ goto(p, Idle)
      /\ rows' = [rows EXCEPT ![x] = Dead]
      /\ UNCHANGED <<total, diskTotal, indexes, tree, dirty, disk, acked, flushed>>
  BY DEF InsertRollback, at, indexVars, ghosts, Return
<1>2. x \in DOMAIN rows /\ writing(client[p])
  BY <1>1, Known DEF TInv, writing
<1> HIDE DEF x
<1>3. /\ HeapOK' /\ Grows /\ DOMAIN rows' = DOMAIN rows
      /\ \A q \in DOMAIN rows : rows'[q] = IF q = x THEN Dead ELSE rows[q]
  BY <1>1, <1>2, HeapRemoveOK DEF TInv, Base
<1>4. live' = live \ {x} /\ \A q \in live' : rows'[q] = rows[q]
  BY <1>3 DEF live
<1>5. \A q \in Clients : client'[q] = IF q = p THEN Idle ELSE client[q]
  BY <1>1, Goto DEF TInv, Base
<1>6. \A q \in Clients : q # p /\ writing(client[q]) => client[q].new # x
  BY <1>2 DEF TInv, Base, CallsOK, x
<1>7. Base'
  <2>1. callOK(Idle)'
    BY IdleFacts DEF callOK
  <2> QED
    BY <1>1, <1>3, <2>1, IdleFacts, StepBase DEF TInv, Base, Shape
<1>8. UniqueOK'
  BY <1>1, <1>5, IdleFacts, SameUse DEF TInv, UniqueOK
<1>9. ValuesOK'
  BY <1>1, <1>3, <1>4, <1>5, IdleFacts, ValuesKept DEF TInv
<1>10. LoopsOK'
  BY <1>1, <1>5, IdleFacts, LoopsKept DEF TInv
<1>11. FoundOK'
  BY <1>1, <1>4, <1>5, IdleFacts, SameUse, SMT DEF TInv, FoundOK, found, x
<1>12. TidyOK'
  <2> SUFFICES ASSUME tidy  PROVE TidyRows' /\ TidyInserts' /\ TidyOld' /\ TidyDead'
    BY SameUse DEF TidyOK
  <2>1. TidyRows /\ TidyInserts /\ TidyOld /\ TidyDead
    BY DEF TInv, TidyOK
  <2>2. TidyRows'
    BY <1>1, <1>4, <1>5, <1>6, <2>1, IdleFacts DEF TidyRows
  <2>3. TidyInserts' /\ TidyOld'
    BY <1>1, <1>5, <2>1, IdleFacts, SMT DEF TidyInserts, TidyOld
  <2>4. \A c \in indexes : \A e \in tree[c] : e[2] # x
    BY <1>1, <2>1 DEF TidyInserts, x
  <2>5. TidyDead'
    BY <1>1, <1>4, <1>5, <2>1, <2>4, SMT DEF TidyDead, removes, removing
  <2> QED
    BY <2>2, <2>3, <2>5
<1> QED
  BY <1>7, <1>8, <1>9, <1>10, <1>11, <1>12 DEF TInv

\* Insert returns its RID when no index is left.
LEMMA InsertReturnOK ==
    ASSUME TInv, use' = use, NEW p \in Clients, InsertReturn(p)
    PROVE  TInv'
  BY AckOK DEF InsertReturn, Return, at, writing, heapVars, indexVars

\* Update and Delete begin: they have read the row, if there is an index.
LEMMA GetOK ==
    ASSUME TInv, use' = use, NEW p \in Clients, NEW op \in {"Update", "Delete"}, Get(p, op)
    PROVE  TInv'
<1>1. /\ op \in Ops /\ client[p] = Idle
      /\ UNCHANGED <<rows, total, diskTotal, indexes, tree, dirty, disk, acked, flushed>>
  BY DEF Get, heapVars, indexVars, ghosts
<1>2. PICK x \in usable, row \in (IF op = "Update" THEN Row ELSE {NoRow}) :
        /\ indexes # {} => x \in live
        /\ goto(p, [Idle EXCEPT !.op = op, !.step = "heap", !.rid = x, !.row = row,
                                !.old = IF indexes # {} THEN rows[x] ELSE NoRow])
  BY DEF Get
<1>3. PICK r : goto(p, r) /\ r = [Idle EXCEPT !.op = op, !.step = "heap", !.rid = x, !.row = row,
                                            !.old = IF indexes # {} THEN rows[x] ELSE NoRow]
  BY <1>2
<1>4. /\ DOMAIN r = CallFields /\ r.op = op /\ r.step = "heap" /\ r.rid = x /\ r.row = row /\ r.done = {}
      /\ r.old = IF indexes # {} THEN rows[x] ELSE NoRow
  BY <1>3 DEF Idle, CallFields
<1>5. HeapOK' /\ Grows /\ live' = live
  BY <1>1, HeapSame DEF TInv
<1>6. \A q \in Clients : client'[q] = IF q = p THEN r ELSE client[q]
  BY <1>3, Goto DEF TInv, Base
<1>7. x \in DOMAIN rows /\ (~ScanRIDs => x \in acked)
  BY Known DEF usable, TInv
<1>8. /\ r.old # NoRow => r.old \in Row /\ x \in live /\ rows[x] = r.old
      /\ r.old = NoRow => indexes = {}
  <2>1. NoRow \notin Row /\ Dead = NoRow
    BY UseFacts DEF TInv, Base, Shape, Dead, NoRow
  <2>2. indexes # {} => rows[x] \in Row
    BY <1>2, <2>1 DEF live, TInv, Base, HeapOK
  <2> QED
    BY <1>2, <1>4, <2>1, <2>2
<1>9. ~writing(r) /\ ~removing(r) /\ ~looping(r)
  BY <1>4 DEF writing, removing, looping
<1>10. Base'
  <2>1. callOK(r)'
    BY <1>1, <1>2, <1>4, <1>5, <1>7, <1>8, <1>9, SameUse DEF callOK
  <2> QED
    BY <1>1, <1>3, <1>4, <1>5, <1>9, <2>1, StepBase, ZenonT(30) DEF TInv, Base, Shape
<1>11. UniqueOK'
  BY <1>1, <1>4, <1>6, SameUse DEF TInv, UniqueOK
<1>12. ValuesOK'
  BY <1>1, <1>4, <1>5, <1>6, ValuesKept DEF TInv
<1>13. LoopsOK'
  BY <1>1, <1>4, <1>6, <1>8, <1>9, IdleFacts, LoopsKept DEF TInv
<1>14. FoundOK'
  BY <1>1, <1>4, <1>5, <1>6, <1>9, IdleFacts, SameUse, SMT DEF TInv, FoundOK, found
<1>15. TidyOK'
  <2> SUFFICES ASSUME tidy  PROVE TidyRows' /\ TidyInserts' /\ TidyOld' /\ TidyDead'
    BY SameUse DEF TidyOK
  <2>1. TidyRows /\ TidyInserts /\ TidyOld /\ TidyDead
    BY DEF TInv, TidyOK
  <2>2. TidyRows'
    BY <1>1, <1>4, <1>5, <1>6, <1>7, <1>9, <2>1 DEF TidyRows, tidy
  <2>3. TidyInserts'
    BY <1>1, <1>4, <1>6, <2>1 DEF TidyInserts
  <2>4. TidyOld'
    BY <1>1, <1>4, <1>6, <1>8, <2>1, KnownEntries, SMTT(30) DEF TidyOld, stored, TInv
  <2>5. TidyDead'
    BY <1>1, <1>5, <1>6, <2>1, IdleFacts, SMT DEF TidyDead, removes
  <2> QED
    BY <2>2, <2>3, <2>4, <2>5
<1> QED
  BY <1>10, <1>11, <1>12, <1>13, <1>14, <1>15 DEF TInv

\* Update moves its row to a fresh RID.
LEMMA UpdateHeapOK ==
    ASSUME TInv, use' = use, NEW p \in Clients, UpdateHeap(p)
    PROVE  TInv'
<1> DEFINE x == client[p].rid
           y == freshRID
<1>1. /\ client[p].op = "Update" /\ client[p].step = "heap" /\ DOMAIN client[p] = CallFields
      /\ UNCHANGED <<indexes, tree, dirty, disk, acked, flushed>>
  BY DEF UpdateHeap, at, indexVars, ghosts, TInv, Base, Shape
<1>2. x \in DOMAIN rows /\ client[p].done = {} /\ client[p].row \in Row
  BY <1>1 DEF TInv, Base, CallsOK, callOK
<1>3. ~writing(client[p]) /\ ~removing(client[p])
  BY <1>1 DEF writing, removing
<1>4. CASE x \notin live
  <2>1. goto(p, Idle) /\ UNCHANGED <<rows, total, diskTotal>>
    BY <1>4 DEF UpdateHeap, Return, heapVars
  <2> QED
    BY <1>1, <1>3, <2>1, ReturnOK
<1>5. CASE x \in live
  <2>1. PICK r : goto(p, r) /\ r = [client[p] EXCEPT !.step = "delete", !.new = freshRID, !.todo = indexes]
    BY <1>5 DEF UpdateHeap
  <2>2. /\ DOMAIN r = CallFields /\ r.op = "Update" /\ r.step = "delete" /\ r.new = y /\ r.todo = indexes
        /\ r.rid = x /\ r.row = client[p].row /\ r.old = client[p].old /\ r.done = {}
    BY <1>1, <1>2, <2>1 DEF CallFields
  <2>3. heapInsert(x, client[p].row)
    BY <1>5 DEF UpdateHeap
  <2>4. /\ HeapOK' /\ Grows
        /\ rows'[freshRID] = client[p].row /\ DOMAIN rows' = DOMAIN rows \cup {freshRID}
        /\ \A q \in DOMAIN rows : rows'[q] = IF q = x THEN Dead ELSE rows[q]
    BY <1>1, <1>2, <2>3, HeapInsertOK DEF TInv, Base
  <2>5. y \notin DOMAIN rows
    BY FreshRID DEF TInv, Base
  <2> HIDE DEF x, y
  <2>6. live' = (live \ {x}) \cup {y} /\ \A q \in live' : q # y => rows'[q] = rows[q]
    BY <1>2, <2>4, <2>5, UseFacts DEF live, TInv, Base, Shape, y
  <2>7. \A q \in Clients : client'[q] = IF q = p THEN r ELSE client[q]
    BY <2>1, Goto DEF TInv, Base
  <2>8. writing(r) /\ removing(r) /\ looping(r)
    BY <2>2 DEF writing, removing, looping
  <2>9. Base'
    <3>1. callOK(r)'
      BY <1>1, <1>2, <2>2, <2>4, <2>5, <2>6, <2>8, SameUse DEF callOK, TInv, Base, CallsOK, x, y
    <3>2. \A q \in Clients : writing(client[q]) => client[q].new # r.new
      BY <2>2, <2>5, Known DEF TInv
    <3> QED
      BY <1>1, <2>1, <2>2, <2>4, <3>1, <3>2, StepBase DEF TInv, Base, Shape
  <2>10. UniqueOK'
    BY <1>1, <2>2, <2>7, SameUse, SMTT(30) DEF TInv, UniqueOK
  <2>11. ValuesOK'
    BY <1>1, <2>2, <2>4, <2>5, <2>6, <2>7, ValuesKept DEF TInv
  <2>12. LoopsOK'
    <3>1. fixed /\ r.old = NoRow => indexes = {}
      BY <1>1, <2>2 DEF TInv, LoopsOK
    <3> QED
      BY <1>1, <2>2, <2>7, <3>1, LoopsKept DEF TInv
  <2>13. FoundOK'
    BY <1>1, <1>3, <2>2, <2>5, <2>6, <2>7, <2>8, Known, SameUse, SMTT(30) DEF TInv, FoundOK, found
  <2>14. TidyOK'
    <3> SUFFICES ASSUME tidy  PROVE TidyRows' /\ TidyInserts' /\ TidyOld' /\ TidyDead'
      BY SameUse DEF TidyOK
    <3>1. TidyRows /\ TidyInserts /\ TidyOld /\ TidyDead
      BY DEF TInv, TidyOK
    <3>2. TidyRows'
      BY <1>1, <2>2, <2>5, <2>6, <2>7, <2>8, <3>1, Known DEF TidyRows, TInv, x
    <3>3. TidyInserts'
      BY <1>1, <2>2, <2>7, <3>1, SMTT(30) DEF TidyInserts
    <3>4. TidyOld'
      BY <1>1, <2>2, <2>7, <3>1, SMTT(30) DEF TidyOld, x
    <3>5. TidyDead'
      BY <1>1, <1>3, <2>2, <2>6, <2>7, <2>8, <3>1, SMT DEF TidyDead, removes
    <3> QED
      BY <3>2, <3>3, <3>4, <3>5
  <2> QED
    BY <2>9, <2>10, <2>11, <2>12, <2>13, <2>14 DEF TInv
<1> QED
  BY <1>4, <1>5

\* Delete removes its row before it visits the indexes.
LEMMA DeleteHeapOK ==
    ASSUME TInv, use' = use, NEW p \in Clients, DeleteHeap(p)
    PROVE  TInv'
<1> DEFINE x == client[p].rid
<1>1. /\ client[p].op = "Delete" /\ client[p].step = "heap" /\ DOMAIN client[p] = CallFields
      /\ UNCHANGED <<total, diskTotal, indexes, tree, dirty, disk, acked, flushed>>
  BY DEF DeleteHeap, at, indexVars, ghosts, TInv, Base, Shape
<1>2. x \in DOMAIN rows /\ client[p].done = {}
  BY <1>1 DEF TInv, Base, CallsOK, callOK
<1>3. ~writing(client[p]) /\ ~removing(client[p])
  BY <1>1 DEF writing, removing
<1>4. CASE x \notin live
  <2>1. goto(p, Idle) /\ UNCHANGED rows
    BY <1>4 DEF DeleteHeap, Return
  <2> QED
    BY <1>1, <1>3, <2>1, ReturnOK
<1>5. CASE x \in live
  <2>1. PICK r : goto(p, r) /\ r = [client[p] EXCEPT !.step = "delete", !.todo = indexes]
    BY <1>5 DEF DeleteHeap
  <2>2. /\ DOMAIN r = CallFields /\ r.op = "Delete" /\ r.step = "delete" /\ r.todo = indexes
        /\ r.rid = x /\ r.old = client[p].old /\ r.done = {}
    BY <1>1, <1>2, <2>1 DEF CallFields
  <2>3. rows' = [rows EXCEPT ![x] = Dead]
    BY <1>5 DEF DeleteHeap
  <2>4. /\ HeapOK' /\ Grows /\ DOMAIN rows' = DOMAIN rows
        /\ \A q \in DOMAIN rows : rows'[q] = IF q = x THEN Dead ELSE rows[q]
    BY <1>1, <1>2, <2>3, HeapRemoveOK DEF TInv, Base
  <2> HIDE DEF x
  <2>5. live' = live \ {x} /\ \A q \in live' : rows'[q] = rows[q]
    BY <1>2, <2>4 DEF live
  <2>6. \A q \in Clients : client'[q] = IF q = p THEN r ELSE client[q]
    BY <2>1, Goto DEF TInv, Base
  <2>7. ~writing(r) /\ removing(r) /\ looping(r)
    BY <2>2 DEF writing, removing, looping
  <2>8. Base'
    <3>1. callOK(r)'
      BY <1>1, <1>2, <2>2, <2>4, <2>5, <2>7, SameUse DEF callOK, TInv, Base, CallsOK, x
    <3> QED
      BY <1>1, <2>1, <2>2, <2>4, <2>7, <3>1, StepBase DEF TInv, Base, Shape
  <2>9. UniqueOK'
    BY <1>1, <2>2, <2>6, SameUse DEF TInv, UniqueOK
  <2>10. ValuesOK'
    BY <1>1, <2>2, <2>4, <2>5, <2>6, ValuesKept DEF TInv
  <2>11. LoopsOK'
    <3>1. fixed /\ r.old = NoRow => indexes = {}
      BY <1>1, <2>2 DEF TInv, LoopsOK
    <3> QED
      BY <1>1, <2>2, <2>6, <3>1, LoopsKept DEF TInv
  <2>12. FoundOK'
    BY <1>1, <1>3, <2>2, <2>5, <2>6, <2>7, SameUse, SMTT(30) DEF TInv, FoundOK, found
  <2>13. TidyOK'
    <3> SUFFICES ASSUME tidy  PROVE TidyRows' /\ TidyInserts' /\ TidyOld' /\ TidyDead'
      BY SameUse DEF TidyOK
    <3>1. TidyRows /\ TidyInserts /\ TidyOld /\ TidyDead
      BY DEF TInv, TidyOK
    <3>2. TidyRows'
      BY <1>1, <2>2, <2>5, <2>6, <2>7, <3>1 DEF TidyRows, x
    <3>3. TidyInserts' /\ TidyOld'
      BY <1>1, <2>2, <2>6, <3>1, SMTT(30) DEF TidyInserts, TidyOld, x
    <3>4. TidyDead'
      BY <1>1, <1>3, <2>2, <2>5, <2>6, <2>7, <3>1, SMT DEF TidyDead, removes
    <3> QED
      BY <3>2, <3>3, <3>4
  <2> QED
    BY <2>8, <2>9, <2>10, <2>11, <2>12, <2>13 DEF TInv
<1> QED
  BY <1>4, <1>5

\* Update takes the old row's entry out of an index.
LEMMA UpdateIndexDeleteOK ==
    ASSUME TInv, use' = use, NEW p \in Clients, UpdateIndexDelete(p)
    PROVE  TInv'
<1>1. /\ client[p].op = "Update" /\ client[p].step = "delete" /\ DOMAIN client[p] = CallFields
      /\ client[p].old # NoRow /\ UNCHANGED <<rows, total, diskTotal, acked, flushed>>
  BY DEF UpdateIndexDelete, at, heapVars, ghosts, TInv, Base, Shape
<1>2. PICK c \in indexes \ client[p].done :
        /\ put(c, tree[c] \ {<<client[p].old[c], client[p].rid>>})
        /\ goto(p, [client[p] EXCEPT !.step = "insert", !.col = c])
  BY DEF UpdateIndexDelete, visit
<1>3. PICK r : goto(p, r) /\ r = [client[p] EXCEPT !.step = "insert", !.col = c]
  BY <1>2
<1>4. /\ DOMAIN r = CallFields /\ r.op = "Update" /\ r.step = "insert" /\ r.col = c
      /\ r.new = client[p].new /\ r.rid = client[p].rid /\ r.row = client[p].row
      /\ r.old = client[p].old /\ r.todo = client[p].todo /\ r.done = client[p].done
  BY <1>1, <1>3 DEF CallFields
<1> QED
  BY <1>1, <1>2, <1>3, <1>4, RemoveOK DEF removing

\* Delete takes the row's entry out of an index.
LEMMA DeleteIndexOK ==
    ASSUME TInv, use' = use, NEW p \in Clients, DeleteIndex(p)
    PROVE  TInv'
<1>1. /\ client[p].op = "Delete" /\ client[p].step = "delete" /\ DOMAIN client[p] = CallFields
      /\ client[p].old # NoRow /\ UNCHANGED <<rows, total, diskTotal, acked, flushed>>
  BY DEF DeleteIndex, at, heapVars, ghosts, TInv, Base, Shape
<1>2. PICK c \in indexes \ client[p].done :
        /\ put(c, tree[c] \ {<<client[p].old[c], client[p].rid>>})
        /\ goto(p, [client[p] EXCEPT !.done = @ \cup {c}])
  BY DEF DeleteIndex, visit
<1>3. PICK r : goto(p, r) /\ r = [client[p] EXCEPT !.done = @ \cup {c}]
  BY <1>2
<1>4. /\ DOMAIN r = CallFields /\ r.op = "Delete" /\ r.step = "delete"
      /\ r.new = client[p].new /\ r.rid = client[p].rid /\ r.row = client[p].row
      /\ r.old = client[p].old /\ r.todo = client[p].todo /\ r.done = client[p].done \cup {c}
  BY <1>1, <1>3 DEF CallFields
<1> QED
  BY <1>1, <1>2, <1>3, <1>4, RemoveOK DEF removing

\* Update goes on to the next index although it entered nothing: the index was
\* dropped, or refused the value.
LEMMA SkipOK ==
    ASSUME TInv, use' = use, NEW p \in Clients, NEW r, goto(p, r),
           client[p].op = "Update", client[p].step = "insert",
           client[p].col \notin indexes \/ Unique # {},
           DOMAIN r = CallFields, r.op = "Update", r.step = "delete",
           r.new = client[p].new, r.rid = client[p].rid, r.row = client[p].row,
           r.old = client[p].old, r.todo = client[p].todo, r.done = client[p].done \cup {client[p].col},
           UNCHANGED <<rows, total, diskTotal, indexes, tree, dirty, disk, acked, flushed>>
    PROVE  TInv'
<1>1. HeapOK' /\ Grows /\ live' = live
  BY HeapSame DEF TInv
<1>2. \A q \in Clients : client'[q] = IF q = p THEN r ELSE client[q]
  BY Goto DEF TInv, Base
<1>3. writing(r) /\ removing(r) /\ looping(r) /\ writing(client[p]) /\ removing(client[p]) /\ looping(client[p])
  BY DEF writing, removing, looping
<1>4. "Update" \in Ops
  BY DEF TInv, Base, Shape
<1>5. Base'
  <2>1. callOK(r)'
    BY <1>1, <1>3, SameUse DEF callOK, TInv, Base, CallsOK
  <2>2. \A q \in Clients : q # p /\ writing(client[q]) => client[q].new # r.new
    BY <1>3 DEF TInv, Base, CallsOK
  <2> QED
    BY <1>1, <1>4, <2>1, <2>2, StepBase DEF TInv, Base, Shape
<1>6. UniqueOK'
  BY <1>2, SameUse DEF TInv, UniqueOK
<1>7. ValuesOK'
  BY <1>1, <1>2, ValuesKept DEF TInv
<1>8. LoopsOK'
  <2>1. fixed => indexes \subseteq r.todo /\ (r.old = NoRow => indexes = {})
    BY <1>3 DEF TInv, LoopsOK
  <2> QED
    BY <1>2, <2>1, LoopsKept DEF TInv
<1>9. FoundOK'
  BY <1>1, <1>2, <1>3, <1>4, SameUse, SMTT(30) DEF TInv, FoundOK, found, safe
<1>10. TidyOK'
  <2> SUFFICES ASSUME tidy  PROVE TidyRows' /\ TidyInserts' /\ TidyOld' /\ TidyDead'
    BY SameUse DEF TidyOK
  <2>1. TidyRows /\ TidyInserts /\ TidyOld /\ TidyDead
    BY DEF TInv, TidyOK
  <2>2. TidyRows' /\ TidyInserts' /\ TidyOld'
    BY <1>1, <1>2, <1>3, <2>1, SMTT(30) DEF TidyRows, TidyInserts, TidyOld
  <2>3. TidyDead'
    BY <1>1, <1>2, <1>3, <2>1, SMTT(30) DEF TidyDead, removes
  <2> QED
    BY <2>2, <2>3
<1> QED
  BY <1>5, <1>6, <1>7, <1>8, <1>9, <1>10 DEF TInv

\* Update puts the new row's entry into the index it has taken the old one from.
LEMMA UpdateIndexInsertOK ==
    ASSUME TInv, use' = use, NEW p \in Clients, UpdateIndexInsert(p)
    PROVE  TInv'
<1> DEFINE c == client[p].col
           e == <<client[p].row[c], client[p].new>>
<1>1. /\ client[p].op = "Update" /\ client[p].step = "insert" /\ DOMAIN client[p] = CallFields
      /\ UNCHANGED <<rows, total, diskTotal, acked, flushed>>
      /\ IF c \notin indexes \/ violates(c, tree[c], e) THEN UNCHANGED indexVars ELSE put(c, tree[c] \cup {e})
  BY DEF UpdateIndexInsert, at, heapVars, ghosts, TInv, Base, Shape
<1>2. PICK r : goto(p, r) /\ r = [client[p] EXCEPT !.step = "delete", !.col = NoCol, !.done = @ \cup {c}]
  BY DEF UpdateIndexInsert
<1>3. /\ DOMAIN r = CallFields /\ r.op = "Update" /\ r.step = "delete"
      /\ r.new = client[p].new /\ r.rid = client[p].rid /\ r.row = client[p].row
      /\ r.old = client[p].old /\ r.todo = client[p].todo /\ r.done = client[p].done \cup {c}
  BY <1>1, <1>2 DEF CallFields
<1>4. CASE c \notin indexes \/ violates(c, tree[c], e)
  BY <1>1, <1>2, <1>3, <1>4, SkipOK DEF violates, indexVars
<1>5. CASE c \in indexes /\ ~violates(c, tree[c], e)
  BY <1>1, <1>2, <1>3, <1>5, EnterOK DEF writing
<1> QED
  BY <1>4, <1>5

\* The indexing of a nil row panics; it takes an index created since the call
\* began.
LEMMA PanicOK ==
    ASSUME TInv, use' = use, NEW p \in Clients, UpdatePanic(p) \/ DeletePanic(p)
    PROVE  TInv'
<1>1. /\ client[p].op \in {"Update", "Delete"} /\ client[p].old = NoRow /\ indexes # {} /\ goto(p, Idle)
      /\ UNCHANGED <<rows, total, diskTotal, indexes, tree, dirty, disk, acked, flushed>>
  BY DEF UpdatePanic, DeletePanic, at, visit, Return, heapVars, indexVars, ghosts
<1>2. ~fixed
  BY <1>1 DEF TInv, LoopsOK
<1> QED
  BY <1>1, <1>2, ReturnOK DEF safe, tidy

\* Update returns the new RID when no index is left.
LEMMA UpdateReturnOK ==
    ASSUME TInv, use' = use, NEW p \in Clients, UpdateReturn(p)
    PROVE  TInv'
  BY AckOK DEF UpdateReturn, Return, at, writing, heapVars, indexVars

\* Delete returns when no index is left.
LEMMA DeleteReturnOK ==
    ASSUME TInv, use' = use, NEW p \in Clients, DeleteReturn(p)
    PROVE  TInv'
<1>1. /\ client[p].op = "Delete" /\ looped(p) /\ goto(p, Idle)
      /\ UNCHANGED <<rows, total, diskTotal, indexes, tree, dirty, disk, acked, flushed>>
  BY DEF DeleteReturn, at, Return, heapVars, indexVars, ghosts
<1>2. fixed /\ removing(client[p]) => indexes \subseteq client[p].done
  BY <1>1 DEF TInv, LoopsOK, looped, looping
<1>3. ~writing(client[p])
  BY <1>1 DEF writing
<1> QED
  BY <1>1, <1>2, <1>3, ReturnOK DEF tidy

----------------------------------------------------------------------------
\* The steps that open, save and close indexes

\* CreateIndex fills a tree from a scan of the heap.
LEMMA CreateIndexBuildOK ==
    ASSUME TInv, use' = use, NEW p \in Clients, CreateIndexBuild(p)
    PROVE  TInv'
<1>1. /\ "CreateIndex" \in Ops /\ client[p] = Idle
      /\ UNCHANGED <<rows, total, diskTotal, indexes, tree, dirty, acked, flushed>>
  BY DEF CreateIndexBuild, heapVars, ghosts
<1>2. PICK c \in Columns \ indexes :
        LET built == (IF disk[c] = NoFile THEN {} ELSE disk[c]) \cup scanned(c)
        IN  /\ \A e \in scanned(c) : ~violates(c, built, e)
            /\ disk' = [disk EXCEPT ![c] = IF live = {} THEN @ ELSE built]
            /\ goto(p, [Idle EXCEPT !.op = "CreateIndex", !.col = c, !.built = built])
  BY DEF CreateIndexBuild
<1>3. PICK built : built = (IF disk[c] = NoFile THEN {} ELSE disk[c]) \cup scanned(c)
  OBVIOUS
<1>4. PICK r : goto(p, r) /\ r = [Idle EXCEPT !.op = "CreateIndex", !.col = c, !.built = built]
  BY <1>2, <1>3
<1>5. DOMAIN r = CallFields /\ r.op = "CreateIndex" /\ r.col = c /\ r.built = built
  BY <1>4 DEF Idle, CallFields
<1>6. /\ DOMAIN disk' = Columns
      /\ \A d \in Columns : disk'[d] = disk[d] \/ (d = c /\ disk'[d] = built)
  BY <1>2, <1>3 DEF TInv, Base, Shape
<1>7. HeapOK' /\ Grows /\ live' = live
  BY <1>1, HeapSame DEF TInv
<1>8. \A q \in Clients : client'[q] = IF q = p THEN r ELSE client[q]
  BY <1>4, Goto DEF TInv, Base
<1>9. ~writing(r) /\ ~removing(r)
  BY <1>5 DEF writing, removing
<1>10. c \in Unique => oneRID(built)
  <2> SUFFICES ASSUME c \in Unique, NEW e \in built, NEW f \in built, e[1] = f[1]  PROVE e[2] = f[2]
    BY DEF oneRID
  <2>1. \A g \in scanned(c) : ~violates(c, built, g)
    BY <1>2, <1>3
  <2>2. CASE e \in scanned(c) \/ f \in scanned(c)
    BY <2>1, <2>2 DEF violates
  <2>3. CASE e \notin scanned(c) /\ f \notin scanned(c)
    <3>1. disk[c] # NoFile /\ e \in disk[c] /\ f \in disk[c]
      BY <1>3, <2>3
    <3> QED
      BY <3>1, SMT DEF TInv, UniqueOK, oneRID
  <2> QED
    BY <2>2, <2>3
<1>11. ~Crashes => \A e \in built : stored(c, e)
  <2> SUFFICES ASSUME ~Crashes, NEW e \in built  PROVE stored(c, e)
    OBVIOUS
  <2>1. CASE e \in scanned(c)
    BY <2>1, SMT DEF scanned, stored, live
  <2>2. CASE e \notin scanned(c)
    <3>1. disk[c] # NoFile /\ e \in disk[c]
      BY <1>3, <2>2
    <3> QED
      BY <3>1 DEF TInv, ValuesOK
  <2> QED
    BY <2>1, <2>2
<1>12. Base'
  <2>1. callOK(r)'
    BY <1>5, <1>9, SameUse DEF callOK
  <2> QED
    BY <1>1, <1>4, <1>5, <1>6, <1>7, <1>9, <2>1, StepBase DEF TInv, Base, Shape
<1>13. UniqueOK'
  <2> SUFFICES ASSUME NEW d \in Unique
               PROVE  /\ oneRID(tree'[d]) /\ (disk'[d] # NoFile => oneRID(disk'[d]))
                      /\ \A q \in Clients : client'[q].op = "CreateIndex" /\ client'[q].col = d =>
                            oneRID(client'[q].built)
    BY SameUse DEF UniqueOK
  <2>1. /\ d \in Columns /\ oneRID(tree[d]) /\ (disk[d] # NoFile => oneRID(disk[d]))
        /\ \A q \in Clients : client[q].op = "CreateIndex" /\ client[q].col = d => oneRID(client[q].built)
    BY UseFacts DEF TInv, UniqueOK, Base, Shape
  <2> QED
    BY <1>1, <1>5, <1>6, <1>8, <1>10, <2>1
<1>14. ValuesOK'
  BY <1>1, <1>5, <1>6, <1>7, <1>8, <1>11, SameUse, SMTT(30) DEF TInv, ValuesOK, stored
<1>15. LoopsOK' /\ FoundOK' /\ TidyOK'
  BY <1>1, SameUse DEF LoopsOK, FoundOK, TidyOK, fixed, safe, tidy
<1> QED
  BY <1>12, <1>13, <1>14, <1>15 DEF TInv

\* CreateIndex saves the tree and adds it to the handle's indexes.
LEMMA CreateIndexPublishOK ==
    ASSUME TInv, use' = use, NEW p \in Clients, CreateIndexPublish(p)
    PROVE  TInv'
<1> DEFINE c == client[p].col
<1>1. /\ client[p].op = "CreateIndex" /\ goto(p, Idle) /\ indexes' = indexes \cup {c}
      /\ tree' = [tree EXCEPT ![c] = client[p].built] /\ dirty' = [dirty EXCEPT ![c] = FALSE]
      /\ UNCHANGED <<rows, total, diskTotal, disk, acked, flushed>>
  BY DEF CreateIndexPublish, Return, heapVars, ghosts
<1>2. c \in Columns /\ "CreateIndex" \in Ops
  BY <1>1 DEF TInv, Base, Shape, CallsOK, callOK
<1>3. /\ DOMAIN tree' = Columns /\ DOMAIN dirty' = Columns /\ DOMAIN disk' = Columns
      /\ \A d \in Columns : tree'[d] = IF d = c THEN client[p].built ELSE tree[d]
  BY <1>1, <1>2 DEF TInv, Base, Shape
<1>4. HeapOK' /\ Grows /\ live' = live
  BY <1>1, HeapSame DEF TInv
<1>5. \A q \in Clients : client'[q] = IF q = p THEN Idle ELSE client[q]
  BY <1>1, Goto DEF TInv, Base
<1>6. Base'
  <2>1. callOK(Idle)'
    BY IdleFacts DEF callOK
  <2> QED
    BY <1>1, <1>2, <1>3, <1>4, <2>1, IdleFacts, StepBase, ZenonT(30) DEF TInv, Base, Shape
<1>7. UniqueOK'
  <2> SUFFICES ASSUME NEW d \in Unique
               PROVE  /\ oneRID(tree'[d]) /\ (disk'[d] # NoFile => oneRID(disk'[d]))
                      /\ \A q \in Clients : client'[q].op = "CreateIndex" /\ client'[q].col = d =>
                            oneRID(client'[q].built)
    BY SameUse DEF UniqueOK
  <2>1. /\ d \in Columns /\ oneRID(tree[d]) /\ (disk[d] # NoFile => oneRID(disk[d]))
        /\ \A q \in Clients : client[q].op = "CreateIndex" /\ client[q].col = d => oneRID(client[q].built)
    BY UseFacts DEF TInv, UniqueOK, Base, Shape
  <2> QED
    BY <1>1, <1>3, <1>5, <2>1, IdleFacts
<1>8. ValuesOK'
  BY <1>1, <1>3, <1>4, <1>5, IdleFacts, SameUse, SMT DEF TInv, ValuesOK, stored
<1>9. LoopsOK' /\ FoundOK' /\ TidyOK'
  BY <1>2, SameUse DEF LoopsOK, FoundOK, TidyOK, fixed, safe, tidy
<1> QED
  BY <1>6, <1>7, <1>8, <1>9 DEF TInv

\* DropIndex takes an index out of the map, whatever the other calls are doing.
LEMMA DropIndexUnlinkOK ==
    ASSUME TInv, use' = use, NEW p \in Clients, DropIndexUnlink(p)
    PROVE  TInv'
<1>1. /\ "DropIndex" \in Ops /\ client[p] = Idle
      /\ UNCHANGED <<rows, total, diskTotal, acked, flushed>>
  BY DEF DropIndexUnlink, heapVars, ghosts
<1>2. PICK c \in indexes :
        /\ indexes' = indexes \ {c}
        /\ disk' = [disk EXCEPT ![c] = saved(c)]
        /\ tree' = [tree EXCEPT ![c] = {}]
        /\ dirty' = [dirty EXCEPT ![c] = FALSE]
        /\ client' = [q \in Clients |-> IF q = p THEN [Idle EXCEPT !.op = "DropIndex", !.col = c]
                                        ELSE dropped(client[q], c)]
  BY DEF DropIndexUnlink
<1>3. c \in Columns
  BY DEF TInv, Base, Shape
<1>4. /\ DOMAIN client' = Clients
      /\ DOMAIN client'[p] = CallFields /\ client'[p].op = "DropIndex" /\ client'[p].col = c
  BY <1>2 DEF Idle, CallFields
<1>5. \A q \in Clients : q # p =>
        /\ DOMAIN client'[q] = CallFields /\ client'[q].op = client[q].op /\ client'[q].step = client[q].step
        /\ client'[q].rid = client[q].rid /\ client'[q].new = client[q].new /\ client'[q].row = client[q].row
        /\ client'[q].old = client[q].old /\ client'[q].built = client[q].built /\ client'[q].seen = client[q].seen
        /\ client'[q].todo = client[q].todo \ {c} /\ client'[q].done = client[q].done \ {c}
        /\ client'[q].col = IF client[q].op = "Update" /\ client[q].col = c THEN NoCol ELSE client[q].col
  <2> SUFFICES ASSUME NEW q \in Clients, q # p
               PROVE  /\ DOMAIN client'[q] = CallFields /\ client'[q].op = client[q].op /\ client'[q].step = client[q].step
                      /\ client'[q].rid = client[q].rid /\ client'[q].new = client[q].new
                      /\ client'[q].row = client[q].row /\ client'[q].old = client[q].old
                      /\ client'[q].built = client[q].built /\ client'[q].seen = client[q].seen
                      /\ client'[q].todo = client[q].todo \ {c} /\ client'[q].done = client[q].done \ {c}
                      /\ client'[q].col = IF client[q].op = "Update" /\ client[q].col = c THEN NoCol ELSE client[q].col
    OBVIOUS
  <2>1. client'[q] = dropped(client[q], c)
    BY <1>2
  <2>2. DOMAIN client[q] = CallFields
    BY DEF TInv, Base, Shape
  <2> QED
    BY <2>1, <2>2 DEF dropped, CallFields
<1>6. \A q \in Clients : (writing(client[q])' <=> q # p /\ writing(client[q]))
                      /\ (removing(client[q])' <=> q # p /\ removing(client[q]))
                      /\ (looping(client[q])' <=> q # p /\ looping(client[q]))
  BY <1>4, <1>5 DEF writing, removing, looping
<1>7. /\ DOMAIN tree' = Columns /\ DOMAIN dirty' = Columns /\ DOMAIN disk' = Columns
      /\ \A d \in Columns : d # c => tree'[d] = tree[d] /\ dirty'[d] = dirty[d] /\ disk'[d] = disk[d]
      /\ tree'[c] = {} /\ (disk'[c] = tree[c] \/ disk'[c] = disk[c])
  BY <1>2, <1>3 DEF TInv, Base, Shape, saved
<1>8. HeapOK' /\ Grows /\ live' = live
  BY <1>1, HeapSame DEF TInv
<1>9. Base'
  <2>1. \A q \in Clients : DOMAIN client'[q] = CallFields /\ (client'[q].op = "idle" \/ client'[q].op \in Ops)
    BY <1>1, <1>4, <1>5 DEF Shape, TInv, Base
  <2>2. Shape'
    BY <1>2, <1>4, <1>7, <2>1, SameUse DEF Shape, TInv, Base
  <2>3. callOK(client[p])'
    BY <1>3, <1>4, <1>6, SameUse DEF callOK
  <2>4. \A q \in Clients : q # p => callOK(client[q])'
    <3> SUFFICES ASSUME NEW q \in Clients, q # p  PROVE callOK(client[q])'
      OBVIOUS
    <3>1. callOK(client[q])
      BY DEF TInv, Base, CallsOK
    <3>2. /\ client'[q].op = client[q].op /\ client'[q].step = client[q].step
          /\ client'[q].rid = client[q].rid /\ client'[q].new = client[q].new
          /\ client'[q].row = client[q].row /\ client'[q].old = client[q].old
          /\ client'[q].seen = client[q].seen /\ client'[q].done \subseteq client[q].done
          /\ client[q].op # "Update" => client'[q].col = client[q].col
      BY <1>5
    <3>3. writing(client[q])' = writing(client[q]) /\ removing(client[q])' = removing(client[q])
      BY <3>2 DEF writing, removing
    <3>4. client'[q].op \in {"CreateIndex", "DropIndex"} => client'[q].col \in Columns
      BY <3>1, <3>2, SMT DEF callOK
    <3>5. client[q].done = {} => client'[q].done = {}
      BY <3>2
    <3> QED
      BY <1>1, <1>8, <3>1, <3>2, <3>3, <3>4, <3>5, SameUse DEF callOK
  <2>5. CallsOK'
    BY <1>5, <1>6, <2>3, <2>4 DEF CallsOK, TInv, Base
  <2> QED
    BY <1>8, <2>2, <2>5 DEF Base
<1>10. UniqueOK'
  <2> SUFFICES ASSUME NEW d \in Unique
               PROVE  /\ oneRID(tree'[d]) /\ (disk'[d] # NoFile => oneRID(disk'[d]))
                      /\ \A q \in Clients : client'[q].op = "CreateIndex" /\ client'[q].col = d =>
                            oneRID(client'[q].built)
    BY SameUse DEF UniqueOK
  <2>1. /\ d \in Columns /\ oneRID(tree[d]) /\ (disk[d] # NoFile => oneRID(disk[d]))
        /\ \A q \in Clients : client[q].op = "CreateIndex" /\ client[q].col = d => oneRID(client[q].built)
    BY UseFacts DEF TInv, UniqueOK, Base, Shape
  <2>2. oneRID({})
    BY DEF oneRID
  <2> QED
    BY <1>2, <1>4, <1>5, <1>7, <2>1, <2>2, SMT
<1>11. ValuesOK'
  <2> SUFFICES ASSUME ~Crashes, NEW d \in Columns
               PROVE  /\ \A e \in tree'[d] : stored(d, e)'
                      /\ disk'[d] # NoFile => \A e \in disk'[d] : stored(d, e)'
                      /\ \A q \in Clients : client'[q].op = "CreateIndex" /\ client'[q].col = d =>
                            \A e \in client'[q].built : stored(d, e)'
    BY SameUse DEF ValuesOK
  <2>1. \A e : stored(d, e) => stored(d, e)'
    BY <1>1, <1>8 DEF stored
  <2>2. /\ \A e \in tree[d] : stored(d, e)
        /\ disk[d] # NoFile => \A e \in disk[d] : stored(d, e)
        /\ \A q \in Clients : client[q].op = "CreateIndex" /\ client[q].col = d =>
              \A e \in client[q].built : stored(d, e)
    BY DEF TInv, ValuesOK
  <2>3. \A q \in Clients : client'[q].op = "CreateIndex" =>
          client[q].op = "CreateIndex" /\ client'[q].col = client[q].col /\ client'[q].built = client[q].built
    BY <1>4, <1>5
  <2>4. \A q \in Clients : client'[q].op = "CreateIndex" /\ client'[q].col = d =>
          \A e \in client'[q].built : stored(d, e)
    BY <2>2, <2>3
  <2>5. (\A e \in tree'[d] : stored(d, e)) /\ (disk'[d] # NoFile => \A e \in disk'[d] : stored(d, e))
    BY <1>7, <2>2
  <2> QED
    BY <2>1, <2>4, <2>5
<1>12. LoopsOK'
  <2> SUFFICES ASSUME fixed  PROVE LoopsOK'
    BY SameUse DEF LoopsOK
  <2>1. \A q \in Clients : looping(client[q])' => indexes' \subseteq client'[q].todo
    <3> SUFFICES ASSUME NEW q \in Clients, looping(client[q])', NEW d \in indexes'
                 PROVE  d \in client'[q].todo
      OBVIOUS
    <3>1. q # p /\ looping(client[q]) /\ d \in indexes /\ d # c
      BY <1>2, <1>6
    <3> QED
      BY <1>5, <3>1 DEF TInv, LoopsOK
  <2>2. \A q \in Clients : client'[q].op \in {"Update", "Delete"} /\ client'[q].old = NoRow => indexes' = {}
    <3>1. \A q \in Clients : client'[q].op \in {"Update", "Delete"} =>
            q # p /\ client[q].op \in {"Update", "Delete"} /\ client'[q].old = client[q].old
      BY <1>4, <1>5, SMT
    <3>2. indexes = {} => indexes' = {}
      BY <1>2
    <3> QED
      BY <3>1, <3>2 DEF TInv, LoopsOK
  <2>3. \A d \in indexes' : ~dirty'[d] => disk'[d] = tree'[d] \/ (disk'[d] = NoFile /\ tree'[d] = {})
    <3> SUFFICES ASSUME NEW d \in indexes', ~dirty'[d]
                 PROVE  disk'[d] = tree'[d] \/ (disk'[d] = NoFile /\ tree'[d] = {})
      OBVIOUS
    <3>1. d \in Columns /\ d \in indexes /\ d # c
      BY <1>2 DEF TInv, Base, Shape
    <3>2. ~dirty[d] => disk[d] = tree[d] \/ (disk[d] = NoFile /\ tree[d] = {})
      BY <3>1 DEF TInv, LoopsOK
    <3> QED
      BY <1>7, <3>1, <3>2
  <2>4. \A q \in Clients : client'[q].op = "DropIndex" => client'[q].col \notin indexes'
    <3>1. client'[p].col \notin indexes'
      BY <1>2, <1>4, SMT
    <3> SUFFICES ASSUME NEW q \in Clients, client'[q].op = "DropIndex", q # p
                 PROVE  client'[q].col \notin indexes'
      BY <3>1
    <3>2. client[q].op = "DropIndex" /\ client'[q].col = client[q].col
      BY <1>5, SMT
    <3> QED
      BY <1>2, <3>2 DEF TInv, LoopsOK
  <2>5. \A d \in Columns \ indexes' :
          disk'[d] = NoFile \/ \E q \in Clients : client'[q].op = "DropIndex" /\ client'[q].col = d
    <3> SUFFICES ASSUME NEW d \in Columns \ indexes', d # c, disk[d] # NoFile
                 PROVE  \E q \in Clients : client'[q].op = "DropIndex" /\ client'[q].col = d
      BY <1>4, <1>7
    <3>1. d \notin indexes
      BY <1>2
    <3>2. PICK q \in Clients : client[q].op = "DropIndex" /\ client[q].col = d
      BY <3>1 DEF TInv, LoopsOK
    <3>3. q # p
      BY <1>1, <3>2, IdleFacts
    <3> QED
      BY <1>5, <3>2, <3>3
  <2> QED
    BY <2>1, <2>2, <2>3, <2>4, <2>5, SameUse DEF LoopsOK, NoFile, NoRow
<1>13. FoundOK'
  <2>1. safe => ~Crashes
    BY <1>1 DEF safe
  <2> QED
    BY <1>1, <1>2, <1>4, <1>5, <1>6, <1>7, <1>8, <2>1, IdleFacts, SameUse, SMTT(30) DEF TInv, FoundOK, found, Base, Shape
<1>14. TidyOK'
  <2> SUFFICES ASSUME tidy  PROVE TidyRows' /\ TidyInserts' /\ TidyOld' /\ TidyDead'
    BY SameUse DEF TidyOK
  <2>1. TidyRows /\ TidyInserts /\ TidyOld /\ TidyDead
    BY DEF TInv, TidyOK
  <2>2. \A d \in indexes' : d \in indexes /\ d # c /\ d # NoCol /\ tree'[d] = tree[d]
    BY <1>2, <1>7, UseFacts DEF TInv, Base, Shape, NoCol
  <2>3. TidyRows'
    BY <1>1, <1>4, <1>5, <1>6, <1>8, <2>1, ZenonT(30) DEF TidyRows
  <2>4. TidyInserts'
    BY <1>4, <1>5, <2>1, <2>2, SMTT(30) DEF TidyInserts
  <2>5. TidyOld'
    BY <1>4, <1>5, <2>1, <2>2, SMTT(30) DEF TidyOld
  <2>6. TidyDead'
    BY <1>1, <1>4, <1>5, <1>6, <1>8, <2>1, <2>2, IdleFacts, SMTT(30) DEF TidyDead, removes
  <2> QED
    BY <2>3, <2>4, <2>5, <2>6
<1> QED
  BY <1>9, <1>10, <1>11, <1>12, <1>13, <1>14 DEF TInv

\* DropIndex takes the index off the handle and removes its file.
LEMMA DropIndexRemoveOK ==
    ASSUME TInv, use' = use, NEW p \in Clients, DropIndexRemove(p)
    PROVE  TInv'
<1> DEFINE c == client[p].col
<1>1. /\ client[p].op = "DropIndex" /\ goto(p, Idle) /\ disk' = [disk EXCEPT ![c] = NoFile]
      /\ UNCHANGED <<rows, total, diskTotal, indexes, tree, dirty, acked, flushed>>
  BY DEF DropIndexRemove, Return, heapVars, ghosts
<1>2. c \in Columns /\ "DropIndex" \in Ops
  BY <1>1 DEF TInv, Base, Shape, CallsOK, callOK
<1>3. DOMAIN disk' = Columns /\ \A d \in Columns : disk'[d] = IF d = c THEN NoFile ELSE disk[d]
  BY <1>1, <1>2 DEF TInv, Base, Shape
<1>4. HeapOK' /\ Grows /\ live' = live
  BY <1>1, HeapSame DEF TInv
<1>5. \A q \in Clients : client'[q] = IF q = p THEN Idle ELSE client[q]
  BY <1>1, Goto DEF TInv, Base
<1>6. ~writing(client[p]) /\ ~removing(client[p])
  BY <1>1 DEF writing, removing
<1>7. Base'
  <2>1. callOK(Idle)'
    BY IdleFacts DEF callOK
  <2> QED
    BY <1>1, <1>3, <1>4, <2>1, IdleFacts, StepBase DEF TInv, Base, Shape
<1>8. UniqueOK'
  <2> SUFFICES ASSUME NEW d \in Unique
               PROVE  /\ oneRID(tree'[d]) /\ (disk'[d] # NoFile => oneRID(disk'[d]))
                      /\ \A q \in Clients : client'[q].op = "CreateIndex" /\ client'[q].col = d =>
                            oneRID(client'[q].built)
    BY SameUse DEF UniqueOK
  <2>1. /\ d \in Columns /\ oneRID(tree[d]) /\ (disk[d] # NoFile => oneRID(disk[d]))
        /\ \A q \in Clients : client[q].op = "CreateIndex" /\ client[q].col = d => oneRID(client[q].built)
    BY UseFacts DEF TInv, UniqueOK, Base, Shape
  <2> QED
    BY <1>1, <1>3, <1>5, <2>1, IdleFacts
<1>9. ValuesOK'
  BY <1>1, <1>3, <1>4, <1>5, IdleFacts, ValuesKept DEF TInv
<1>10. LoopsOK'
  BY <1>1, <1>3, <1>5, IdleFacts, SameUse, SMTT(30) DEF TInv, LoopsOK, Base, Shape
<1>11. FoundOK'
  <2>1. safe => ~Crashes
    BY <1>2 DEF safe
  <2> QED
    BY <1>1, <1>4, <1>5, <1>6, <2>1, IdleFacts, FoundKept DEF TInv
<1>12. TidyOK'
  BY <1>1, <1>4, <1>5, IdleFacts, TidyKept DEF TInv
<1> QED
  BY <1>7, <1>8, <1>9, <1>10, <1>11, <1>12 DEF TInv

\* Flush starts with the heap file.
LEMMA FlushHeapOK ==
    ASSUME TInv, use' = use, NEW p \in Clients, FlushHeap(p)
    PROVE  TInv'
<1>1. /\ "Flush" \in Ops /\ client[p] = Idle /\ diskTotal' = total
      /\ UNCHANGED <<rows, total, indexes, tree, dirty, disk, acked, flushed>>
  BY DEF FlushHeap, indexVars, ghosts
<1>2. PICK r : goto(p, r) /\ r = [Idle EXCEPT !.op = "Flush", !.todo = indexes, !.seen = acked]
  BY DEF FlushHeap
<1>3. DOMAIN r = CallFields /\ r.op = "Flush" /\ r.todo = indexes /\ r.seen = acked /\ r.done = {}
  BY <1>2 DEF Idle, CallFields
<1>4. \A x \in acked : x[1] <= diskTotal'
  BY <1>1 DEF TInv, Base, HeapOK
<1>5. HeapOK' /\ Grows
  BY <1>1, <1>4, HeapKeptOK DEF TInv, Base, HeapOK
<1>6. live' = live
  BY <1>1 DEF live
<1>7. \A q \in Clients : client'[q] = IF q = p THEN r ELSE client[q]
  BY <1>2, Goto DEF TInv, Base
<1>8. ~writing(r) /\ ~removing(r) /\ looping(r)
  BY <1>3 DEF writing, removing, looping
<1>9. Base'
  <2>1. callOK(r)'
    BY <1>1, <1>3, <1>4, <1>8 DEF callOK
  <2> QED
    BY <1>1, <1>2, <1>3, <1>5, <1>8, <2>1, StepBase DEF TInv, Base, Shape
<1>10. UniqueOK'
  BY <1>1, <1>3, <1>7, SameUse DEF TInv, UniqueOK
<1>11. ValuesOK'
  BY <1>1, <1>3, <1>6, <1>7, ValuesKept DEF TInv
<1>12. LoopsOK'
  BY <1>1, <1>3, <1>7, IdleFacts, LoopsKept DEF TInv
<1>13. FoundOK'
  <2>1. safe /\ Crashes => \A x \in flushed' \cap live, c \in Columns :
          disk'[c] # NoFile => found(c, x, disk'[c])
    BY <1>1 DEF TInv, FoundOK
  <2>2. safe /\ Crashes => \A q \in Clients : client'[q].op = "Flush" =>
          \A x \in client'[q].seen \cap live, c \in indexes \cap client'[q].done :
              disk'[c] # NoFile => found(c, x, disk'[c])
    BY <1>1, <1>3, <1>7 DEF TInv, FoundOK
  <2> QED
    BY <1>1, <1>6, <1>7, <1>8, <2>1, <2>2, IdleFacts, FoundKept DEF TInv
<1>14. TidyOK'
  BY <1>1, <1>3, <1>6, <1>7, IdleFacts, TidyKept DEF TInv
<1> QED
  BY <1>9, <1>10, <1>11, <1>12, <1>13, <1>14 DEF TInv

\* Flush saves the next index if it is dirty.
LEMMA FlushIndexOK ==
    ASSUME TInv, use' = use, NEW p \in Clients, FlushIndex(p)
    PROVE  TInv'
<1>1. /\ client[p].op = "Flush" /\ DOMAIN client[p] = CallFields
      /\ UNCHANGED <<rows, total, diskTotal, indexes, tree, acked, flushed>>
  BY DEF FlushIndex, heapVars, ghosts, TInv, Base, Shape
<1>2. PICK c \in indexes \ client[p].done :
        /\ disk' = [disk EXCEPT ![c] = saved(c)]
        /\ dirty' = [dirty EXCEPT ![c] = FALSE]
        /\ goto(p, [client[p] EXCEPT !.done = @ \cup {c}])
  BY DEF FlushIndex, visit
<1>3. PICK r : goto(p, r) /\ r = [client[p] EXCEPT !.done = @ \cup {c}]
  BY <1>2
<1>4. /\ DOMAIN r = CallFields /\ r.op = "Flush" /\ r.todo = client[p].todo /\ r.seen = client[p].seen
      /\ r.done = client[p].done \cup {c}
  BY <1>1, <1>3 DEF CallFields
<1>5. /\ c \in Columns /\ DOMAIN disk' = Columns /\ DOMAIN dirty' = Columns
      /\ \A d \in Columns : d # c => disk'[d] = disk[d] /\ dirty'[d] = dirty[d]
      /\ disk'[c] = IF dirty[c] THEN tree[c] ELSE disk[c]
  BY <1>2 DEF TInv, Base, Shape, saved
<1>6. HeapOK' /\ Grows /\ live' = live
  BY <1>1, HeapSame DEF TInv
<1>7. \A q \in Clients : client'[q] = IF q = p THEN r ELSE client[q]
  BY <1>3, Goto DEF TInv, Base
<1>8. ~writing(r) /\ ~removing(r) /\ looping(r) /\ looping(client[p]) /\ ~writing(client[p]) /\ ~removing(client[p])
  BY <1>1, <1>4 DEF writing, removing, looping
<1>9. Base'
  <2>1. callOK(r)'
    BY <1>1, <1>4, <1>8, SameUse DEF callOK, TInv, Base, CallsOK
  <2> QED
    BY <1>1, <1>3, <1>4, <1>5, <1>6, <1>8, <2>1, StepBase DEF TInv, Base, Shape
<1>10. UniqueOK'
  <2> SUFFICES ASSUME NEW d \in Unique
               PROVE  /\ oneRID(tree'[d]) /\ (disk'[d] # NoFile => oneRID(disk'[d]))
                      /\ \A q \in Clients : client'[q].op = "CreateIndex" /\ client'[q].col = d =>
                            oneRID(client'[q].built)
    BY SameUse DEF UniqueOK
  <2>1. /\ d \in Columns /\ oneRID(tree[d]) /\ (disk[d] # NoFile => oneRID(disk[d]))
        /\ \A q \in Clients : client[q].op = "CreateIndex" /\ client[q].col = d => oneRID(client[q].built)
    BY UseFacts DEF TInv, UniqueOK, Base, Shape
  <2> QED
    BY <1>1, <1>4, <1>5, <1>7, <2>1
<1>11. ValuesOK'
  BY <1>1, <1>4, <1>5, <1>6, <1>7, ValuesKept DEF TInv
<1>12. LoopsOK'
  <2> SUFFICES ASSUME fixed  PROVE LoopsOK'
    BY SameUse DEF LoopsOK
  <2>1. \A q \in Clients : looping(client'[q]) => indexes \subseteq client'[q].todo
    BY <1>4, <1>7, <1>8 DEF TInv, LoopsOK
  <2>2. \A q \in Clients : client'[q].op \in {"Update", "Delete", "DropIndex"} => client'[q] = client[q]
    BY <1>4, <1>7
  <2>3. \A q \in Clients : client[q].op = "DropIndex" => client'[q] = client[q]
    BY <1>1, <1>7
  <2>4. \A d \in indexes : ~dirty'[d] => disk'[d] = tree[d] \/ (disk'[d] = NoFile /\ tree[d] = {})
    <3> SUFFICES ASSUME NEW d \in indexes, ~dirty'[d]
                 PROVE  disk'[d] = tree[d] \/ (disk'[d] = NoFile /\ tree[d] = {})
      OBVIOUS
    <3>1. d \in Columns /\ (~dirty[d] => disk[d] = tree[d] \/ (disk[d] = NoFile /\ tree[d] = {}))
      BY DEF TInv, LoopsOK, Base, Shape
    <3> QED
      BY <1>5, <3>1
  <2>5. \A d \in Columns \ indexes :
          disk'[d] = NoFile \/ \E q \in Clients : client'[q].op = "DropIndex" /\ client'[q].col = d
    <3> SUFFICES ASSUME NEW d \in Columns \ indexes, disk[d] # NoFile
                 PROVE  \E q \in Clients : client'[q].op = "DropIndex" /\ client'[q].col = d
      BY <1>5
    <3>1. PICK q \in Clients : client[q].op = "DropIndex" /\ client[q].col = d
      BY DEF TInv, LoopsOK
    <3> QED
      BY <2>3, <3>1
  <2>6. \A q \in Clients : client'[q].op \in {"Update", "Delete"} /\ client'[q].old = NoRow => indexes = {}
    BY <2>2 DEF TInv, LoopsOK
  <2>7. \A q \in Clients : client'[q].op = "DropIndex" => client'[q].col \notin indexes
    BY <2>2 DEF TInv, LoopsOK
  <2> QED
    BY <1>1, <2>1, <2>4, <2>5, <2>6, <2>7, SameUse DEF LoopsOK
<1>13. safe /\ disk'[c] # NoFile => \A x \in acked \cap live : found(c, x, disk'[c])
  <2>1. safe => \A x \in acked \cap live : found(c, x, tree[c])
    BY DEF TInv, FoundOK
  <2>2. safe /\ ~dirty[c] /\ disk[c] # NoFile => disk[c] = tree[c]
    BY DEF TInv, LoopsOK, safe
  <2> QED
    BY <1>5, <2>1, <2>2
<1>14. FoundOK'
  <2>1. safe /\ Crashes => \A x \in flushed' \cap live, d \in Columns :
          disk'[d] # NoFile => found(d, x, disk'[d])
    BY <1>1, <1>5, <1>13, Known DEF TInv, FoundOK
  <2>2. safe /\ Crashes => \A q \in Clients : client'[q].op = "Flush" =>
          \A x \in client'[q].seen \cap live, d \in indexes \cap client'[q].done :
              disk'[d] # NoFile => found(d, x, disk'[d])
    <3> SUFFICES ASSUME safe, Crashes, NEW q \in Clients, client'[q].op = "Flush",
                        NEW x \in client'[q].seen \cap live, NEW d \in indexes \cap client'[q].done,
                        disk'[d] # NoFile
                 PROVE  found(d, x, disk'[d])
      OBVIOUS
    <3>1. client[q].op = "Flush" /\ x \in client[q].seen /\ x \in acked
      BY <1>1, <1>4, <1>7, Known DEF TInv
    <3>2. CASE d = c
      BY <1>13, <3>1, <3>2
    <3>3. CASE d # c
      <4>1. d \in client[q].done /\ disk'[d] = disk[d]
        BY <1>4, <1>5, <1>7, <3>3 DEF TInv, Base, Shape
      <4> QED
        BY <3>1, <4>1 DEF TInv, FoundOK
    <3> QED
      BY <3>2, <3>3
  <2> QED
    BY <1>1, <1>6, <1>7, <1>8, <2>1, <2>2, FoundKept DEF TInv
<1>15. TidyOK'
  BY <1>1, <1>4, <1>6, <1>7, TidyKept DEF TInv
<1> QED
  BY <1>9, <1>10, <1>11, <1>12, <1>14, <1>15 DEF TInv

\* Flush returns when no index is left: what it covered is durable.
LEMMA FlushReturnOK ==
    ASSUME TInv, use' = use, NEW p \in Clients, FlushReturn(p)
    PROVE  TInv'
<1>1. /\ client[p].op = "Flush" /\ looped(p) /\ goto(p, Idle) /\ flushed' = flushed \cup client[p].seen
      /\ UNCHANGED <<rows, total, diskTotal, indexes, tree, dirty, disk, acked>>
  BY DEF FlushReturn, Return, heapVars, indexVars
<1>2. client[p].seen \subseteq acked /\ \A x \in client[p].seen : x[1] <= diskTotal
  BY <1>1 DEF TInv, Base, CallsOK, callOK
<1>3. HeapOK' /\ Grows
  BY <1>1, <1>2, HeapKeptOK DEF TInv, Base, HeapOK
<1>4. live' = live
  BY <1>1 DEF live
<1>5. \A q \in Clients : client'[q] = IF q = p THEN Idle ELSE client[q]
  BY <1>1, Goto DEF TInv, Base
<1>6. ~writing(client[p]) /\ ~removing(client[p]) /\ looping(client[p])
  BY <1>1 DEF writing, removing, looping
<1>7. fixed => indexes \subseteq client[p].done
  BY <1>1, <1>6 DEF TInv, LoopsOK, looped
<1>8. safe /\ Crashes => \A c \in Columns : disk[c] # NoFile => c \in indexes
  <2> SUFFICES ASSUME safe, Crashes, NEW c \in Columns, disk[c] # NoFile, c \notin indexes
               PROVE  FALSE
    OBVIOUS
  <2>1. PICK q \in Clients : client[q].op = "DropIndex"
    BY DEF TInv, LoopsOK, safe
  <2> QED
    BY <2>1 DEF TInv, Base, Shape, safe
<1>9. Base'
  <2>1. callOK(Idle)'
    BY IdleFacts DEF callOK
  <2> QED
    BY <1>1, <1>3, <2>1, IdleFacts, StepBase DEF TInv, Base, Shape
<1>10. UniqueOK'
  BY <1>1, <1>5, IdleFacts, SameUse DEF TInv, UniqueOK
<1>11. ValuesOK'
  BY <1>1, <1>4, <1>5, IdleFacts, ValuesKept DEF TInv
<1>12. LoopsOK'
  BY <1>1, <1>5, IdleFacts, LoopsKept DEF TInv
<1>13. FoundOK'
  <2>1. safe /\ Crashes => \A x \in flushed' \cap live, c \in Columns :
          disk'[c] # NoFile => found(c, x, disk'[c])
    <3> SUFFICES ASSUME safe, Crashes, NEW x \in flushed' \cap live, NEW c \in Columns, disk[c] # NoFile
                 PROVE  found(c, x, disk[c])
      BY <1>1
    <3>1. c \in indexes \cap client[p].done
      BY <1>7, <1>8 DEF safe
    <3> QED
      BY <1>1, <3>1 DEF TInv, FoundOK
  <2>2. safe /\ Crashes => \A q \in Clients : client'[q].op = "Flush" =>
          \A x \in client'[q].seen \cap live, c \in indexes \cap client'[q].done :
              disk'[c] # NoFile => found(c, x, disk'[c])
    BY <1>1, <1>5, IdleFacts DEF TInv, FoundOK
  <2> QED
    BY <1>1, <1>4, <1>5, <1>6, <2>1, <2>2, IdleFacts, FoundKept DEF TInv
<1>14. TidyOK'
  BY <1>1, <1>4, <1>5, IdleFacts, TidyKept DEF TInv
<1> QED
  BY <1>9, <1>10, <1>11, <1>12, <1>13, <1>14 DEF TInv

\* A table that has just been opened has an index for every index file.
LEMMA OpenTableFacts ==
    ASSUME NEW files, openTable(files)
    PROVE  /\ indexes' = {c \in Columns : files[c] # NoFile} /\ disk' = files
           /\ DOMAIN tree' = Columns /\ DOMAIN dirty' = Columns /\ DOMAIN client' = Clients
           /\ \A c \in Columns : /\ tree'[c] = IF files[c] = NoFile THEN {} ELSE files[c]
                                 /\ dirty'[c] = FALSE
           /\ \A p \in Clients : client'[p] = Idle
  BY DEF openTable

\* The clauses about calls hold when there is none.
LEMMA IdleCalls ==
    ASSUME \A p \in Clients : client[p] = Idle
    PROVE  /\ CallsOK /\ \A p \in Clients : client[p].op = "idle" /\ ~looping(client[p])
           /\ \A p \in Clients : ~writing(client[p]) /\ ~removing(client[p])
  BY IdleFacts DEF CallsOK, callOK

\* The process dies or closes the table, and openTable reads the files again.
LEMMA ReopenOK ==
    ASSUME TInv, use' = use, Reopen
    PROVE  TInv'
<1>1. /\ \A p \in Clients : client[p] = Idle
      /\ diskTotal' = total /\ UNCHANGED <<rows, total, acked, flushed>>
  BY DEF Reopen, ghosts
<1>2. PICK files : openTable(files) /\ files = [c \in Columns |-> IF c \in indexes THEN saved(c) ELSE disk[c]]
  BY DEF Reopen
<1>3. /\ DOMAIN files = Columns
      /\ \A c \in Columns : files[c] = disk[c] \/ (c \in indexes /\ files[c] = tree[c])
      /\ \A c \in Columns : c \in indexes /\ dirty[c] => files[c] = tree[c]
      /\ \A c \in Columns : ~(c \in indexes /\ dirty[c]) => files[c] = disk[c]
  BY <1>2 DEF saved
<1>4. /\ indexes' = {c \in Columns : files[c] # NoFile} /\ disk' = files
      /\ DOMAIN tree' = Columns /\ DOMAIN dirty' = Columns /\ DOMAIN client' = Clients
      /\ \A c \in Columns : /\ tree'[c] = IF files[c] = NoFile THEN {} ELSE files[c]
                            /\ dirty'[c] = FALSE
      /\ \A p \in Clients : client'[p] = Idle
  BY <1>2, OpenTableFacts
<1>5. CallsOK' /\ \A p \in Clients : client'[p].op = "idle" /\ ~looping(client'[p])
                                  /\ ~writing(client'[p]) /\ ~removing(client'[p])
  BY <1>4, IdleFacts DEF CallsOK, callOK
<1>6. HeapOK' /\ Grows /\ live' = live
  <2>1. \A r \in flushed : r[1] <= total
    BY DEF TInv, Base, HeapOK
  <2>2. HeapOK' /\ Grows
    BY <1>1, <2>1, HeapKeptOK DEF TInv, Base, HeapOK
  <2> QED
    BY <1>1, <2>2 DEF live
<1>7. Base'
  BY <1>3, <1>4, <1>5, <1>6, IdleFacts, SameUse DEF Base, Shape, TInv
<1>8. UniqueOK'
  <2> SUFFICES ASSUME NEW d \in Unique
               PROVE  /\ oneRID(tree'[d]) /\ (disk'[d] # NoFile => oneRID(disk'[d]))
                      /\ \A q \in Clients : client'[q].op = "CreateIndex" /\ client'[q].col = d =>
                            oneRID(client'[q].built)
    BY SameUse DEF UniqueOK
  <2>1. /\ d \in Columns /\ oneRID(tree[d]) /\ (disk[d] # NoFile => oneRID(disk[d]))
        /\ \A q \in Clients : client[q].op = "CreateIndex" /\ client[q].col = d => oneRID(client[q].built)
    BY UseFacts DEF TInv, UniqueOK, Base, Shape
  <2>2. oneRID({})
    BY DEF oneRID
  <2> QED
    BY <1>3, <1>4, <1>5, <2>1, <2>2
<1>9. ValuesOK'
  BY <1>1, <1>3, <1>4, <1>5, <1>6, SameUse, SMTT(30) DEF TInv, ValuesOK, stored
<1>10. LoopsOK'
  BY <1>4, <1>5, SameUse DEF LoopsOK
<1>11. fixed => \A c \in Columns : files[c] # NoFile => c \in indexes /\ files[c] = tree[c]
  BY <1>1, <1>3, IdleFacts DEF TInv, LoopsOK
<1>12. FoundOK'
  <2> SUFFICES ASSUME safe  PROVE FoundOK'
    BY SameUse DEF FoundOK
  <2>1. \A c \in Columns : files[c] # NoFile => c \in indexes /\ files[c] = tree[c]
    BY <1>11 DEF safe
  <2>2. \A r \in acked \cap live, c \in indexes : found(c, r, tree[c])
    BY DEF TInv, FoundOK
  <2>3. \A c \in indexes' : c \in indexes /\ tree'[c] = tree[c]
    BY <1>4, <2>1
  <2>4. \A r \in acked \cap live, c \in indexes' : found(c, r, tree'[c])
    BY <2>2, <2>3
  <2>5. ~Crashes => \A r \in live : r \in acked
    BY <1>1, IdleFacts DEF TInv, FoundOK
  <2>6. \A r \in flushed \cap live, c \in Columns : disk'[c] # NoFile => found(c, r, disk'[c])
    BY <1>4, <2>1, <2>2, Known DEF TInv
  <2> QED
    BY <1>1, <1>5, <1>6, <2>4, <2>5, <2>6, SameUse DEF FoundOK, found, NoFile
<1>13. TidyOK'
  <2> SUFFICES ASSUME tidy  PROVE TidyRows' /\ TidyInserts' /\ TidyOld' /\ TidyDead'
    BY SameUse DEF TidyOK
  <2>1. TidyDead
    BY DEF TInv, TidyOK
  <2>2. TidyRows' /\ TidyInserts' /\ TidyOld'
    BY <1>5 DEF TidyRows, TidyInserts, TidyOld
  <2>3. \A c \in indexes' : c \in indexes /\ tree'[c] = tree[c]
    BY <1>4, <1>11 DEF tidy
  <2>4. TidyDead'
    BY <1>1, <1>6, <2>1, <2>3, IdleFacts, SMT DEF TidyDead, removes
  <2> QED
    BY <2>2, <2>4
<1> QED
  BY <1>7, <1>8, <1>9, <1>10, <1>12, <1>13 DEF TInv

\* The process dies in any state; the pages and index files that were written
\* are what the table is opened with.
LEMMA CrashOK ==
    ASSUME TInv, use' = use, Crash
    PROVE  TInv'
<1> DEFINE kept == {r \in DOMAIN rows : r[1] <= diskTotal}
<1>1. /\ Crashes /\ rows' = [r \in kept |-> rows[r]] /\ total' = diskTotal /\ acked' = flushed
      /\ openTable(disk) /\ UNCHANGED <<diskTotal, flushed>>
  BY DEF Crash
<1>2. /\ indexes' = {c \in Columns : disk[c] # NoFile} /\ disk' = disk
      /\ DOMAIN tree' = Columns /\ DOMAIN dirty' = Columns /\ DOMAIN client' = Clients
      /\ \A c \in Columns : /\ tree'[c] = IF disk[c] = NoFile THEN {} ELSE disk[c]
                            /\ dirty'[c] = FALSE
      /\ \A p \in Clients : client'[p] = Idle
  BY <1>1, OpenTableFacts
<1>3. CallsOK' /\ \A p \in Clients : client'[p].op = "idle" /\ ~looping(client'[p]) /\ ~writing(client'[p])
  BY <1>2, IdleFacts DEF CallsOK, callOK
<1>4. HeapOK'
  <2>1. DOMAIN rows' = kept /\ \A r \in kept : rows'[r] = rows[r]
    BY <1>1
  <2>2. total' \in Nat \ {0} /\ diskTotal' \in 1..total'
    BY <1>1, SMT DEF TInv, Base, HeapOK
  <2>3. \A q \in Nat : \E k \in 0..SlotsPerPage :
          \A s \in 1..SlotsPerPage : <<q, s>> \in kept <=> s <= k
    <3> SUFFICES ASSUME NEW q \in Nat
                 PROVE  \E k \in 0..SlotsPerPage : \A s \in 1..SlotsPerPage : <<q, s>> \in kept <=> s <= k
      OBVIOUS
    <3>1. CASE q <= diskTotal
      <4>1. \A s : <<q, s>> \in kept <=> <<q, s>> \in DOMAIN rows
        BY <3>1
      <4> QED
        BY <4>1 DEF TInv, Base, HeapOK
    <3>2. CASE ~(q <= diskTotal)
      <4>1. \A s : <<q, s>> \notin kept
        BY <3>2
      <4>2. 0 \in 0..SlotsPerPage /\ \A s \in 1..SlotsPerPage : ~(s <= 0)
        BY UseFacts, SMT DEF TInv, Base, Shape
      <4> QED
        BY <4>1, <4>2
    <3> QED
      BY <3>1, <3>2
  <2>4. flushed \subseteq kept
    BY DEF TInv, Base, HeapOK
  <2>5. rows' = [r \in DOMAIN rows' |-> rows'[r]]
    BY <1>1
  <2>6. /\ kept \subseteq (Nat \ {0}) \X (1..SlotsPerPage)
        /\ \A r \in kept : rows[r] \in Row \cup {Dead} /\ r[1] <= total'
        /\ \A r \in flushed : r[1] <= diskTotal'
    BY <1>1 DEF TInv, Base, HeapOK
  <2> HIDE DEF kept
  <2> QED
    BY <1>1, <2>1, <2>2, <2>3, <2>4, <2>5, <2>6, SameUse DEF HeapOK, Dead
<1>5. live' \subseteq live /\ \A r \in live' : rows'[r] = rows[r]
  BY <1>1 DEF live
<1>6. Base'
  BY <1>2, <1>3, <1>4, IdleFacts, SameUse DEF Base, Shape, TInv
<1>7. UniqueOK'
  <2> SUFFICES ASSUME NEW d \in Unique
               PROVE  /\ oneRID(tree'[d]) /\ (disk'[d] # NoFile => oneRID(disk'[d]))
                      /\ \A q \in Clients : client'[q].op = "CreateIndex" /\ client'[q].col = d =>
                            oneRID(client'[q].built)
    BY SameUse DEF UniqueOK
  <2>1. /\ d \in Columns /\ oneRID(tree[d]) /\ (disk[d] # NoFile => oneRID(disk[d]))
        /\ \A q \in Clients : client[q].op = "CreateIndex" /\ client[q].col = d => oneRID(client[q].built)
    BY UseFacts DEF TInv, UniqueOK, Base, Shape
  <2>2. oneRID({})
    BY DEF oneRID
  <2> QED
    BY <1>2, <1>3, <2>1, <2>2
<1>8. ValuesOK' /\ TidyOK'
  BY <1>1, SameUse DEF ValuesOK, TidyOK, tidy
<1>9. LoopsOK'
  BY <1>2, <1>3, SameUse DEF LoopsOK
<1>10. FoundOK'
  BY <1>1, <1>2, <1>3, <1>5, SameUse DEF TInv, FoundOK, found
<1> QED
  BY <1>6, <1>7, <1>8, <1>9, <1>10 DEF TInv

----------------------------------------------------------------------------
\* The theorems

\* A table that CreateTable made, with no call running, satisfies the invariant.
LEMMA InitOK == Init => TInv
<1> SUFFICES ASSUME Init  PROVE TInv
  OBVIOUS
<1>1. /\ use \in Uses /\ rows = <<>> /\ total = 1 /\ diskTotal = 1 /\ indexes = Indexed
      /\ acked = {} /\ flushed = {}
      /\ DOMAIN tree = Columns /\ DOMAIN dirty = Columns /\ DOMAIN disk = Columns /\ DOMAIN client = Clients
      /\ \A c \in Columns : tree[c] = {} /\ disk[c] = NoFile
      /\ \A p \in Clients : client[p] = Idle
  BY DEF Init
<1>2. Indexed \subseteq Columns
  BY <1>1, TableAssumption DEF Indexed, Columns
<1>3. DOMAIN rows = {} /\ rows = [r \in DOMAIN rows |-> rows[r]] /\ live = {}
  BY <1>1, SMT DEF live
<1>4. CallsOK /\ \A p \in Clients : client[p].op = "idle" /\ ~looping(client[p]) /\ ~writing(client[p])
  BY <1>1, IdleCalls
<1>5. Base
  <2>1. Shape
    BY <1>1, <1>2, <1>4, IdleFacts DEF Shape
  <2>2. total \in Nat \ {0} /\ diskTotal \in 1..total
    BY <1>1, SMT
  <2>3. 0 \in 0..SlotsPerPage /\ \A s \in 1..SlotsPerPage : ~(s <= 0)
    BY <1>1, UseFacts, SMT
  <2>4. \A p \in Nat : \E k \in 0..SlotsPerPage :
          \A s \in 1..SlotsPerPage : <<p, s>> \in DOMAIN rows <=> s <= k
    BY <1>3, <2>3
  <2>5. HeapOK
    BY <1>1, <1>3, <2>2, <2>4 DEF HeapOK
  <2> QED
    BY <1>4, <2>1, <2>5 DEF Base
<1>6. UniqueOK /\ ValuesOK
  BY <1>1, <1>4, UseFacts DEF UniqueOK, ValuesOK, oneRID
<1>7. LoopsOK
  BY <1>1, <1>2, <1>4 DEF LoopsOK
<1>8. FoundOK /\ TidyOK
  BY <1>1, <1>2, <1>3, <1>4 DEF FoundOK, TidyOK, TidyRows, TidyInserts, TidyOld, TidyDead
<1> QED
  BY <1>5, <1>6, <1>7, <1>8 DEF TInv

\* Every step of a call, and a restart, keeps the invariant.
LEMMA NextOK == TInv /\ [Next]_vars => TInv'
<1> SUFFICES ASSUME TInv, [Next]_vars  PROVE TInv'
  OBVIOUS
<1>1. CASE UNCHANGED vars
  <2>1. /\ use' = use /\ live' = live
        /\ UNCHANGED <<rows, total, diskTotal, indexes, tree, dirty, disk, client, acked, flushed>>
    BY <1>1 DEF vars, live
  <2>2. Base'
    BY <2>1, SameUse DEF TInv, Base, Shape, HeapOK, CallsOK, callOK
  <2>3. UniqueOK' /\ ValuesOK' /\ LoopsOK'
    BY <2>1, SameUse, SMT DEF TInv, UniqueOK, ValuesOK, stored, LoopsOK
  <2>4. FoundOK'
    BY <2>1, SameUse DEF TInv, FoundOK, found
  <2>5. TidyOK'
    BY <2>1, SameUse DEF TInv, TidyOK, TidyRows, TidyInserts, TidyOld, TidyDead
  <2> QED
    BY <2>2, <2>3, <2>4, <2>5 DEF TInv
<1>2. CASE Next
  <2>1. use' = use
    BY <1>2 DEF Next
  <2>2. CASE Reopen
    BY <2>1, <2>2, ReopenOK
  <2>3. CASE Crash
    BY <2>1, <2>3, CrashOK
  <2>4. ASSUME NEW p \in Clients, Step(p)  PROVE TInv'
    <3>1. CASE InsertHeap(p)
      BY <2>1, <3>1, InsertHeapOK
    <3>2. CASE InsertIndex(p)
      BY <2>1, <3>2, InsertIndexOK
    <3>3. CASE InsertRollback(p)
      BY <2>1, <3>3, InsertRollbackOK
    <3>4. CASE InsertReturn(p)
      BY <2>1, <3>4, InsertReturnOK
    <3>5. CASE UpdateGet(p) \/ DeleteGet(p)
      BY <2>1, <3>5, GetOK DEF UpdateGet, DeleteGet
    <3>6. CASE UpdateHeap(p)
      BY <2>1, <3>6, UpdateHeapOK
    <3>7. CASE UpdateIndexDelete(p)
      BY <2>1, <3>7, UpdateIndexDeleteOK
    <3>8. CASE UpdateIndexInsert(p)
      BY <2>1, <3>8, UpdateIndexInsertOK
    <3>9. CASE UpdatePanic(p) \/ DeletePanic(p)
      BY <2>1, <3>9, PanicOK
    <3>10. CASE UpdateReturn(p)
      BY <2>1, <3>10, UpdateReturnOK
    <3>11. CASE DeleteHeap(p)
      BY <2>1, <3>11, DeleteHeapOK
    <3>12. CASE DeleteIndex(p)
      BY <2>1, <3>12, DeleteIndexOK
    <3>13. CASE DeleteReturn(p)
      BY <2>1, <3>13, DeleteReturnOK
    <3>14. CASE CreateIndexBuild(p)
      BY <2>1, <3>14, CreateIndexBuildOK
    <3>15. CASE CreateIndexPublish(p)
      BY <2>1, <3>15, CreateIndexPublishOK
    <3>16. CASE DropIndexUnlink(p)
      BY <2>1, <3>16, DropIndexUnlinkOK
    <3>17. CASE DropIndexRemove(p)
      BY <2>1, <3>17, DropIndexRemoveOK
    <3>18. CASE FlushHeap(p)
      BY <2>1, <3>18, FlushHeapOK
    <3>19. CASE FlushIndex(p)
      BY <2>1, <3>19, FlushIndexOK
    <3>20. CASE FlushReturn(p)
      BY <2>1, <3>20, FlushReturnOK
    <3> QED
      BY <2>4, <3>1, <3>2, <3>3, <3>4, <3>5, <3>6, <3>7, <3>8, <3>9, <3>10, <3>11, <3>12, <3>13,
         <3>14, <3>15, <3>16, <3>17, <3>18, <3>19, <3>20 DEF Step
  <2> QED
    BY <1>2, <2>2, <2>3, <2>4 DEF Next
<1> QED
  BY <1>1, <1>2

\* A row whose entry is in an index is found by LookupExact under its value.
LEMMA FoundLookup ==
    ASSUME NEW c, NEW r, found(c, r, tree[c])
    PROVE  r \in Lookup(c, rows[r][c])
<1> DEFINE e == <<rows[r][c], r>>
<1>1. e \in tree[c] /\ e[1] = rows[r][c] /\ e[2] = r
  BY DEF found
<1>2. e \in {f \in tree[c] : f[1] = rows[r][c]}
  BY <1>1
<1> QED
  BY <1>1, <1>2 DEF Lookup

\* The invariant of the handle: what calls know of the heap and of the indexes.
THEOREM HandleInvariant == Spec => []TInv
  BY InitOK, NextOK, PTL DEF Spec

\* "LookupExact returns all RIDs whose value for colName equals val"
\* (handle.go:236): Findable holds for any number of goroutines, columns, values
\* and pages.
THEOREM TableFindable == Spec => []Findable
<1>1. TInv => Findable
  <2> SUFFICES ASSUME TInv, ~Crashes, "CreateIndex" \notin Ops, "Update" \in Ops => Unique = {},
                      NEW c \in indexes, NEW r \in live
               PROVE  r \in Lookup(c, rows[r][c]) \/ \E p \in Clients : client[p].new = r
    BY DEF Findable
  <2>1. safe
    BY DEF safe, fixed
  <2>2. CASE r \in acked
    <3>1. found(c, r, tree[c])
      BY <2>1, <2>2 DEF TInv, FoundOK
    <3> QED
      BY <3>1, FoundLookup
  <2>3. CASE r \notin acked
    BY <2>1, <2>3 DEF TInv, FoundOK
  <2> QED
    BY <2>2, <2>3
<1> QED
  BY <1>1, HandleInvariant, PTL

\* "If unique is true, the index enforces one RID per distinct value"
\* (handle.go:150-151): while the indexes are given and no Update meets a unique
\* one, two rows that were returned differ in every column with a unique index,
\* across crashes too.
THEOREM TableUniqueRows == Spec => [](Unique = {} \/ safe => UniqueRows)
<1>1. TInv => (Unique = {} \/ safe => UniqueRows)
  <2> SUFFICES ASSUME TInv, safe, NEW c \in indexes \cap Unique, NEW q \in acked \cap live,
                      NEW r \in acked \cap live, rows[q][c] = rows[r][c]
               PROVE  q = r
    BY DEF UniqueRows
  <2>1. found(c, q, tree[c]) /\ found(c, r, tree[c])
    BY DEF TInv, FoundOK
  <2>2. oneRID(tree[c])
    BY DEF TInv, UniqueOK
  <2> QED
    BY <2>1, <2>2 DEF found, oneRID
<1> QED
  BY <1>1, HandleInvariant, PTL

\* "Flush syncs the heap and all indexes to disk, ensuring all previous writes
\* are durable" (handle.go:289-290): in the same uses, whatever crashes follow.
THEOREM TableFlushDurable == Spec => [](safe => FlushDurable)
<1>1. TInv => (safe => FlushDurable)
  <2> SUFFICES ASSUME TInv, safe, NEW r \in flushed
               PROVE  /\ r \in DOMAIN rows
                      /\ r \in live => \A c \in indexes : r \in Lookup(c, rows[r][c])
    BY DEF FlushDurable
  <2>1. r \in acked /\ r \in DOMAIN rows
    BY Known DEF TInv
  <2>2. ASSUME r \in live, NEW c \in indexes  PROVE r \in Lookup(c, rows[r][c])
    <3>1. found(c, r, tree[c])
      BY <2>1, <2>2 DEF TInv, FoundOK
    <3> QED
      BY <3>1, FoundLookup
  <2> QED
    BY <2>1, <2>2
<1> QED
  BY <1>1, HandleInvariant, PTL

\* "Open indexes are updated by removing the corresponding entry"
\* (handle.go:101-102): where a refused Insert has entered nothing, every entry is
\* of a row with its value, or of a row that a call in progress removes.  Where
\* clients use any RID, an entry of a live row has its value.
THEOREM TableEntriesTrue == Spec => [](ScanRIDs \/ tidy => EntriesTrue)
<1>1. TInv => (ScanRIDs \/ tidy => EntriesTrue)
  <2> SUFFICES ASSUME TInv, ScanRIDs \/ tidy, NEW c \in indexes, NEW e \in tree[c]
               PROVE  IF e[2] \in live THEN Crashes \/ rows[e[2]][c] = e[1]
                      ELSE ScanRIDs \/ \E p \in Clients : e[2] \in {client[p].rid, client[p].new}
    BY DEF EntriesTrue
  <2>1. CASE e[2] \in live
    BY <2>1 DEF TInv, ValuesOK, stored, Base, Shape
  <2>2. CASE e[2] \notin live
    BY <2>2 DEF TInv, TidyOK, TidyDead, removes
  <2> QED
    BY <2>1, <2>2
<1> QED
  BY <1>1, HandleInvariant, PTL
=============================================================================
