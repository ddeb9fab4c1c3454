---------------------------- MODULE AdminServer -----------------------------
(***************************************************************************)
(* The admin backend (ui_admin/backend): HTTP handlers over one database    *)
(* that requests can switch.  switchDatabase swaps s.db under a mutex the   *)
(* handlers do not take, and closes the old DB whoever still uses it.       *)
(* A directory holds one indexed table whose rows fill a page each; handlers *)
(* that change rows all do what handleInsertRow does: read s.db, OpenTable,  *)
(* call the handle.                                                         *)
(***************************************************************************)
EXTENDS Integers, FiniteSets, Sequences, Functions

CONSTANTS Clients, Names, Uses, Null

\* There is a name, and they are finitely many.
ASSUME AdminAssumption ==
    /\ Cardinality(Names) \in Nat \ {0} /\ ExistsBijection(1..Cardinality(Names), Names)
    /\ Null \notin Nat
    /\ \A u \in Uses : /\ u.requests \in Nat
                       /\ {u.overlap, u.current} \subseteq BOOLEAN

VARIABLES use,    \* bound: requests; may row requests and switches overlap; may the
                  \* database in use be renamed or dropped?
          names,  \* the directory of each database name, or 0
          dirs,   \* directories: the table's pages, the page count in its meta page
                  \* and the index file; hasTable: the catalog lists it
          objs,   \* DB objects: path, catalog in memory, cached handle, calls of Close
          hs,     \* table handles: directory of the open segment file or 0, ...
          cur,    \* s.db
          req,    \* the request each client waits for
          n,      \* requests so far; an insert's row is its number
          acked   \* <<directory, row>> of inserts that were answered with success

vars == <<use, names, dirs, objs, hs, cur, req, n, acked>>

Idle == [pc |-> "idle", name |-> Null, obj |-> 0, h |-> 0, row |-> 0, dir |-> 0]

\* A directory as OpenDB creates it, without a table; or, to begin with, one in
\* which the table was created: a heap of one empty page and no index entry.
NewDir(table) == [hasTable |-> table, pages |-> <<Null>>, meta |-> 1, idx |-> {}]

NewDB(name, table) == [name |-> name, hasTable |-> table, h |-> 0, closed |-> 0]

\* The members of S in some order.
listed(S) == CHOOSE f \in Bijection(1..Cardinality(S), S) : TRUE

\* main: the first database is open; every name starts with a table.
Init ==
    LET list == listed(Names) IN
    /\ use \in Uses
    /\ names = [m \in Names |-> CHOOSE i \in DOMAIN list : list[i] = m]
    /\ dirs = [d \in DOMAIN list |-> NewDir(TRUE)]
    /\ objs = <<NewDB(list[1], TRUE)>> /\ cur = 1
    /\ hs = <<>>
    /\ req = [c \in Clients |-> Idle]
    /\ n = 0 /\ acked = {}

----------------------------------------------------------------------------
at(c, pc) == req[c].pc = pc
answered(c) == req' = [req EXCEPT ![c] = Idle]

switching(c) == req[c].pc \in {"switch", "swap", "closeIndexes", "closeHeap"}
working(c) == req[c].pc \in {"read", "open", "insert", "index"}

begin(c, r) == n < use.requests /\ at(c, "idle") /\ n' = n + 1 /\ req' = [req EXCEPT ![c] = r]

\* POST /api/db/switch, or USE in POST /api/query.
handleSwitchDB(c) ==
    /\ use.overlap \/ \A d \in Clients : ~working(d)
    /\ \E name \in Names : begin(c, [Idle EXCEPT !.pc = "switch", !.name = name])
    /\ UNCHANGED <<use, names, dirs, objs, hs, cur, acked>>

\* POST /api/tables/{name}/rows, or INSERT in POST /api/query.
handleInsertRow(c) ==
    /\ use.overlap \/ \A d \in Clients : ~switching(d)
    /\ begin(c, [Idle EXCEPT !.pc = "read", !.row = n + 1])
    /\ UNCHANGED <<use, names, dirs, objs, hs, cur, acked>>

\* The name of a database that the statements below may remove.
removable(name) == names[name] # 0 /\ (use.current \/ objs[cur].name # name)

\* DROP DATABASE and RENAME DATABASE in POST /api/query, between switches.
dropDatabase(c) ==
    /\ n < use.requests /\ at(c, "idle") /\ \A d \in Clients : ~switching(d)
    /\ \E name \in Names : removable(name) /\ names' = [names EXCEPT ![name] = 0]
    /\ n' = n + 1
    /\ UNCHANGED <<use, dirs, objs, hs, cur, req, acked>>

renameDatabase(c) ==
    /\ n < use.requests /\ at(c, "idle") /\ \A d \in Clients : ~switching(d)
    /\ \E old, new \in Names :
          /\ removable(old) /\ names[new] = 0
          /\ names' = [names EXCEPT ![old] = 0, ![new] = names[old]]
    /\ n' = n + 1
    /\ UNCHANGED <<use, dirs, objs, hs, cur, req, acked>>

----------------------------------------------------------------------------
\* switchDatabase

\* OpenDB makes the directory if there is none.
openNew(c) ==
    LET name == req[c].name IN
    /\ at(c, "switch")
    /\ IF names[name] # 0 THEN UNCHANGED <<names, dirs>>
       ELSE /\ dirs' = Append(dirs, NewDir(FALSE))
            /\ names' = [names EXCEPT ![name] = Len(dirs) + 1]
    /\ objs' = Append(objs, NewDB(name, names[name] # 0 /\ dirs[names[name]].hasTable))
    /\ req' = [req EXCEPT ![c].pc = "swap", ![c].obj = Len(objs) + 1]
    /\ UNCHANGED <<use, hs, cur, n, acked>>

\* Mutant: nothing is closed when the database stays the same.
swap_SameName(c) ==
    /\ at(c, "swap")
    /\ cur' = req[c].obj
    /\ IF objs[cur].name = req[c].name THEN answered(c)
       ELSE req' = [req EXCEPT ![c].pc = "closeIndexes", ![c].obj = cur]
    /\ UNCHANGED <<use, names, dirs, objs, hs, n, acked>>

swap(c) ==
    /\ at(c, "swap")
    /\ cur' = req[c].obj
    /\ req' = [req EXCEPT ![c].pc = "closeIndexes", ![c].obj = cur]
    /\ UNCHANGED <<use, names, dirs, objs, hs, n, acked>>

\* DB.Close holds db.mu to its end; OpenTable waits for it.
locked(o) == \E c \in Clients : at(c, "closeHeap") /\ req[c].obj = o

\* The index is saved under its path, which may be gone.
closeIndexes(c) ==
    LET o == req[c].obj
        h == objs[o].h
        d == names[objs[o].name]
    IN  /\ at(c, "closeIndexes") /\ ~locked(o)
        /\ IF h # 0 /\ hs[h].idxDirty /\ d # 0
           THEN dirs' = [dirs EXCEPT ![d].idx = hs[h].tree] /\ hs' = [hs EXCEPT ![h].idxDirty = FALSE]
           ELSE UNCHANGED <<dirs, hs>>
        /\ req' = [req EXCEPT ![c].pc = "closeHeap"]
        /\ UNCHANGED <<use, names, objs, cur, n, acked>>

\* The segment file a handle works on: the one it has open, else the one of its path.
segment(h) == IF hs[h].file # 0 THEN hs[h].file ELSE names[objs[hs[h].obj].name]

\* Mutant: Close starts over until the index is saved.
closeHeap_Retry(c) ==
    LET o == req[c].obj
        h == objs[o].h
        d == segment(h)
    IN  /\ at(c, "closeHeap")
        /\ IF h # 0 /\ hs[h].idxDirty THEN req' = [req EXCEPT ![c].pc = "closeIndexes"] /\ UNCHANGED <<dirs, objs, hs>>
           ELSE /\ objs' = [objs EXCEPT ![o].h = 0, ![o].closed = @ + 1] /\ answered(c)
                /\ IF h = 0 THEN UNCHANGED <<dirs, hs>>
                   ELSE /\ dirs' = IF hs[h].metaDirty THEN [dirs EXCEPT ![d].meta = hs[h].total] ELSE dirs
                        /\ hs' = [hs EXCEPT ![h].file = 0, ![h].metaDirty = FALSE]
        /\ UNCHANGED <<use, names, cur, n, acked>>

closeHeap(c) ==
    LET o == req[c].obj
        h == objs[o].h
    IN  /\ at(c, "closeHeap")
        /\ IF h = 0 THEN UNCHANGED <<dirs, hs>>
           ELSE LET d == segment(h) IN
                /\ dirs' = IF hs[h].metaDirty /\ d # 0 THEN [dirs EXCEPT ![d].meta = hs[h].total] ELSE dirs
                /\ hs' = [hs EXCEPT ![h].file = 0, ![h].metaDirty = @ /\ d = 0]
        /\ objs' = [objs EXCEPT ![o].h = 0, ![o].closed = @ + 1]
        /\ answered(c)
        /\ UNCHANGED <<use, names, cur, n, acked>>

----------------------------------------------------------------------------
\* handleInsertRow after its checks

readDB(c) ==
    /\ at(c, "read")
    /\ req' = [req EXCEPT ![c].pc = "open", ![c].obj = cur]
    /\ UNCHANGED <<use, names, dirs, objs, hs, cur, n, acked>>

OpenTable(c) ==
    LET o == req[c].obj
        d == names[objs[o].name]
    IN  /\ at(c, "open") /\ ~locked(o)
        /\ \/ /\ ~objs[o].hasTable \/ (objs[o].h = 0 /\ d = 0)
              /\ answered(c) /\ UNCHANGED <<objs, hs>>
           \/ /\ objs[o].hasTable /\ objs[o].h # 0
              /\ req' = [req EXCEPT ![c].pc = "insert", ![c].h = objs[o].h]
              /\ UNCHANGED <<objs, hs>>
           \/ /\ objs[o].hasTable /\ objs[o].h = 0 /\ d # 0
              /\ hs' = Append(hs, [obj |-> o, file |-> d, total |-> dirs[d].meta, metaDirty |-> FALSE,
                                   tree |-> dirs[d].idx, idxDirty |-> FALSE])
              /\ objs' = [objs EXCEPT ![o].h = Len(hs) + 1]
              /\ req' = [req EXCEPT ![c].pc = "insert", ![c].h = Len(hs) + 1]
        /\ UNCHANGED <<use, names, dirs, cur, n, acked>>

\* HeapFile.Insert: the last page if it is empty, else a new one.
insertHeap(c) ==
    LET h == req[c].h
        d == segment(h)
        last == hs[h].total
        p == IF dirs[d].pages[last] = Null THEN last ELSE last + 1
    IN  /\ at(c, "insert")
        /\ IF d = 0 THEN answered(c) /\ UNCHANGED <<dirs, hs>>
           ELSE /\ dirs' = [dirs EXCEPT ![d].pages =
                              [q \in 1..(IF p > Len(@) THEN p ELSE Len(@)) |-> IF q = p THEN req[c].row ELSE @[q]]]
                /\ hs' = [hs EXCEPT ![h].file = d, ![h].total = p, ![h].metaDirty = @ \/ p # last]
                /\ req' = [req EXCEPT ![c].pc = "index", ![c].dir = d]
        /\ UNCHANGED <<use, names, objs, cur, n, acked>>

\* Mutant: the index is not marked as changed.
insertIndex_Clean(c) ==
    LET h == req[c].h IN
    /\ at(c, "index")
    /\ hs' = [hs EXCEPT ![h].tree = @ \cup {req[c].row}]
    /\ acked' = acked \cup {<<req[c].dir, req[c].row>>}
    /\ answered(c)
    /\ UNCHANGED <<use, names, dirs, objs, cur, n>>

\* Index.Insert, and the answer.
insertIndex(c) ==
    LET h == req[c].h IN
    /\ at(c, "index")
    /\ hs' = [hs EXCEPT ![h].tree = @ \cup {req[c].row}, ![h].idxDirty = TRUE]
    /\ acked' = acked \cup {<<req[c].dir, req[c].row>>}
    /\ answered(c)
    /\ UNCHANGED <<use, names, dirs, objs, cur, n>>

Step(c) == \/ openNew(c) \/ swap(c) \/ closeIndexes(c) \/ closeHeap(c)
           \/ readDB(c) \/ OpenTable(c) \/ insertHeap(c) \/ insertIndex(c)

Finished == n = use.requests /\ (\A c \in Clients : at(c, "idle")) /\ UNCHANGED vars

Next == \/ \E c \in Clients :
              handleSwitchDB(c) \/ handleInsertRow(c) \/ dropDatabase(c) \/ renameDatabase(c) \/ Step(c)
        \/ Finished

Spec == Init /\ [][Next]_vars

\* The goroutine of every request runs.
LiveSpec == Spec /\ \A c \in Clients : WF_vars(Step(c))

----------------------------------------------------------------------------
\* Properties

\* However many switches run at once, the database that requests are sent to was
\* never closed; databases are closed once, and none is forgotten: each one that is
\* neither closed nor current is about to be made current or to be closed by
\* exactly one switch (handlers.go:41-49).
ClosedOnce ==
    /\ objs[cur].closed = 0
    /\ \A o \in DOMAIN objs :
          LET holders == {c \in Clients : switching(c) /\ req[c].obj = o}
          IN  /\ objs[o].closed <= 1
              /\ IF o = cur \/ objs[o].closed = 1 THEN holders = {} ELSE \E c \in Clients : holders = {c}

\* The rows an answer promised, in a database that nothing has open, are found by
\* whoever opens it next: their pages are counted and their index entries saved.
AckedFound ==
    \A r \in acked :
        LET d == r[1] IN
        (d \in Range(names) /\ \A o \in DOMAIN objs : objs[o].closed = 0 => names[objs[o].name] # d)
        => /\ r[2] \in {dirs[d].pages[p] : p \in 1..dirs[d].meta}
           /\ r[2] \in dirs[d].idx

\* It is so while row requests and switches keep apart and the database in use is
\* neither renamed nor dropped (handlers.go:49, 475, 500).
Kept == ~use.overlap /\ ~use.current => AckedFound

\* A database that was switched away from is closed in the end (handlers.go:49).
Released == \A o \in UNION {1..u.requests + 1 : u \in Uses} :
    (o \in DOMAIN objs /\ cur # o) ~> (o \in DOMAIN objs /\ (cur = o \/ objs[o].closed > 0))
=============================================================================
