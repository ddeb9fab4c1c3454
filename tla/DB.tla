--------------------------------- MODULE DB ---------------------------------
(***************************************************************************)
(* storage.DB (storage/db.go): the catalog of tables, in memory and in      *)
(* catalog.json, and the heap and index files of the tables.                *)
(*                                                                         *)
(* CreateTable, DropTable, OpenTable, Flush and Close hold db.mu and        *)
(* exclude each other.  The process may still die, and an I/O call fail,    *)
(* between two of their file operations, and a goroutine may go on using a  *)
(* TableHandle it got earlier.  Validate holds db.mu only while it lists    *)
(* the tables.                                                              *)
(*                                                                         *)
(* A heap is one file, all of whose rows are on its first data page; a      *)
(* table has one indexable column.  A row is named by the table it was      *)
(* inserted into, a table by the handle its CreateTable returned.           *)
(***************************************************************************)
EXTENDS Integers, FiniteSets, Sequences

CONSTANTS
    Clients,      \* goroutines
    Names,        \* table names
    Uses,         \* the names, the calls and the faults of a behaviour
    Null

ASSUME DBAssumption ==
    /\ \A u \in Uses : /\ u.dotted \subseteq Names \X Names
                       /\ u.maxFiles \in Nat /\ u.maxHandles \in Nat
                       /\ {u.keepHandles, u.failures, u.crashes} \subseteq BOOLEAN
    /\ Null \notin Clients \cup Names

VARIABLES
    use,       \* the member of Uses of this behaviour
    tables,    \* db.tables: table name -> the table and its open handle (0: nil)
    mu,        \* the client that holds db.mu, or Null
    catalog,   \* catalog.json: table name -> the table
    dir,       \* table name -> its heap file in the directory, 0 if there is none
    file,      \* the heap files: is it initialised, and the rows in it
    idx,       \* table name -> the heap files its index file has entries of
    handle,    \* the table handles
    client,    \* the call each goroutine is in, and the handle it holds (0: none)
    created    \* ghost: names whose CreateTable succeeded and were not dropped since

vars == <<use, tables, mu, catalog, dir, file, idx, handle, client, created>>
disk == <<catalog, dir, file, idx>>

Dotted == use.dotted           \* pairs <<n, m>> where m is n, a dot and more
MaxFiles == use.maxFiles       \* bound: heap files created
MaxHandles == use.maxHandles   \* bound: table handles opened
Ops == use.ops                 \* the operations the clients call
KeepHandles == use.keepHandles \* may a client use a handle that was closed?
Failures == use.failures       \* may writing the catalog or removing a file fail?
Crashes == use.crashes         \* may the process die?

Idle == [op |-> "idle", step |-> "", name |-> Null, h |-> 0]
EmptyFile == [init |-> FALSE, rows |-> {}]
EmptyHeap == [init |-> TRUE, rows |-> {}]
Nothing == [n \in {} |-> 0]

Init == /\ use \in Uses
        /\ tables = Nothing /\ catalog = Nothing /\ mu = Null
        /\ dir = [n \in Names |-> 0] /\ file = << >>
        /\ idx = [n \in Names |-> {}]
        /\ handle = << >>
        /\ client = [p \in Clients |-> Idle]
        /\ created = {}

idle(p, op) == client[p].op = "idle" /\ op \in Ops
in(p, op, step) == client[p].op = op /\ client[p].step = step
set(p, c) == client' = [client EXCEPT ![p] = c]
lock(p, op, step, n) == /\ mu = Null /\ mu' = p
                        /\ set(p, [Idle EXCEPT !.op = op, !.step = step, !.name = n])
unlock(p, c) == mu' = Null /\ set(p, c)
with(n, e) == [m \in DOMAIN tables \cup {n} |-> IF m = n THEN e ELSE tables[m]]
without(n) == [m \in DOMAIN tables \ {n} |-> tables[m]]
saved == [n \in DOMAIN tables |-> tables[n].table]

----------------------------------------------------------------------------
\* Heap files

\* openSegment creates the file when the name is not in the directory.
opened(n) == IF dir[n] # 0 THEN dir[n] ELSE Len(file) + 1
openSegment(n) == IF dir[n] # 0 THEN file ELSE Append(file, EmptyFile)

\* A name is in the directory after openSegment; f are the files then.
openAs(n, f) == /\ Len(f) <= MaxFiles
                /\ dir' = [dir EXCEPT ![n] = opened(n)]
                /\ file' = f

\* initNew writes the meta page and an empty first data page.
initNew(n) == [openSegment(n) EXCEPT ![opened(n)] = EmptyHeap]
\* Mutant: a heap that is there is initialised again.
isNew_Always(n) == TRUE

isNew(n) == dir[n] = 0 \/ ~file[dir[n]].init

\* OpenHeapFile initialises a heap that is missing or empty and takes another
\* one as it is.  The new handle has the index ix.
OpenHeapFile(n, table, ix) ==
    /\ Len(handle) < MaxHandles
    /\ openAs(n, IF isNew(n) THEN initNew(n) ELSE file)
    /\ handle' = Append(handle, [name |-> n, table |-> table, fd |-> opened(n),
                                 indexed |-> ix # {}, ix |-> ix, dirty |-> FALSE])

\* closeHeap saves the index, if it changed, and closes the heap file; the
\* handle's other state stays.  hs are the handles to close.
closeHeap(hs) ==
    handle' = [h \in DOMAIN handle |->
                 IF h \in hs THEN [handle[h] EXCEPT !.fd = 0, !.dirty = FALSE] ELSE handle[h]]

\* The index files after the changed indexes of the handles hs are saved.
checkpointed(hs) ==
    [n \in Names |->
       IF \E h \in hs : handle[h].name = n /\ handle[h].dirty
       THEN UNION {handle[h].ix : h \in {h \in hs : handle[h].name = n}}
       ELSE idx[n]]

open == {tables[n].h : n \in DOMAIN tables} \ {0}

----------------------------------------------------------------------------
\* The catalog

CreateTable(p, n) ==
    /\ idle(p, "Create") /\ n \notin DOMAIN tables
    /\ lock(p, "Create", "persist", n)
    /\ OpenHeapFile(n, Len(handle) + 1, {})
    /\ tables' = with(n, [table |-> Len(handle'), h |-> Len(handle')])
    /\ UNCHANGED <<catalog, idx, created>>

\* Mutant: the catalog is not saved.
CreatePersist_NoSave(p) ==
    /\ in(p, "Create", "persist")
    /\ created' = created \cup {client[p].name}
    /\ unlock(p, [Idle EXCEPT !.h = tables[client[p].name].h])
    /\ UNCHANGED <<tables, disk, handle>>

\* persistCatalog writes a temporary file and renames it: a crash leaves the
\* old catalog or the new one.
CreatePersist(p) ==
    /\ in(p, "Create", "persist")
    /\ catalog' = saved
    /\ created' = created \cup {client[p].name}
    /\ unlock(p, [Idle EXCEPT !.h = tables[client[p].name].h])
    /\ UNCHANGED <<tables, dir, file, idx, handle>>

\* The heap is closed and the table forgotten; the heap file stays.
CreateFail(p) ==
    /\ Failures /\ in(p, "Create", "persist")
    /\ closeHeap({tables[client[p].name].h})
    /\ tables' = without(client[p].name)
    /\ unlock(p, Idle)
    /\ UNCHANGED <<disk, created>>

\* DropTable closes the table, removes the files its patterns <name>.*.heap
\* and <name>.*.idx match, forgets the table and saves the catalog.
DropTable(p, n) ==
    /\ idle(p, "Drop") /\ n \in DOMAIN tables
    /\ lock(p, "Drop", "heap", n)
    /\ closeHeap({tables[n].h})
    /\ idx' = checkpointed({tables[n].h} \ {0})
    /\ tables' = [tables EXCEPT ![n].h = 0]
    /\ created' = created \ {n}
    /\ UNCHANGED <<catalog, dir, file>>

matches(n) == {n} \cup {m \in Names : <<n, m>> \in Dotted}

\* Mutant: the heap files are not removed.
DropHeap_KeepFiles(p) ==
    /\ in(p, "Drop", "heap")
    /\ set(p, [client[p] EXCEPT !.step = "idx"])
    /\ UNCHANGED <<tables, mu, disk, handle, created>>

DropHeap(p) ==
    /\ in(p, "Drop", "heap")
    /\ LET found == {m \in matches(client[p].name) : dir[m] # 0}
       IN  \/ /\ found = {}
              /\ set(p, [client[p] EXCEPT !.step = "idx"]) /\ UNCHANGED dir
           \/ \E m \in found : dir' = [dir EXCEPT ![m] = 0] /\ UNCHANGED client
    /\ UNCHANGED <<tables, mu, catalog, file, idx, handle, created>>

\* Mutant: the index files are not removed.
DropIdx_KeepFiles(p) ==
    /\ in(p, "Drop", "idx")
    /\ set(p, [client[p] EXCEPT !.step = "persist"])
    /\ tables' = without(client[p].name)
    /\ UNCHANGED <<mu, disk, handle, created>>

DropIdx(p) ==
    /\ in(p, "Drop", "idx")
    /\ LET found == {m \in matches(client[p].name) : idx[m] # {}}
       IN  \/ /\ found = {}
              /\ set(p, [client[p] EXCEPT !.step = "persist"])
              /\ tables' = without(client[p].name) /\ UNCHANGED idx
           \/ /\ \E m \in found : idx' = [idx EXCEPT ![m] = {}]
              /\ UNCHANGED <<client, tables>>
    /\ UNCHANGED <<mu, catalog, dir, file, handle, created>>

DropPersist(p) ==
    /\ in(p, "Drop", "persist")
    /\ catalog' = saved
    /\ unlock(p, Idle)
    /\ UNCHANGED <<tables, dir, file, idx, handle, created>>

\* A file cannot be removed or the catalog not be written: the error is
\* returned and what was done stays done.
DropFail(p) ==
    /\ Failures /\ client[p].op = "Drop"
    /\ unlock(p, Idle)
    /\ UNCHANGED <<tables, disk, handle, created>>

\* OpenTable returns the open handle, or opens the heap and the index file.
OpenTable(p, n) ==
    /\ idle(p, "Open") /\ mu = Null /\ n \in DOMAIN tables
    /\ \/ tables[n].h # 0 /\ UNCHANGED <<tables, dir, file, handle>>
       \/ /\ tables[n].h = 0
          /\ OpenHeapFile(n, tables[n].table, idx[n])
          /\ tables' = [tables EXCEPT ![n].h = Len(handle')]
    /\ set(p, [Idle EXCEPT !.h = tables'[n].h])
    /\ UNCHANGED <<mu, catalog, idx, created>>

Close(p) ==
    /\ idle(p, "Close") /\ mu = Null
    /\ closeHeap(open) /\ idx' = checkpointed(open)
    /\ tables' = [n \in DOMAIN tables |-> [tables[n] EXCEPT !.h = 0]]
    /\ UNCHANGED <<mu, catalog, dir, file, client, created>>

Flush(p) ==
    /\ idle(p, "Flush") /\ mu = Null
    /\ idx' = checkpointed(open)
    /\ handle' = [h \in DOMAIN handle |->
                    IF h \in open THEN [handle[h] EXCEPT !.dirty = FALSE] ELSE handle[h]]
    /\ UNCHANGED <<tables, mu, catalog, dir, file, client, created>>

----------------------------------------------------------------------------
\* Methods of the handle a client holds.  A handle whose file is closed opens,
\* or creates, the file that has its table's name now.

usable(p) == client[p].h # 0 /\ (KeepHandles \/ client[p].h \in open)

segment(h) == IF handle[h].fd # 0
              THEN UNCHANGED <<dir, file>> /\ handle' = handle
              ELSE /\ openAs(handle[h].name, openSegment(handle[h].name))
                   /\ handle' = [handle EXCEPT ![h].fd = opened(handle[h].name)]

\* Is the file the handle reads initialised?  Reading a page of an empty file
\* is an error.
readable(h) == IF handle[h].fd # 0 THEN file[handle[h].fd].init ELSE ~isNew(handle[h].name)

Insert(p) ==
    /\ idle(p, "Insert") /\ usable(p)
    /\ LET h == client[p].h
           fd == IF handle[h].fd # 0 THEN handle[h].fd ELSE dir[handle[h].name]
       IN  \/ ~readable(h) /\ segment(h)
           \/ /\ readable(h)
              /\ file' = [file EXCEPT ![fd].rows = @ \cup {handle[h].table}]
              /\ handle' = [handle EXCEPT ![h].fd = fd,
                                          ![h].dirty = @ \/ handle[h].indexed,
                                          ![h].ix = IF handle[h].indexed THEN @ \cup {fd} ELSE @]
              /\ UNCHANGED dir
    /\ UNCHANGED <<tables, mu, catalog, idx, client, created>>

\* CreateIndex loads an index file that is already there, adds the heap's rows
\* and saves the index if there were any.
CreateIndex(p) ==
    /\ idle(p, "CreateIndex") /\ usable(p) /\ ~handle[client[p].h].indexed
    /\ LET h == client[p].h
           n == handle[h].name
           fd == IF handle[h].fd # 0 THEN handle[h].fd ELSE dir[n]
           ix == idx[n] \cup (IF file[fd].rows = {} THEN {} ELSE {fd})
       IN  \/ ~readable(h) /\ segment(h) /\ UNCHANGED idx
           \/ /\ readable(h)
              /\ handle' = [handle EXCEPT ![h].fd = fd, ![h].indexed = TRUE, ![h].ix = ix]
              /\ idx' = [idx EXCEPT ![n] = ix]
              /\ UNCHANGED <<dir, file>>
    /\ UNCHANGED <<tables, mu, catalog, client, created>>

----------------------------------------------------------------------------
\* Validate opens a heap of its own for a table it listed: OpenHeapFile first
\* asks whether the file is there, then initialises it or reads its meta page.

ValidateList(p, n) ==
    /\ idle(p, "Validate") /\ mu = Null /\ n \in DOMAIN tables
    /\ set(p, [Idle EXCEPT !.op = "Validate", !.step = "stat", !.name = n])
    /\ UNCHANGED <<tables, mu, disk, handle, created>>

ValidateStat(p) ==
    /\ in(p, "Validate", "stat")
    /\ set(p, [client[p] EXCEPT !.step = IF isNew(client[p].name) THEN "init" ELSE "read"])
    /\ UNCHANGED <<tables, mu, disk, handle, created>>

ValidateOpen(p) ==
    /\ client[p].op = "Validate" /\ client[p].step \in {"init", "read"}
    /\ openAs(client[p].name, IF client[p].step = "init" THEN initNew(client[p].name)
                                                         ELSE openSegment(client[p].name))
    /\ set(p, Idle)
    /\ UNCHANGED <<tables, mu, catalog, idx, handle, created>>

----------------------------------------------------------------------------
\* The process dies; OpenDB loads the catalog.
Crash ==
    /\ Crashes
    /\ tables' = [n \in DOMAIN catalog |-> [table |-> catalog[n], h |-> 0]]
    /\ mu' = Null
    /\ client' = [p \in Clients |-> Idle]
    /\ handle' = [h \in DOMAIN handle |-> [handle[h] EXCEPT !.fd = 0, !.indexed = FALSE,
                                                            !.ix = {}, !.dirty = FALSE]]
    /\ UNCHANGED <<disk, created>>

Step == \/ \E p \in Clients :
              \/ \E n \in Names : \/ CreateTable(p, n) \/ DropTable(p, n)
                                  \/ OpenTable(p, n) \/ ValidateList(p, n)
              \/ CreatePersist(p) \/ CreateFail(p)
              \/ DropHeap(p) \/ DropIdx(p) \/ DropPersist(p) \/ DropFail(p)
              \/ Close(p) \/ Flush(p) \/ Insert(p) \/ CreateIndex(p)
              \/ ValidateStat(p) \/ ValidateOpen(p)
        \/ Crash

Next == Step /\ UNCHANGED use

Spec == Init /\ [][Next]_vars

----------------------------------------------------------------------------
\* Properties

\* Every client uses the handle it opened last, and no table name is the prefix
\* of another.
orderly == ~KeepHandles /\ Dotted = {}

rows(n) == IF dir[n] = 0 THEN {} ELSE file[dir[n]].rows

\* The types of the variables; a goroutine that changes the catalog holds db.mu.
TypeOK ==
    /\ DOMAIN tables \subseteq Names /\ DOMAIN catalog \subseteq Names
    /\ open \subseteq DOMAIN handle /\ mu \in Clients \cup {Null}
    /\ dir \in [Names -> 0..Len(file)] /\ Len(file) <= MaxFiles
    /\ \A h \in DOMAIN handle : handle[h].fd \in 0..Len(file)
    /\ \A p \in Clients : client[p].op \in {"Create", "Drop"} => mu = p

\* A table whose CreateTable succeeded is in the catalog, in memory and on
\* disk, until DropTable is called on it: neither a crash nor a call that
\* failed halfway takes it out (db.go:114-136, 401-424).
CreatedStays == created \subseteq DOMAIN tables \cap DOMAIN catalog

\* A table holds only rows that were inserted into it: no file a crash, a
\* failed call or a handle of an earlier table of the same name left behind
\* brings in others (db.go:114-136, 140-184).
OwnRows == orderly => \A n \in DOMAIN tables : rows(n) \subseteq {tables[n].table}

\* DropTable "removes all its segment files from disk" (db.go:138-139), its own:
\* rows leave the file of a table only while that table is being dropped.  This
\* is so where nobody calls Validate, which may initialise a heap that was
\* dropped and created again since its Stat (db.go:258, heap.go:62-66).
RowsKept ==
    [][orderly /\ "Validate" \notin Ops =>
          \A n \in Names :
             \/ rows(n) \subseteq rows(n)'
             \/ \E p \in Clients : in(p, "Drop", "heap") /\ client[p].name = n]_vars

\* An index file has entries only of the rows of the heap file beside it, so
\* that OpenTable attaches the one to the other (db.go:207-229): for every
\* table that was created, and whose drop has not begun, whatever was left by
\* earlier tables of its name, by crashes and by calls that failed.
IndexOfHeap == orderly => \A n \in created : idx[n] \subseteq {dir[n]}

\* After a crash in a call that saves the catalog, "catalog.json remains
\* authoritative - no data loss" and the state is correct "either way"
\* (README.md:794-795): a table in the catalog has its heap file.
CatalogHasHeap == mu = Null => \A n \in DOMAIN catalog : dir[n] # 0

\* "Validate does not modify any data. It is safe to call on a live database"
\* (db.go:247).
ValidateReadOnly ==
    [][\A p \in Clients : client[p].op = "Validate" /\ client'[p] # client[p]
          => UNCHANGED disk]_vars
=============================================================================
