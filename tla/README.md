# A TLA+ model of db_internals

This directory specifies `db_internals` in TLA+, from the bytes of a page to
the SQL parser and the processes around the database, checks the
specifications with TLC on small instances and proves the central invariants
of six of them with TLAPS. `PROJECT.json` lists the runs, the source lines
behind every definition, the hazards and the findings.

## The system

| Part | Source | What it does | Modules |
|---|---|---|---|
| Slotted page | `storage/page.go` | header, slot array and tuples in 8 KiB | `Page`, `SlotStore` |
| Heap file | `storage/heap.go`, `overflow.go`, `rid.go` | pages in a file, rows, overflow chains, free list | `HeapFile` |
| Row encoding | `storage/record.go`, `schema.go`, `overflow.go` | rows to bytes and back | `Values`, `Record`, `Codec` |
| Index | `storage/index.go` | order of values, searches, file | `Index`, `IndexFile`, `Codec` |
| Table handle | `storage/handle.go` | rows and their indexes kept together | `TableHandle` |
| Catalog | `storage/db.go` | tables, `catalog.json`, heap and index files | `DB` |
| SQL front end | `lexer`, `parser` | text to statements | `Lexer`, `Parser` |
| Query engine | `query/*.go` | plan, optimise, evaluate, execute | `Evaluator`, `Planner`, `Physical`, `Engine` |
| Daemon | `daemon/*.go`, `cmd/dbserver` | one request per connection, shutdown | `Daemon` |
| Daemon control | `cmd/dbctl`, `cmd/dbserver` | start and stop through a PID file and a socket | `Lifecycle` |
| Admin backend | `ui_admin/backend` | HTTP over one switchable database | `AdminServer` |
| Tools | `cmd/storage_cli`, `cmd/seeddb`, `main.go`, `internal/cliutil` | one call per run, printing | not modelled: no state |

A page is used by one heap method at a time, under `HeapFile.mu`. A table
handle calls the heap and each index in turn, every call under that object's
own mutex and nothing held across them. `DB` hands out one cached handle per
table under `db.mu`. The daemon runs one goroutine per connection over one
`DB`, and so does the admin backend, which may replace its `DB` at any time. The
query engine works on table handles and takes no lock of its own.

Each module takes the layer below as the contract that layer's own module
checks: `HeapFile` keeps a page as its tuples and bytes used, `TableHandle` and
`Engine` keep the heap as a function from RIDs to rows, `DB` keeps a table as
its files, `Daemon` and `AdminServer` keep a database as what its heap and index
files cover.

## The modules

**Page.** `raw` is the byte array, `hdr` and `slots` the parsed view. A byte of
a tuple is a value; a byte of the header or of a slot entry is the record it
belongs to. One action per method; `Compact` is one step per loop iteration
(`CompactBegin`, `CompactSkip`, `CompactMove`, `CompactEnd`) with everything
else disabled, so that the state between two iterations can be talked about.
`Reload` is Marshal followed by Unmarshal with its structural checks.
`SlotStore` is what callers rely on: an append-only table of slots.

**HeapFile.** A mutating method is one step that computes the page writes it
issues, in order, then one `WriteAt` per write. The mutex hides the
intermediate states from other methods but not from a crash. Chains, the free
list, `metaDirty` and the order of reads and writes in `Update` and `Delete` are
those of the code; a row is an identity, an inline size and the sizes of its
TEXT columns. `table`, `durable` and `dead` record what callers were told.

**Values, Record, Index, IndexFile, Codec.** A value keeps both fields of the
Go struct. A byte has `Byte` values, so that 16-bit lengths and 32-bit integers
wrap early. `Record` is the encoding, cell by cell: null bitmap, fixed region,
directory of variable columns, strings, and the choice of the TEXT columns that
leave the record. `Index` is the B-tree as a set of entries in the order of
`compareIndexEntry`. `IndexFile` is one index with its file; `save` is a sequence
of file operations, each of which may fail, and the machine may stop between
them or later. Data that was not synced may then be torn, and a rename undone as
long as the directory, which `save` (index.go:315) does not sync, is not on disk
(`past`, `DirWritten`): the file is that of the last save or of an earlier one.
`Codec` tries the encodings on the inputs of its constants.

Only `IndexFile` stops the machine. A crash in the other modules is the death of
the process: the operating system keeps every write and rename already issued.

**TableHandle.** Goroutines whose calls are sequences of steps, one per lock
acquisition. The range over `t.indexes` follows Go's rules for maps that change
during iteration. `Reopen` is an orderly close and open, `Crash` loses index
changes that were not checkpointed and pages the meta page does not count.

**DB.** The catalog in memory and on disk, heap files as inodes (a handle keeps
the file it opened after the name was unlinked), index files as the set of heap
files they have entries of. The file operations of `DropTable` are steps of
their own; `Validate` separates listing, `Stat` and opening.

**Lexer, Parser.** `Tokenize` on characters and the recursive descent of every
statement on tokens, error paths included. `Script` holds the references they
are checked against: how a statement is written.

**Evaluator, Planner, Physical, Query.** Expressions in the kinds and widths of
the code; a plan as the sequence of its nodes; an operator as the set of streams
it may produce, because the order of groups is that of a Go map and the sort is
not stable. `Meaning` says what a WHERE clause means in SQL, independently of
the code; `Query` puts a table, its indexes and a statement beside it.

**Engine.** Clients that run scripts of SELECT, INSERT, UPDATE and DELETE on one
table. A step is what happens under one lock of the storage layer. UPDATE and
DELETE find each row again by its value, as the code does. Ghost fields of a
client record which rows it removed and stored, and what it was told.

**Daemon.** `main`, the handlers, and the goroutines that call `Shutdown`;
`wg.Add` is a step after `Accept`. A write request is an insert into an indexed
table, with the same locks as in `TableHandle`.

**Lifecycle.** Server processes and `dbctl` commands over a PID file and a
socket, each looked at, written and removed by name in a step of its own. What
a server does between `Serve` and its return is in `Daemon`.

**AdminServer.** Requests that switch, drop and rename databases beside requests
that insert rows. A database object is a handle on a directory of pages, a page
count and an index file; closing it is two steps, under the feet of whoever
still uses it.

A constant `Uses` (in `Engine`, `Setups`) lists the situations a run explores:
which operations are called, which faults happen and the bounds. Init chooses
one. A property that holds only in some of them says so in its first conjuncts.
The `MC*` modules define the constants of the runs. An operator named
`X_Suffix` is a deliberately wrong variant of `X`, used to see that a property
notices such a change; no specification uses one.

## The runs

Properties that hold:

| Run | Shows | States |
|---|---|---|
| `MCPage` | bytes and parsed view in sync, tuples apart, page readable, slot IDs stable (`Page` implements `SlotStore`) | 50 thousand |
| `Heap` | a RID yields its row or stays dead, scans are exact, every overflow page has one owner; with crashes between page writes where rows do not spill | 694 thousand |
| `Codec` | rows and index entries survive encoding, truncation is noticed, texts leave a row only if it does not fit and never in vain, values are totally ordered, searches are exact, the index file is whole and from one save, also after a stop of the machine | 136 thousand |
| `Table` | rows findable in every index, no stale or wrong entry, one row per unique value, what a Flush covered survives a crash | 544 thousand |
| `DB` | no foreign rows, no rows lost, index and heap file belong together, created tables stay; crashes and failed calls | 1.1 million |
| `Select` | SELECT gives what SQL means, with and without an index; scripts are read as written; lines split into their lexemes | 130 thousand |
| `Engine` | statements alone do exactly what they say; with another client they touch only matching rows, answers add up, indexes agree with the heap, everything is answered | 330 thousand |
| `DaemonStops` | early inserts are saved, the process ends, arrived requests are answered | 114 thousand |
| `Lifecycle` | one server at a time, `dbctl` reports the truth, nothing is left behind, every command returns | 94 thousand |
| `Admin` | databases are closed once and in the end, the current one never, and promised rows are found | 144 thousand |

Statements of the repository that the code does not keep, each with the
shortest behaviour TLC finds (`findings` in `PROJECT.json` quotes the line):

| Run | What happens |
|---|---|
| `HeapScanMisses` | a row stored in the overflow page that ends the file is never scanned |
| `DaemonExit` | the process ends under running handlers |

### What the passing runs leave out

Each line below is a situation in which the property named is violated, so that
a passing run excludes it, by its constants or by a condition in the property.
To see the behaviour, copy the run's modules and configuration, make the change
and keep that property alone (without `SYMMETRY` where it is a `PROPERTY`).
"`Uses`: X" means `Uses <- X` in the configuration (likewise `LongKeys`), "use: X" that the set of
uses in the MC module is `{X}`.

| Run | Change | Violated | What happens |
|---|---|---|---|
| `Heap` | `Uses`: `LooseTwice` | `FetchCorrect` | `Update` (heap.go:228) writes back a page it read before rewriting the row's chain in it |
| `Heap` | `Uses`: `Rejected` | `FetchCorrect` | a rejected `Update` (heap.go:236) has already freed the old row's texts |
| `Heap` | `Uses`: `InsertCrash` | `FetchCorrect` | the free list on disk still starts with pages a chain was written over; one is handed out twice (heap.go:147 speaks of a space leak only) |
| `Heap` | `Uses`: `OpenCrash` | `LastDataPage` | a crash in `initNew` (heap.go:434) leaves a heap without its data page |
| `Heap` | `Uses`: `AfterClose` | `ClosedRejects` (property) | a closed heap opens its file again (heap.go:313) |
| `Codec` | none | `SavedStays` (property) | a stop of the machine after `save` brings back an earlier index file, since the directory is not synced (index.go:315; handle.go:289 says that `Flush` makes writes durable) |
| `Codec` | none | `MovesAllTexts` | texts leave a row one by one, and only until the rest fits (overflow.go:230; overflow.go:179 says that all are moved) |
| `Codec` | `LongKeys`: `TooLong` | `KeysExact` | the length of an indexed text over 65535 bytes is cut to 16 bits (index.go:464), and what follows in the file is misread |
| `Table` | use: `[UniqueIndex EXCEPT !.ops = RowOps]`; condition of `Findable` deleted | `Findable` | `Update` ignores a unique violation (handle.go:89) |
| `Table` | use: `SchemaChange`; condition of `Findable` deleted | `Findable` | a row inserted during `CreateIndex` (handle.go:172) is not indexed |
| `Table` | `ScanRIDs \/` deleted from `EntriesTrue` | `EntriesTrue` | a row deleted before its insert has indexed it leaves an entry |
| `Table` | `Crashes \/` deleted from `EntriesTrue` | `EntriesTrue` | after a crash an entry finds another row, whose page the meta page did not count |
| `Table` | use: `[TwoIndexes EXCEPT !.unique = {a, b}, !.ops = {"Insert"}, !.maxPages = 2, !.slotsPerPage = 2]` | `EntriesTrue` | an insert that fails in the second index leaves its entry in the first (handle.go:38) |
| `Table` | none | `IndexHasFile` | an index on an empty table has no file (index.go:158) |
| `DB` | `orderly == TRUE`; use: `[CatalogUse EXCEPT !.ops = Catalog]` | `RowsKept` (property) | dropping `t` removes the file of `t.u` (db.go:156) |
| `DB` | use: `[RowsUse EXCEPT !.ops = Everything]`; `"Validate" \notin Ops` deleted from `RowsKept` | `RowsKept` (property) | `Validate` (db.go:258) initialises a heap that was dropped and created again after its `Stat` |
| `DB` | `orderly == TRUE` | `OwnRows` | an old handle inserts into the new table of its name |
| `DB` | none | `ValidateReadOnly` (property) | `Validate` creates a heap file (db.go:258; db.go:247 says it modifies nothing) |
| `DB` | none | `CatalogHasHeap` | a crash in `DropTable` (db.go:161) keeps the table and loses its rows |
| `DaemonStops` | none | `ShutdownWaits` | `Shutdown` returns before a connection just accepted is counted (server.go:37) |
| `Lifecycle` | use: `TwoOperators` or `Slow` | `OneOpen` | a second `start` comes before the first server has written its PID file (dbctl/main.go:112) |
| `Lifecycle` | use: `Killed`; `orderly == TRUE` | `ReportsTrue` | the socket of a killed server is taken for that of the new one (dbctl/main.go:151) |
| `Admin` | none | `AckedFound` | a row stored through a database that a switch is closing is answered and not found (handlers.go:49) |
| `Select` | none | `IndexScanIsFilter` | through an index strict bounds become inclusive, `<=` returns NULLs and the rest of an AND is dropped (optimizer.go:98; README.md:968, 978) |
| `Engine` | none | `NotTwice` | after another client's change an UPDATE finds by value, and replaces, a row it stored itself (physical.go:470) |
| `Engine` | `KindBigInt` for `KindInt` in `MCEngine!col` | `IndexAgrees` | an index holds the INT a literal gave and is asked to remove the BIGINT the heap gives back (handle.go:88) |

What else the models of the query layer reproduce and their runs steer around:
an index on a BIGINT, TEXT or DOUBLE column is searched with the literal's kind
and misses; comparing TEXT or DATETIME with a literal is always a type error;
MIN and MAX of VARCHAR fail; `SELECT a, a ... ORDER BY a` panics; GROUP BY
without an aggregate is ignored; SUM of INT wraps at 32 bits; an INT literal
stored in a DOUBLE keeps its bits; strings that contain the separator or the
NULL marks collide in DISTINCT and GROUP BY; an error in the middle of an UPDATE
or DELETE keeps the rows already changed; the parser ignores the column list of
an INSERT, gives AND and OR one precedence, and accepts trailing commas,
missing semicolons and unterminated strings.

### Bounds

- `Page`: 26 bytes after the header and tuples of 1, 3 and 5 bytes: three fit,
  a fourth only after a compaction, and slot array and tuples meet exactly.
- `HeapFile`: 12 bytes per page with slot entries and page IDs of one byte: two
  small rows fill a page, a text of 20 needs two overflow pages, a row of two
  texts three. Five or six mutating calls reach insert, delete, reuse from the
  free list and a second reuse.
- `Codec`: bytes of 8 values and 3 bits, so that a null bitmap takes a second
  byte at the fourth column and lengths wrap at 64; records of at most 38 cells,
  which texts reach exactly; rows that need one text out of line, two, or are too
  large without any. Schemas of every order of fixed and variable
  columns. Indexes of three entries under four keys are searched (`Searches`);
  indexes of two entries under two keys are saved, with at most two renames not
  yet on disk (`Saves`).
- `TableHandle`: two goroutines, two values, pages of one or two rows, so that
  a page not yet counted on disk occurs. Goroutines and values are symmetric:
  they are only compared for equality.
- `DB`: two goroutines, two names, two or three heap files and two or three
  handles: a name is created, dropped, created and opened again. Goroutines are
  symmetric.
- `Query`: tables of up to three rows out of four, with NULLs and negative
  numbers, two schemas, up to 17 predicates; scripts of one long or two short
  statements, whole and with one token lost, replaced or added; lines of three
  lexemes.
- `Engine`: one statement on up to three rows, two in a script, two clients with
  one each on two rows: equal rows, rows that become equal, NULLs.
- `Daemon`: three connections, so that one can be accepted, one served and one
  idle when the shutdown comes.
- `Lifecycle`: three launches by one operator, two by two operators or with a
  server killed or slow.
- `AdminServer`: two clients, two names, four or five requests: two switches at
  once, a third database opened after both.

### Deadlock and fairness

Deadlock is checked except in the `Daemon` runs, where the process ends; where
scripts or requests run out, `Finished` says so. Fairness is weak and is that of
the Go scheduler and of the operating system, which run every goroutine and
process that can run:

- `DaemonStops`: the accept loop and `main`, every handler once its request has
  arrived, every `Shutdown` goroutine. Nothing is assumed of clients; one may
  connect and never send. Because `main` does not wait for `Shutdown`, the process
  ends all the same.
- `Engine`: every client that has statements left. Written out as "infinitely
  often over, or infinitely many steps": a client that is not over can always
  take a step.
- `Lifecycle`: every server process and every `dbctl` that was called; nobody has
  to call it, and a server may be killed.
- `Admin`: the goroutine of every request.

## The proofs

All theorems are about every value of the constants that the named assumptions
of the modules allow; the checked instances are the runs above.

`PageProofs` proves, for every page size below 65535 and every set of tuples,
the type invariant, `InSync`, `NoOverlap`, `ReadsBack`, `CompactPacks` and that
`Page` implements `SlotStore` (`SlotIDsStable`). The assumptions are those of
`Page`: a page has room for more than its header and one slot entry, offsets fit
below the tombstone's, and a tombstone is not a tuple. `NoOverlap` is not
inductive: a compaction step moves a tuple towards the end of the page, and that
it lands on nothing live needs to know how tuples are ordered. The inductive
invariant `Inv` adds that live tuples lie in descending order of slot ID, the
header fields agree with the number of slots, and inside `Compact` the tuples
already visited are packed from the end of the page down to `writeCursor`, above
all those not visited yet. One lemma per action shows that it is preserved, on
top of lemmas on what writing a tuple, a slot or the header changes. The
refinement uses that a tuple reads the same before and after a step that does
not delete it (`SameTuples`).

`HeapProofs` proves `FetchCorrect` and `ScanExact` of `HeapFile` for any rows, page
size, bounds and crashes, those inside `initNew` included, where `inline` holds: no
row that `validateRow` accepts has to be spilled (it fits a page, or has no TEXT
column to spill and is rejected), and a heap that was closed is not used again.
With spilled rows both are false (see above). Neither is inductive: a crash may
come between any two writes of a call, and the bytes that are then on disk depend
on writes computed earlier. `IInv` says, of a call in progress, that each write it
has still to issue either goes to a page that no RID points to or keeps every slot
of the page it replaces, but for the one row that the call takes away; that of two
writes to one page, as in an `Update` inside the last page, the later one keeps
what the earlier one did; and that the last write holds the new row under a RID
that was never given out (`WritesOK`). It also says that the rows callers were
told of are in their slots and deleted ones are tombstones (`RowsOK`), that every
page below `TotalPages` is in the file or about to be (`PagesOK`), and that page 0
on disk covers all flushed rows and is behind the copy in memory only while
`metaDirty` is set (`MetaOK`). `OnlyRows` says, where nothing crashes, that no other
row is in the file.

`TableProofs` proves the four invariants of `TableHandle` for any goroutines,
columns, values and pages, with crashes. None is inductive: between the heap and
an index a call has done half of its work, and the other half may run after
anything the other goroutines do. `TInv` says what each call in progress has done
and has still to do. Its parts are the heap (`HeapOK`: slots are filled in order
and never reused), what a call knows of its row (`CallsOK`), one RID per value in
a unique index in memory, on disk and under construction (`UniqueOK`), entries of
rows that were stored with their value (`ValuesOK`), loops that still have every
index to visit (`LoopsOK`), acknowledged rows in every index, and flushed ones in
every index file (`FoundOK`), and entries without a row accounted for by a call
that removes them (`TidyOK`). Three results have a condition, because outside it
they are false (see above):

- `UniqueRows` (where there is a unique index) and `FlushDurable` are proved where
  `safe` holds: no `CreateIndex`, no `Update` in the presence of a unique index,
  no `DropIndex` together with crashes. Of the run's uses only `SchemaChange` is
  outside `safe`; it has no unique index and no `Flush`.
- `EntriesTrue` is proved where clients may use any RID, or where `tidy` holds:
  no `CreateIndex`, no crash, and a refused insert has entered nothing.
- `Findable` is proved as the run checks it.

`DBProofs` proves `CreatedStays`, `OwnRows`, `IndexOfHeap` and the action property
`RowsKept` for any goroutines, names, bounds and calls, with failures and crashes.
For `CreatedStays` the invariant `CInv` says that a call that changes the catalog
holds `db.mu` to its end and is never about a name that counts as created.
`OwnRows` needs the files: `FInv` says that no two names have the same file
(`OneFile`), that an open handle is open on the file of its name (`OpenFile`), that
the rows in a file are those of the table that the catalog has under that name
(`RowsOf`), and what is true inside `CreateTable` and `DropTable`, whose steps a
crash may separate (`InCall`). `XInv` adds the index files: one has entries only
while its table is in the catalog, and for a created table both it and the index
in memory have entries of the table's heap file only. `RowsKept` needs `BInv`: a
heap that is not initialised has no rows, so that opening it loses none. These are
inductive together, in the uses that `orderly` describes; outside them the
properties say nothing, and are false. The proof of `RowsKept` failed at
`Validate`, which opens a heap that may have been dropped and created again since
its `Stat`; TLC confirmed the loss, and the property now says that nobody calls it.

`DaemonProofs` proves `EarlyInsertsSaved` for any set of connections, infinite
ones included. The invariant `DInv` says that until `DB.Close` every insert works
on the one cached handle, that what was answered is in the heap and in the
index, that nothing counts as early once the listener is closed, and which share
of the early inserts each part of `Close` has covered. `DaemonWaitGroupCounts`
says that `wg` is the number of running handlers.

`LifecycleProofs` proves `OneServer`, `ReportsTrue` and `NothingLeft` for any number
of launches and commands. `LInv` says that with one operator only the process
launched last can be running, that its step determines what is in the PID file
and behind the socket (`filesOK`, with the files of a killed process that `dbctl
stop` is still removing), and what the operator may conclude from having seen
them (`knowsOK`).

`AdminProofs` proves `ClosedOnce` and `Kept` for any clients, names and requests.
`AInv` says that a database object is current, closed, or in the hands of exactly
one switch; two switches never hold the same. `KInv` says, while row requests and
switches keep apart, that at most one object has a table open, on the directory
of its name; that such a handle has marked everything it has changed and counts
every page, so that an insert overwrites none; and that a directory without one
has every promised row counted and indexed. It needs that names are finitely many
and that no row is `Null`.

`SeqFacts` has lemmas on sequences that these share.

Only model-checked:

- all liveness, which this prover does not do;
- `Codec` and `IndexFile`, `Query` and `Engine`: what encoders, parser, planner and
  operators compute is defined by recursion over their data, and would need
  induction over it;
- `PagesOwned`, and `FetchCorrect` and `ScanExact` for rows that are spilled: where
  they hold depends on the sizes of rows and on which page a chain starts in, and
  an invariant over chains of any length would need induction too.

## Not modelled

- Checksums and torn pages; I/O errors other than failed removals and catalog
  writes in `DB` and failed file operations in `IndexFile`; the split of a heap
  into segment files; the version 1 index format.
- The B-tree below the index, a library: a set of entries in order.
- The fatal error that the Go runtime may raise on concurrent accesses to the map
  `t.indexes`.
- NaN, infinities and rounding of floats; letter case in the lexer; bytes outside
  ASCII.
- The operators of CREATE, DROP, RENAME, SHOW and USE: each makes one call of a
  `DB` operation that `DB` or `AdminServer` models.
- Daemon handlers other than insert and shutdown, and row handlers of the admin
  backend other than insert: they read the database, open the table and make one
  call of the handle, in the steps the insert shows. `handleGetInfo` reads `s.db`
  three times and may mix two databases in its answer.
- Errors of `Accept` other than the closed listener (daemon/server.go:33 ends the
  server on any).
- Formatting: `PrintAST`, `Value.String` of numbers and dates, JSON conversion,
  messages; argument parsing of the command line tools; `seeddb`.
