------------------------------ MODULE DBProofs ------------------------------
(***************************************************************************)
(* CreatedStays, OwnRows, IndexOfHeap and RowsKept of DB for any goroutines, *)
(* names and bounds, with failing calls and crashes.                        *)
(***************************************************************************)
EXTENDS DB, SeqFacts, TLAPS

\* Most steps are first-order: Zenon proves them unless they name another prover.
USE Zenon

CallFields == {"op", "step", "name", "h"}

\* The calls, each under db.mu from its first step to its last.
Calls ==
    /\ DOMAIN client = Clients
    /\ \A p \in Clients : DOMAIN client[p] = CallFields
    /\ \A p \in Clients : client[p].op \in {"Create", "Drop"} => mu = p

\* A name is created once CreateTable has saved the catalog, and no more once
\* DropTable has begun: what both then change in the catalog is another name.
Listed ==
    /\ created \subseteq DOMAIN tables \cap DOMAIN catalog
    /\ \A p \in Clients : client[p].op \in {"Create", "Drop"} => client[p].name \notin created
    /\ \A p \in Clients : client[p].op = "Create" => client[p].name \in DOMAIN tables

CInv == Calls /\ Listed

\* A goroutine between two calls.
LEMMA IdleFacts == Idle.op = "idle" /\ Idle.h = 0 /\ DOMAIN Idle = CallFields
  BY DEF Idle, CallFields

\* Init has no call and no table.
LEMMA InitCInv == Init => CInv
  BY IdleFacts DEF Init, CInv, Calls, Listed

\* A step that changes neither who holds db.mu nor which names there are.
LEMMA QuietCInv ==
    ASSUME CInv, UNCHANGED <<mu, catalog, created>>, DOMAIN tables' = DOMAIN tables,
           DOMAIN client' = Clients,
           \A p \in Clients : \/ client'[p] = client[p]
                              \/ /\ DOMAIN client'[p] = CallFields
                                 /\ client'[p].op \notin {"Create", "Drop"}
                              \/ /\ DOMAIN client'[p] = CallFields
                                 /\ client'[p].op = client[p].op /\ client'[p].name = client[p].name
    PROVE  CInv'
  BY DEF CInv, Calls, Listed

\* The steps of CreateTable: db.mu is taken with the first and released with the last.
LEMMA CreateCInv ==
    ASSUME CInv, NEW p \in Clients
    PROVE  /\ \A n \in Names : CreateTable(p, n) => CInv'
           /\ CreatePersist(p) => CInv'
           /\ CreateFail(p) => CInv'
<1>1. ASSUME NEW n \in Names, CreateTable(p, n) PROVE CInv'
  <2>1. /\ mu = Null /\ mu' = p /\ UNCHANGED <<catalog, created>>
        /\ n \notin DOMAIN tables /\ DOMAIN tables' = DOMAIN tables \cup {n}
        /\ client' = [client EXCEPT ![p] = [Idle EXCEPT !.op = "Create", !.step = "persist", !.name = n]]
    BY <1>1 DEF CreateTable, lock, set, with
  <2>2. /\ DOMAIN client' = Clients
        /\ \A q \in Clients \ {p} : client'[q] = client[q]
        /\ DOMAIN client'[p] = CallFields /\ client'[p].op = "Create" /\ client'[p].name = n
    BY <2>1 DEF CInv, Calls, Idle, CallFields
  <2>3. \A q \in Clients : client[q].op \notin {"Create", "Drop"}
    BY <2>1, DBAssumption DEF CInv, Calls
  <2> QED  BY <2>1, <2>2, <2>3, SMTT(30) DEF CInv, Calls, Listed
<1>2. ASSUME CreatePersist(p) PROVE CInv'
  <2>1. /\ mu = p /\ mu' = Null /\ UNCHANGED tables /\ DOMAIN catalog' = DOMAIN tables
        /\ client[p].op = "Create" /\ created' = created \cup {client[p].name}
        /\ client' = [client EXCEPT ![p] = [Idle EXCEPT !.h = tables[client[p].name].h]]
    BY <1>2 DEF CreatePersist, in, unlock, set, saved, CInv, Calls
  <2>2. /\ DOMAIN client' = Clients
        /\ \A q \in Clients \ {p} : client'[q] = client[q]
        /\ DOMAIN client'[p] = CallFields /\ client'[p].op = "idle"
    BY <2>1 DEF CInv, Calls, Idle, CallFields
  <2>3. \A q \in Clients \ {p} : client[q].op \notin {"Create", "Drop"}
    BY <2>1 DEF CInv, Calls
  <2> QED  BY <2>1, <2>2, <2>3 DEF CInv, Calls, Listed
<1>3. ASSUME CreateFail(p) PROVE CInv'
  <2>1. /\ mu = p /\ mu' = Null /\ UNCHANGED <<catalog, created>>
        /\ DOMAIN tables' = DOMAIN tables \ {client[p].name}
        /\ client[p].op = "Create" /\ client' = [client EXCEPT ![p] = Idle]
    BY <1>3 DEF CreateFail, in, unlock, set, without, disk, CInv, Calls
  <2>2. /\ DOMAIN client' = Clients
        /\ \A q \in Clients \ {p} : client'[q] = client[q]
        /\ client'[p] = Idle
    BY <2>1 DEF CInv, Calls
  <2>3. \A q \in Clients \ {p} : client[q].op \notin {"Create", "Drop"}
    BY <2>1 DEF CInv, Calls
  <2> QED  BY <2>1, <2>2, <2>3, IdleFacts DEF CInv, Calls, Listed
<1> QED  BY <1>1, <1>2, <1>3

\* The steps of DropTable: the name stops counting as created with the first.
LEMMA DropCInv ==
    ASSUME CInv, NEW p \in Clients
    PROVE  /\ \A n \in Names : DropTable(p, n) => CInv'
           /\ DropHeap(p) => CInv'
           /\ DropIdx(p) => CInv'
           /\ DropPersist(p) => CInv'
           /\ DropFail(p) => CInv'
<1>1. ASSUME NEW n \in Names, DropTable(p, n) PROVE CInv'
  <2>1. /\ mu = Null /\ mu' = p /\ UNCHANGED catalog /\ created' = created \ {n}
        /\ DOMAIN tables' = DOMAIN tables
        /\ client' = [client EXCEPT ![p] = [Idle EXCEPT !.op = "Drop", !.step = "heap", !.name = n]]
    BY <1>1 DEF DropTable, lock, set
  <2>2. /\ DOMAIN client' = Clients
        /\ \A q \in Clients \ {p} : client'[q] = client[q]
        /\ DOMAIN client'[p] = CallFields /\ client'[p].op = "Drop" /\ client'[p].name = n
    BY <2>1 DEF CInv, Calls, Idle, CallFields
  <2>3. \A q \in Clients : client[q].op \notin {"Create", "Drop"}
    BY <2>1, DBAssumption DEF CInv, Calls
  <2> QED  BY <2>1, <2>2, <2>3, SMTT(30) DEF CInv, Calls, Listed
<1>2. ASSUME DropHeap(p) PROVE CInv'
  <2>1. /\ UNCHANGED <<tables, mu, catalog, created>>
        /\ client' = client \/ client' = [client EXCEPT ![p] = [client[p] EXCEPT !.step = "idx"]]
    BY <1>2 DEF DropHeap, set
  <2>2. DOMAIN client' = Clients /\ \A q \in Clients :
           client'[q] = client[q] \/ client'[q] = [client[q] EXCEPT !.step = "idx"]
    BY <2>1 DEF CInv, Calls
  <2>3. \A q \in Clients :
           /\ DOMAIN client'[q] = CallFields
           /\ client'[q].op = client[q].op /\ client'[q].name = client[q].name
    BY <2>2 DEF CInv, Calls, CallFields
  <2> QED  BY <2>1, <2>2, <2>3, QuietCInv
<1>3. ASSUME DropIdx(p) PROVE CInv'
  <2>1. /\ UNCHANGED <<mu, catalog, created>> /\ mu = p /\ client[p].op = "Drop"
        /\ DOMAIN tables' = DOMAIN tables \/ DOMAIN tables' = DOMAIN tables \ {client[p].name}
        /\ client' = client \/ client' = [client EXCEPT ![p] = [client[p] EXCEPT !.step = "persist"]]
    BY <1>3 DEF DropIdx, set, in, without, CInv, Calls
  <2>2. DOMAIN client' = Clients /\ \A q \in Clients :
           client'[q] = client[q] \/ client'[q] = [client[q] EXCEPT !.step = "persist"]
    BY <2>1 DEF CInv, Calls
  <2>3. \A q \in Clients :
           /\ DOMAIN client'[q] = CallFields
           /\ client'[q].op = client[q].op /\ client'[q].name = client[q].name
    BY <2>2 DEF CInv, Calls, CallFields
  <2>4. \A q \in Clients \ {p} : client[q].op \notin {"Create", "Drop"}
    BY <2>1 DEF CInv, Calls
  <2> QED  BY <2>1, <2>2, <2>3, <2>4 DEF CInv, Calls, Listed
<1>4. ASSUME DropPersist(p) \/ DropFail(p) PROVE CInv'
  <2>1. /\ mu = p /\ mu' = Null /\ UNCHANGED <<tables, created>>
        /\ catalog' = catalog \/ DOMAIN catalog' = DOMAIN tables
        /\ client' = [client EXCEPT ![p] = Idle]
    BY <1>4 DEF DropPersist, DropFail, in, unlock, set, saved, disk, CInv, Calls
  <2>2. /\ DOMAIN client' = Clients
        /\ \A q \in Clients \ {p} : client'[q] = client[q]
        /\ client'[p] = Idle
    BY <2>1 DEF CInv, Calls
  <2>3. \A q \in Clients \ {p} : client[q].op \notin {"Create", "Drop"}
    BY <2>1 DEF CInv, Calls
  <2> QED  BY <2>1, <2>2, <2>3, IdleFacts DEF CInv, Calls, Listed
<1> QED  BY <1>1, <1>2, <1>3, <1>4

\* OpenTable, Close, Flush, Validate and the methods of a handle.
LEMMA OtherCInv ==
    ASSUME CInv, NEW p \in Clients
    PROVE  /\ \A n \in Names : OpenTable(p, n) \/ ValidateList(p, n) => CInv'
           /\ Close(p) \/ Flush(p) \/ Insert(p) \/ CreateIndex(p) => CInv'
           /\ ValidateStat(p) \/ ValidateOpen(p) => CInv'
<1>1. ASSUME NEW n \in Names, OpenTable(p, n) PROVE CInv'
  <2>1. /\ UNCHANGED <<mu, catalog, created>> /\ DOMAIN tables' = DOMAIN tables
        /\ client' = [client EXCEPT ![p] = [Idle EXCEPT !.h = tables'[n].h]]
    BY <1>1 DEF OpenTable, set
  <2>2. /\ DOMAIN client' = Clients /\ \A q \in Clients \ {p} : client'[q] = client[q]
        /\ DOMAIN client'[p] = CallFields /\ client'[p].op = "idle"
    BY <2>1 DEF CInv, Calls, Idle, CallFields
  <2> QED  BY <2>1, <2>2, QuietCInv
<1>2. ASSUME NEW n \in Names, ValidateList(p, n) PROVE CInv'
  <2>1. /\ UNCHANGED <<mu, catalog, created, tables>>
        /\ client' = [client EXCEPT ![p] = [Idle EXCEPT !.op = "Validate", !.step = "stat", !.name = n]]
    BY <1>2 DEF ValidateList, set, disk
  <2>2. /\ DOMAIN client' = Clients /\ \A q \in Clients \ {p} : client'[q] = client[q]
        /\ DOMAIN client'[p] = CallFields /\ client'[p].op = "Validate"
    BY <2>1 DEF CInv, Calls, Idle, CallFields
  <2> QED  BY <2>1, <2>2, QuietCInv
<1>3. ASSUME Close(p) \/ Flush(p) \/ Insert(p) \/ CreateIndex(p) PROVE CInv'
  <2>1. UNCHANGED <<mu, catalog, created, client>> /\ DOMAIN tables' = DOMAIN tables
    BY <1>3 DEF Close, Flush, Insert, CreateIndex
  <2> QED  BY <2>1, QuietCInv DEF CInv, Calls
<1>4. ASSUME ValidateStat(p) PROVE CInv'
  <2>1. PICK s : client' = [client EXCEPT ![p] = [client[p] EXCEPT !.step = s]]
    BY <1>4 DEF ValidateStat, set
  <2>2. UNCHANGED <<mu, catalog, created, tables>>
    BY <1>4 DEF ValidateStat, disk
  <2>3. /\ DOMAIN client' = Clients /\ \A q \in Clients \ {p} : client'[q] = client[q]
        /\ DOMAIN client'[p] = CallFields
        /\ client'[p].op = client[p].op /\ client'[p].name = client[p].name
    BY <2>1 DEF CInv, Calls, CallFields
  <2> QED  BY <2>2, <2>3, QuietCInv
<1>5. ASSUME ValidateOpen(p) PROVE CInv'
  <2>1. UNCHANGED <<mu, catalog, created, tables>> /\ client' = [client EXCEPT ![p] = Idle]
    BY <1>5 DEF ValidateOpen, set
  <2> QED  BY <2>1, QuietCInv, IdleFacts DEF CInv, Calls
<1> QED  BY <1>1, <1>2, <1>3, <1>4, <1>5

\* After a crash the tables are those of the catalog, and no call is under way.
LEMMA CrashCInv == CInv /\ Crash => CInv'
  BY IdleFacts DEF CInv, Calls, Listed, Crash, disk

\* Every step keeps what is known of the calls.
LEMMA StepCInv == ASSUME CInv, Step PROVE CInv'
  BY CreateCInv, DropCInv, OtherCInv, CrashCInv DEF Step

\* Every call that changes the catalog holds db.mu, and no call in progress is
\* about a name that counts as created.
THEOREM DBCallsInvariant == Spec => []CInv
<1>1. ASSUME CInv, [Next]_vars PROVE CInv'
  <2>1. CASE UNCHANGED vars
    BY <1>1, <2>1 DEF vars, CInv, Calls, Listed
  <2>2. CASE Next
    BY <1>1, <2>2, StepCInv DEF Next
  <2> QED  BY <1>1, <2>1, <2>2
<1> QED  BY InitCInv, <1>1, PTL DEF Spec

\* A table whose CreateTable succeeded stays in the catalog, in memory and on
\* disk, until DropTable is called on it, whatever fails and whenever the
\* process dies.
THEOREM DBCreatedStays == Spec => []CreatedStays
<1>1. CInv => CreatedStays
  BY DEF CInv, Listed, CreatedStays
<1> QED  BY <1>1, DBCallsInvariant, PTL

----------------------------------------------------------------------------
\* OwnRows

HandleFields == {"name", "table", "fd", "indexed", "ix", "dirty"}

FileShape ==
    /\ IsSeq(file) /\ \A f \in 1..Len(file) : DOMAIN file[f] = {"init", "rows"}
    /\ DOMAIN dir = Names /\ \A n \in Names : dir[n] \in 0..Len(file)

TableShape ==
    /\ IsSeq(handle) /\ \A h \in 1..Len(handle) : DOMAIN handle[h] = HandleFields
    /\ DOMAIN tables \subseteq Names /\ DOMAIN catalog \subseteq Names
    /\ \A n \in DOMAIN tables : DOMAIN tables[n] = {"table", "h"} /\ tables[n].h \in 0..Len(handle)
    /\ \A p \in Clients : /\ client[p].h \in 0..Len(handle)
                          /\ client[p].op # "idle" => client[p].name \in Names

\* The table is in catalog.json as it is in memory.
persisted(n) == n \in DOMAIN tables \cap DOMAIN catalog /\ catalog[n] = tables[n].table

\* Two names never share a heap file.
OneFile == \A m, n \in Names : dir[m] = dir[n] /\ dir[n] # 0 => m = n

\* A table that is open is open on the file of its name.
OpenFile ==
    \A n \in DOMAIN tables : tables[n].h # 0 =>
        /\ handle[tables[n].h].name = n /\ handle[tables[n].h].table = tables[n].table
        /\ handle[tables[n].h].fd = dir[n] /\ dir[n] # 0

\* Rows are those of the table that is in the catalog under the name.
RowsOf ==
    \A n \in Names : rows(n) = {} \/ (persisted(n) /\ rows(n) \subseteq {tables[n].table})

\* A table not in the catalog yet is being created, is empty, and nobody has
\* its handle; one that is being dropped is closed.
InCall ==
    /\ \A n \in DOMAIN tables :
          persisted(n) \/ \E p \in Clients : client[p].op = "Create" /\ client[p].name = n
    /\ \A p \in Clients : client[p].op = "Create" =>
          /\ rows(client[p].name) = {} /\ tables[client[p].name].h # 0
          /\ \A q \in Clients : client[q].h # tables[client[p].name].h
    /\ \A p \in Clients : client[p].op = "Drop" =>
          /\ client[p].name \in DOMAIN tables => tables[client[p].name].h = 0
          /\ client[p].step # "heap" => rows(client[p].name) = {}

FInv == FileShape /\ TableShape /\ OneFile /\ OpenFile /\ RowsOf /\ InCall

\* Init has no file and no table.
LEMMA InitFInv == Init => FInv
<1>1. IsSeq(<< >>) /\ Len(<< >>) = 0
  BY SMTT(30) DEF IsSeq
<1>2. ASSUME Init PROVE FileShape /\ TableShape
  BY <1>1, <1>2, IdleFacts, SMTT(30) DEF Init, FileShape, TableShape, Nothing
<1>3. ASSUME Init PROVE \A n \in Names : rows(n) = {}
  BY <1>3 DEF Init, rows
<1> QED  BY <1>2, <1>3, IdleFacts DEF Init, FInv, OneFile, OpenFile, RowsOf, InCall, Nothing

\* What opening the file of a name does: the name has a file from then on, the
\* one it had if it had one; no rows appear, and no other name is concerned.
Opened(n) ==
    /\ FileShape' /\ OneFile'
    /\ dir'[n] # 0 /\ (dir[n] # 0 => dir'[n] = dir[n])
    /\ rows(n)' = rows(n) \/ rows(n)' = {}
    /\ \A m \in Names \ {n} : dir'[m] = dir[m] /\ rows(m)' = rows(m)
    /\ \A f \in 1..Len(file') : file'[f].rows = {} \/ (f \in 1..Len(file) /\ file'[f] = file[f])

\* openSegment with or without initNew, and reading a heap that is there.
LEMMA OpenAsFacts ==
    ASSUME FileShape, OneFile, NEW n \in Names, NEW f,
           f \in {openSegment(n), initNew(n)} \/ (f = file /\ ~isNew(n)), openAs(n, f)
    PROVE  Opened(n)
<1> DEFINE g == openSegment(n)
<1>1. /\ IsSeq(g) /\ opened(n) \in 1..Len(g) /\ Len(file) <= Len(g)
      /\ \A i \in 1..Len(file) : g[i] = file[i]
      /\ \A i \in 1..Len(g) : DOMAIN g[i] = {"init", "rows"}
      /\ dir[n] = 0 => g[opened(n)].rows = {} /\ opened(n) = Len(file) + 1
      /\ dir[n] # 0 => opened(n) = dir[n]
      /\ \A i \in 1..Len(g) : i \in 1..Len(file) \/ i = opened(n)
  <2>1. CASE dir[n] # 0
    BY <2>1, SMTT(30) DEF FileShape, openSegment, opened, IsSeq
  <2>2. CASE dir[n] = 0
    <3>1. g = Append(file, EmptyFile) /\ opened(n) = Len(file) + 1
      BY <2>2 DEF openSegment, opened
    <3>2. DOMAIN EmptyFile = {"init", "rows"} /\ EmptyFile.rows = {}
      BY DEF EmptyFile
    <3>3. /\ IsSeq(g) /\ Len(g) = Len(file) + 1 /\ g[Len(file) + 1] = EmptyFile
          /\ \A i \in 1..Len(file) : g[i] = file[i]
      BY <3>1, AppendFacts, SMTT(30) DEF FileShape
    <3> HIDE DEF g
    <3>4. Len(file) \in Nat
      BY DEF FileShape, IsSeq
    <3> QED  BY <2>2, <3>1, <3>2, <3>3, <3>4, SMTT(30) DEF FileShape
  <2> QED  BY <2>1, <2>2
<1>2. /\ IsSeq(f) /\ opened(n) \in 1..Len(f) /\ Len(file) <= Len(f)
      /\ \A i \in 1..Len(file) : i # opened(n) => f[i] = file[i]
      /\ \A i \in 1..Len(f) : DOMAIN f[i] = {"init", "rows"}
      /\ f[opened(n)].rows = {} \/ (dir[n] # 0 /\ f[opened(n)] = file[opened(n)])
      /\ \A i \in 1..Len(f) : i \in 1..Len(file) \/ i = opened(n)
  <2>1. CASE f = g
    BY <1>1, <2>1, SMTT(30) DEF FileShape
  <2>2. CASE f = initNew(n)
    <3>1. f = [g EXCEPT ![opened(n)] = EmptyHeap]
      BY <2>2 DEF initNew
    <3>2. DOMAIN EmptyHeap = {"init", "rows"} /\ EmptyHeap.rows = {}
      BY DEF EmptyHeap
    <3> HIDE DEF g
    <3>5. DOMAIN g = 1..Len(g)
      BY <1>1 DEF IsSeq
    <3>6. /\ f = [i \in 1..Len(g) |-> f[i]] /\ f[opened(n)] = EmptyHeap
          /\ \A i \in 1..Len(g) : i # opened(n) => f[i] = g[i]
      BY <1>1, <3>1, <3>5
    <3>3. /\ IsSeq(f) /\ Len(f) = Len(g) /\ f[opened(n)] = EmptyHeap
          /\ \A i \in 1..Len(g) : i # opened(n) => f[i] = g[i]
      BY <1>1, <3>6, SameDomain
    <3>4. Len(file) \in Nat /\ Len(g) \in Nat
      BY <1>1 DEF FileShape, IsSeq
    <3> QED  BY <1>1, <3>2, <3>3, <3>4, SMTT(30)
  <2>3. CASE f = file /\ ~isNew(n)
    BY <1>1, <2>3 DEF isNew, openSegment, FileShape
  <2> QED  BY <2>1, <2>2, <2>3
<1>3. file' = f /\ dir' = [dir EXCEPT ![n] = opened(n)]
  BY DEF openAs
<1>4. /\ DOMAIN dir' = Names /\ dir'[n] = opened(n)
      /\ \A m \in Names \ {n} : dir'[m] = dir[m]
  BY <1>3 DEF FileShape
<1>5. Len(file) \in Nat /\ Len(f) \in Nat
  BY <1>2 DEF FileShape, IsSeq
<1>6. \A m \in Names \ {n} : dir[m] = 0 \/ (dir[m] \in 1..Len(file) /\ dir[m] # opened(n))
  BY <1>1, <1>5, SMTT(30) DEF FileShape, OneFile
<1> HIDE DEF g
<1>7. FileShape'
  BY <1>2, <1>3, <1>4, <1>5, SMTT(30) DEF FileShape
<1>8. OneFile'
  BY <1>4, <1>6, SMTT(30) DEF OneFile
<1>9. \A m \in Names \ {n} : rows(m)' = rows(m)
  BY <1>2, <1>3, <1>4, <1>6 DEF rows
<1>10. rows(n)' = rows(n) \/ rows(n)' = {}
  <2>1. rows(n)' = f[opened(n)].rows
    BY <1>2, <1>3, <1>4, SMTT(30) DEF rows
  <2>2. dir[n] # 0 => rows(n) = file[opened(n)].rows
    BY <1>1 DEF rows
  <2> QED  BY <1>2, <2>1, <2>2
<1>11. dir'[n] # 0 /\ (dir[n] # 0 => dir'[n] = dir[n])
  BY <1>1, <1>4, SMTT(30)
<1>12. \A i \in 1..Len(file') : file'[i].rows = {} \/ (i \in 1..Len(file) /\ file'[i] = file[i])
  <2>1. dir[n] # 0 => opened(n) \in 1..Len(file)
    BY <1>1, <1>5, SMTT(30) DEF FileShape
  <2> QED  BY <1>2, <1>3, <2>1
<1> QED  BY <1>4, <1>7, <1>8, <1>9, <1>10, <1>11, <1>12 DEF Opened

\* OpenHeapFile opens the file of the name and adds a handle on it.
LEMMA OpenHeapFacts ==
    ASSUME FileShape, OneFile, TableShape, NEW n \in Names, NEW t, NEW ix, OpenHeapFile(n, t, ix)
    PROVE  /\ Opened(n)
           /\ IsSeq(handle') /\ Len(handle') = Len(handle) + 1
           /\ \A h \in 1..Len(handle') : DOMAIN handle'[h] = HandleFields
           /\ \A h \in 1..Len(handle) : handle'[h] = handle[h]
           /\ handle'[Len(handle')].name = n /\ handle'[Len(handle')].table = t
           /\ handle'[Len(handle')].fd = dir'[n] /\ handle'[Len(handle')].ix = ix
<1>1. Opened(n)
  BY OpenAsFacts DEF OpenHeapFile
<1> DEFINE e == [name |-> n, table |-> t, fd |-> opened(n), indexed |-> ix # {}, ix |-> ix, dirty |-> FALSE]
<1>2. handle' = Append(handle, e) /\ dir'[n] = opened(n)
  BY DEF OpenHeapFile, openAs, FileShape
<1>3. DOMAIN e = HandleFields /\ e.name = n /\ e.table = t /\ e.fd = opened(n) /\ e.ix = ix
  BY DEF HandleFields
<1> HIDE DEF e
<1>4. /\ IsSeq(handle') /\ Len(handle') = Len(handle) + 1
      /\ \A h \in 1..Len(handle) : handle'[h] = handle[h]
      /\ handle'[Len(handle) + 1] = e
  BY <1>2, AppendFacts, SMTT(30) DEF TableShape
<1>5. \A h \in 1..Len(handle') : DOMAIN handle'[h] = HandleFields
  BY <1>3, <1>4, SMTT(30) DEF TableShape, IsSeq
<1> QED  BY <1>1, <1>2, <1>3, <1>4, <1>5

\* The handles are the same ones, on the same tables.
SameHandles ==
    /\ IsSeq(handle') /\ Len(handle') = Len(handle)
    /\ \A h \in 1..Len(handle) : /\ DOMAIN handle'[h] = HandleFields
                                 /\ handle'[h].name = handle[h].name
                                 /\ handle'[h].table = handle[h].table

\* Closing handles leaves the others alone.
LEMMA CloseHeapFacts ==
    ASSUME TableShape, NEW hs, closeHeap(hs)
    PROVE  /\ SameHandles
           /\ \A h \in 1..Len(handle) \ hs : handle'[h] = handle[h]
           /\ \A h \in 1..Len(handle) : handle'[h].ix = handle[h].ix
<1>1. DOMAIN handle = 1..Len(handle)
  BY DEF TableShape, IsSeq
<1>2. handle' = [h \in 1..Len(handle) |->
                   IF h \in hs THEN [handle[h] EXCEPT !.fd = 0, !.dirty = FALSE] ELSE handle[h]]
  BY <1>1 DEF closeHeap
<1>3. IsSeq(handle') /\ Len(handle') = Len(handle)
  BY <1>2, SameDomain DEF TableShape
<1>4. \A h \in 1..Len(handle) :
         handle'[h] = IF h \in hs THEN [handle[h] EXCEPT !.fd = 0, !.dirty = FALSE] ELSE handle[h]
  BY <1>2
<1>5. \A h \in 1..Len(handle) : /\ DOMAIN handle'[h] = HandleFields
                                /\ handle'[h].name = handle[h].name
                                /\ handle'[h].table = handle[h].table
                                /\ handle'[h].ix = handle[h].ix
  BY <1>4 DEF TableShape, HandleFields
<1> QED  BY <1>3, <1>4, <1>5 DEF SameHandles

----------------------------------------------------------------------------
\* One lemma per action: it keeps FInv.

\* A new table is registered with a handle nobody else has; its file has no rows.
LEMMA CreateTableFInv ==
    ASSUME CInv, FInv, NEW p \in Clients, NEW n \in Names, CreateTable(p, n)
    PROVE  FInv'
<1>1. /\ mu = Null /\ n \notin DOMAIN tables /\ catalog' = catalog
      /\ OpenHeapFile(n, Len(handle) + 1, {})
      /\ client' = [client EXCEPT ![p] = [Idle EXCEPT !.op = "Create", !.step = "persist", !.name = n]]
      /\ tables' = with(n, [table |-> Len(handle'), h |-> Len(handle')])
  BY DEF CreateTable, lock, set
<1>2. /\ Opened(n) /\ IsSeq(handle') /\ Len(handle') = Len(handle) + 1
      /\ \A h \in 1..Len(handle') : DOMAIN handle'[h] = HandleFields
      /\ \A h \in 1..Len(handle) : handle'[h] = handle[h]
      /\ handle'[Len(handle')].name = n /\ handle'[Len(handle')].table = Len(handle) + 1
      /\ handle'[Len(handle')].fd = dir'[n]
  BY <1>1, OpenHeapFacts DEF FInv
<1>3. /\ DOMAIN tables' = DOMAIN tables \cup {n}
      /\ \A m \in DOMAIN tables : tables'[m] = tables[m]
      /\ DOMAIN tables'[n] = {"table", "h"}
      /\ tables'[n].table = Len(handle') /\ tables'[n].h = Len(handle')
  BY <1>1 DEF with
<1>4. /\ \A q \in Clients \ {p} : client'[q] = client[q]
      /\ client'[p].op = "Create" /\ client'[p].name = n /\ client'[p].h = 0
  BY <1>1 DEF CInv, Calls, Idle
<1>5. \A q \in Clients : client[q].op \notin {"Create", "Drop"}
  BY <1>1, DBAssumption DEF CInv, Calls
<1>6. Len(handle) \in Nat
  BY DEF FInv, TableShape, IsSeq
<1>7. rows(n) = {} /\ \A m \in Names : rows(m)' = rows(m)
  BY <1>1, <1>2 DEF FInv, RowsOf, persisted, Opened
<1>8. TableShape'
  <2>1. \A m \in DOMAIN tables' : DOMAIN tables'[m] = {"table", "h"} /\ tables'[m].h \in 0..Len(handle')
    BY <1>2, <1>3, <1>6, SMTT(30) DEF FInv, TableShape
  <2>2. \A q \in Clients : /\ client'[q].h \in 0..Len(handle')
                           /\ client'[q].op # "idle" => client'[q].name \in Names
    BY <1>2, <1>4, <1>6, SMTT(30) DEF FInv, TableShape
  <2>3. DOMAIN tables' \subseteq Names /\ DOMAIN catalog' \subseteq Names
    BY <1>1, <1>3 DEF FInv, TableShape
  <2> QED  BY <1>2, <2>1, <2>2, <2>3 DEF TableShape
<1>9. OpenFile'
  BY <1>1, <1>2, <1>3, <1>6, SMTT(30) DEF FInv, OpenFile, Opened, TableShape
<1>10. \A m \in Names : persisted(m) => m # n /\ persisted(m)' /\ tables'[m] = tables[m]
  BY <1>1, <1>3 DEF persisted
<1>11. RowsOf'
  BY <1>7, <1>10 DEF FInv, RowsOf
<1>12. InCall'
  BY <1>3, <1>4, <1>5, <1>6, <1>7, <1>2, <1>10, SMTT(30) DEF FInv, InCall, TableShape
<1> QED  BY <1>2, <1>8, <1>9, <1>11, <1>12 DEF FInv, Opened

\* The catalog is saved: every table is in it as in memory.
LEMMA CreatePersistFInv ==
    ASSUME CInv, FInv, NEW p \in Clients, CreatePersist(p)
    PROVE  FInv'
<1>1. /\ client[p].op = "Create" /\ catalog' = [n \in DOMAIN tables |-> tables[n].table]
      /\ client' = [client EXCEPT ![p] = [Idle EXCEPT !.h = tables[client[p].name].h]]
      /\ UNCHANGED <<tables, dir, file, handle>> /\ mu = p
  BY DEF CreatePersist, in, unlock, set, saved, CInv, Calls
<1>2. /\ \A q \in Clients \ {p} : client'[q] = client[q] /\ client[q].op \notin {"Create", "Drop"}
      /\ client'[p].op = "idle" /\ client'[p].h = tables[client[p].name].h
  BY <1>1 DEF CInv, Calls, Idle
<1>3. \A n \in Names : rows(n)' = rows(n)
  BY <1>1 DEF rows
<1>4. \A n \in DOMAIN tables : persisted(n)'
  BY <1>1 DEF persisted
<1>5. FileShape' /\ OneFile' /\ OpenFile'
  BY <1>1 DEF FInv, FileShape, OneFile, OpenFile
<1>6. TableShape'
  BY <1>1, <1>2 DEF FInv, TableShape, CInv, Listed
<1>7. RowsOf'
  BY <1>1, <1>3, <1>4 DEF FInv, RowsOf, persisted
<1>8. InCall'
  BY <1>1, <1>2, <1>4, SMTT(30) DEF InCall
<1> QED  BY <1>5, <1>6, <1>7, <1>8 DEF FInv

\* The catalog cannot be saved: the table, still empty, is forgotten.
LEMMA CreateFailFInv ==
    ASSUME CInv, FInv, NEW p \in Clients, CreateFail(p)
    PROVE  FInv'
<1> DEFINE n == client[p].name
<1>1. /\ client[p].op = "Create" /\ closeHeap({tables[n].h}) /\ mu = p
      /\ tables' = [m \in DOMAIN tables \ {n} |-> tables[m]]
      /\ client' = [client EXCEPT ![p] = Idle] /\ UNCHANGED <<catalog, dir, file>>
  BY DEF CreateFail, in, unlock, set, without, disk, CInv, Calls
<1>2. SameHandles /\ \A h \in 1..Len(handle) : h # tables[n].h => handle'[h] = handle[h]
  BY <1>1, CloseHeapFacts DEF FInv
<1>3. /\ \A q \in Clients \ {p} : client'[q] = client[q] /\ client[q].op \notin {"Create", "Drop"}
      /\ client'[p].op = "idle" /\ client'[p].h = 0
  BY <1>1, IdleFacts DEF CInv, Calls
<1>4. n \in DOMAIN tables /\ rows(n) = {} /\ tables[n].h # 0
  BY <1>1 DEF CInv, Listed, FInv, InCall
<1> HIDE DEF n
<1>5. DOMAIN tables' = DOMAIN tables \ {n} /\ \A m \in DOMAIN tables \ {n} : tables'[m] = tables[m]
  BY <1>1
<1>6. \A m \in DOMAIN tables \ {n} : tables[m].h # 0 => tables[m].h # tables[n].h
  BY <1>4 DEF FInv, OpenFile
<1>7. \A m \in Names : rows(m)' = rows(m)
  BY <1>1 DEF rows
<1>8. FileShape' /\ OneFile'
  BY <1>1 DEF FInv, FileShape, OneFile
<1>9. Len(handle) \in Nat
  BY DEF FInv, TableShape, IsSeq
<1>10. TableShape'
  BY <1>1, <1>2, <1>3, <1>5, <1>9, SMTT(30) DEF FInv, TableShape, SameHandles
<1>11. OpenFile'
  BY <1>1, <1>2, <1>5, <1>6, <1>9, SMTT(30) DEF FInv, OpenFile, TableShape
<1>12. \A m \in Names \ {n} : persisted(m)' <=> persisted(m)
  BY <1>1, <1>5 DEF persisted
<1>13. RowsOf'
  BY <1>4, <1>5, <1>7, <1>12 DEF FInv, RowsOf, persisted
<1>14. \A q \in Clients : client[q].op = "Create" => client[q].name = n
  BY <1>3 DEF n
<1>15. InCall'
  BY <1>3, <1>5, <1>12, <1>14, SMTT(30) DEF FInv, InCall, TableShape
<1> QED  BY <1>8, <1>10, <1>11, <1>13, <1>15 DEF FInv

\* The table is closed: no handle of it is open.
LEMMA DropTableFInv ==
    ASSUME CInv, FInv, NEW p \in Clients, NEW n \in Names, DropTable(p, n)
    PROVE  FInv'
<1>1. /\ mu = Null /\ n \in DOMAIN tables /\ UNCHANGED <<catalog, dir, file>>
      /\ closeHeap({tables[n].h})
      /\ client' = [client EXCEPT ![p] = [Idle EXCEPT !.op = "Drop", !.step = "heap", !.name = n]]
      /\ tables' = [tables EXCEPT ![n].h = 0]
  BY DEF DropTable, lock, set
<1>2. SameHandles /\ \A h \in 1..Len(handle) : h # tables[n].h => handle'[h] = handle[h]
  BY <1>1, CloseHeapFacts DEF FInv
<1>3. /\ \A q \in Clients \ {p} : client'[q] = client[q]
      /\ client'[p].op = "Drop" /\ client'[p].step = "heap" /\ client'[p].name = n /\ client'[p].h = 0
  BY <1>1 DEF CInv, Calls, Idle
<1>4. \A q \in Clients : client[q].op \notin {"Create", "Drop"}
  BY <1>1, DBAssumption DEF CInv, Calls
<1>5. /\ DOMAIN tables' = DOMAIN tables
      /\ \A m \in DOMAIN tables \ {n} : tables'[m] = tables[m]
      /\ DOMAIN tables'[n] = {"table", "h"} /\ tables'[n].h = 0 /\ tables'[n].table = tables[n].table
  BY <1>1 DEF FInv, TableShape
<1>6. \A m \in DOMAIN tables \ {n} : tables[m].h # 0 => tables[m].h # tables[n].h
  BY <1>1 DEF FInv, OpenFile
<1>7. \A m \in Names : rows(m)' = rows(m)
  BY <1>1 DEF rows
<1>8. FileShape' /\ OneFile'
  BY <1>1 DEF FInv, FileShape, OneFile
<1>9. Len(handle) \in Nat
  BY DEF FInv, TableShape, IsSeq
<1>10. TableShape'
  BY <1>1, <1>2, <1>3, <1>5, <1>9, SMTT(30) DEF FInv, TableShape, SameHandles
<1>11. OpenFile'
  BY <1>1, <1>2, <1>5, <1>6, <1>9, SMTT(30) DEF FInv, OpenFile, TableShape
<1>12. \A m \in Names : /\ persisted(m)' <=> persisted(m)
                        /\ persisted(m) => tables'[m].table = tables[m].table
  BY <1>1, <1>5 DEF persisted
<1>13. RowsOf'
  BY <1>7, <1>12 DEF FInv, RowsOf
<1>14. InCall'
  BY <1>3, <1>4, <1>5, <1>12, ZenonT(30) DEF FInv, InCall, TableShape
<1> QED  BY <1>8, <1>10, <1>11, <1>13, <1>14 DEF FInv

\* Without dotted names the pattern of a table matches its own file only.
LEMMA DropHeapFInv ==
    ASSUME CInv, FInv, orderly, NEW p \in Clients, DropHeap(p)
    PROVE  FInv'
<1>0. PICK n \in Names : n = client[p].name
  BY DEF DropHeap, in, FInv, TableShape
<1>1. /\ client[p].op = "Drop" /\ client[p].step = "heap" /\ mu = p
      /\ UNCHANGED <<tables, catalog, file, handle>>
      /\ \/ dir[n] = 0 /\ dir' = dir /\ client' = [client EXCEPT ![p] = [client[p] EXCEPT !.step = "idx"]]
         \/ dir' = [dir EXCEPT ![n] = 0] /\ client' = client
  BY <1>0 DEF DropHeap, in, set, matches, orderly, CInv, Calls
<1>2. n \in Names /\ (n \in DOMAIN tables => tables[n].h = 0)
  BY <1>0, <1>1 DEF FInv, TableShape, InCall
<1>3. \A q \in Clients \ {p} : client'[q] = client[q] /\ client[q].op \notin {"Create", "Drop"}
  BY <1>1 DEF CInv, Calls
<1>4. /\ client'[p].op = "Drop" /\ client'[p].name = n /\ client'[p].h = client[p].h
      /\ client'[p].step # "heap" => dir[n] = 0 /\ dir' = dir
  BY <1>0, <1>1 DEF CInv, Calls, CallFields
<1>5. /\ DOMAIN dir' = Names /\ dir'[n] \in {0, dir[n]}
      /\ \A m \in Names \ {n} : dir'[m] = dir[m]
  BY <1>1, <1>2 DEF FInv, FileShape
<1>6. /\ \A m \in Names \ {n} : rows(m)' = rows(m)
      /\ rows(n)' = rows(n) \/ rows(n)' = {}
      /\ dir[n] = 0 => rows(n)' = {}
  BY <1>1, <1>5 DEF rows
<1>7. FileShape'
  BY <1>1, <1>5, SMTT(30) DEF FInv, FileShape, IsSeq
<1>8. OneFile'
  BY <1>5, SMTT(30) DEF FInv, OneFile
<1>9. TableShape'
  BY <1>1, <1>2, <1>3, <1>4 DEF FInv, TableShape
<1>10. OpenFile'
  BY <1>1, <1>2, <1>5, SMTT(30) DEF FInv, OpenFile, TableShape
<1>11. \A m \in Names : persisted(m)' <=> persisted(m)
  BY <1>1 DEF persisted
<1>12. RowsOf'
  BY <1>1, <1>6, <1>11 DEF FInv, RowsOf
<1>13. InCall'
  BY <1>1, <1>2, <1>3, <1>4, <1>6, <1>11 DEF FInv, InCall, TableShape
<1> QED  BY <1>7, <1>8, <1>9, <1>10, <1>12, <1>13 DEF FInv

\* The table is forgotten when its file is gone.
LEMMA DropIdxFInv ==
    ASSUME CInv, FInv, NEW p \in Clients, DropIdx(p)
    PROVE  FInv'
<1> DEFINE n == client[p].name
<1>1. /\ client[p].op = "Drop" /\ client[p].step = "idx" /\ mu = p
      /\ UNCHANGED <<catalog, dir, file, handle>>
      /\ \/ UNCHANGED <<tables, client>>
         \/ /\ tables' = [m \in DOMAIN tables \ {n} |-> tables[m]]
            /\ client' = [client EXCEPT ![p] = [client[p] EXCEPT !.step = "persist"]]
  BY DEF DropIdx, in, set, without, CInv, Calls
<1>2. n \in Names /\ rows(n) = {} /\ (n \in DOMAIN tables => tables[n].h = 0)
  BY <1>1 DEF FInv, TableShape, InCall
<1>3. \A q \in Clients \ {p} : client'[q] = client[q] /\ client[q].op \notin {"Create", "Drop"}
  BY <1>1 DEF CInv, Calls
<1>4. client'[p].op = "Drop" /\ client'[p].name = n /\ client'[p].h = client[p].h
  BY <1>1 DEF CInv, Calls, CallFields
<1> HIDE DEF n
<1>5. /\ DOMAIN tables' \subseteq DOMAIN tables /\ DOMAIN tables \ {n} \subseteq DOMAIN tables'
      /\ \A m \in DOMAIN tables' : tables'[m] = tables[m]
  BY <1>1
<1>6. \A m \in Names : rows(m)' = rows(m)
  BY <1>1 DEF rows
<1>7. FileShape' /\ OneFile'
  BY <1>1 DEF FInv, FileShape, OneFile
<1>8. TableShape'
  BY <1>1, <1>2, <1>3, <1>4, <1>5, ZenonT(30) DEF FInv, TableShape
<1>9. OpenFile'
  BY <1>1, <1>5, SMTT(30) DEF FInv, OpenFile
<1>10. \A m \in Names \ {n} : persisted(m)' <=> persisted(m)
  BY <1>1, <1>5 DEF persisted
<1>11. \A m \in DOMAIN tables' : persisted(m) => persisted(m)'
  BY <1>1, <1>5 DEF persisted
<1>12. RowsOf'
  BY <1>2, <1>5, <1>6, <1>10 DEF FInv, RowsOf, persisted
<1>13. \A m \in DOMAIN tables' : persisted(m)'
  BY <1>1, <1>3, <1>5, <1>11 DEF FInv, InCall
<1>14. InCall'
  BY <1>2, <1>3, <1>4, <1>5, <1>6, <1>13 DEF InCall
<1> QED  BY <1>7, <1>8, <1>9, <1>12, <1>14 DEF FInv

\* The last step of DropTable, and the error returned from any of its steps.
LEMMA DropEndFInv ==
    ASSUME CInv, FInv, NEW p \in Clients, DropPersist(p) \/ DropFail(p)
    PROVE  FInv'
<1>1. /\ client[p].op = "Drop" /\ mu = p /\ UNCHANGED <<tables, dir, file, handle>>
      /\ catalog' = catalog \/ catalog' = [n \in DOMAIN tables |-> tables[n].table]
      /\ client' = [client EXCEPT ![p] = Idle]
  BY DEF DropPersist, DropFail, in, unlock, set, saved, disk, CInv, Calls
<1>2. /\ \A q \in Clients \ {p} : client'[q] = client[q] /\ client[q].op \notin {"Create", "Drop"}
      /\ client'[p].op = "idle" /\ client'[p].h = 0
  BY <1>1, IdleFacts DEF CInv, Calls
<1>3. \A n \in Names : rows(n)' = rows(n)
  BY <1>1 DEF rows
<1>4. \A n \in DOMAIN tables : persisted(n)'
  BY <1>1, <1>2 DEF FInv, InCall, persisted
<1>5. FileShape' /\ OneFile' /\ OpenFile'
  BY <1>1 DEF FInv, FileShape, OneFile, OpenFile
<1>6. TableShape'
  BY <1>1, <1>2, SMTT(30) DEF FInv, TableShape, IsSeq
<1>7. RowsOf'
  BY <1>1, <1>3, <1>4 DEF FInv, RowsOf, persisted
<1>8. InCall'
  BY <1>1, <1>2, <1>4, SMTT(30) DEF InCall
<1> QED  BY <1>5, <1>6, <1>7, <1>8 DEF FInv

\* A table is opened on the file of its name, or its open handle is returned.
LEMMA OpenTableFInv ==
    ASSUME CInv, FInv, NEW p \in Clients, NEW n \in Names, OpenTable(p, n)
    PROVE  FInv'
<1>1. /\ mu = Null /\ n \in DOMAIN tables /\ catalog' = catalog
      /\ client' = [client EXCEPT ![p] = [Idle EXCEPT !.h = tables'[n].h]]
  BY DEF OpenTable, set
<1>2. /\ \A q \in Clients \ {p} : client'[q] = client[q]
      /\ client'[p].op = "idle" /\ client'[p].h = tables'[n].h
  BY <1>1 DEF CInv, Calls, Idle
<1>3. \A q \in Clients : client[q].op \notin {"Create", "Drop"}
  BY <1>1, DBAssumption DEF CInv, Calls
<1>4. \A m \in DOMAIN tables : persisted(m)
  BY <1>3 DEF FInv, InCall
<1>5. Len(handle) \in Nat
  BY DEF FInv, TableShape, IsSeq
<1>6. CASE UNCHANGED <<tables, dir, file, handle>>
  <2>1. \A m \in Names : rows(m)' = rows(m) /\ (persisted(m)' <=> persisted(m))
    BY <1>1, <1>6 DEF rows, persisted
  <2>2. FileShape' /\ OneFile' /\ OpenFile'
    BY <1>6 DEF FInv, FileShape, OneFile, OpenFile
  <2>3. TableShape'
    BY <1>1, <1>2, <1>6 DEF FInv, TableShape
  <2>4. RowsOf'
    BY <1>6, <2>1 DEF FInv, RowsOf
  <2>5. InCall'
    BY <1>2, <1>3, <1>4, <1>6, <2>1 DEF InCall, FInv, TableShape
  <2> QED  BY <2>2, <2>3, <2>4, <2>5 DEF FInv
<1>7. CASE /\ tables[n].h = 0
           /\ OpenHeapFile(n, tables[n].table, idx[n])
           /\ tables' = [tables EXCEPT ![n].h = Len(handle')]
  <2>1. /\ Opened(n) /\ IsSeq(handle') /\ Len(handle') = Len(handle) + 1
        /\ \A h \in 1..Len(handle') : DOMAIN handle'[h] = HandleFields
        /\ \A h \in 1..Len(handle) : handle'[h] = handle[h]
        /\ handle'[Len(handle')].name = n /\ handle'[Len(handle')].table = tables[n].table
        /\ handle'[Len(handle')].fd = dir'[n]
    BY <1>7, OpenHeapFacts DEF FInv
  <2>2. /\ DOMAIN tables' = DOMAIN tables
        /\ \A m \in DOMAIN tables \ {n} : tables'[m] = tables[m]
        /\ DOMAIN tables'[n] = {"table", "h"}
        /\ tables'[n].h = Len(handle') /\ tables'[n].table = tables[n].table
    BY <1>1, <1>7 DEF FInv, TableShape
  <2>3. \A m \in Names : /\ persisted(m)' <=> persisted(m)
                         /\ persisted(m) => tables'[m].table = tables[m].table
    BY <1>1, <2>2 DEF persisted
  <2>4. \A m \in Names : rows(m)' = rows(m) \/ rows(m)' = {}
    BY <2>1 DEF Opened
  <2>5. TableShape'
    <3>1. \A m \in DOMAIN tables' : DOMAIN tables'[m] = {"table", "h"} /\ tables'[m].h \in 0..Len(handle')
      BY <1>5, <2>1, <2>2, SMTT(30) DEF FInv, TableShape
    <3>2. \A q \in Clients : /\ client'[q].h \in 0..Len(handle')
                             /\ client'[q].op # "idle" => client'[q].name \in Names
      BY <1>2, <1>5, <2>1, <2>2, SMTT(30) DEF FInv, TableShape
    <3>3. DOMAIN tables' \subseteq Names /\ DOMAIN catalog' \subseteq Names
      BY <1>1, <2>2 DEF FInv, TableShape
    <3> QED  BY <2>1, <3>1, <3>2, <3>3 DEF TableShape
  <2>6. OpenFile'
    <3>1. ASSUME NEW m \in DOMAIN tables \ {n}, tables[m].h # 0
          PROVE  /\ tables[m].h \in 1..Len(handle) /\ dir'[m] = dir[m]
                 /\ handle'[tables[m].h] = handle[tables[m].h]
      BY <1>5, <2>1, <3>1, SMTT(30) DEF FInv, TableShape, Opened
    <3>2. ASSUME NEW m \in DOMAIN tables \ {n}, tables[m].h # 0
          PROVE  /\ handle[tables[m].h].name = m /\ handle[tables[m].h].table = tables[m].table
                 /\ handle[tables[m].h].fd = dir[m] /\ dir[m] # 0
      BY <3>2 DEF FInv, OpenFile
    <3>3. dir'[n] # 0
      BY <2>1 DEF Opened
    <3> QED  BY <2>1, <2>2, <3>1, <3>2, <3>3, SMTT(30) DEF OpenFile
  <2>7. RowsOf'
    BY <2>3, <2>4 DEF FInv, RowsOf
  <2>8. InCall'
    BY <1>2, <1>3, <1>4, <2>2, <2>3 DEF InCall, FInv, TableShape
  <2> QED  BY <2>1, <2>5, <2>6, <2>7, <2>8 DEF FInv, Opened
<1> QED  BY <1>6, <1>7 DEF OpenTable

\* Close: no table is open after it.
LEMMA CloseFInv ==
    ASSUME CInv, FInv, NEW p \in Clients, Close(p)
    PROVE  FInv'
<1>1. /\ mu = Null /\ closeHeap(open) /\ UNCHANGED <<catalog, dir, file, client>>
      /\ tables' = [n \in DOMAIN tables |-> [tables[n] EXCEPT !.h = 0]]
  BY DEF Close
<1>2. SameHandles
  BY <1>1, CloseHeapFacts DEF FInv
<1>3. DOMAIN tables' = DOMAIN tables /\ \A n \in DOMAIN tables :
         DOMAIN tables'[n] = {"table", "h"} /\ tables'[n].h = 0 /\ tables'[n].table = tables[n].table
  BY <1>1 DEF FInv, TableShape
<1>4. \A q \in Clients : client[q].op \notin {"Create", "Drop"}
  BY <1>1, DBAssumption DEF CInv, Calls
<1>5. \A n \in Names : /\ rows(n)' = rows(n) /\ (persisted(n)' <=> persisted(n))
                       /\ persisted(n) => tables'[n].table = tables[n].table
  BY <1>1, <1>3 DEF rows, persisted
<1>6. FileShape' /\ OneFile' /\ OpenFile'
  BY <1>1, <1>3 DEF FInv, FileShape, OneFile, OpenFile
<1>7. Len(handle) \in Nat
  BY DEF FInv, TableShape, IsSeq
<1>8. TableShape'
  BY <1>1, <1>2, <1>3, <1>7, SMTT(30) DEF FInv, TableShape, SameHandles
<1>9. RowsOf'
  BY <1>5 DEF FInv, RowsOf
<1>10. InCall'
  BY <1>1, <1>3, <1>4, <1>5 DEF FInv, InCall, TableShape
<1> QED  BY <1>6, <1>8, <1>9, <1>10 DEF FInv

\* A step that only changes which indexes handles have, and what rows there are.
LEMMA HandleFInv ==
    ASSUME FInv, UNCHANGED <<tables, catalog, dir, client>>, FileShape', SameHandles,
           \A h \in 1..Len(handle) : handle'[h].fd = handle[h].fd,
           RowsOf',
           \A p \in Clients : client[p].op \in {"Create", "Drop"} =>
               rows(client[p].name)' \subseteq rows(client[p].name)
    PROVE  FInv'
<1>1. \A n \in Names : persisted(n)' <=> persisted(n)
  BY DEF persisted
<1>2. OneFile' /\ OpenFile'
  BY SMTT(30) DEF FInv, OneFile, OpenFile, SameHandles, TableShape
<1>3. TableShape'
  BY DEF FInv, TableShape, SameHandles
<1>4. InCall'
  BY <1>1, ZenonT(30) DEF FInv, InCall, TableShape
<1> QED  BY <1>2, <1>3, <1>4 DEF FInv

\* Flush changes no row.
LEMMA FlushFInv ==
    ASSUME CInv, FInv, NEW p \in Clients, Flush(p)
    PROVE  FInv'
<1>1. /\ UNCHANGED <<tables, catalog, dir, file, client>>
      /\ handle' = [h \in DOMAIN handle |->
                      IF h \in open THEN [handle[h] EXCEPT !.dirty = FALSE] ELSE handle[h]]
  BY DEF Flush
<1>2. DOMAIN handle = 1..Len(handle) /\ Len(handle) \in Nat
  BY DEF FInv, TableShape, IsSeq
<1>3. IsSeq(handle') /\ Len(handle') = Len(handle)
  <2>1. handle' = [h \in 1..Len(handle) |-> handle'[h]]
    BY <1>1, <1>2
  <2> QED  BY <2>1, SameDomain DEF FInv, TableShape
<1>4. \A h \in 1..Len(handle) : /\ DOMAIN handle'[h] = HandleFields
                                /\ handle'[h].name = handle[h].name
                                /\ handle'[h].table = handle[h].table
                                /\ handle'[h].fd = handle[h].fd
  BY <1>1, <1>2 DEF FInv, TableShape, HandleFields
<1>5. \A n \in Names : rows(n)' = rows(n) /\ (persisted(n)' <=> persisted(n))
  BY <1>1 DEF rows, persisted
<1>6. FileShape' /\ RowsOf'
  BY <1>1, <1>5 DEF FInv, FileShape, RowsOf
<1>7. \A q \in Clients : rows(client[q].name)' = rows(client[q].name)
  BY <1>1 DEF rows
<1> QED  BY <1>1, <1>3, <1>4, <1>6, <1>7, HandleFInv DEF SameHandles

\* A handle that an orderly client uses is that of a table in the catalog, open
\* on the file of its name, and no CreateTable or DropTable is at work on it.
LEMMA UsableFacts ==
    ASSUME FInv, orderly, NEW p \in Clients, usable(p)
    PROVE  \E n \in DOMAIN tables :
              /\ persisted(n) /\ client[p].h = tables[n].h /\ client[p].h \in 1..Len(handle)
              /\ handle[client[p].h].name = n /\ handle[client[p].h].table = tables[n].table
              /\ handle[client[p].h].fd = dir[n] /\ dir[n] \in 1..Len(file)
              /\ \A q \in Clients : client[q].op \in {"Create", "Drop"} => client[q].name # n
<1>1. PICK n \in DOMAIN tables : tables[n].h = client[p].h /\ tables[n].h # 0
  BY DEF usable, orderly, open
<1>2. \A q \in Clients : client[q].op \in {"Create", "Drop"} => client[q].name # n
  BY <1>1, SMTT(30) DEF FInv, InCall
<1>3. persisted(n)
  BY <1>2 DEF FInv, InCall
<1>4. /\ handle[client[p].h].name = n /\ handle[client[p].h].table = tables[n].table
      /\ handle[client[p].h].fd = dir[n] /\ dir[n] # 0
  BY <1>1 DEF FInv, OpenFile
<1>5. Len(file) \in Nat /\ Len(handle) \in Nat
  BY DEF FInv, FileShape, TableShape, IsSeq
<1>6. dir[n] \in 1..Len(file) /\ client[p].h \in 1..Len(handle)
  BY <1>1, <1>4, <1>5, SMTT(30) DEF FInv, FileShape, TableShape
<1> QED  BY <1>1, <1>2, <1>3, <1>4, <1>6

\* A row goes to the file of the handle's own table.
LEMMA InsertFInv ==
    ASSUME CInv, FInv, orderly, NEW p \in Clients, Insert(p)
    PROVE  FInv'
<1>0. usable(p) /\ UNCHANGED <<tables, catalog, client>>
  BY DEF Insert
<1>1. PICK n \in DOMAIN tables :
              /\ persisted(n) /\ client[p].h = tables[n].h /\ client[p].h \in 1..Len(handle)
              /\ handle[client[p].h].name = n /\ handle[client[p].h].table = tables[n].table
              /\ handle[client[p].h].fd = dir[n] /\ dir[n] \in 1..Len(file)
              /\ \A q \in Clients : client[q].op \in {"Create", "Drop"} => client[q].name # n
  BY <1>0, UsableFacts
<1>2. PICK h : h = client[p].h
  OBVIOUS
<1>3. Len(file) \in Nat /\ Len(handle) \in Nat /\ DOMAIN file = 1..Len(file) /\ DOMAIN handle = 1..Len(handle)
  BY DEF FInv, FileShape, TableShape, IsSeq
<1>4. handle[h].fd = dir[n] /\ dir[n] # 0 /\ h \in 1..Len(handle) /\ n \in Names
  BY <1>1, <1>2, <1>3, SMTT(30) DEF FInv, TableShape
<1>5. \/ UNCHANGED <<dir, file, handle>>
      \/ /\ file' = [file EXCEPT ![dir[n]].rows = @ \cup {tables[n].table}]
         /\ handle' = [handle EXCEPT ![h].fd = dir[n],
                                     ![h].dirty = @ \/ handle[h].indexed,
                                     ![h].ix = IF handle[h].indexed THEN @ \cup {dir[n]} ELSE @]
         /\ UNCHANGED dir
  BY <1>1, <1>2, <1>4 DEF Insert, segment
<1>6. CASE UNCHANGED <<dir, file, handle>>
  <2>1. \A m \in Names : rows(m)' = rows(m) /\ (persisted(m)' <=> persisted(m))
    BY <1>0, <1>6 DEF rows, persisted
  <2>2. \A q \in Clients : rows(client[q].name)' = rows(client[q].name)
    BY <1>0, <1>6 DEF rows
  <2>3. FileShape' /\ RowsOf' /\ SameHandles
    BY <1>0, <1>6, <2>1 DEF FInv, FileShape, TableShape, RowsOf, SameHandles
  <2> QED  BY <1>0, <1>6, <2>2, <2>3, HandleFInv
<1>7. CASE /\ file' = [file EXCEPT ![dir[n]].rows = @ \cup {tables[n].table}]
           /\ handle' = [handle EXCEPT ![h].fd = dir[n],
                                       ![h].dirty = @ \/ handle[h].indexed,
                                       ![h].ix = IF handle[h].indexed THEN @ \cup {dir[n]} ELSE @]
           /\ UNCHANGED dir
  <2>1. /\ file' = [f \in 1..Len(file) |-> file'[f]]
        /\ \A f \in 1..Len(file) : f # dir[n] => file'[f] = file[f]
        /\ DOMAIN file'[dir[n]] = {"init", "rows"}
        /\ file'[dir[n]].rows = file[dir[n]].rows \cup {tables[n].table}
    BY <1>1, <1>3, <1>7 DEF FInv, FileShape
  <2>2. IsSeq(file') /\ Len(file') = Len(file)
    BY <2>1, SameDomain DEF FInv, FileShape
  <2>3. FileShape'
    BY <1>7, <2>1, <2>2 DEF FInv, FileShape
  <2>4. /\ handle' = [i \in 1..Len(handle) |-> handle'[i]]
        /\ \A i \in 1..Len(handle) : i # h => handle'[i] = handle[i]
    BY <1>3, <1>4, <1>7
  <2>5. /\ DOMAIN handle'[h] = HandleFields /\ handle'[h].name = handle[h].name
        /\ handle'[h].table = handle[h].table /\ handle'[h].fd = dir[n]
    BY <1>3, <1>4, <1>7 DEF FInv, TableShape, HandleFields
  <2>6. SameHandles /\ \A i \in 1..Len(handle) : handle'[i].fd = handle[i].fd
    <3>1. IsSeq(handle') /\ Len(handle') = Len(handle)
      BY <2>4, SameDomain DEF FInv, TableShape
    <3> QED  BY <1>4, <2>4, <2>5, <3>1 DEF SameHandles, FInv, TableShape
  <2>7. rows(n)' = rows(n) \cup {tables[n].table}
    BY <1>4, <1>7, <2>1 DEF rows
  <2>8. \A m \in Names \ {n} : rows(m)' = rows(m)
    BY <1>3, <1>4, <1>7, <2>1, SMTT(30) DEF rows, FInv, OneFile, FileShape
  <2>9. \A m \in Names : persisted(m)' <=> persisted(m)
    BY <1>0 DEF persisted
  <2>10. RowsOf'
    BY <1>0, <1>1, <1>4, <2>7, <2>8, <2>9, ZenonT(30) DEF FInv, RowsOf
  <2>11. \A q \in Clients : client[q].op \in {"Create", "Drop"} =>
            client[q].name \in Names \ {n}
    BY <1>1 DEF FInv, TableShape
  <2>12. \A q \in Clients : client[q].op \in {"Create", "Drop"} =>
            rows(client[q].name)' = rows(client[q].name)
    <3> SUFFICES ASSUME NEW q \in Clients, client[q].op \in {"Create", "Drop"}
                 PROVE  rows(client[q].name)' = rows(client[q].name)
      OBVIOUS
    <3>1. PICK m \in Names \ {n} : m = client[q].name
      BY <2>11
    <3>2. rows(m)' = rows(m) /\ client'[q].name = m
      BY <1>0, <2>8, <3>1
    <3> QED  BY <3>1, <3>2 DEF rows
  <2> QED  BY <1>0, <1>7, <2>3, <2>6, <2>10, <2>12, HandleFInv
<1> QED  BY <1>5, <1>6, <1>7

\* CreateIndex changes no row and no heap file.
LEMMA CreateIndexFInv ==
    ASSUME CInv, FInv, orderly, NEW p \in Clients, CreateIndex(p)
    PROVE  FInv'
<1>0. usable(p) /\ UNCHANGED <<tables, catalog, client>>
  BY DEF CreateIndex
<1>1. PICK n \in DOMAIN tables :
              /\ client[p].h \in 1..Len(handle) /\ handle[client[p].h].name = n
              /\ handle[client[p].h].fd = dir[n] /\ dir[n] \in 1..Len(file)
  BY <1>0, UsableFacts
<1>2. PICK h : h = client[p].h
  OBVIOUS
<1>3. Len(file) \in Nat /\ Len(handle) \in Nat /\ DOMAIN handle = 1..Len(handle)
  BY DEF FInv, FileShape, TableShape, IsSeq
<1>4. handle[h].fd = dir[n] /\ dir[n] # 0 /\ h \in 1..Len(handle)
  BY <1>1, <1>2, <1>3, SMTT(30)
<1>5. UNCHANGED <<dir, file>> /\ \/ handle' = handle
                                 \/ \E ix : handle' = [handle EXCEPT ![h].fd = dir[n], ![h].indexed = TRUE, ![h].ix = ix]
  BY <1>1, <1>2, <1>4 DEF CreateIndex, segment
<1>6. SameHandles /\ \A i \in 1..Len(handle) : handle'[i].fd = handle[i].fd
  <2>1. CASE handle' = handle
    BY <2>1 DEF SameHandles, FInv, TableShape
  <2>2. ASSUME NEW ix, handle' = [handle EXCEPT ![h].fd = dir[n], ![h].indexed = TRUE, ![h].ix = ix]
        PROVE  SameHandles /\ \A i \in 1..Len(handle) : handle'[i].fd = handle[i].fd
    <3>1. /\ handle' = [i \in 1..Len(handle) |-> handle'[i]]
          /\ \A i \in 1..Len(handle) : i # h => handle'[i] = handle[i]
      BY <1>3, <1>4, <2>2
    <3>2. /\ DOMAIN handle'[h] = HandleFields /\ handle'[h].name = handle[h].name
          /\ handle'[h].table = handle[h].table /\ handle'[h].fd = dir[n]
      BY <1>3, <1>4, <2>2 DEF FInv, TableShape, HandleFields
    <3>3. IsSeq(handle') /\ Len(handle') = Len(handle)
      BY <3>1, SameDomain DEF FInv, TableShape
    <3> QED  BY <1>4, <3>1, <3>2, <3>3 DEF SameHandles, FInv, TableShape
  <2> QED  BY <1>5, <2>1, <2>2
<1>7. \A m \in Names : rows(m)' = rows(m) /\ (persisted(m)' <=> persisted(m))
  BY <1>0, <1>5 DEF rows, persisted
<1>8. \A q \in Clients : rows(client[q].name)' = rows(client[q].name)
  BY <1>0, <1>5 DEF rows
<1>9. FileShape' /\ RowsOf'
  BY <1>0, <1>5, <1>7, ZenonT(30) DEF FInv, FileShape, RowsOf
<1> QED  BY <1>0, <1>5, <1>6, <1>8, <1>9, HandleFInv

\* Listing and Stat of Validate change no file and no table.
LEMMA ValidateFInv ==
    ASSUME CInv, FInv, NEW p \in Clients,
           ValidateStat(p) \/ \E n \in Names : ValidateList(p, n)
    PROVE  FInv'
<1>1. UNCHANGED <<tables, catalog, dir, file, handle>>
  BY DEF ValidateStat, ValidateList, disk
<1>2. /\ \A q \in Clients \ {p} : client'[q] = client[q]
      /\ client'[p].op = "Validate" /\ client'[p].name \in Names
      /\ client'[p].h \in {0, client[p].h} /\ client[p].op \notin {"Create", "Drop"}
  <2>1. ASSUME NEW n \in Names, ValidateList(p, n)
        PROVE  /\ client' = [client EXCEPT ![p] = [Idle EXCEPT !.op = "Validate", !.step = "stat", !.name = n]]
               /\ client[p].op = "idle"
    BY <2>1 DEF ValidateList, idle, set
  <2>2. ASSUME ValidateStat(p)
        PROVE  \E s : client' = [client EXCEPT ![p] = [client[p] EXCEPT !.step = s]] /\ client[p].op = "Validate"
    BY <2>2 DEF ValidateStat, in, set
  <2>3. CASE \E n \in Names : ValidateList(p, n)
    <3>1. PICK n \in Names : ValidateList(p, n)
      BY <2>3
    <3>2. /\ client' = [client EXCEPT ![p] = [Idle EXCEPT !.op = "Validate", !.step = "stat", !.name = n]]
          /\ client[p].op = "idle" /\ DOMAIN client = Clients
      BY <2>1, <3>1 DEF CInv, Calls
    <3> QED  BY <3>2 DEF Idle
  <2>4. CASE ValidateStat(p)
    BY <2>2, <2>4 DEF CInv, Calls, CallFields, FInv, TableShape
  <2> QED  BY <2>3, <2>4
<1>3. \A n \in Names : rows(n)' = rows(n) /\ (persisted(n)' <=> persisted(n))
  BY <1>1 DEF rows, persisted
<1>4. FileShape' /\ OneFile' /\ OpenFile'
  BY <1>1 DEF FInv, FileShape, OneFile, OpenFile
<1>5. TableShape'
  BY <1>1, <1>2, SMTT(30) DEF FInv, TableShape, IsSeq
<1>6. RowsOf'
  BY <1>1, <1>3 DEF FInv, RowsOf
<1>7. \A n \in DOMAIN tables' :
         persisted(n)' \/ \E q \in Clients : client'[q].op = "Create" /\ client'[q].name = n
  <2> SUFFICES ASSUME NEW n \in DOMAIN tables, ~persisted(n)
               PROVE  \E q \in Clients : client'[q].op = "Create" /\ client'[q].name = n
    BY <1>1, <1>3 DEF FInv, TableShape
  <2>1. PICK q \in Clients : client[q].op = "Create" /\ client[q].name = n
    BY DEF FInv, InCall
  <2> QED  BY <1>2, <2>1
<1>8. \A q \in Clients : client'[q].op \in {"Create", "Drop"} =>
         q # p /\ client'[q] = client[q] /\ client[q].name \in Names
  BY <1>2 DEF FInv, TableShape
<1>9. InCall'
  <2>1. ASSUME NEW q \in Clients, client'[q].op = "Create"
        PROVE  /\ rows(client[q].name)' = {} /\ tables'[client'[q].name].h # 0
               /\ \A r \in Clients : client'[r].h # tables'[client'[q].name].h
    BY <1>1, <1>2, <1>3, <1>8, <2>1, SMTT(30) DEF FInv, InCall
  <2>2. ASSUME NEW q \in Clients, client'[q].op = "Drop"
        PROVE  /\ client'[q].name \in DOMAIN tables' => tables'[client'[q].name].h = 0
               /\ client'[q].step # "heap" => rows(client[q].name)' = {}
    BY <1>1, <1>3, <1>8, <2>2, SMTT(30) DEF FInv, InCall
  <2> QED  BY <1>7, <2>1, <2>2 DEF InCall
<1> QED  BY <1>4, <1>5, <1>6, <1>9 DEF FInv

\* Validate may create the file of a table or initialise it: rows may be lost,
\* none appear.
LEMMA ValidateOpenFInv ==
    ASSUME CInv, FInv, NEW p \in Clients, ValidateOpen(p)
    PROVE  FInv'
<1>1. PICK n \in Names : n = client[p].name
  BY DEF ValidateOpen, FInv, TableShape
<1>2. /\ UNCHANGED <<tables, catalog, handle>> /\ client[p].op = "Validate"
      /\ client' = [client EXCEPT ![p] = Idle]
      /\ openAs(n, initNew(n)) \/ openAs(n, openSegment(n))
  BY <1>1 DEF ValidateOpen, set
<1>3. Opened(n)
  BY <1>2, OpenAsFacts DEF FInv
<1>4. /\ \A q \in Clients \ {p} : client'[q] = client[q]
      /\ client'[p].op = "idle" /\ client'[p].h = 0
  BY <1>2, IdleFacts DEF CInv, Calls
<1>5. \A m \in Names : /\ rows(m)' = rows(m) \/ rows(m)' = {}
                       /\ persisted(m)' <=> persisted(m)
  BY <1>2, <1>3 DEF Opened, persisted
<1>6. TableShape'
  BY <1>2, <1>4, SMTT(30) DEF FInv, TableShape, IsSeq
<1>7. OpenFile'
  BY <1>2, <1>3, SMTT(30) DEF FInv, OpenFile, Opened, TableShape
<1>8. RowsOf'
  BY <1>2, <1>5 DEF FInv, RowsOf
<1>9. \A m \in DOMAIN tables' :
         persisted(m)' \/ \E q \in Clients : client'[q].op = "Create" /\ client'[q].name = m
  <2> SUFFICES ASSUME NEW m \in DOMAIN tables, ~persisted(m)
               PROVE  \E q \in Clients : client'[q].op = "Create" /\ client'[q].name = m
    BY <1>2, <1>5 DEF FInv, TableShape
  <2>1. PICK q \in Clients : client[q].op = "Create" /\ client[q].name = m
    BY DEF FInv, InCall
  <2> QED  BY <1>2, <1>4, <2>1
<1>10. \A q \in Clients : client'[q].op \in {"Create", "Drop"} =>
         q # p /\ client'[q] = client[q] /\ client[q].name \in Names
  BY <1>4 DEF FInv, TableShape
<1>11. InCall'
  <2>1. ASSUME NEW q \in Clients, client'[q].op = "Create"
        PROVE  /\ rows(client[q].name)' = {} /\ tables'[client'[q].name].h # 0
               /\ \A r \in Clients : client'[r].h # tables'[client'[q].name].h
    <3>1. /\ client[q].op = "Create" /\ client'[q] = client[q] /\ client[q].name \in Names
      BY <1>10, <2>1
    <3>2. /\ rows(client[q].name) = {} /\ tables[client[q].name].h # 0
          /\ \A r \in Clients : client[r].h # tables[client[q].name].h
      BY <3>1 DEF FInv, InCall
    <3>3. rows(client[q].name)' = {}
      BY <1>5, <3>1, <3>2
    <3> QED  BY <1>2, <1>4, <3>1, <3>2, <3>3
  <2>2. ASSUME NEW q \in Clients, client'[q].op = "Drop"
        PROVE  /\ client'[q].name \in DOMAIN tables' => tables'[client'[q].name].h = 0
               /\ client'[q].step # "heap" => rows(client[q].name)' = {}
    <3>1. /\ client[q].op = "Drop" /\ client'[q] = client[q] /\ client[q].name \in Names
      BY <1>10, <2>2
    <3>2. /\ client[q].name \in DOMAIN tables => tables[client[q].name].h = 0
          /\ client[q].step # "heap" => rows(client[q].name) = {}
      BY <3>1 DEF FInv, InCall
    <3>3. client[q].step # "heap" => rows(client[q].name)' = {}
      BY <1>5, <3>1, <3>2
    <3> QED  BY <1>2, <3>1, <3>2, <3>3
  <2> QED  BY <1>9, <2>1, <2>2 DEF InCall
<1> QED  BY <1>3, <1>6, <1>7, <1>8, <1>11 DEF FInv, Opened

\* After a crash every table is as the catalog has it, and closed.
LEMMA CrashFInv == ASSUME CInv, FInv, Crash PROVE FInv'
<1>1. /\ UNCHANGED <<catalog, dir, file>>
      /\ tables' = [n \in DOMAIN catalog |-> [table |-> catalog[n], h |-> 0]]
      /\ client' = [p \in Clients |-> Idle]
      /\ handle' = [h \in DOMAIN handle |-> [handle[h] EXCEPT !.fd = 0, !.indexed = FALSE,
                                                              !.ix = {}, !.dirty = FALSE]]
  BY DEF Crash, disk
<1>2. DOMAIN handle = 1..Len(handle) /\ Len(handle) \in Nat
  BY DEF FInv, TableShape, IsSeq
<1>3. IsSeq(handle') /\ Len(handle') = Len(handle)
  <2>1. handle' = [h \in 1..Len(handle) |-> handle'[h]]
    BY <1>1, <1>2
  <2> QED  BY <2>1, SameDomain DEF FInv, TableShape
<1>4. \A h \in 1..Len(handle) : DOMAIN handle'[h] = HandleFields
  BY <1>1, <1>2 DEF FInv, TableShape, HandleFields
<1>5. /\ DOMAIN tables' = DOMAIN catalog
      /\ \A n \in DOMAIN catalog : DOMAIN tables'[n] = {"table", "h"} /\ tables'[n].h = 0
                                   /\ tables'[n].table = catalog[n]
  BY <1>1
<1>6. \A p \in Clients : client'[p].op = "idle" /\ client'[p].h = 0
  BY <1>1, IdleFacts
<1>7. FileShape' /\ OneFile' /\ OpenFile'
  BY <1>1, <1>5 DEF FInv, FileShape, OneFile, OpenFile
<1>8. TableShape'
  <2>1. DOMAIN tables' \subseteq Names /\ DOMAIN catalog' \subseteq Names
    BY <1>1, <1>5 DEF FInv, TableShape
  <2> QED  BY <1>2, <1>3, <1>4, <1>5, <1>6, <2>1, SMTT(30) DEF TableShape
<1>9. \A n \in Names : rows(n)' = rows(n)
  BY <1>1 DEF rows
<1>10. \A n \in DOMAIN catalog : persisted(n)'
  BY <1>1, <1>5 DEF persisted
<1>11. RowsOf'
  BY <1>5, <1>9, <1>10 DEF FInv, RowsOf, persisted
<1>12. InCall'
  BY <1>5, <1>6, <1>10 DEF InCall
<1> QED  BY <1>7, <1>8, <1>11, <1>12 DEF FInv

\* Files, handles and catalog fit together in every orderly behaviour.
THEOREM DBFilesInvariant == Spec => [](orderly => FInv)
<1>1. ASSUME CInv, orderly => FInv, [Next]_vars PROVE (orderly => FInv)'
  <2>1. CASE UNCHANGED vars
    <3>1. orderly' <=> orderly
      BY <2>1 DEF vars, orderly, KeepHandles, Dotted
    <3>2. ASSUME FInv PROVE FInv'
      <4>1. UNCHANGED <<tables, catalog, dir, file, handle, client>>
        BY <2>1 DEF vars
      <4>2. FileShape' /\ TableShape' /\ OneFile' /\ OpenFile'
        BY <3>2, <4>1 DEF FInv, FileShape, TableShape, OneFile, OpenFile
      <4>3. RowsOf'
        BY <3>2, <4>1 DEF FInv, RowsOf, rows, persisted
      <4>4. InCall'
        BY <3>2, <4>1 DEF FInv, InCall, rows, persisted
      <4> QED  BY <4>2, <4>3, <4>4 DEF FInv
    <3> QED  BY <1>1, <3>1, <3>2
  <2>2. CASE Next
    <3>1. orderly' <=> orderly
      BY <2>2 DEF Next, orderly, KeepHandles, Dotted
    <3>2. ASSUME orderly, FInv PROVE FInv'
      BY <1>1, <2>2, <3>2, CreateTableFInv, CreatePersistFInv, CreateFailFInv, DropTableFInv,
         DropHeapFInv, DropIdxFInv, DropEndFInv, OpenTableFInv, CloseFInv, FlushFInv,
         InsertFInv, CreateIndexFInv, ValidateFInv, ValidateOpenFInv, CrashFInv DEF Next, Step
    <3> QED  BY <1>1, <3>1, <3>2
  <2> QED  BY <1>1, <2>1, <2>2
<1>2. Init => (orderly => FInv)
  BY InitFInv
<1> QED  BY <1>1, <1>2, DBCallsInvariant, PTL DEF Spec

\* No file that a crash, a call that failed halfway or an earlier table of the
\* same name left behind brings foreign rows into a table, for any goroutines,
\* names and bounds.
THEOREM DBOwnRows == Spec => []OwnRows
<1>1. (orderly => FInv) => OwnRows
  BY DEF FInv, RowsOf, TableShape, OwnRows
<1> QED  BY <1>1, DBFilesInvariant, PTL

----------------------------------------------------------------------------
\* IndexOfHeap

\* An index file has entries only while its table is in the catalog.  Once its
\* CreateTable has begun, and until its DropTable begins, the table has its heap
\* file, and the index file and the index in memory have entries of that only.
matched(n) ==
    /\ dir[n] # 0 /\ idx[n] \subseteq {dir[n]}
    /\ tables[n].h # 0 => handle[tables[n].h].ix \subseteq {dir[n]}

XInv ==
    /\ DOMAIN idx = Names
    /\ \A n \in Names : idx[n] = {} \/ persisted(n)
    /\ \A n \in created : matched(n)
    /\ \A p \in Clients : client[p].op = "Create" => idx[client[p].name] = {} /\ matched(client[p].name)

\* Init has no index file.
LEMMA InitXInv == Init => XInv
  BY IdleFacts DEF Init, XInv, Nothing

\* A saved index is the one of the table that is open under the name.
LEMMA CheckpointFacts ==
    ASSUME FInv, NEW hs, hs \subseteq open, idx' = checkpointed(hs)
    PROVE  /\ DOMAIN idx' = Names
           /\ \A n \in Names :
                 \/ idx'[n] = idx[n]
                 \/ /\ n \in DOMAIN tables /\ tables[n].h # 0 /\ tables[n].h \in hs
                    /\ idx'[n] \subseteq handle[tables[n].h].ix
<1>1. DOMAIN idx' = Names
  BY DEF checkpointed
<1>2. ASSUME NEW h \in hs, NEW n \in Names, handle[h].name = n
      PROVE  n \in DOMAIN tables /\ tables[n].h = h /\ h # 0
  <2>1. PICK m \in DOMAIN tables : tables[m].h = h /\ h # 0
    BY <1>2 DEF open
  <2> QED  BY <1>2, <2>1 DEF FInv, OpenFile
<1>3. ASSUME NEW n \in Names, idx'[n] # idx[n]
      PROVE  /\ n \in DOMAIN tables /\ tables[n].h # 0 /\ tables[n].h \in hs
             /\ idx'[n] \subseteq handle[tables[n].h].ix
  <2>1. /\ \E h \in hs : handle[h].name = n
        /\ idx'[n] = UNION {handle[h].ix : h \in {h \in hs : handle[h].name = n}}
    BY <1>3 DEF checkpointed
  <2>2. \A x \in idx'[n] : \E h \in hs : handle[h].name = n /\ x \in handle[h].ix
    BY <2>1
  <2> QED  BY <1>2, <2>1, <2>2
<1> QED  BY <1>1, <1>3

\* A new table gets a heap file and an index without entries.
LEMMA CreateTableXInv ==
    ASSUME CInv, FInv, XInv, NEW p \in Clients, NEW n \in Names, CreateTable(p, n)
    PROVE  XInv'
<1>1. /\ mu = Null /\ n \notin DOMAIN tables /\ UNCHANGED <<catalog, idx, created>>
      /\ OpenHeapFile(n, Len(handle) + 1, {})
      /\ client' = [client EXCEPT ![p] = [Idle EXCEPT !.op = "Create", !.step = "persist", !.name = n]]
      /\ tables' = with(n, [table |-> Len(handle'), h |-> Len(handle')])
  BY DEF CreateTable, lock, set
<1>2. /\ Opened(n) /\ \A h \in 1..Len(handle) : handle'[h] = handle[h]
      /\ handle'[Len(handle')].ix = {}
  BY <1>1, OpenHeapFacts DEF FInv
<1>3. /\ DOMAIN tables' = DOMAIN tables \cup {n} /\ tables'[n].h = Len(handle')
      /\ \A m \in DOMAIN tables : tables'[m] = tables[m]
  BY <1>1 DEF with
<1>4. \A q \in Clients : client'[q].op = "Create" => client'[q].name = n
  BY <1>1, DBAssumption DEF CInv, Calls, Idle
<1>5. idx[n] = {} /\ n \notin created
  BY <1>1 DEF XInv, persisted, CInv, Listed
<1>6. matched(n)'
  BY <1>1, <1>2, <1>3, <1>5 DEF matched, Opened
<1>7. ASSUME NEW m \in created  PROVE matched(m)'
  <2>1. /\ m \in DOMAIN tables /\ m \in Names \ {n} /\ matched(m) /\ dir'[m] = dir[m]
        /\ tables'[m] = tables[m] /\ tables[m].h \in 0..Len(handle) /\ Len(handle) \in Nat
    BY <1>2, <1>3, <1>5 DEF CInv, Listed, XInv, Opened, FInv, TableShape, IsSeq
  <2>2. tables[m].h # 0 => handle'[tables[m].h] = handle[tables[m].h]
    BY <1>2, <2>1, SMTT(30)
  <2> QED  BY <1>1, <2>1, <2>2 DEF matched
<1>8. \A m \in Names : idx'[m] = {} \/ persisted(m)'
  BY <1>1, <1>3 DEF XInv, persisted
<1> QED  BY <1>1, <1>4, <1>5, <1>6, <1>7, <1>8 DEF XInv

\* The table becomes one of the created ones.
LEMMA CreatePersistXInv ==
    ASSUME CInv, FInv, XInv, NEW p \in Clients, CreatePersist(p)
    PROVE  XInv'
<1>1. /\ client[p].op = "Create" /\ catalog' = [n \in DOMAIN tables |-> tables[n].table]
      /\ created' = created \cup {client[p].name}
      /\ client' = [client EXCEPT ![p] = [Idle EXCEPT !.h = tables[client[p].name].h]]
      /\ UNCHANGED <<tables, dir, file, idx, handle>> /\ mu = p
  BY DEF CreatePersist, in, unlock, set, saved, CInv, Calls
<1>2. \A q \in Clients : client'[q].op # "Create"
  BY <1>1 DEF CInv, Calls, Idle
<1>3. \A n \in created' : matched(n)'
  BY <1>1 DEF XInv, matched
<1>4. \A n \in Names : idx'[n] = {} \/ persisted(n)'
  BY <1>1 DEF XInv, persisted
<1> QED  BY <1>1, <1>2, <1>3, <1>4 DEF XInv

\* The table that could not be saved has no index file.
LEMMA CreateFailXInv ==
    ASSUME CInv, FInv, XInv, NEW p \in Clients, CreateFail(p)
    PROVE  XInv'
<1>0. PICK n : n = client[p].name
  OBVIOUS
<1>1. /\ client[p].op = "Create" /\ closeHeap({tables[n].h}) /\ mu = p
      /\ tables' = [m \in DOMAIN tables \ {n} |-> tables[m]]
      /\ client' = [client EXCEPT ![p] = Idle] /\ UNCHANGED <<catalog, dir, file, idx, created>>
  BY <1>0 DEF CreateFail, in, unlock, set, without, disk, CInv, Calls
<1>2. \A h \in 1..Len(handle) : handle'[h].ix = handle[h].ix
  BY <1>1, CloseHeapFacts DEF FInv
<1>3. \A q \in Clients : client'[q].op # "Create"
  BY <1>1, IdleFacts DEF CInv, Calls
<1>4. n \notin created /\ idx[n] = {}
  BY <1>0, <1>1 DEF CInv, Listed, XInv
<1>5. ASSUME NEW m \in created  PROVE matched(m)'
  <2>1. /\ m \in DOMAIN tables \ {n} /\ matched(m) /\ tables'[m] = tables[m]
        /\ tables[m].h \in 0..Len(handle) /\ Len(handle) \in Nat
    BY <1>1, <1>4 DEF CInv, Listed, XInv, FInv, TableShape, IsSeq
  <2>2. tables[m].h # 0 => handle'[tables[m].h].ix = handle[tables[m].h].ix
    BY <1>2, <2>1, SMTT(30)
  <2> QED  BY <1>1, <2>1, <2>2 DEF matched
<1>6. \A m \in Names : idx'[m] = {} \/ persisted(m)'
  BY <1>1, <1>4 DEF XInv, persisted
<1> QED  BY <1>1, <1>3, <1>5, <1>6 DEF XInv

\* The table that is dropped is no more one of the created ones.
LEMMA DropTableXInv ==
    ASSUME CInv, FInv, XInv, NEW p \in Clients, NEW n \in Names, DropTable(p, n)
    PROVE  XInv'
<1>1. /\ mu = Null /\ n \in DOMAIN tables /\ UNCHANGED <<catalog, dir>>
      /\ closeHeap({tables[n].h}) /\ idx' = checkpointed({tables[n].h} \ {0})
      /\ client' = [client EXCEPT ![p] = [Idle EXCEPT !.op = "Drop", !.step = "heap", !.name = n]]
      /\ tables' = [tables EXCEPT ![n].h = 0] /\ created' = created \ {n}
  BY DEF DropTable, lock, set
<1>2. \A h \in 1..Len(handle) : handle'[h].ix = handle[h].ix
  BY <1>1, CloseHeapFacts DEF FInv
<1>3. \A q \in Clients : client[q].op \notin {"Create", "Drop"} /\ client'[q].op # "Create"
  BY <1>1, DBAssumption DEF CInv, Calls, Idle
<1>4. /\ DOMAIN tables' = DOMAIN tables /\ tables'[n].table = tables[n].table
      /\ \A m \in DOMAIN tables \ {n} : tables'[m] = tables[m]
  BY <1>1 DEF FInv, TableShape
<1>5. \A m \in DOMAIN tables : persisted(m)'
  BY <1>1, <1>3, <1>4 DEF FInv, InCall, persisted
<1>6. {tables[n].h} \ {0} \subseteq open
  BY <1>1 DEF open
<1>7. /\ DOMAIN idx' = Names
      /\ \A m \in Names : idx'[m] = idx[m] \/ (m \in DOMAIN tables /\ tables[m].h = tables[n].h /\ tables[m].h # 0)
  <2>1. PICK hs : hs = {tables[n].h} \ {0}
    OBVIOUS
  <2>2. hs \subseteq open /\ idx' = checkpointed(hs)
    BY <1>1, <1>6, <2>1
  <2>3. /\ DOMAIN idx' = Names
        /\ \A m \in Names : idx'[m] = idx[m] \/ (m \in DOMAIN tables /\ tables[m].h # 0 /\ tables[m].h \in hs)
    BY <2>2, CheckpointFacts
  <2> QED  BY <2>1, <2>3
<1>8. ASSUME NEW m \in Names \ {n}  PROVE idx'[m] = idx[m]
  <2> SUFFICES ASSUME m \in DOMAIN tables, tables[m].h = tables[n].h, tables[m].h # 0  PROVE FALSE
    BY <1>7
  <2>1. handle[tables[m].h].name = m /\ handle[tables[n].h].name = n
    BY <1>1 DEF FInv, OpenFile
  <2> QED  BY <2>1
<1>9. ASSUME NEW m \in created'  PROVE matched(m)'
  <2>1. /\ m \in DOMAIN tables \ {n} /\ m \in Names /\ matched(m) /\ tables'[m] = tables[m]
        /\ tables[m].h \in 0..Len(handle) /\ Len(handle) \in Nat
    BY <1>1, <1>4, <1>9 DEF CInv, Listed, XInv, FInv, TableShape, IsSeq
  <2>2. tables[m].h # 0 => handle'[tables[m].h].ix = handle[tables[m].h].ix
    BY <1>2, <2>1, SMTT(30)
  <2> QED  BY <1>1, <1>8, <2>1, <2>2 DEF matched
<1>10. \A m \in Names : idx'[m] = {} \/ persisted(m)'
  BY <1>1, <1>5, <1>8 DEF XInv, persisted
<1> QED  BY <1>3, <1>7, <1>9, <1>10 DEF XInv

\* Only the files of the table that is dropped are removed.
LEMMA DropHeapXInv ==
    ASSUME CInv, FInv, XInv, orderly, NEW p \in Clients, DropHeap(p)
    PROVE  XInv'
<1>0. PICK n \in Names : n = client[p].name
  BY DEF DropHeap, in, FInv, TableShape
<1>1. /\ client[p].op = "Drop" /\ mu = p /\ UNCHANGED <<tables, catalog, idx, handle, created>>
      /\ dir' = dir \/ dir' = [dir EXCEPT ![n] = 0]
      /\ client' = client \/ client' = [client EXCEPT ![p] = [client[p] EXCEPT !.step = "idx"]]
  BY <1>0 DEF DropHeap, in, set, matches, orderly, CInv, Calls
<1>2. \A q \in Clients : client'[q].op # "Create"
  BY <1>1 DEF CInv, Calls, CallFields
<1>3. n \notin created /\ \A m \in Names \ {n} : dir'[m] = dir[m]
  BY <1>0, <1>1 DEF CInv, Listed, FInv, FileShape
<1>4. \A m \in created : m \in Names \ {n}
  BY <1>3 DEF CInv, Listed, FInv, TableShape
<1>5. \A m \in created : matched(m)'
  BY <1>1, <1>3, <1>4 DEF XInv, matched
<1>6. \A m \in Names : idx'[m] = {} \/ persisted(m)'
  BY <1>1 DEF XInv, persisted
<1> QED  BY <1>1, <1>2, <1>5, <1>6 DEF XInv

\* The table is forgotten when its index file is gone.
LEMMA DropIdxXInv ==
    ASSUME CInv, FInv, XInv, orderly, NEW p \in Clients, DropIdx(p)
    PROVE  XInv'
<1>0. PICK n \in Names : n = client[p].name
  BY DEF DropIdx, in, FInv, TableShape
<1>1. /\ client[p].op = "Drop" /\ mu = p /\ UNCHANGED <<catalog, dir, handle, created>>
      /\ \/ /\ idx[n] = {} /\ idx' = idx /\ tables' = [m \in DOMAIN tables \ {n} |-> tables[m]]
            /\ client' = [client EXCEPT ![p] = [client[p] EXCEPT !.step = "persist"]]
         \/ idx' = [idx EXCEPT ![n] = {}] /\ UNCHANGED <<client, tables>>
  BY <1>0 DEF DropIdx, in, set, matches, without, orderly, CInv, Calls
<1>2. \A q \in Clients : client'[q].op # "Create"
  BY <1>1 DEF CInv, Calls, CallFields
<1>3. /\ DOMAIN idx' = Names /\ idx'[n] = {}
      /\ \A m \in Names \ {n} : idx'[m] = idx[m]
  BY <1>1 DEF XInv
<1>4. \A m \in DOMAIN tables \ {n} : m \in DOMAIN tables' /\ tables'[m] = tables[m]
  BY <1>1
<1>5. \A m \in created : m \in DOMAIN tables \ {n} /\ m \in Names
  BY <1>0, <1>1 DEF CInv, Listed, FInv, TableShape
<1>6. \A m \in created : matched(m)'
  BY <1>1, <1>3, <1>4, <1>5 DEF XInv, matched
<1>7. \A m \in Names : idx'[m] = {} \/ persisted(m)'
  BY <1>1, <1>3, <1>4 DEF XInv, persisted
<1> QED  BY <1>1, <1>2, <1>3, <1>6, <1>7 DEF XInv

\* A table that is not in memory any more has no index file.
LEMMA DropEndXInv ==
    ASSUME CInv, FInv, XInv, NEW p \in Clients, DropPersist(p) \/ DropFail(p)
    PROVE  XInv'
<1>1. /\ client[p].op = "Drop" /\ mu = p /\ UNCHANGED <<tables, dir, idx, handle, created>>
      /\ catalog' = catalog \/ catalog' = [n \in DOMAIN tables |-> tables[n].table]
      /\ client' = [client EXCEPT ![p] = Idle]
  BY DEF DropPersist, DropFail, in, unlock, set, saved, disk, CInv, Calls
<1>2. \A q \in Clients : client'[q].op # "Create"
  BY <1>1, IdleFacts DEF CInv, Calls
<1>3. \A m \in created : matched(m)'
  BY <1>1 DEF XInv, matched
<1>4. \A m \in Names : idx'[m] = {} \/ persisted(m)'
  BY <1>1 DEF XInv, persisted
<1> QED  BY <1>1, <1>2, <1>3, <1>4 DEF XInv

\* A table is opened with the index of its file.
LEMMA OpenTableXInv ==
    ASSUME CInv, FInv, XInv, NEW p \in Clients, NEW n \in Names, OpenTable(p, n)
    PROVE  XInv'
<1>1. /\ mu = Null /\ n \in DOMAIN tables /\ UNCHANGED <<catalog, idx, created>>
      /\ client' = [client EXCEPT ![p] = [Idle EXCEPT !.h = tables'[n].h]]
  BY DEF OpenTable, set
<1>2. \A q \in Clients : client'[q].op # "Create"
  BY <1>1, DBAssumption DEF CInv, Calls, Idle
<1>3. CASE UNCHANGED <<tables, dir, file, handle>>
  BY <1>1, <1>2, <1>3 DEF XInv, matched, persisted
<1>4. CASE /\ tables[n].h = 0
           /\ OpenHeapFile(n, tables[n].table, idx[n])
           /\ tables' = [tables EXCEPT ![n].h = Len(handle')]
  <2>1. /\ Opened(n) /\ \A h \in 1..Len(handle) : handle'[h] = handle[h]
        /\ handle'[Len(handle')].ix = idx[n]
    BY <1>4, OpenHeapFacts DEF FInv
  <2>2. /\ DOMAIN tables' = DOMAIN tables
        /\ \A m \in DOMAIN tables \ {n} : tables'[m] = tables[m]
        /\ tables'[n].h = Len(handle') /\ tables'[n].table = tables[n].table
    BY <1>1, <1>4 DEF FInv, TableShape
  <2>3. ASSUME NEW m \in created, m # n  PROVE matched(m)'
    <3>1. /\ m \in DOMAIN tables /\ m \in Names \ {n} /\ matched(m) /\ dir'[m] = dir[m]
          /\ tables'[m] = tables[m] /\ tables[m].h \in 0..Len(handle) /\ Len(handle) \in Nat
      BY <2>1, <2>2, <2>3 DEF CInv, Listed, XInv, Opened, FInv, TableShape, IsSeq
    <3>2. tables[m].h # 0 => handle'[tables[m].h] = handle[tables[m].h]
      BY <2>1, <3>1, SMTT(30)
    <3> QED  BY <1>1, <3>1, <3>2 DEF matched
  <2>4. ASSUME n \in created  PROVE matched(n)'
    BY <1>1, <2>1, <2>2, <2>4 DEF XInv, matched, Opened
  <2>5. \A m \in Names : idx'[m] = {} \/ persisted(m)'
    BY <1>1, <2>2 DEF XInv, persisted
  <2> QED  BY <1>1, <1>2, <2>3, <2>4, <2>5 DEF XInv
<1> QED  BY <1>3, <1>4 DEF OpenTable

\* Close and Flush save the indexes of the open tables.
LEMMA SaveXInv ==
    ASSUME CInv, FInv, XInv, NEW p \in Clients, Close(p) \/ Flush(p)
    PROVE  XInv'
<1>1. /\ mu = Null /\ idx' = checkpointed(open) /\ UNCHANGED <<catalog, dir, client, created>>
      /\ DOMAIN tables' = DOMAIN tables
      /\ \A n \in DOMAIN tables : tables'[n].table = tables[n].table /\ tables'[n].h \in {0, tables[n].h}
  BY DEF Close, Flush, FInv, TableShape
<1>2. \A h \in 1..Len(handle) : handle'[h].ix = handle[h].ix
  <2>1. CASE Close(p)
    BY <2>1, CloseHeapFacts DEF Close, FInv
  <2>2. CASE Flush(p)
    <3>1. handle' = [h \in DOMAIN handle |->
                       IF h \in open THEN [handle[h] EXCEPT !.dirty = FALSE] ELSE handle[h]]
      BY <2>2 DEF Flush
    <3>2. DOMAIN handle = 1..Len(handle) /\ \A h \in 1..Len(handle) : DOMAIN handle[h] = HandleFields
      BY DEF FInv, TableShape, IsSeq
    <3> QED  BY <3>1, <3>2 DEF HandleFields
  <2> QED  BY <2>1, <2>2
<1>3. \A q \in Clients : client[q].op \notin {"Create", "Drop"}
  BY <1>1, DBAssumption DEF CInv, Calls
<1>4. \A n \in DOMAIN tables : persisted(n)'
  BY <1>1, <1>3 DEF FInv, InCall, persisted
<1>5. /\ DOMAIN idx' = Names
      /\ \A n \in Names : \/ idx'[n] = idx[n]
                           \/ /\ n \in DOMAIN tables /\ tables[n].h # 0
                              /\ idx'[n] \subseteq handle[tables[n].h].ix
  BY <1>1, CheckpointFacts
<1>6. ASSUME NEW m \in created  PROVE matched(m)'
  <2>1. /\ m \in DOMAIN tables /\ m \in Names /\ matched(m) /\ tables'[m].h \in {0, tables[m].h}
        /\ tables[m].h \in 0..Len(handle) /\ Len(handle) \in Nat
    BY <1>1 DEF CInv, Listed, XInv, FInv, TableShape, IsSeq
  <2>2. tables[m].h # 0 => handle'[tables[m].h].ix = handle[tables[m].h].ix
    BY <1>2, <2>1, SMTT(30)
  <2> QED  BY <1>1, <1>5, <2>1, <2>2 DEF matched
<1>7. \A n \in Names : idx'[n] = {} \/ persisted(n)'
  BY <1>1, <1>4, <1>5 DEF XInv, persisted
<1> QED  BY <1>1, <1>3, <1>5, <1>6, <1>7 DEF XInv

\* A row is entered in the index under the file it is in.
LEMMA InsertXInv ==
    ASSUME CInv, FInv, XInv, orderly, NEW p \in Clients, Insert(p)
    PROVE  XInv'
<1>0. usable(p) /\ UNCHANGED <<tables, catalog, idx, client, created>>
  BY DEF Insert
<1>1. PICK n \in DOMAIN tables :
              /\ client[p].h = tables[n].h /\ client[p].h \in 1..Len(handle)
              /\ handle[client[p].h].name = n
              /\ handle[client[p].h].fd = dir[n] /\ dir[n] \in 1..Len(file)
  BY <1>0, UsableFacts
<1>2. PICK h : h = client[p].h
  OBVIOUS
<1>3. Len(file) \in Nat /\ Len(handle) \in Nat /\ DOMAIN handle = 1..Len(handle)
  BY DEF FInv, FileShape, TableShape, IsSeq
<1>4. handle[h].fd = dir[n] /\ dir[n] # 0 /\ h \in 1..Len(handle) /\ DOMAIN handle[h] = HandleFields
  BY <1>1, <1>2, <1>3, SMTT(30) DEF FInv, TableShape
<1>5. /\ UNCHANGED dir
      /\ \/ handle' = handle
         \/ handle' = [handle EXCEPT ![h].fd = dir[n],
                                     ![h].dirty = @ \/ handle[h].indexed,
                                     ![h].ix = IF handle[h].indexed THEN @ \cup {dir[n]} ELSE @]
  BY <1>1, <1>2, <1>4 DEF Insert, segment
<1>6. /\ \A i \in 1..Len(handle) : i # h => handle'[i] = handle[i]
      /\ handle'[h].ix \subseteq handle[h].ix \cup {dir[n]}
  BY <1>3, <1>4, <1>5, SMTT(30) DEF HandleFields
<1>7. ASSUME NEW m \in DOMAIN tables, matched(m)  PROVE matched(m)'
  <2>1. tables[m].h = h => m = n
    <3>1. tables[m].h # 0 => handle[tables[m].h].name = m
      BY DEF FInv, OpenFile
    <3> QED  BY <1>1, <1>2, <1>3, <3>1, SMTT(30)
  <2>2. tables[m].h \in 0..Len(handle)
    BY DEF FInv, TableShape
  <2> QED  BY <1>0, <1>3, <1>5, <1>6, <1>7, <2>1, <2>2, SMTT(30) DEF matched
<1>8. /\ created \subseteq DOMAIN tables
      /\ \A q \in Clients : client[q].op = "Create" => client[q].name \in DOMAIN tables
  BY DEF CInv, Listed
<1>9. \A m \in Names : idx'[m] = {} \/ persisted(m)'
  BY <1>0 DEF XInv, persisted
<1>10. ASSUME NEW q \in Clients, client'[q].op = "Create"
       PROVE  idx'[client'[q].name] = {} /\ matched(client[q].name)'
  BY <1>0, <1>7, <1>8, <1>10 DEF XInv
<1> QED  BY <1>0, <1>7, <1>8, <1>9, <1>10 DEF XInv

\* The new index is that of the table's own file.
LEMMA CreateIndexXInv ==
    ASSUME CInv, FInv, XInv, orderly, NEW p \in Clients, CreateIndex(p)
    PROVE  XInv'
<1>0. usable(p) /\ UNCHANGED <<tables, catalog, client, created>>
  BY DEF CreateIndex
<1>1. PICK n \in DOMAIN tables :
              /\ persisted(n) /\ client[p].h = tables[n].h /\ client[p].h \in 1..Len(handle)
              /\ handle[client[p].h].name = n
              /\ handle[client[p].h].fd = dir[n] /\ dir[n] \in 1..Len(file)
              /\ \A q \in Clients : client[q].op \in {"Create", "Drop"} => client[q].name # n
  BY <1>0, UsableFacts
<1>2. PICK h : h = client[p].h
  OBVIOUS
<1>3. Len(file) \in Nat /\ Len(handle) \in Nat /\ DOMAIN handle = 1..Len(handle)
  BY DEF FInv, FileShape, TableShape, IsSeq
<1>4. /\ handle[h].fd = dir[n] /\ dir[n] # 0 /\ h \in 1..Len(handle) /\ DOMAIN handle[h] = HandleFields
      /\ handle[h].name = n /\ n \in Names
  BY <1>1, <1>2, <1>3, SMTT(30) DEF FInv, TableShape
<1>5. PICK ix : /\ ix \subseteq idx[n] \cup {dir[n]} /\ UNCHANGED dir
                /\ \/ handle' = handle /\ idx' = idx
                   \/ /\ handle' = [handle EXCEPT ![h].fd = dir[n], ![h].indexed = TRUE, ![h].ix = ix]
                      /\ idx' = [idx EXCEPT ![n] = ix]
  <2>1. CASE ~readable(h)
    BY <1>2, <1>4, <2>1 DEF CreateIndex, segment
  <2>2. CASE readable(h)
    <3> DEFINE ix == idx[n] \cup (IF file[dir[n]].rows = {} THEN {} ELSE {dir[n]})
    <3>1. /\ handle' = [handle EXCEPT ![h].fd = dir[n], ![h].indexed = TRUE, ![h].ix = ix]
          /\ idx' = [idx EXCEPT ![n] = ix] /\ UNCHANGED dir
      <4>1. handle[client[p].h].fd = dir[n] /\ handle[client[p].h].name = n /\ readable(client[p].h)
        BY <1>2, <1>4, <2>2
      <4> QED  BY <1>2, <1>4, <4>1 DEF CreateIndex
    <3>2. ix \subseteq idx[n] \cup {dir[n]}
      OBVIOUS
    <3> HIDE DEF ix
    <3> QED  BY <3>1, <3>2
  <2> QED  BY <2>1, <2>2
<1>6. /\ DOMAIN idx' = Names /\ \A m \in Names \ {n} : idx'[m] = idx[m]
      /\ idx'[n] \subseteq idx[n] \cup {dir[n]}
      /\ \A i \in 1..Len(handle) : i # h => handle'[i] = handle[i]
      /\ handle'[h].ix \subseteq handle[h].ix \cup idx[n] \cup {dir[n]}
  BY <1>3, <1>4, <1>5, SMTT(30) DEF XInv, HandleFields
<1>7. ASSUME NEW m \in DOMAIN tables, matched(m)  PROVE matched(m)'
  <2>1. tables[m].h = h => m = n
    <3>1. tables[m].h # 0 => handle[tables[m].h].name = m
      BY DEF FInv, OpenFile
    <3> QED  BY <1>1, <1>2, <1>3, <3>1, SMTT(30)
  <2>2. tables[m].h \in 0..Len(handle) /\ m \in Names
    BY DEF FInv, TableShape
  <2> QED  BY <1>0, <1>1, <1>2, <1>3, <1>5, <1>6, <1>7, <2>1, <2>2, SMTT(30) DEF matched
<1>8. /\ created \subseteq DOMAIN tables
      /\ \A q \in Clients : client[q].op = "Create" => client[q].name \in DOMAIN tables \ {n}
  BY <1>1 DEF CInv, Listed
<1>9. \A m \in Names : idx'[m] = {} \/ persisted(m)'
  BY <1>0, <1>1, <1>6 DEF XInv, persisted
<1>10. ASSUME NEW q \in Clients, client'[q].op = "Create"
       PROVE  idx'[client'[q].name] = {} /\ matched(client[q].name)'
  BY <1>0, <1>6, <1>7, <1>8, <1>10 DEF XInv, FInv, TableShape
<1> QED  BY <1>0, <1>6, <1>7, <1>8, <1>9, <1>10 DEF XInv

\* Validate changes no index file, and gives a file only to a name without one.
LEMMA ValidateXInv ==
    ASSUME CInv, FInv, XInv, NEW p \in Clients,
           ValidateStat(p) \/ ValidateOpen(p) \/ \E n \in Names : ValidateList(p, n)
    PROVE  XInv'
<1>1. UNCHANGED <<tables, catalog, idx, handle, created>>
  BY DEF ValidateStat, ValidateOpen, ValidateList, disk
<1>2. \A n \in Names : dir[n] # 0 => dir'[n] = dir[n]
  <2>1. CASE ValidateOpen(p)
    <3>1. PICK n \in Names : n = client[p].name
      BY <2>1 DEF ValidateOpen, FInv, TableShape
    <3>2. openAs(n, initNew(n)) \/ openAs(n, openSegment(n))
      BY <2>1, <3>1 DEF ValidateOpen
    <3>3. Opened(n)
      BY <3>2, OpenAsFacts DEF FInv
    <3> QED  BY <3>3 DEF Opened
  <2> QED  BY <2>1 DEF ValidateStat, ValidateList, disk
<1>3. \A q \in Clients \ {p} : client'[q] = client[q]
  BY DEF ValidateStat, ValidateOpen, ValidateList, set, CInv, Calls
<1>4. client'[p].op # "Create"
  <2>1. CASE ValidateOpen(p)
    BY <2>1, IdleFacts DEF ValidateOpen, set, CInv, Calls
  <2>2. CASE ValidateStat(p)
    BY <2>2 DEF ValidateStat, in, set, CInv, Calls, CallFields
  <2>3. CASE \E n \in Names : ValidateList(p, n)
    BY <2>3 DEF ValidateList, set, CInv, Calls, Idle
  <2> QED  BY <2>1, <2>2, <2>3
<1>5. \A n \in Names : matched(n) => matched(n)'
  BY <1>1, <1>2 DEF matched
<1>6. /\ created \subseteq Names
      /\ \A q \in Clients : client[q].op = "Create" => client[q].name \in Names
  BY DEF CInv, Listed, FInv, TableShape
<1>7. \A n \in Names : idx'[n] = {} \/ persisted(n)'
  BY <1>1 DEF XInv, persisted
<1>8. ASSUME NEW q \in Clients, client'[q].op = "Create"
      PROVE  idx'[client'[q].name] = {} /\ matched(client[q].name)' /\ client'[q] = client[q]
  BY <1>1, <1>3, <1>4, <1>5, <1>6, <1>8 DEF XInv
<1> QED  BY <1>1, <1>5, <1>6, <1>7, <1>8 DEF XInv

\* After a crash no index is in memory, and every table is as the catalog has it.
LEMMA CrashXInv == ASSUME CInv, FInv, XInv, Crash PROVE XInv'
<1>1. /\ UNCHANGED <<catalog, dir, idx, created>>
      /\ tables' = [n \in DOMAIN catalog |-> [table |-> catalog[n], h |-> 0]]
      /\ client' = [p \in Clients |-> Idle]
  BY DEF Crash, disk
<1>2. \A n \in created : n \in DOMAIN tables' /\ tables'[n].h = 0
  BY <1>1 DEF CInv, Listed
<1>3. \A n \in created : matched(n)'
  BY <1>1, <1>2 DEF XInv, matched
<1>4. \A n \in Names : idx'[n] = {} \/ persisted(n)'
  BY <1>1 DEF XInv, persisted
<1> QED  BY <1>1, <1>3, <1>4, IdleFacts DEF XInv

\* Index files and heap files fit together in every orderly behaviour.
THEOREM DBIndexesInvariant == Spec => [](orderly => XInv)
<1>1. ASSUME CInv, orderly => FInv, orderly => XInv, [Next]_vars PROVE (orderly => XInv)'
  <2>1. CASE UNCHANGED vars
    <3>1. UNCHANGED <<use, tables, catalog, dir, idx, handle, client, created>>
      BY <2>1 DEF vars
    <3>2. orderly' <=> orderly
      BY <3>1 DEF orderly, KeepHandles, Dotted
    <3>3. XInv => XInv'
      BY <3>1 DEF XInv, matched, persisted
    <3> QED  BY <1>1, <3>2, <3>3
  <2>2. CASE Next
    <3>1. orderly' <=> orderly
      BY <2>2 DEF Next, orderly, KeepHandles, Dotted
    <3>2. ASSUME orderly, FInv, XInv PROVE XInv'
      BY <1>1, <2>2, <3>2, CreateTableXInv, CreatePersistXInv, CreateFailXInv, DropTableXInv,
         DropHeapXInv, DropIdxXInv, DropEndXInv, OpenTableXInv, SaveXInv,
         InsertXInv, CreateIndexXInv, ValidateXInv, CrashXInv DEF Next, Step
    <3> QED  BY <1>1, <3>1, <3>2
  <2> QED  BY <1>1, <2>1, <2>2
<1>2. Init => (orderly => XInv)
  BY InitXInv
<1> QED  BY <1>1, <1>2, DBCallsInvariant, DBFilesInvariant, PTL DEF Spec

\* OpenTable attaches to a created table only the index of its own heap file,
\* whatever earlier tables of its name, crashes and failed calls left behind.
THEOREM DBIndexOfHeap == Spec => []IndexOfHeap
<1>1. (orderly => XInv) => IndexOfHeap
  BY DEF XInv, matched, IndexOfHeap
<1> QED  BY <1>1, DBIndexesInvariant, PTL

----------------------------------------------------------------------------
\* RowsKept

\* A heap file that is not initialised has no rows, so that initialising it
\* loses none; Validate is only under way where it is called.
BInv ==
    /\ \A f \in 1..Len(file) : ~file[f].init => file[f].rows = {}
    /\ \A p \in Clients : client[p].op = "Validate" => "Validate" \in Ops

\* OpenHeapFile initialises only a heap without rows.
LEMMA OpenHeapKeeps ==
    ASSUME FInv, BInv, NEW n \in Names, NEW t, NEW ix, OpenHeapFile(n, t, ix)
    PROVE  \A m \in Names : rows(m) \subseteq rows(m)'
<1>1. Opened(n)
  BY OpenHeapFacts DEF FInv
<1>2. CASE isNew(n)
  <2>1. rows(n) = {}
    BY <1>2, SMTT(30) DEF isNew, rows, BInv, FInv, FileShape
  <2> QED  BY <1>1, <2>1 DEF Opened
<1>3. CASE ~isNew(n)
  <2>1. file' = file /\ dir'[n] = dir[n]
    BY <1>3 DEF OpenHeapFile, openAs, isNew, opened, FInv, FileShape
  <2>2. rows(n)' = rows(n)
    BY <2>1 DEF rows
  <2> QED  BY <1>1, <2>2 DEF Opened
<1> QED  BY <1>2, <1>3

\* Insert adds a row to an initialised heap.
LEMMA InsertKeeps ==
    ASSUME FInv, BInv, orderly, NEW p \in Clients, Insert(p)
    PROVE  /\ dir' = dir /\ Len(file') = Len(file)
           /\ \A f \in 1..Len(file) : /\ file[f].rows \subseteq file'[f].rows
                                      /\ ~file'[f].init => file'[f] = file[f]
<1>0. usable(p)
  BY DEF Insert
<1>1. PICK n \in DOMAIN tables : handle[client[p].h].fd = dir[n] /\ dir[n] \in 1..Len(file)
  BY <1>0, UsableFacts
<1>2. PICK h : h = client[p].h
  OBVIOUS
<1>3. Len(file) \in Nat /\ DOMAIN file = 1..Len(file) /\ dir[n] # 0 /\ DOMAIN file[dir[n]] = {"init", "rows"}
  BY <1>1, SMTT(30) DEF FInv, FileShape, IsSeq
<1>4. PICK r : \/ UNCHANGED <<dir, file>>
               \/ /\ file' = [file EXCEPT ![dir[n]].rows = @ \cup {r}]
                  /\ UNCHANGED dir /\ file[dir[n]].init
  BY <1>1, <1>2, <1>3 DEF Insert, segment, readable
<1>5. CASE UNCHANGED <<dir, file>>
  BY <1>5
<1>6. CASE file' = [file EXCEPT ![dir[n]].rows = @ \cup {r}] /\ UNCHANGED dir /\ file[dir[n]].init
  <2>1. /\ file' = [f \in 1..Len(file) |-> file'[f]]
        /\ \A f \in 1..Len(file) : f # dir[n] => file'[f] = file[f]
        /\ file'[dir[n]].init = file[dir[n]].init
        /\ file'[dir[n]].rows = file[dir[n]].rows \cup {r}
    BY <1>1, <1>3, <1>6
  <2>2. Len(file') = Len(file)
    BY <2>1, SameDomain DEF FInv, FileShape
  <2> QED  BY <1>6, <2>1, <2>2
<1> QED  BY <1>4, <1>5, <1>6

\* The steps that open a heap file.
LEMMA OpensBlank ==
    ASSUME BInv, NEW n, Opened(n)
    PROVE  \A f \in 1..Len(file') : ~file'[f].init => file'[f].rows = {}
  BY DEF BInv, Opened

\* The steps that open no heap file and store no row.
Calm(p) == \/ CreatePersist(p) \/ CreateFail(p)
           \/ DropIdx(p) \/ DropPersist(p) \/ DropFail(p)
           \/ Close(p) \/ Flush(p) \/ CreateIndex(p) \/ ValidateStat(p)
           \/ \E n \in Names : DropTable(p, n) \/ ValidateList(p, n)

\* They leave the heap files alone.
LEMMA CalmFiles ==
    ASSUME FInv, orderly, NEW p \in Clients, Calm(p)
    PROVE  UNCHANGED <<dir, file>>
<1>1. CASE CreateIndex(p)
  <2>1. handle[client[p].h].fd # 0
    <3>1. PICK n \in DOMAIN tables : handle[client[p].h].fd = dir[n] /\ dir[n] \in 1..Len(file)
      BY <1>1, UsableFacts DEF CreateIndex
    <3> QED  BY <3>1, SMTT(30)
  <2> QED  BY <1>1, <2>1 DEF CreateIndex, segment
<1> QED  BY <1>1 DEF Calm, CreatePersist, CreateFail, DropIdx, DropPersist, DropFail, Close, Flush,
              ValidateStat, DropTable, ValidateList, disk

\* The operation of the calls that start from Idle.
LEMMA CallOps ==
    /\ \A op, step, n : [Idle EXCEPT !.op = op, !.step = step, !.name = n].op = op
    /\ \A h : [Idle EXCEPT !.h = h].op = "idle"
    /\ Idle.op = "idle"
  BY DEF Idle

\* A goroutine starts Validate only where it is called.
LEMMA ValidateCalled ==
    ASSUME CInv, BInv, Next, NEW q \in Clients, client'[q].op = "Validate"
    PROVE  "Validate" \in Ops'
<1>1. Ops' = Ops /\ DOMAIN client = Clients /\ \A p \in Clients : DOMAIN client[p] = CallFields
  BY DEF Next, Ops, CInv, Calls
<1> SUFFICES ASSUME client[q].op # "Validate"  PROVE "Validate" \in Ops
  BY <1>1 DEF BInv
<1>2. ASSUME NEW p \in Clients, NEW c, set(p, c), c.op = "Validate" => client[p].op = "Validate"
      PROVE  FALSE
  BY <1>1, <1>2 DEF set
<1>3. ASSUME NEW p \in Clients, NEW n \in Names, ValidateList(p, n)  PROVE "Validate" \in Ops
  BY <1>3 DEF ValidateList, idle
<1>4. ASSUME NEW p \in Clients, NEW n \in Names, CreateTable(p, n) \/ DropTable(p, n) \/ OpenTable(p, n)
      PROVE  FALSE
  <2>1. PICK c : set(p, c) /\ c.op # "Validate"
    <3>1. ASSUME NEW op, NEW step, op # "Validate", lock(p, op, step, n)
          PROVE  \E c : set(p, c) /\ c.op # "Validate"
      <4>1. set(p, [Idle EXCEPT !.op = op, !.step = step, !.name = n])
        BY <3>1 DEF lock
      <4>2. [Idle EXCEPT !.op = op, !.step = step, !.name = n].op # "Validate"
        BY <3>1, CallOps, SMTT(30)
      <4> QED  BY <4>1, <4>2
    <3>2. CASE OpenTable(p, n)
      <4>1. set(p, [Idle EXCEPT !.h = tables'[n].h])
        BY <3>2 DEF OpenTable
      <4>2. [Idle EXCEPT !.h = tables'[n].h].op # "Validate"
        BY CallOps
      <4> QED  BY <4>1, <4>2
    <3> QED  BY <1>4, <3>1, <3>2 DEF CreateTable, DropTable
  <2> QED  BY <1>2, <2>1
<1>5. ASSUME NEW p \in Clients, CreatePersist(p) \/ CreateFail(p) \/ DropPersist(p) \/ DropFail(p)
                                 \/ ValidateOpen(p)
      PROVE  FALSE
  <2>1. PICK c : set(p, c) /\ c.op = "idle"
    <3>1. set(p, Idle) \/ set(p, [Idle EXCEPT !.h = tables[client[p].name].h])
      BY <1>5 DEF CreatePersist, CreateFail, DropPersist, DropFail, ValidateOpen, unlock
    <3>2. CASE set(p, Idle)
      BY <3>2, CallOps
    <3>3. CASE set(p, [Idle EXCEPT !.h = tables[client[p].name].h])
      <4>1. [Idle EXCEPT !.h = tables[client[p].name].h].op = "idle"
        BY CallOps
      <4> QED  BY <3>3, <4>1
    <3> QED  BY <3>1, <3>2, <3>3
  <2> QED  BY <1>2, <2>1
<1>6. ASSUME NEW p \in Clients, DropHeap(p) \/ DropIdx(p) \/ ValidateStat(p)
      PROVE  FALSE
  <2>1. client' = client \/ \E c : set(p, c) /\ c.op = client[p].op
    BY <1>1, <1>6, SMTT(30) DEF DropHeap, DropIdx, ValidateStat, CallFields
  <2> QED  BY <1>2, <2>1
<1>7. ASSUME NEW p \in Clients, Close(p) \/ Flush(p) \/ Insert(p) \/ CreateIndex(p)
      PROVE  FALSE
  BY <1>7 DEF Close, Flush, Insert, CreateIndex
<1>8. ~Crash
  BY IdleFacts DEF Crash
<1> QED  BY <1>3, <1>4, <1>5, <1>6, <1>7, <1>8 DEF Next, Step

\* Initialising a heap loses no row.
LEMMA StepBInv == ASSUME CInv, orderly, FInv, BInv, Next PROVE BInv'
<1>1. \A p \in Clients : client'[p].op = "Validate" => "Validate" \in Ops'
  BY ValidateCalled
<1>2. ASSUME NEW p \in Clients, NEW n \in Names, CreateTable(p, n) \/ OpenTable(p, n)
      PROVE  UNCHANGED file \/ Opened(n)
  <2>1. UNCHANGED file \/ \E t, ix : OpenHeapFile(n, t, ix)
    BY <1>2 DEF CreateTable, OpenTable
  <2> QED  BY <2>1, OpenHeapFacts DEF FInv
<1>3. ASSUME NEW p \in Clients, ValidateOpen(p)  PROVE \E n : Opened(n)
  <2>1. PICK n \in Names : n = client[p].name
    BY <1>3 DEF ValidateOpen, FInv, TableShape
  <2>2. openAs(n, initNew(n)) \/ openAs(n, openSegment(n))
    BY <1>3, <2>1 DEF ValidateOpen
  <2> QED  BY <2>2, OpenAsFacts DEF FInv
<1>4. ASSUME NEW p \in Clients, Insert(p)
      PROVE  \A f \in 1..Len(file') : ~file'[f].init => file'[f].rows = {}
  BY <1>4, InsertKeeps DEF BInv
<1>5. ASSUME NEW p \in Clients, DropHeap(p)  PROVE UNCHANGED file
  BY <1>5 DEF DropHeap
<1>6. Crash => UNCHANGED file
  BY DEF Crash, disk
<1>7. \/ UNCHANGED file \/ \E n : Opened(n)
      \/ \A f \in 1..Len(file') : ~file'[f].init => file'[f].rows = {}
  BY <1>2, <1>3, <1>4, <1>5, <1>6, CalmFiles DEF Next, Step, Calm
<1>8. \A f \in 1..Len(file') : ~file'[f].init => file'[f].rows = {}
  BY <1>7, OpensBlank DEF BInv
<1> QED  BY <1>1, <1>8 DEF BInv

\* A heap that is not initialised has no rows, in every orderly behaviour.
THEOREM DBBlankHeaps == Spec => [](orderly => BInv)
<1>1. ASSUME CInv, orderly => FInv, orderly => BInv, [Next]_vars PROVE (orderly => BInv)'
  <2>1. CASE UNCHANGED vars
    BY <1>1, <2>1 DEF vars, orderly, KeepHandles, Dotted, Ops, BInv
  <2>2. CASE Next
    <3>1. orderly' <=> orderly
      BY <2>2 DEF Next, orderly, KeepHandles, Dotted
    <3> QED  BY <1>1, <2>2, <3>1, StepBInv
  <2> QED  BY <1>1, <2>1, <2>2
<1>2. Init => (orderly => BInv)
  BY IdleFacts, SMTT(30) DEF Init, BInv
<1> QED  BY <1>1, <1>2, DBCallsInvariant, DBFilesInvariant, PTL DEF Spec

\* The rows of a table leave its file only while the table is being dropped.
LEMMA StepKeepsRows ==
    ASSUME orderly, FInv, BInv, "Validate" \notin Ops, Next, NEW n \in Names
    PROVE  \/ rows(n) \subseteq rows(n)'
           \/ \E p \in Clients : in(p, "Drop", "heap") /\ client[p].name = n
<1>1. UNCHANGED <<dir, file>> => rows(n)' = rows(n)
  BY DEF rows
<1>2. ASSUME NEW p \in Clients, NEW m \in Names, CreateTable(p, m) \/ OpenTable(p, m)
      PROVE  rows(n) \subseteq rows(n)'
  <2>1. UNCHANGED <<dir, file>> \/ \E t, ix : OpenHeapFile(m, t, ix)
    BY <1>2 DEF CreateTable, OpenTable
  <2> QED  BY <1>1, <2>1, OpenHeapKeeps
<1>3. ASSUME NEW p \in Clients, Insert(p)  PROVE rows(n) \subseteq rows(n)'
  <2>1. dir' = dir /\ \A f \in 1..Len(file) : file[f].rows \subseteq file'[f].rows
    BY <1>3, InsertKeeps
  <2>2. dir[n] # 0 => dir[n] \in 1..Len(file)
    BY SMTT(30) DEF FInv, FileShape, IsSeq
  <2> QED  BY <2>1, <2>2 DEF rows
<1>4. ASSUME NEW p \in Clients, DropHeap(p)
      PROVE  rows(n)' = rows(n) \/ (in(p, "Drop", "heap") /\ client[p].name = n)
  <2>1. /\ in(p, "Drop", "heap") /\ UNCHANGED file
        /\ dir' = dir \/ dir' = [dir EXCEPT ![client[p].name] = 0]
    BY <1>4 DEF DropHeap, matches, orderly
  <2>2. client[p].name # n => dir'[n] = dir[n]
    BY <2>1 DEF FInv, FileShape
  <2> QED  BY <2>1, <2>2 DEF rows
<1>5. ASSUME NEW p \in Clients  PROVE ~ValidateOpen(p)
  BY DEF ValidateOpen, BInv
<1>6. Crash => UNCHANGED <<dir, file>>
  BY DEF Crash, disk
<1> QED  BY <1>1, <1>2, <1>3, <1>4, <1>5, <1>6, CalmFiles DEF Next, Step, Calm

\* No call but the DropTable of a table takes rows out of its file, whatever
\* fails and whenever the process dies.
THEOREM DBRowsKept == Spec => RowsKept
<1> DEFINE Kept ==
        orderly /\ "Validate" \notin Ops =>
          \A n \in Names :
             \/ rows(n) \subseteq rows(n)'
             \/ \E p \in Clients : in(p, "Drop", "heap") /\ client[p].name = n
<1>1. ASSUME orderly => FInv, orderly => BInv, [Next]_vars  PROVE [Kept]_vars
  BY <1>1, StepKeepsRows DEF vars
<1>2. RowsKept <=> [][Kept]_vars
  BY DEF RowsKept
<1> QED  BY <1>1, <1>2, DBFilesInvariant, DBBlankHeaps, PTL DEF Spec
=============================================================================
