---------------------------- MODULE AdminProofs -----------------------------
(***************************************************************************)
(* ClosedOnce and Kept of AdminServer for any clients, databases and        *)
(* requests.                                                                *)
(***************************************************************************)
EXTENDS AdminServer, SeqFacts, TLAPS

\* Most steps are first-order: Zenon proves them unless they name another prover.
USE Zenon

\* The switch that has a database object in its hands.
holding(c) == req[c].pc \in {"swap", "closeIndexes", "closeHeap"}

ReqFields == {"pc", "name", "obj", "h", "row", "dir"}
ObjFields == {"name", "hasTable", "h", "closed"}

\* The state as a record of records.
Shape ==
    /\ IsSeq(objs)
    /\ \A o \in 1..Len(objs) : DOMAIN objs[o] = ObjFields
    /\ DOMAIN req = Clients
    /\ \A c \in Clients : DOMAIN req[c] = ReqFields

\* An object is current, closed, or in the hands of one switch.
Owned ==
    /\ cur \in 1..Len(objs)
    /\ objs[cur].closed = 0
    /\ \A o \in 1..Len(objs) : objs[o].closed \in {0, 1}
    /\ \A c \in Clients : req[c].pc = "switch" => req[c].obj = 0
    /\ \A c \in Clients : holding(c) =>
          req[c].obj \in 1..Len(objs) /\ req[c].obj # cur /\ objs[req[c].obj].closed = 0
    /\ \A c, d \in Clients : holding(c) /\ holding(d) /\ req[c].obj = req[d].obj => c = d
    /\ \A o \in 1..Len(objs) :
          o # cur /\ objs[o].closed = 0 => \E c \in Clients : holding(c) /\ req[c].obj = o

AInv == Shape /\ Owned

\* A step that passes no object on.
Passive ==
    /\ Shape'
    /\ cur' = cur /\ Len(objs') = Len(objs)
    /\ \A o \in 1..Len(objs) : objs'[o].closed = objs[o].closed
    /\ \A c \in Clients :
          /\ holding(c)' <=> holding(c)
          /\ holding(c) => req'[c].obj = req[c].obj
          /\ req'[c].pc = "switch" => req'[c].obj = 0

\* Such a step keeps the invariant.
LEMMA PassiveInv == AInv /\ Passive => AInv'
  BY SMTT(30) DEF AInv, Owned, Passive

\* A request that begins is no switch with an object.
LEMMA BeginInv ==
    ASSUME AInv, NEW c \in Clients, NEW r, begin(c, r), UNCHANGED <<objs, cur>>,
           DOMAIN r = ReqFields,
           r.pc \in {"switch", "read"}, r.obj = 0
    PROVE  AInv'
<1>1. DOMAIN req = Clients /\ req' = [req EXCEPT ![c] = r] /\ req[c].pc = "idle"
  BY DEF AInv, Shape, begin, at
<1>2. \A d \in Clients : req'[d] = IF d = c THEN r ELSE req[d]
  BY <1>1
<1>3. Shape'
  BY <1>1, <1>2 DEF AInv, Shape, IsSeq
<1>4. \A d \in Clients : /\ holding(d)' <=> holding(d)
                         /\ holding(d) => req'[d].obj = req[d].obj
                         /\ req'[d].pc = "switch" => req'[d].obj = 0
  BY <1>1, <1>2 DEF AInv, Owned, holding
<1> QED  BY <1>3, <1>4, PassiveInv DEF Passive

\* At the start the one object is current.
LEMMA InitInv == Init => AInv
<1> SUFFICES ASSUME Init PROVE AInv
  OBVIOUS
<1>1. PICK x : objs = <<NewDB(x, TRUE)>>
  BY DEF Init
<1>2. IsSeq(objs) /\ Len(objs) = 1 /\ objs[1] = NewDB(x, TRUE)
  BY <1>1, SMT DEF IsSeq
<1>3. objs[1].closed = 0 /\ DOMAIN objs[1] = ObjFields
  BY <1>2, SMT DEF NewDB, ObjFields
<1>4. cur = 1 /\ DOMAIN req = Clients
  BY DEF Init
<1>5. \A c \in Clients : /\ req[c].pc = "idle"
                         /\ DOMAIN req[c] = ReqFields
  BY DEF Init, Idle, ReqFields
<1>6. 1 \in 1..Len(objs) /\ \A o \in 1..Len(objs) : o = 1
  BY <1>2, SMT
<1>7. Shape
  BY <1>2, <1>3, <1>4, <1>5, <1>6 DEF Shape
<1>8. Owned
  BY <1>3, <1>4, <1>5, <1>6 DEF Owned, holding
<1> QED  BY <1>7, <1>8 DEF AInv

\* A step of one request that is not, and does not become, a switch with an object.
LEMMA OtherInv ==
    ASSUME AInv, NEW c \in Clients, NEW r, req' = [req EXCEPT ![c] = r],
           DOMAIN r = ReqFields, r.pc \notin {"switch", "swap", "closeIndexes", "closeHeap"},
           ~holding(c), cur' = cur, IsSeq(objs'), Len(objs') = Len(objs),
           \A o \in 1..Len(objs) : /\ DOMAIN objs'[o] = DOMAIN objs[o]
                                   /\ objs'[o].closed = objs[o].closed
    PROVE  AInv'
<1>1. \A d \in Clients : req'[d] = IF d = c THEN r ELSE req[d]
  BY DEF AInv, Shape
<1>2. Shape'
  BY <1>1 DEF AInv, Shape, ReqFields
<1>3. \A d \in Clients : /\ holding(d)' <=> holding(d)
                         /\ holding(d) => req'[d].obj = req[d].obj
                         /\ req'[d].pc = "switch" => req'[d].obj = 0
  BY <1>1, SMT DEF AInv, Owned, holding
<1> QED  BY <1>2, <1>3, PassiveInv DEF Passive

\* A switch request begins without an object.
LEMMA HandleSwitchInv == ASSUME AInv, NEW c \in Clients, handleSwitchDB(c) PROVE AInv'
<1>1. PICK name \in Names : begin(c, [Idle EXCEPT !.pc = "switch", !.name = name])
  BY DEF handleSwitchDB
<1> DEFINE r == [Idle EXCEPT !.pc = "switch", !.name = name]
<1>2. DOMAIN r = ReqFields /\ r.pc = "switch" /\ r.obj = 0
  BY DEF Idle, ReqFields
<1> QED  BY <1>1, <1>2, BeginInv DEF handleSwitchDB, ReqFields

\* So does a request for a row.
LEMMA HandleInsertInv == ASSUME AInv, NEW c \in Clients, handleInsertRow(c) PROVE AInv'
<1> DEFINE r == [Idle EXCEPT !.pc = "read", !.row = n + 1]
<1>1. begin(c, r) /\ UNCHANGED <<objs, cur>>
  BY DEF handleInsertRow
<1>2. DOMAIN r = ReqFields /\ r.pc = "read" /\ r.obj = 0
  BY DEF Idle, ReqFields
<1> QED  BY <1>1, <1>2, BeginInv DEF ReqFields

\* The object that openNew makes is in the hands of its switch.
LEMMA OpenNewInv == ASSUME AInv, NEW c \in Clients, openNew(c) PROVE AInv'
<1> DEFINE L == Len(objs)
           r == [req[c] EXCEPT !.pc = "swap", !.obj = L + 1]
           x == NewDB(req[c].name, names[req[c].name] # 0 /\ dirs[names[req[c].name]].hasTable)
<1>1. objs' = Append(objs, x)
  BY DEF openNew
<1>1a. x.closed = 0 /\ DOMAIN x = ObjFields
  BY DEF NewDB, ObjFields
<1> HIDE DEF x
<1>2. IsSeq(objs) /\ L \in Nat
  BY DEF AInv, Shape, IsSeq
<1>3. /\ IsSeq(objs') /\ Len(objs') = L + 1
      /\ \A i \in 1..L : objs'[i] = objs[i]
      /\ objs'[L + 1] = x
  BY <1>1, <1>2, AppendFacts, SMT
<1>4. \A i \in 1..(L + 1) : i \in 1..L \/ i = L + 1
  BY <1>2, SMT
<1>5. /\ DOMAIN req = Clients /\ DOMAIN req[c] = ReqFields /\ req[c].pc = "switch" /\ cur' = cur
      /\ req' = [req EXCEPT ![c] = r]
  BY DEF AInv, Shape, openNew, at, ReqFields
<1>6. DOMAIN r = ReqFields /\ r.pc = "swap" /\ r.obj = L + 1
  BY <1>5 DEF ReqFields
<1> HIDE DEF r
<1>7. \A d \in Clients : req'[d] = IF d = c THEN r ELSE req[d]
  BY <1>5
<1>8. Shape'
  BY <1>1a, <1>3, <1>4, <1>5, <1>6, <1>7 DEF AInv, Shape, ReqFields
<1>9. /\ ~holding(c) /\ holding(c)' /\ req'[c].obj = L + 1
      /\ \A d \in Clients : d # c => (holding(d)' <=> holding(d)) /\ req'[d] = req[d]
  BY <1>5, <1>6, <1>7 DEF holding
<1> HIDE DEF L
<1>10. Owned'
  BY <1>1a, <1>2, <1>3, <1>4, <1>5, <1>6, <1>7, <1>9, SMTT(30) DEF AInv, Owned, L
<1> QED  BY <1>8, <1>10 DEF AInv

\* swap hands the old database to the switch that takes its place.
LEMMA SwapInv == ASSUME AInv, NEW c \in Clients, swap(c) PROVE AInv'
<1> DEFINE r == [req[c] EXCEPT !.pc = "closeIndexes", !.obj = cur]
<1>1. /\ DOMAIN req = Clients /\ DOMAIN req[c] = ReqFields /\ req[c].pc = "swap"
      /\ cur' = req[c].obj /\ objs' = objs
      /\ req' = [req EXCEPT ![c] = r]
  BY DEF AInv, Shape, swap, at, ReqFields
<1>2. DOMAIN r = ReqFields /\ r.pc = "closeIndexes" /\ r.obj = cur
  BY <1>1 DEF ReqFields
<1> HIDE DEF r
<1>3. \A d \in Clients : req'[d] = IF d = c THEN r ELSE req[d]
  BY <1>1
<1>4. Shape'
  BY <1>1, <1>2, <1>3 DEF AInv, Shape, IsSeq, ReqFields
<1>5. /\ holding(c) /\ holding(c)' /\ req'[c].obj = cur
      /\ \A d \in Clients : d # c => (holding(d)' <=> holding(d)) /\ req'[d] = req[d]
  BY <1>1, <1>2, <1>3 DEF holding
<1>6. Owned'
  BY <1>1, <1>2, <1>3, <1>5, SMTT(30) DEF AInv, Owned
<1> QED  BY <1>4, <1>6 DEF AInv

\* Close keeps its object between its two parts.
LEMMA CloseIndexesInv == ASSUME AInv, NEW c \in Clients, closeIndexes(c) PROVE AInv'
<1> DEFINE r == [req[c] EXCEPT !.pc = "closeHeap"]
<1>1. /\ DOMAIN req = Clients /\ DOMAIN req[c] = ReqFields /\ req[c].pc = "closeIndexes"
      /\ cur' = cur /\ objs' = objs
      /\ req' = [req EXCEPT ![c] = r]
  BY DEF AInv, Shape, closeIndexes, at, ReqFields
<1>2. DOMAIN r = ReqFields /\ r.pc = "closeHeap" /\ r.obj = req[c].obj
  BY <1>1 DEF ReqFields
<1> HIDE DEF r
<1>3. \A d \in Clients : req'[d] = IF d = c THEN r ELSE req[d]
  BY <1>1
<1>4. Shape'
  BY <1>1, <1>2, <1>3 DEF AInv, Shape, IsSeq, ReqFields
<1>5. \A d \in Clients : /\ holding(d)' <=> holding(d)
                         /\ holding(d) => req'[d].obj = req[d].obj
                         /\ req'[d].pc = "switch" => req'[d].obj = 0
  BY <1>1, <1>2, <1>3 DEF AInv, Owned, holding
<1> QED  BY <1>1, <1>4, <1>5, PassiveInv DEF Passive

\* closeHeap closes the object in the hands of its switch and lets go of it.
LEMMA CloseHeapInv == ASSUME AInv, NEW c \in Clients, closeHeap(c) PROVE AInv'
<1> DEFINE o == req[c].obj
           x == [objs[o] EXCEPT !.h = 0, !.closed = @ + 1]
<1>1. /\ DOMAIN req = Clients /\ req[c].pc = "closeHeap" /\ cur' = cur
      /\ objs' = [objs EXCEPT ![o] = x]
      /\ req' = [req EXCEPT ![c] = Idle]
  BY DEF AInv, Shape, closeHeap, at, answered
<1>2. o \in 1..Len(objs) /\ o # cur /\ objs[o].closed = 0 /\ IsSeq(objs)
      /\ DOMAIN objs[o] = ObjFields
  BY <1>1 DEF AInv, Owned, Shape, holding
<1>3. DOMAIN x = ObjFields /\ x.closed = 1
  BY <1>2, SMT DEF ObjFields
<1>4. DOMAIN Idle = ReqFields /\ Idle.pc = "idle"
  BY DEF Idle, ReqFields
<1> HIDE DEF x
<1>5. /\ IsSeq(objs') /\ Len(objs') = Len(objs)
      /\ \A i \in 1..Len(objs) : objs'[i] = IF i = o THEN x ELSE objs[i]
  <2>1. DOMAIN objs = 1..Len(objs)
    BY <1>2 DEF IsSeq
  <2>2. objs' = [i \in 1..Len(objs) |-> objs'[i]]
    BY <1>1, <2>1
  <2>3. \A i \in 1..Len(objs) : objs'[i] = IF i = o THEN x ELSE objs[i]
    BY <1>1, <2>1
  <2> QED  BY <1>2, <2>2, <2>3, SameDomain
<1>6. \A d \in Clients : req'[d] = IF d = c THEN Idle ELSE req[d]
  BY <1>1
<1>7. Shape'
  BY <1>1, <1>3, <1>4, <1>5, <1>6, SMT DEF AInv, Shape, ReqFields
<1>8. /\ holding(c) /\ ~holding(c)' /\ req'[c].pc = "idle"
      /\ \A d \in Clients : d # c => (holding(d)' <=> holding(d)) /\ req'[d] = req[d]
  BY <1>1, <1>4, <1>6 DEF holding
<1>9. Owned'
  BY <1>1, <1>2, <1>3, <1>5, <1>6, <1>8, SMT DEF AInv, Owned
<1> QED  BY <1>7, <1>9 DEF AInv

\* Requests for rows pass no database object on.
LEMMA RowInv ==
    ASSUME AInv, NEW c \in Clients, readDB(c) \/ OpenTable(c) \/ insertHeap(c) \/ insertIndex(c)
    PROVE  AInv'
<1>1. DOMAIN req[c] = ReqFields /\ DOMAIN req = Clients /\ IsSeq(objs)
  BY DEF AInv, Shape, ReqFields
<1>2. DOMAIN Idle = ReqFields /\ Idle.pc = "idle"
  BY DEF Idle, ReqFields
<1>3. CASE readDB(c)
  <2> DEFINE r == [req[c] EXCEPT !.pc = "open", !.obj = cur]
  <2>1. DOMAIN r = ReqFields /\ r.pc = "open"
    BY <1>1 DEF ReqFields
  <2>2. req' = [req EXCEPT ![c] = r] /\ UNCHANGED <<cur, objs>> /\ ~holding(c)
    BY <1>3, <1>1 DEF readDB, at, holding
  <2> QED  BY <2>1, <2>2, <1>1, OtherInv
<1>4. CASE insertIndex(c)
  <2>1. req' = [req EXCEPT ![c] = Idle] /\ UNCHANGED <<cur, objs>> /\ ~holding(c)
    BY <1>4, <1>1 DEF insertIndex, answered, at, holding
  <2> QED  BY <2>1, <1>1, <1>2, OtherInv
<1>5. CASE insertHeap(c)
  <2>1. UNCHANGED <<cur, objs>> /\ ~holding(c)
    BY <1>5 DEF insertHeap, at, holding
  <2>2. CASE answered(c)
    BY <2>1, <2>2, <1>1, <1>2, OtherInv DEF answered
  <2>3. ASSUME NEW d, req' = [req EXCEPT ![c].pc = "index", ![c].dir = d] PROVE AInv'
    <3> DEFINE r == [req[c] EXCEPT !.pc = "index", !.dir = d]
    <3>1. DOMAIN r = ReqFields /\ r.pc = "index"
      BY <1>1 DEF ReqFields
    <3>2. req' = [req EXCEPT ![c] = r]
      BY <2>3, <1>1
    <3> QED  BY <3>1, <3>2, <2>1, <1>1, OtherInv
  <2> QED  BY <1>5, <2>2, <2>3 DEF insertHeap
<1>6. CASE OpenTable(c)
  <2> DEFINE o == req[c].obj
  <2>1. cur' = cur /\ ~holding(c)
    BY <1>6 DEF OpenTable, at, holding
  <2>2. CASE answered(c) /\ UNCHANGED objs
    BY <2>1, <2>2, <1>1, <1>2, OtherInv DEF answered
  <2>3. ASSUME NEW k, req' = [req EXCEPT ![c].pc = "insert", ![c].h = k],
               objs' = objs \/ objs' = [objs EXCEPT ![o].h = k]
        PROVE  AInv'
    <3> DEFINE r == [req[c] EXCEPT !.pc = "insert", !.h = k]
    <3>1. DOMAIN r = ReqFields /\ r.pc = "insert"
      BY <1>1 DEF ReqFields
    <3>2. req' = [req EXCEPT ![c] = r]
      BY <2>3, <1>1
    <3>3. /\ IsSeq(objs') /\ Len(objs') = Len(objs)
          /\ \A i \in 1..Len(objs) : DOMAIN objs'[i] = DOMAIN objs[i] /\ objs'[i].closed = objs[i].closed
      <4>1. CASE objs' = objs
        BY <4>1, <1>1
      <4>2. CASE objs' = [objs EXCEPT ![o].h = k]
        <5>1. CASE o \in 1..Len(objs)
          <6> DEFINE x == [objs[o] EXCEPT !.h = k]
          <6>1. objs' = [objs EXCEPT ![o] = x]
            BY <4>2
          <6>2. DOMAIN x = DOMAIN objs[o] /\ x.closed = objs[o].closed
            BY <5>1, SMT DEF AInv, Shape
          <6> HIDE DEF x
          <6>3. DOMAIN objs = 1..Len(objs)
            BY <1>1 DEF IsSeq
          <6>4. objs' = [i \in 1..Len(objs) |-> objs'[i]]
            BY <6>1, <6>3
          <6>5. \A i \in 1..Len(objs) : objs'[i] = IF i = o THEN x ELSE objs[i]
            BY <6>1, <6>3
          <6> QED  BY <1>1, <6>2, <6>4, <6>5, SameDomain
        <5>2. CASE o \notin 1..Len(objs)
          BY <4>2, <5>2, <1>1 DEF IsSeq
        <5> QED  BY <5>1, <5>2
      <4> QED  BY <2>3, <4>1, <4>2
    <3> QED  BY <3>1, <3>2, <3>3, <2>1, <1>1, OtherInv
  <2> QED  BY <1>6, <2>2, <2>3 DEF OpenTable
<1> QED  BY <1>3, <1>4, <1>5, <1>6

\* The invariant is inductive.
LEMMA NextInv == AInv /\ [Next]_vars => AInv'
<1> SUFFICES ASSUME AInv, [Next]_vars PROVE AInv'
  OBVIOUS
<1>1. ASSUME UNCHANGED <<objs, cur, req>> PROVE AInv'
  BY <1>1, SMT DEF AInv, Shape, Owned, holding, IsSeq
<1>2. ASSUME NEW c \in Clients,
             \/ handleSwitchDB(c) \/ handleInsertRow(c) \/ dropDatabase(c) \/ renameDatabase(c)
             \/ Step(c)
      PROVE  AInv'
  <2>1. CASE dropDatabase(c) \/ renameDatabase(c)
    BY <2>1, <1>1 DEF dropDatabase, renameDatabase
  <2> QED  BY <1>2, <2>1, HandleSwitchInv, HandleInsertInv, OpenNewInv, SwapInv, CloseIndexesInv,
              CloseHeapInv, RowInv DEF Step
<1> QED  BY <1>1, <1>2 DEF Next, Finished, vars

\* Every database object is current, closed once, or in the hands of one switch,
\* which will make it current or close it, for any number of concurrent switches
\* (handlers.go:41-49).
THEOREM AdminInvariant == Spec => []AInv
  BY InitInv, NextInv, PTL DEF Spec

\* However many switches run at once, the current database is open, no database is
\* closed twice and none is forgotten (switchDatabase, handlers.go:41-49).
THEOREM AdminClosedOnce == Spec => []ClosedOnce
<1>1. AInv => ClosedOnce
  <2> SUFFICES ASSUME AInv PROVE ClosedOnce
    OBVIOUS
  <2>1. DOMAIN objs = 1..Len(objs)
    BY DEF AInv, Shape, IsSeq
  <2>2. ASSUME NEW o \in 1..Len(objs)
        PROVE  LET holders == {c \in Clients : switching(c) /\ req[c].obj = o}
               IN  /\ objs[o].closed <= 1
                   /\ IF o = cur \/ objs[o].closed = 1 THEN holders = {} ELSE \E c \in Clients : holders = {c}
    <3> DEFINE H == {c \in Clients : switching(c) /\ req[c].obj = o}
    <3> SUFFICES /\ objs[o].closed <= 1
                 /\ IF o = cur \/ objs[o].closed = 1 THEN H = {} ELSE \E c \in Clients : H = {c}
      OBVIOUS
    <3>1. H \subseteq Clients /\ \A c \in Clients : c \in H <=> holding(c) /\ req[c].obj = o
      BY SMT DEF AInv, Owned, Shape, IsSeq, switching, holding
    <3> HIDE DEF H
    <3>2. CASE o = cur \/ objs[o].closed = 1
      <4>1. H = {}
        BY <3>1, <3>2, SMT DEF AInv, Owned
      <4> QED  BY <4>1, <3>2, SMT DEF AInv, Owned
    <3>3. CASE o # cur /\ objs[o].closed = 0
      <4>1. PICK c \in Clients : holding(c) /\ req[c].obj = o
        BY <3>3 DEF AInv, Owned
      <4>2. H = {c}
        BY <3>1, <4>1, SMT DEF AInv, Owned
      <4> QED  BY <4>2, <3>3, SMT
    <3> QED  BY <3>2, <3>3 DEF AInv, Owned
  <2> QED  BY <2>1, <2>2 DEF AInv, Owned, ClosedOnce
<1> QED  BY <1>1, AdminInvariant, PTL

----------------------------------------------------------------------------
\* Kept

inTurn == ~use.overlap /\ ~use.current

Switch == {"switch", "swap", "closeIndexes", "closeHeap"}
Work == {"read", "open", "insert", "index"}

DirFields == {"hasTable", "pages", "meta", "idx"}
HandleFields == {"obj", "file", "total", "metaDirty", "tree", "idxDirty"}

\* The directories, the names and the handles.
Files ==
    /\ IsSeq(dirs) /\ IsSeq(hs) /\ DOMAIN names = Names
    /\ \A d \in 1..Len(dirs) :
          DOMAIN dirs[d] = DirFields /\ IsSeq(dirs[d].pages) /\ Len(dirs[d].pages) > 0
    /\ \A h \in 1..Len(hs) : DOMAIN hs[h] = HandleFields /\ hs[h].obj \in 1..Len(objs)
    /\ \A m \in Names : names[m] \in 0..Len(dirs)
    /\ \A m, k \in Names : names[m] = names[k] /\ names[m] # 0 => m = k
    /\ \A o \in 1..Len(objs) : objs[o].name \in Names /\ objs[o].h \in 0..Len(hs)

\* A request for a row works on the current database and its handle, and a row
\* whose index entry is missing is on one of the pages; Close saves the index
\* before it closes the heap.
reqOK(r) ==
    /\ r.pc \in {"idle"} \cup Switch \cup Work
    /\ r.pc \in Switch => r.name \in Names
    /\ r.pc \in Work => r.row \in Nat
    /\ r.pc \in {"open", "insert", "index"} => r.obj = cur
    /\ r.pc \in {"insert", "index"} => r.h = objs[cur].h /\ r.h # 0
    /\ r.pc = "index" =>
          /\ r.dir = hs[r.h].file
          /\ \E p \in 1..Len(dirs[r.dir].pages) : dirs[r.dir].pages[p] = r.row
    /\ r.pc = "closeHeap" /\ objs[r.obj].h # 0 => ~hs[objs[r.obj].h].idxDirty

\* Requests for rows and switches exclude each other.
Turns ==
    /\ n \in Nat
    /\ \A c \in Clients : reqOK(req[c])
    /\ \A c, d \in Clients : ~(req[c].pc \in Work /\ req[d].pc \in Switch)

\* A handle that is cached works on the directory of its database, and what it
\* has changed it is going to save.
cached(o) ==
    LET h == objs[o].h
        d == hs[h].file
    IN  /\ objs[o].closed = 0 /\ hs[h].obj = o /\ d = names[objs[o].name]
        /\ hs[h].total = Len(dirs[d].pages)
        /\ ~hs[h].metaDirty => dirs[d].meta = hs[h].total
        /\ ~hs[h].idxDirty => dirs[d].idx = hs[h].tree
        /\ \A r \in acked : r[1] = d => r[2] \in hs[h].tree

Open ==
    /\ \A o \in 1..Len(objs) : objs[o].closed = 0 => names[objs[o].name] # 0
    /\ \A o \in 1..Len(objs) : objs[o].h # 0 => cached(o)
    /\ \A o, p \in 1..Len(objs) : objs[o].h # 0 /\ objs[p].h # 0 => o = p

\* The rows that were promised are on the pages; in a directory without a cached
\* handle the pages are counted and the index entries saved.
inUse(d) == \E o \in 1..Len(objs) : objs[o].h # 0 /\ hs[objs[o].h].file = d

Saved ==
    /\ \A r \in acked :
          /\ r[1] \in 1..Len(dirs) /\ r[2] \in Nat
          /\ \E p \in 1..Len(dirs[r[1]].pages) : dirs[r[1]].pages[p] = r[2]
    /\ \A d \in 1..Len(dirs) : ~inUse(d) =>
          /\ dirs[d].meta = Len(dirs[d].pages)
          /\ \A r \in acked : r[1] = d => r[2] \in dirs[d].idx

KInv == Files /\ Turns /\ Open /\ Saved

\* Between switches only the current database is open.
LEMMA OnlyCurrent ==
    ASSUME AInv, NEW o \in 1..Len(objs), o # cur, \A d \in Clients : req[d].pc \notin Switch
    PROVE  objs[o].closed = 1
<1>1. \A c \in Clients : ~holding(c)
  BY DEF holding, Switch
<1> QED  BY <1>1 DEF AInv, Owned

\* The handle of a database that is open, and the directory it works on.
LEMMA CachedFacts ==
    ASSUME AInv, KInv, NEW o \in 1..Len(objs), objs[o].h # 0
    PROVE  /\ cached(o) /\ objs[o].h \in 1..Len(hs) /\ DOMAIN hs[objs[o].h] = HandleFields
           /\ hs[objs[o].h].file # 0 /\ hs[objs[o].h].file \in 1..Len(dirs)
           /\ DOMAIN dirs[hs[objs[o].h].file] = DirFields
<1>1. cached(o) /\ objs[o].closed = 0
  BY DEF KInv, Open, cached
<1>2. hs[objs[o].h].file = names[objs[o].name] /\ names[objs[o].name] # 0 /\ objs[o].name \in Names
  BY <1>1 DEF KInv, Open, cached, Files
<1>3. Len(hs) \in Nat /\ Len(dirs) \in Nat
  BY DEF KInv, Files, IsSeq
<1> QED  BY <1>1, <1>2, <1>3, SMTT(30) DEF KInv, Files

\* One request goes on, and the files and the handles stay as they are.
LEMMA RequestKInv ==
    ASSUME KInv, NEW c \in Clients, NEW r, DOMAIN req = Clients, req' = [req EXCEPT ![c] = r],
           n' \in Nat, UNCHANGED <<names, dirs, objs, hs, acked>>, reqOK(r)',
           cur' = cur \/ \A d \in Clients : req[d].pc \notin Work,
           r.pc \in Work => \A d \in Clients \ {c} : req[d].pc \notin Switch,
           r.pc \in Switch => \A d \in Clients \ {c} : req[d].pc \notin Work
    PROVE  KInv'
<1>1. \A d \in Clients : req'[d] = IF d = c THEN r ELSE req[d]
  OBVIOUS
<1>2. Files' /\ Open' /\ Saved'
  <2>1. Files'
    BY DEF KInv, Files
  <2>2. Open'
    <3>1. \A o : cached(o) => cached(o)'
      BY DEF cached
    <3> QED
      BY <3>1 DEF KInv, Open
  <2>3. Saved'
    BY DEF KInv, Saved, inUse
  <2> QED  BY <2>1, <2>2, <2>3
<1>3. \A d \in Clients \ {c} : reqOK(req[d])'
  <2> SUFFICES ASSUME NEW d \in Clients \ {c}  PROVE reqOK(req[d])'
    OBVIOUS
  <2>1. reqOK(req[d]) /\ req'[d] = req[d]
    BY <1>1 DEF KInv, Turns
  <2>2. req[d].pc \in {"open", "insert", "index"} => req[d].pc \in Work /\ cur' = cur
    BY DEF Work
  <2>3. req[d].pc = "index" => req[d].pc \in {"open", "insert", "index"}
    OBVIOUS
  <2> QED
    BY <2>1, <2>2, <2>3 DEF reqOK
<1>4. \A d, e \in Clients : ~(req'[d].pc \in Work /\ req'[e].pc \in Switch)
  BY <1>1, SMT DEF KInv, Turns, Work, Switch
<1>5. \A d \in Clients : reqOK(req[d])'
  BY <1>1, <1>3
<1> QED  BY <1>2, <1>4, <1>5 DEF KInv, Turns

\* A switch waits until no request for a row is under way.
LEMMA HandleSwitchKInv ==
    ASSUME AInv, KInv, inTurn, NEW c \in Clients, handleSwitchDB(c) PROVE KInv'
<1>1. PICK name \in Names : begin(c, [Idle EXCEPT !.pc = "switch", !.name = name])
  BY DEF handleSwitchDB
<1>2. PICK r : r = [Idle EXCEPT !.pc = "switch", !.name = name]
  OBVIOUS
<1>3. r.pc = "switch" /\ r.name = name
  BY <1>2 DEF Idle
<1>4. req' = [req EXCEPT ![c] = r] /\ n' \in Nat
  BY <1>1, <1>2, SMT DEF begin, KInv, Turns
<1>5. UNCHANGED <<names, dirs, objs, hs, cur, acked>> /\ \A d \in Clients : req[d].pc \notin Work
  BY DEF handleSwitchDB, inTurn, working, Work
<1>6. reqOK(r)'
  BY <1>3 DEF reqOK, Switch, Work
<1> QED  BY <1>3, <1>4, <1>5, <1>6, RequestKInv DEF AInv, Shape, Work

\* A request for a row waits until no switch is under way.
LEMMA HandleInsertKInv ==
    ASSUME AInv, KInv, inTurn, NEW c \in Clients, handleInsertRow(c) PROVE KInv'
<1>1. PICK r : r = [Idle EXCEPT !.pc = "read", !.row = n + 1]
  OBVIOUS
<1>2. r.pc = "read" /\ r.row = n + 1
  BY <1>1 DEF Idle
<1>3. req' = [req EXCEPT ![c] = r] /\ n \in Nat /\ n' \in Nat
  BY <1>1, SMT DEF handleInsertRow, begin, KInv, Turns
<1>4. UNCHANGED <<names, dirs, objs, hs, cur, acked>> /\ \A d \in Clients : req[d].pc \notin Switch
  BY DEF handleInsertRow, inTurn, switching, Switch
<1>5. reqOK(r)'
  BY <1>2, <1>3, SMT DEF reqOK, Switch, Work
<1> QED  BY <1>2, <1>3, <1>4, <1>5, RequestKInv DEF AInv, Shape, Switch

\* swap changes the current database while no request for a row is under way.
LEMMA SwapKInv == ASSUME AInv, KInv, NEW c \in Clients, swap(c) PROVE KInv'
<1>1. PICK r : r = [req[c] EXCEPT !.pc = "closeIndexes", !.obj = cur]
  OBVIOUS
<1>2. req[c].pc = "swap" /\ DOMAIN req[c] = ReqFields /\ reqOK(req[c])
  BY DEF swap, at, AInv, Shape, KInv, Turns
<1>3. r.pc = "closeIndexes" /\ r.name = req[c].name
  BY <1>1, <1>2 DEF ReqFields
<1>4. req' = [req EXCEPT ![c] = r] /\ n' \in Nat /\ UNCHANGED <<names, dirs, objs, hs, acked>>
  BY <1>1 DEF swap, KInv, Turns
<1>5. \A d \in Clients : req[d].pc \notin Work
  BY <1>2 DEF KInv, Turns, Switch
<1>6. reqOK(r)'
  BY <1>2, <1>3 DEF reqOK, Switch, Work
<1> QED  BY <1>3, <1>4, <1>5, <1>6, RequestKInv DEF AInv, Shape, Work

\* handleInsertRow reads s.db.
LEMMA ReadKInv == ASSUME AInv, KInv, NEW c \in Clients, readDB(c) PROVE KInv'
<1>1. PICK r : r = [req[c] EXCEPT !.pc = "open", !.obj = cur]
  OBVIOUS
<1>2. req[c].pc = "read" /\ DOMAIN req[c] = ReqFields /\ reqOK(req[c])
  BY DEF readDB, at, AInv, Shape, KInv, Turns
<1>3. r.pc = "open" /\ r.obj = cur /\ r.row = req[c].row
  BY <1>1, <1>2 DEF ReqFields
<1>4. req' = [req EXCEPT ![c] = r] /\ n' \in Nat /\ UNCHANGED <<names, dirs, objs, hs, cur, acked>>
  BY <1>1 DEF readDB, KInv, Turns
<1>5. \A d \in Clients : req[d].pc \notin Switch
  BY <1>2 DEF KInv, Turns, Work
<1>6. reqOK(r)'
  BY <1>2, <1>3, <1>4 DEF reqOK, Switch, Work
<1> QED  BY <1>3, <1>4, <1>5, <1>6, RequestKInv DEF AInv, Shape, Switch

\* A database that is not in use is dropped or renamed between switches.
LEMMA RemoveKInv ==
    ASSUME AInv, KInv, inTurn, NEW c \in Clients, dropDatabase(c) \/ renameDatabase(c) PROVE KInv'
<1>1. /\ n \in Nat /\ n' \in Nat /\ UNCHANGED <<dirs, objs, hs, cur, req, acked>>
      /\ \A d \in Clients : req[d].pc \notin Switch
  BY SMT DEF dropDatabase, renameDatabase, switching, Switch, KInv, Turns
<1>2. PICK old \in Names : /\ names[old] # 0 /\ objs[cur].name # old
        /\ \/ names' = [names EXCEPT ![old] = 0]
           \/ \E new \in Names : /\ names[new] = 0
                                 /\ names' = [names EXCEPT ![old] = 0, ![new] = names[old]]
  BY DEF dropDatabase, renameDatabase, removable, inTurn
<1>3. DOMAIN names = Names
  BY DEF KInv, Files
<1> DEFINE moved ==
             /\ DOMAIN names' = Names
             /\ \A m \in Names : names'[m] = names[m] \/ names'[m] = 0 \/ names'[m] = names[old]
             /\ \A m \in Names : names[m] # 0 /\ m # old => names'[m] = names[m]
             /\ \A m, k \in Names : names'[m] = names'[k] /\ names'[m] # 0 => m = k
<1>4. moved
  <2>1. CASE names' = [names EXCEPT ![old] = 0]
    BY <1>3, <2>1 DEF KInv, Files
  <2>2. ASSUME NEW new \in Names, names[new] = 0,
               names' = [names EXCEPT ![old] = 0, ![new] = names[old]]
        PROVE  moved
    <3>1. \A m \in Names : names'[m] = IF m = new THEN names[old] ELSE IF m = old THEN 0 ELSE names[m]
      BY <1>3, <2>2
    <3> QED  BY <1>2, <1>3, <2>2, <3>1, SMT DEF KInv, Files
  <2> HIDE DEF moved
  <2> QED  BY <1>2, <2>1, <2>2
<1>5. Files'
  <2>1. Len(dirs) \in Nat /\ \A m \in Names : names'[m] \in 0..Len(dirs)
    BY <1>4, SMT DEF KInv, Files, IsSeq
  <2> QED  BY <1>1, <1>4, <2>1 DEF KInv, Files
<1>6. \A o \in 1..Len(objs) : objs[o].closed = 0 => names'[objs[o].name] = names[objs[o].name]
  <2> SUFFICES ASSUME NEW o \in 1..Len(objs), objs[o].closed = 0
               PROVE  names'[objs[o].name] = names[objs[o].name]
    OBVIOUS
  <2>1. o = cur
    BY <1>1, OnlyCurrent, SMT
  <2>2. objs[o].name \in Names /\ names[objs[o].name] # 0
    BY DEF KInv, Files, Open
  <2> QED  BY <1>2, <1>4, <2>1, <2>2
<1>7. Open'
  BY <1>1, <1>6, SMTT(30) DEF KInv, Open, cached
<1>8. Turns'
  BY <1>1 DEF KInv, Turns, reqOK
<1>9. Saved'
  BY <1>1 DEF KInv, Saved, inUse
<1> QED  BY <1>5, <1>7, <1>8, <1>9 DEF KInv

\* A request goes on without changing sides.
LEMMA TurnsStep ==
    ASSUME AInv, KInv, NEW c \in Clients, NEW r, req' = [req EXCEPT ![c] = r], n' = n, reqOK(r)',
           \A e \in Clients \ {c} : reqOK(req[e])',
           r.pc \in Work => req[c].pc \in Work, r.pc \in Switch => req[c].pc \in Switch
    PROVE  Turns'
<1>1. DOMAIN req = Clients
  BY DEF AInv, Shape
<1>2. \A e \in Clients : req'[e] = IF e = c THEN r ELSE req[e]
  BY <1>1
<1>3. \A d, e \in Clients : ~(req'[d].pc \in Work /\ req'[e].pc \in Switch)
  BY <1>2 DEF KInv, Turns
<1>4. ASSUME NEW e \in Clients PROVE reqOK(req[e])'
  <2>1. CASE e = c
    <3>1. req'[e] = r
      BY <1>2, <2>1
    <3> QED  BY <3>1
  <2>2. CASE e # c
    BY <2>2
  <2> QED  BY <2>1, <2>2
<1> QED  BY <1>3, <1>4 DEF KInv, Turns

\* An answered request has nothing to keep.
LEMMA IdleOK == reqOK(Idle)' /\ Idle.pc \notin Work /\ Idle.pc \notin Switch
<1>1. Idle.pc = "idle"
  BY DEF Idle
<1> QED  BY <1>1 DEF reqOK, Switch, Work

\* The cached handle of an object becomes x, and the directory it works on y.
Handles(h, x) ==
    /\ IsSeq(hs') /\ Len(hs') = Len(hs)
    /\ \A i \in 1..Len(hs) : hs'[i] = IF i = h THEN x ELSE hs[i]
Directories(d, y) ==
    /\ IsSeq(dirs') /\ Len(dirs') = Len(dirs)
    /\ \A i \in 1..Len(dirs) : dirs'[i] = IF i = d THEN y ELSE dirs[i]
Objects(o, x) ==
    /\ IsSeq(objs') /\ Len(objs') = Len(objs)
    /\ \A i \in 1..Len(objs) : objs'[i] = IF i = o THEN x ELSE objs[i]

Changed(o, h, d, x, y) ==
    /\ h = objs[o].h /\ h # 0 /\ d = hs[h].file
    /\ DOMAIN x = HandleFields /\ x.obj = o /\ x.file = d
    /\ DOMAIN y = DirFields /\ IsSeq(y.pages) /\ Len(y.pages) > 0
    /\ Handles(h, x) /\ Directories(d, y)
    /\ UNCHANGED <<names, objs>>
    /\ x.total = Len(y.pages)
    /\ ~x.metaDirty => y.meta = x.total
    /\ ~x.idxDirty => y.idx = x.tree
    /\ \A r \in acked' : r \in acked \/ (r[1] = d /\ r[2] \in Nat)
    /\ \A r \in acked' : r[1] = d => r[2] \in x.tree /\ \E p \in 1..Len(y.pages) : y.pages[p] = r[2]

\* One handle, one directory or one object is replaced.
LEMMA HandlesStep ==
    ASSUME KInv, NEW h \in 1..Len(hs), NEW x, hs' = [hs EXCEPT ![h] = x] PROVE Handles(h, x)
<1>1. IsSeq(hs) /\ DOMAIN hs = 1..Len(hs)
  BY DEF KInv, Files, IsSeq
<1>2. hs' = [i \in 1..Len(hs) |-> hs'[i]]
  BY <1>1
<1>3. \A i \in 1..Len(hs) : hs'[i] = IF i = h THEN x ELSE hs[i]
  BY <1>1
<1> QED  BY <1>1, <1>2, <1>3, SameDomain DEF Handles

\* One directory's files change.
LEMMA DirectoriesStep ==
    ASSUME KInv, NEW d \in 1..Len(dirs), NEW y, dirs' = [dirs EXCEPT ![d] = y] PROVE Directories(d, y)
<1>1. IsSeq(dirs) /\ DOMAIN dirs = 1..Len(dirs)
  BY DEF KInv, Files, IsSeq
<1>2. dirs' = [i \in 1..Len(dirs) |-> dirs'[i]]
  BY <1>1
<1>3. \A i \in 1..Len(dirs) : dirs'[i] = IF i = d THEN y ELSE dirs[i]
  BY <1>1
<1> QED  BY <1>1, <1>2, <1>3, SameDomain DEF Directories

\* One DB object changes.
LEMMA ObjectsStep ==
    ASSUME AInv, NEW o \in 1..Len(objs), NEW x, objs' = [objs EXCEPT ![o] = x] PROVE Objects(o, x)
<1>1. IsSeq(objs) /\ DOMAIN objs = 1..Len(objs)
  BY DEF AInv, Shape, IsSeq
<1>2. objs' = [i \in 1..Len(objs) |-> objs'[i]]
  BY <1>1
<1>3. \A i \in 1..Len(objs) : objs'[i] = IF i = o THEN x ELSE objs[i]
  BY <1>1
<1> QED  BY <1>1, <1>2, <1>3, SameDomain DEF Objects

\* Such a change keeps the invariant's part about files.
LEMMA HandleStep ==
    ASSUME AInv, KInv, NEW o \in 1..Len(objs), NEW h, NEW d, NEW x, NEW y, Changed(o, h, d, x, y)
    PROVE  Files' /\ Open' /\ Saved'
<1> USE DEF Changed, Handles, Directories
<1>1. /\ cached(o) /\ h \in 1..Len(hs) /\ d # 0 /\ d \in 1..Len(dirs)
      /\ objs[o].closed = 0 /\ d = names[objs[o].name]
  <2>1. cached(o) /\ h \in 1..Len(hs) /\ d # 0 /\ d \in 1..Len(dirs)
    BY CachedFacts
  <2> QED  BY <2>1 DEF cached
<1>2. hs'[h] = x /\ dirs'[d] = y
  BY <1>1
<1>3. Files'
  <2>1. /\ IsSeq(dirs') /\ IsSeq(hs') /\ DOMAIN names' = Names /\ names' = names /\ objs' = objs
        /\ Len(hs') = Len(hs) /\ Len(dirs') = Len(dirs)
    BY DEF KInv, Files
  <2>2. \A i \in 1..Len(dirs) :
           DOMAIN dirs'[i] = DirFields /\ IsSeq(dirs'[i].pages) /\ Len(dirs'[i].pages) > 0
    BY DEF KInv, Files
  <2>3. \A i \in 1..Len(hs) : DOMAIN hs'[i] = HandleFields /\ hs'[i].obj \in 1..Len(objs)
    BY DEF KInv, Files
  <2> QED  BY <2>1, <2>2, <2>3, SMT DEF KInv, Files
<1>4. cached(o)'
  BY <1>1, <1>2, SMT DEF cached
<1>5. \A q \in 1..Len(objs) : objs[q].h # 0 => q = o
  BY DEF KInv, Open
<1>6. Open'
  BY <1>4, <1>5 DEF KInv, Open
<1>7. \A e \in 1..Len(dirs) : (inUse(e) <=> e = d) /\ (inUse(e)' <=> e = d)
  <2>1. \A e \in 1..Len(dirs) : inUse(e) <=> e = d
    BY <1>5 DEF inUse
  <2>2. \A e \in 1..Len(dirs) : inUse(e)' <=> e = d
    BY <1>2, <1>5, SMT DEF inUse
  <2> QED  BY <2>1, <2>2
<1>8. \A r \in acked' :
        /\ r[1] \in 1..Len(dirs) /\ r[2] \in Nat
        /\ \E p \in 1..Len(dirs'[r[1]].pages) : dirs'[r[1]].pages[p] = r[2]
  <2> SUFFICES ASSUME NEW r \in acked'
               PROVE  /\ r[1] \in 1..Len(dirs) /\ r[2] \in Nat
                      /\ \E p \in 1..Len(dirs'[r[1]].pages) : dirs'[r[1]].pages[p] = r[2]
    OBVIOUS
  <2>1. r[1] \in 1..Len(dirs) /\ r[2] \in Nat
    BY <1>1 DEF KInv, Saved
  <2>2. CASE r[1] = d
    <3>1. PICK p \in 1..Len(y.pages) : y.pages[p] = r[2]
      BY <2>2
    <3>2. dirs'[r[1]] = y
      BY <1>2, <2>2
    <3> QED  BY <2>1, <3>1, <3>2
  <2>3. CASE r[1] # d
    <3>1. r \in acked /\ dirs'[r[1]] = dirs[r[1]]
      BY <2>1, <2>3
    <3> QED  BY <2>1, <3>1, SMT DEF KInv, Saved
  <2> QED  BY <2>2, <2>3
<1>9. ASSUME NEW e \in 1..Len(dirs), e # d
      PROVE  /\ dirs'[e].meta = Len(dirs'[e].pages)
             /\ \A r \in acked' : r[1] = e => r[2] \in dirs'[e].idx
  BY <1>7, <1>9 DEF KInv, Saved
<1>10. Saved'
  BY <1>7, <1>8, <1>9 DEF Saved
<1> QED  BY <1>3, <1>6, <1>10

\* Close saves the index under the path of its database, which is still there.
LEMMA CloseIndexesKInv == ASSUME AInv, KInv, NEW c \in Clients, closeIndexes(c) PROVE KInv'
<1>1. PICK r : r = [req[c] EXCEPT !.pc = "closeHeap"]
  OBVIOUS
<1>2. req[c].pc = "closeIndexes" /\ DOMAIN req[c] = ReqFields /\ reqOK(req[c])
  BY DEF closeIndexes, at, AInv, Shape, KInv, Turns
<1>3. r.pc = "closeHeap" /\ r.name = req[c].name /\ r.obj = req[c].obj
  BY <1>1, <1>2 DEF ReqFields
<1>4. req' = [req EXCEPT ![c] = r] /\ n' = n /\ n \in Nat /\ UNCHANGED <<names, objs, cur, acked>>
  BY <1>1 DEF closeIndexes, KInv, Turns
<1>5. PICK o : o = req[c].obj
  OBVIOUS
<1>6. o \in 1..Len(objs) /\ objs[o].closed = 0 /\ names[objs[o].name] # 0
  BY <1>2, <1>5 DEF AInv, Owned, holding, KInv, Open
<1>7. \A e \in Clients : req[e].pc \notin Work
  BY <1>2 DEF KInv, Turns, Switch
<1>8. PICK h : h = objs[o].h
  OBVIOUS
<1>9. CASE h # 0 /\ hs[h].idxDirty
  <2>1. PICK d : d = hs[h].file
    OBVIOUS
  <2>2. /\ h \in 1..Len(hs) /\ DOMAIN hs[h] = HandleFields /\ d \in 1..Len(dirs) /\ DOMAIN dirs[d] = DirFields
        /\ cached(o)
    BY <1>6, <1>8, <1>9, <2>1, CachedFacts
  <2>3. PICK x : x = [hs[h] EXCEPT !.idxDirty = FALSE]
    OBVIOUS
  <2>4. PICK y : y = [dirs[d] EXCEPT !.idx = hs[h].tree]
    OBVIOUS
  <2>5. /\ DOMAIN x = HandleFields /\ x.obj = hs[h].obj /\ x.file = d /\ x.total = hs[h].total
        /\ x.metaDirty = hs[h].metaDirty /\ x.tree = hs[h].tree /\ x.idxDirty = FALSE
    BY <2>1, <2>2, <2>3 DEF HandleFields
  <2>6. DOMAIN y = DirFields /\ y.pages = dirs[d].pages /\ y.meta = dirs[d].meta /\ y.idx = hs[h].tree
    BY <2>2, <2>4 DEF DirFields
  <2>7. d = names[objs[o].name]
    BY <1>8, <2>1, <2>2 DEF cached
  <2>8. hs' = [hs EXCEPT ![h] = x] /\ dirs' = [dirs EXCEPT ![d] = y]
    BY <1>5, <1>6, <1>8, <1>9, <2>3, <2>4, <2>7 DEF closeIndexes
  <2>9. Handles(h, x)
    BY <2>2, <2>8, HandlesStep
  <2>10. hs'[h] = x
    BY <2>2, <2>9 DEF Handles
  <2>11. Directories(d, y)
    BY <2>2, <2>8, DirectoriesStep
  <2>12. /\ hs[h].obj = o /\ hs[h].total = Len(dirs[d].pages) /\ (~hs[h].metaDirty => dirs[d].meta = hs[h].total)
         /\ \A a \in acked : a[1] = d => a[2] \in hs[h].tree
    BY <1>8, <2>1, <2>2 DEF cached
  <2>13. /\ IsSeq(dirs[d].pages) /\ Len(dirs[d].pages) > 0
         /\ \A a \in acked : a[1] = d => \E p \in 1..Len(dirs[d].pages) : dirs[d].pages[p] = a[2]
    BY <2>2 DEF KInv, Files, Saved
  <2>14. Files' /\ Open' /\ Saved'
    <3>1. /\ x.total = Len(y.pages) /\ (~x.metaDirty => y.meta = x.total) /\ (~x.idxDirty => y.idx = x.tree)
          /\ \A a \in acked' : a[1] = d => a[2] \in x.tree /\ \E p \in 1..Len(y.pages) : y.pages[p] = a[2]
      BY <1>4, <2>5, <2>6, <2>12, <2>13, SMT
    <3>2. x.obj = o /\ IsSeq(y.pages) /\ Len(y.pages) > 0
      BY <2>5, <2>6, <2>12, <2>13
    <3>3. Changed(o, h, d, x, y)
      BY <1>4, <1>8, <1>9, <2>1, <2>5, <2>6, <2>9, <2>11, <3>1, <3>2 DEF Changed
    <3> QED  BY <1>6, <3>3, HandleStep
  <2>15. \A e \in Clients \ {c} : reqOK(req[e])'
    <3> SUFFICES ASSUME NEW e \in Clients \ {c} PROVE reqOK(req[e])'
      OBVIOUS
    <3>1. req'[e] = req[e] /\ reqOK(req[e]) /\ req[e].pc \notin Work
      BY <1>4, <1>7 DEF AInv, Shape, KInv, Turns
    <3>2. req[e].pc = "closeHeap" => req[e].obj \in 1..Len(objs)
      BY DEF AInv, Owned, holding
    <3>3. req[e].pc = "closeHeap" /\ objs[req[e].obj].h # 0 => ~hs'[objs[req[e].obj].h].idxDirty
      <4>1. \A q \in 1..Len(objs) : objs[q].h # 0 => q = o
        BY <1>6, <1>8, <1>9 DEF KInv, Open
      <4>2. hs'[h].idxDirty = FALSE
        BY <2>5, <2>10
      <4> QED  BY <1>8, <3>2, <4>1, <4>2
    <3> QED  BY <1>4, <3>1, <3>3 DEF reqOK, Work
  <2>16. reqOK(r)'
    <3>1. hs'[objs'[r.obj].h].idxDirty = FALSE
      BY <1>3, <1>4, <1>5, <1>8, <2>2, <2>5, <2>10
    <3> QED  BY <1>2, <1>3, <3>1 DEF reqOK, Switch, Work
  <2>17. Turns'
    BY <1>2, <1>3, <1>4, <2>15, <2>16, TurnsStep DEF Switch, Work
  <2> QED  BY <2>14, <2>17 DEF KInv
<1>10. CASE ~(h # 0 /\ hs[h].idxDirty)
  <2>1. UNCHANGED <<dirs, hs>>
    BY <1>5, <1>8, <1>10 DEF closeIndexes
  <2>2. reqOK(r)'
    BY <1>2, <1>3, <1>4, <1>5, <1>8, <1>10, <2>1 DEF reqOK, Switch, Work
  <2> QED  BY <1>3, <1>4, <1>7, <2>1, <2>2, RequestKInv DEF AInv, Shape, Work
<1> QED  BY <1>9, <1>10

\* Close writes the page count and lets go of the handle; everything the handle
\* changed is on file then.
LEMMA CloseHeapKInv == ASSUME AInv, KInv, NEW c \in Clients, closeHeap(c) PROVE KInv'
<1>1. req[c].pc = "closeHeap" /\ reqOK(req[c]) /\ n' = n /\ UNCHANGED <<names, cur, acked>>
  BY DEF closeHeap, at, KInv, Turns
<1>2. req' = [req EXCEPT ![c] = Idle]
  BY DEF closeHeap, answered
<1>3. PICK o : o = req[c].obj
  OBVIOUS
<1>4. /\ o \in 1..Len(objs) /\ objs[o].closed = 0 /\ DOMAIN objs[o] = ObjFields
      /\ \A e \in Clients \ {c} : req[e].pc = "closeHeap" => req[e].obj \in 1..Len(objs) /\ req[e].obj # o
  BY <1>1, <1>3 DEF AInv, Shape, Owned, holding
<1>5. PICK z : z = [objs[o] EXCEPT !.h = 0, !.closed = @ + 1]
  OBVIOUS
<1>6. z.h = 0 /\ z.closed = 1 /\ z.name = objs[o].name
  BY <1>4, <1>5, SMT DEF ObjFields
<1>7. Objects(o, z)
  <2>1. objs' = [objs EXCEPT ![o] = z]
    BY <1>3, <1>5 DEF closeHeap
  <2> QED  BY <1>4, <2>1, ObjectsStep
<1>8. \A e \in Clients : req[e].pc \notin Work
  BY <1>1 DEF KInv, Turns, Switch
<1>9. PICK h : h = objs[o].h
  OBVIOUS
<1>10. \A e \in Clients \ {c} : reqOK(req[e]) /\ req'[e] = req[e]
  BY <1>2 DEF KInv, Turns, AInv, Shape
<1>11. ASSUME \A e \in Clients \ {c} : req[e].pc = "closeHeap" /\ objs'[req[e].obj].h # 0
                                       => ~hs'[objs'[req[e].obj].h].idxDirty
       PROVE  Turns'
  <2>1. \A e \in Clients \ {c} : reqOK(req[e])'
    BY <1>8, <1>10, <1>11, SMT DEF reqOK, Work
  <2> QED  BY <1>1, <1>2, <2>1, IdleOK, TurnsStep
<1>12. CASE h = 0
  <2>1. UNCHANGED <<dirs, hs>>
    BY <1>3, <1>9, <1>12 DEF closeHeap
  <2>2. \A q \in 1..Len(objs) :
           objs'[q].name = objs[q].name /\ objs'[q].h = objs[q].h /\ (q # o => objs'[q] = objs[q])
    BY <1>6, <1>7, <1>9, <1>12 DEF Objects
  <2>3. Files'
    BY <1>1, <1>7, <2>1, <2>2 DEF KInv, Files, Objects
  <2>4. \A q \in 1..Len(objs) : objs'[q].h # 0 => q # o
    BY <1>9, <1>12, <2>2
  <2>5. Open'
    <3>1. \A q \in 1..Len(objs) : objs'[q].closed = 0 => names'[objs'[q].name] # 0
      BY <1>1, <1>6, <1>7, <2>2, SMTT(30) DEF KInv, Open, Objects
    <3>2. \A q \in 1..Len(objs) : objs'[q].h # 0 => cached(q)'
      <4> SUFFICES ASSUME NEW q \in 1..Len(objs), objs'[q].h # 0 PROVE cached(q)'
        OBVIOUS
      <4>1. objs'[q] = objs[q] /\ cached(q)
        BY <2>2, <2>4 DEF KInv, Open
      <4> QED  BY <1>1, <2>1, <4>1 DEF cached
    <3> QED  BY <1>7, <2>2, <3>1, <3>2 DEF KInv, Open, Objects
  <2>6. Saved'
    <3>1. \A d \in 1..Len(dirs) : inUse(d)' <=> inUse(d)
      BY <1>7, <2>1, <2>2 DEF inUse, Objects
    <3> QED  BY <1>1, <2>1, <3>1 DEF KInv, Saved
  <2>7. Turns'
    BY <1>4, <1>10, <1>11, <2>1, <2>2, SMT DEF reqOK
  <2> QED  BY <2>3, <2>5, <2>6, <2>7 DEF KInv
<1>13. CASE h # 0
  <2>1. PICK d : d = hs[h].file
    OBVIOUS
  <2>2. /\ h \in 1..Len(hs) /\ DOMAIN hs[h] = HandleFields /\ d # 0 /\ d \in 1..Len(dirs)
        /\ DOMAIN dirs[d] = DirFields /\ cached(o)
    BY <1>4, <1>9, <1>13, <2>1, CachedFacts
  <2>3. PICK x : x = [hs[h] EXCEPT !.file = 0, !.metaDirty = @ /\ d = 0]
    OBVIOUS
  <2>4. DOMAIN x = HandleFields /\ x.obj = hs[h].obj
    BY <2>2, <2>3 DEF HandleFields
  <2>5. PICK y : y = IF hs[h].metaDirty THEN [dirs[d] EXCEPT !.meta = hs[h].total] ELSE dirs[d]
    OBVIOUS
  <2>6. /\ hs' = [hs EXCEPT ![h].file = 0, ![h].metaDirty = @ /\ d = 0]
        /\ dirs' = IF hs[h].metaDirty THEN [dirs EXCEPT ![d].meta = hs[h].total] ELSE dirs
    BY <1>3, <1>9, <1>13, <2>1, <2>2 DEF closeHeap, segment
  <2>7. Handles(h, x)
    BY <2>2, <2>3, <2>6, HandlesStep
  <2>8. Directories(d, y)
    <3>1. CASE hs[h].metaDirty
      BY <2>2, <2>5, <2>6, <3>1, DirectoriesStep
    <3>2. CASE ~hs[h].metaDirty
      BY <2>2, <2>5, <2>6, <3>2 DEF Directories, KInv, Files
    <3> QED  BY <3>1, <3>2
  <2>9. /\ hs[h].total = Len(dirs[d].pages) /\ (~hs[h].metaDirty => dirs[d].meta = hs[h].total)
        /\ (~hs[h].idxDirty => dirs[d].idx = hs[h].tree)
        /\ \A a \in acked : a[1] = d => a[2] \in hs[h].tree
    BY <1>9, <2>1, <2>2 DEF cached
  <2>10. DOMAIN y = DirFields /\ y.pages = dirs[d].pages /\ y.meta = Len(y.pages) /\ y.idx = dirs[d].idx
    BY <2>2, <2>5, <2>9 DEF DirFields
  <2>11. \A q \in 1..Len(objs) : objs'[q].name = objs[q].name /\ objs'[q].h = 0
    BY <1>4, <1>6, <1>7, <1>9, <1>13 DEF KInv, Open, Objects
  <2>12. Files'
    <3>1. /\ IsSeq(dirs') /\ Len(dirs') = Len(dirs)
          /\ \A i \in 1..Len(dirs) :
               DOMAIN dirs'[i] = DirFields /\ IsSeq(dirs'[i].pages) /\ Len(dirs'[i].pages) > 0
      BY <2>2, <2>8, <2>10 DEF KInv, Files, Directories
    <3>2. /\ IsSeq(hs') /\ Len(hs') = Len(hs) /\ Len(hs) \in Nat
          /\ \A i \in 1..Len(hs) : DOMAIN hs'[i] = HandleFields /\ hs'[i].obj \in 1..Len(objs)
      BY <2>2, <2>4, <2>7 DEF KInv, Files, Handles, IsSeq
    <3>3. Len(objs') = Len(objs)
      BY <1>7 DEF Objects
    <3> QED  BY <1>1, <2>11, <3>1, <3>2, <3>3, SMTT(30) DEF KInv, Files
  <2>13. Open'
    <3>1. \A q \in 1..Len(objs) : objs'[q].closed = 0 => names'[objs'[q].name] # 0
      BY <1>1, <1>6, <1>7, SMT DEF KInv, Open, Objects
    <3> QED  BY <1>7, <2>11, <3>1 DEF Open, Objects
  <2>14. \A i \in 1..Len(dirs) :
            /\ dirs'[i].pages = dirs[i].pages /\ dirs'[i].meta = Len(dirs'[i].pages)
            /\ \A a \in acked : a[1] = i => a[2] \in dirs'[i].idx
    <3> SUFFICES ASSUME NEW i \in 1..Len(dirs)
                 PROVE  /\ dirs'[i].pages = dirs[i].pages /\ dirs'[i].meta = Len(dirs'[i].pages)
                        /\ \A a \in acked : a[1] = i => a[2] \in dirs'[i].idx
      OBVIOUS
    <3>1. CASE i = d
      <4>1. ~hs[h].idxDirty
        BY <1>1, <1>3, <1>9, <1>13 DEF reqOK
      <4>2. dirs'[i] = y
        BY <2>8, <3>1 DEF Directories
      <4> QED  BY <2>9, <2>10, <3>1, <4>1, <4>2
    <3>2. CASE i # d
      <4>1. ~inUse(i) /\ dirs'[i] = dirs[i]
        BY <1>4, <1>9, <1>13, <2>1, <2>8, <3>2 DEF KInv, Open, inUse, Directories
      <4> QED  BY <4>1 DEF KInv, Saved
    <3> QED  BY <3>1, <3>2
  <2>15. Saved'
    <3>1. Len(dirs') = Len(dirs)
      BY <2>8 DEF Directories
    <3>2. \A a \in acked :
             /\ a[1] \in 1..Len(dirs) /\ a[2] \in Nat
             /\ \E p \in 1..Len(dirs'[a[1]].pages) : dirs'[a[1]].pages[p] = a[2]
      BY <2>14 DEF KInv, Saved
    <3> QED  BY <1>1, <2>14, <3>1, <3>2 DEF Saved
  <2>16. Turns'
    BY <1>4, <1>11, <2>11
  <2> QED  BY <2>12, <2>13, <2>15, <2>16 DEF KInv
<1> QED  BY <1>12, <1>13

\* OpenDB adds an object without a handle, and a new directory for a new name.
LEMMA OpenNewKInv == ASSUME AInv, KInv, NEW c \in Clients, openNew(c) PROVE KInv'
<1>1. PICK L : L = Len(objs)
  OBVIOUS
<1>2. PICK D : D = Len(dirs)
  OBVIOUS
<1>3. PICK name : name = req[c].name
  OBVIOUS
<1>4. PICK r : r = [req[c] EXCEPT !.pc = "swap", !.obj = L + 1]
  OBVIOUS
<1>5. PICK x : x = NewDB(name, names[name] # 0 /\ dirs[names[name]].hasTable)
  OBVIOUS
<1>6. req[c].pc = "switch" /\ DOMAIN req[c] = ReqFields /\ reqOK(req[c]) /\ IsSeq(objs) /\ L \in Nat /\ D \in Nat
  BY <1>1, <1>2 DEF openNew, at, AInv, Shape, KInv, Turns, Files, IsSeq
<1>7. r.pc = "swap" /\ r.name = name /\ r.obj = L + 1
  BY <1>3, <1>4, <1>6 DEF ReqFields
<1>8. req' = [req EXCEPT ![c] = r] /\ n' = n /\ UNCHANGED <<hs, cur, acked>> /\ objs' = Append(objs, x)
  BY <1>1, <1>3, <1>4, <1>5 DEF openNew
<1>9. x.name = name /\ x.h = 0 /\ x.closed = 0 /\ name \in Names
  BY <1>3, <1>5, <1>6 DEF NewDB, reqOK, Switch
<1>10. /\ IsSeq(objs') /\ Len(objs') = L + 1 /\ objs'[L + 1] = x
       /\ \A i \in 1..L : objs'[i] = objs[i]
  BY <1>1, <1>6, <1>8, AppendFacts, SMTT(30)
<1>11. \A i \in 1..(L + 1) : i \in 1..L \/ i = L + 1
  BY <1>6, SMT
<1>12. \A e \in Clients : req[e].pc \notin Work
  BY <1>6 DEF KInv, Turns, Switch
<1>12a. PICK y : y = NewDir(FALSE)
  OBVIOUS
<1> DEFINE grown(E) ==
             /\ E >= D /\ IsSeq(dirs') /\ Len(dirs') = E
             /\ \A d \in 1..D : dirs'[d] = dirs[d]
             /\ \A d \in 1..E : d \in 1..D \/ dirs'[d] = y
             /\ DOMAIN names' = Names /\ names'[name] \in 1..E
             /\ names[name] # 0 => names' = names
             /\ names[name] = 0 => names'[name] = D + 1
             /\ \A m \in Names : m # name => names'[m] = names[m]
<1>13. PICK E \in Nat : grown(E)
  <2>1. DOMAIN names = Names /\ IsSeq(dirs) /\ \A m \in Names : names[m] \in 0..D
    BY <1>2 DEF KInv, Files
  <2>2. CASE names[name] # 0
    <3>1. UNCHANGED <<names, dirs>>
      BY <1>3, <2>2 DEF openNew
    <3>2. names[name] \in 1..D
      BY <1>6, <1>9, <2>1, <2>2, SMTT(30)
    <3>3. grown(D)
      BY <1>2, <1>6, <2>1, <2>2, <3>1, <3>2, SMT
    <3> HIDE DEF grown
    <3> QED  BY <1>6, <3>3
  <2>3. CASE names[name] = 0
    <3>1. dirs' = Append(dirs, y) /\ names' = [names EXCEPT ![name] = D + 1]
      BY <1>2, <1>3, <1>12a, <2>3 DEF openNew
    <3>2. /\ IsSeq(dirs') /\ Len(dirs') = D + 1 /\ dirs'[D + 1] = y
          /\ \A d \in 1..D : dirs'[d] = dirs[d]
      BY <1>2, <2>1, <3>1, AppendFacts, SMT
    <3>3. \A d \in 1..(D + 1) : d \in 1..D \/ d = D + 1
      BY <1>6, SMT
    <3>4. DOMAIN names' = Names /\ names'[name] = D + 1 /\ \A m \in Names : m # name => names'[m] = names[m]
      BY <1>9, <2>1, <3>1
    <3>5. D + 1 \in Nat /\ D + 1 >= D /\ D + 1 \in 1..(D + 1)
      BY <1>6, SMT
    <3>6. grown(D + 1)
      BY <2>3, <3>2, <3>3, <3>4, <3>5
    <3> HIDE DEF grown
    <3> QED  BY <3>5, <3>6
  <2> QED  BY <2>2, <2>3
<1>14. \A m \in Names : names[m] # 0 => names'[m] = names[m]
  BY <1>13
<1>15. \A o \in 1..L : objs[o].h # 0 => objs[o].closed = 0 /\ hs[objs[o].h].file \in 1..D
                                      /\ objs[o].name \in Names /\ names[objs[o].name] # 0
  BY <1>1, <1>2, CachedFacts DEF cached, KInv, Open, Files
<1>16. y.meta = Len(y.pages) /\ DOMAIN y = DirFields /\ IsSeq(y.pages) /\ Len(y.pages) > 0
  <2>1. y.pages = <<Null>> /\ y.meta = 1 /\ DOMAIN y = DirFields
    BY <1>12a DEF NewDir, DirFields
  <2>2. IsSeq(<<Null>>) /\ Len(<<Null>>) = 1
    BY SMT DEF IsSeq
  <2> QED  BY <2>1, <2>2, SMT
<1>17. Files'
  <2>1. ASSUME NEW d \in 1..E
        PROVE  DOMAIN dirs'[d] = DirFields /\ IsSeq(dirs'[d].pages) /\ Len(dirs'[d].pages) > 0
    <3>1. CASE d \in 1..D
      <4>1. dirs'[d] = dirs[d]
        BY <1>13, <3>1
      <4>2. DOMAIN dirs[d] = DirFields /\ IsSeq(dirs[d].pages) /\ Len(dirs[d].pages) > 0
        BY <1>2, <3>1 DEF KInv, Files
      <4> QED  BY <4>1, <4>2
    <3>2. CASE dirs'[d] = y
      BY <1>16, <3>2
    <3> QED  BY <1>13, <3>1, <3>2
  <2>2. IsSeq(hs') /\ \A h \in 1..Len(hs') : DOMAIN hs'[h] = HandleFields /\ hs'[h].obj \in 1..(L + 1)
    BY <1>1, <1>6, <1>8, SMTT(30) DEF KInv, Files
  <2>3. \A m \in Names : names'[m] \in 0..E
    BY <1>2, <1>6, <1>13, SMT DEF KInv, Files
  <2>4. \A m, k \in Names : names'[m] = names'[k] /\ names'[m] # 0 => m = k
    <3>1. CASE names[name] # 0
      BY <1>13, <3>1, SMT DEF KInv, Files
    <3>2. CASE names[name] = 0
      <4>1. \A m \in Names : names[m] \in 0..D
        BY <1>2 DEF KInv, Files
      <4>2. \A m \in Names : m # name => names'[m] # D + 1
        BY <1>6, <1>13, <4>1, SMTT(30)
      <4> QED  BY <1>13, <3>2, <4>2, SMT DEF KInv, Files
    <3> QED  BY <3>1, <3>2
  <2>5. \A o \in 1..(L + 1) : objs'[o].name \in Names /\ objs'[o].h \in 0..Len(hs')
    <3>1. Len(hs) \in Nat
      BY DEF KInv, Files, IsSeq
    <3> QED  BY <1>1, <1>8, <1>9, <1>10, <1>11, <3>1, SMT DEF KInv, Files
  <2> QED  BY <1>10, <1>13, <2>1, <2>2, <2>3, <2>4, <2>5 DEF Files
<1>18. Open'
  <2>1. \A q \in 1..L : objs[q].closed = 0 => names'[objs[q].name] # 0
    BY <1>1, <1>14 DEF KInv, Open, Files
  <2>2. \A q \in 1..(L + 1) : objs'[q].closed = 0 => names'[objs'[q].name] # 0
    BY <1>9, <1>10, <1>11, <1>13, <2>1, SMT
  <2>3. \A q \in 1..(L + 1) : objs'[q].h # 0 => q \in 1..L /\ objs'[q] = objs[q]
    BY <1>9, <1>10, <1>11
  <2>4. ASSUME NEW q \in 1..L, objs[q].h # 0 PROVE cached(q)'
    <3>1. /\ cached(q) /\ objs'[q] = objs[q] /\ names'[objs[q].name] = names[objs[q].name]
          /\ dirs'[hs[objs[q].h].file] = dirs[hs[objs[q].h].file]
      BY <1>1, <1>10, <1>13, <1>14, <1>15, <2>4 DEF KInv, Open
    <3> QED  BY <1>8, <3>1 DEF cached
  <2> QED  BY <1>1, <1>10, <2>2, <2>3, <2>4, SMT DEF KInv, Open
<1>19. Saved'
  <2>1. \A d \in 1..D : inUse(d) => inUse(d)'
    <3> SUFFICES ASSUME NEW d \in 1..D, inUse(d) PROVE inUse(d)'
      OBVIOUS
    <3>1. PICK o \in 1..L : objs[o].h # 0 /\ hs[objs[o].h].file = d
      BY <1>1 DEF inUse
    <3>2. o \in 1..(L + 1) /\ objs'[o] = objs[o]
      BY <1>6, <1>10, SMTT(30)
    <3> QED  BY <1>8, <1>10, <3>1, <3>2 DEF inUse
  <2>2. \A a \in acked : a[1] \in 1..D /\ a[1] \in 1..E /\ dirs'[a[1]] = dirs[a[1]]
    BY <1>2, <1>6, <1>13, SMT DEF KInv, Saved
  <2>3. \A a \in acked : a[2] \in Nat /\ \E p \in 1..Len(dirs'[a[1]].pages) : dirs'[a[1]].pages[p] = a[2]
    BY <2>2 DEF KInv, Saved
  <2>4. ASSUME NEW d \in 1..E, ~inUse(d)'
        PROVE  dirs'[d].meta = Len(dirs'[d].pages) /\ \A a \in acked : a[1] = d => a[2] \in dirs'[d].idx
    <3>1. CASE d \in 1..D
      BY <1>2, <1>13, <2>1, <2>4, <3>1 DEF KInv, Saved
    <3>2. CASE d \notin 1..D
      BY <1>13, <1>16, <2>2, <3>2
    <3> QED  BY <3>1, <3>2
  <2> QED  BY <1>8, <1>13, <2>2, <2>3, <2>4 DEF Saved
<1>20. Turns'
  <2>1. reqOK(r)'
    BY <1>7, <1>9 DEF reqOK, Switch, Work
  <2>2. ASSUME NEW e \in Clients \ {c} PROVE reqOK(req[e])'
    <3>1. req'[e] = req[e] /\ reqOK(req[e]) /\ req[e].pc \notin Work
      BY <1>8, <1>12 DEF AInv, Shape, KInv, Turns
    <3>2. req[e].pc = "closeHeap" => objs'[req[e].obj] = objs[req[e].obj]
      BY <1>1, <1>10 DEF AInv, Owned, holding
    <3> QED  BY <1>8, <3>1, <3>2 DEF reqOK, Work
  <2> QED  BY <1>6, <1>7, <1>8, <2>1, <2>2, TurnsStep DEF Switch, Work
<1> QED  BY <1>17, <1>18, <1>19, <1>20 DEF KInv

\* OpenTable loads the files of the current database, the only one that is open, or
\* finds the handle that is cached.
LEMMA OpenTableKInv == ASSUME AInv, KInv, NEW c \in Clients, OpenTable(c) PROVE KInv'
<1>1. /\ req[c].pc = "open" /\ DOMAIN req[c] = ReqFields /\ reqOK(req[c]) /\ n' = n /\ n \in Nat
      /\ UNCHANGED <<names, dirs, cur, acked>> /\ DOMAIN req = Clients
  BY DEF OpenTable, at, AInv, Shape, KInv, Turns
<1>2. req[c].obj = cur /\ cur \in 1..Len(objs) /\ req[c].row \in Nat
  BY <1>1 DEF reqOK, AInv, Owned, Work
<1>3. \A e \in Clients : req[e].pc \notin Switch
  BY <1>1 DEF KInv, Turns, Work
<1>4. CASE answered(c) /\ UNCHANGED <<objs, hs>>
  BY <1>1, <1>4, IdleOK, RequestKInv DEF answered
<1>5. CASE /\ req' = [req EXCEPT ![c].pc = "insert", ![c].h = objs[cur].h]
           /\ objs[cur].h # 0 /\ UNCHANGED <<objs, hs>>
  <2>1. PICK r : r = [req[c] EXCEPT !.pc = "insert", !.h = objs[cur].h]
    OBVIOUS
  <2>2. r.pc = "insert" /\ r.obj = cur /\ r.row = req[c].row /\ r.h = objs[cur].h
    BY <1>1, <1>2, <2>1 DEF ReqFields
  <2>3. req' = [req EXCEPT ![c] = r]
    BY <1>5, <2>1
  <2>4. reqOK(r)'
    BY <1>1, <1>2, <1>5, <2>2 DEF reqOK, Switch, Work
  <2> QED  BY <1>1, <1>3, <1>5, <2>2, <2>3, <2>4, RequestKInv DEF Switch
<1> DEFINE d == names[objs[cur].name]
           x == [obj |-> cur, file |-> d, total |-> dirs[d].meta, metaDirty |-> FALSE,
                 tree |-> dirs[d].idx, idxDirty |-> FALSE]
<1>6. CASE /\ objs[cur].h = 0 /\ d # 0 /\ hs' = Append(hs, x)
           /\ objs' = [objs EXCEPT ![cur].h = Len(hs) + 1]
           /\ req' = [req EXCEPT ![c].pc = "insert", ![c].h = Len(hs) + 1]
  <2>1. PICK k : k = Len(hs) + 1
    OBVIOUS
  <2>2. PICK r : r = [req[c] EXCEPT !.pc = "insert", !.h = k]
    OBVIOUS
  <2>3. r.pc = "insert" /\ r.obj = cur /\ r.row = req[c].row /\ r.h = k
    BY <1>1, <1>2, <2>2 DEF ReqFields
  <2>4. req' = [req EXCEPT ![c] = r]
    BY <1>6, <2>1, <2>2
  <2>5. PICK z : z = [objs[cur] EXCEPT !.h = k]
    OBVIOUS
  <2>6. z.h = k /\ z.name = objs[cur].name /\ z.closed = objs[cur].closed /\ objs[cur].closed = 0
    BY <1>2, <2>5, SMT DEF AInv, Shape, Owned, ObjFields
  <2>7. Objects(cur, z)
    <3>1. objs' = [objs EXCEPT ![cur] = z]
      BY <1>6, <2>1, <2>5
    <3> QED  BY <1>2, <3>1, ObjectsStep
  <2>8. \A q \in 1..Len(objs) : objs[q].h = 0 /\ (q # cur => objs'[q] = objs[q])
    <3> SUFFICES ASSUME NEW q \in 1..Len(objs), q # cur PROVE objs[q].h = 0 /\ objs'[q] = objs[q]
      BY <1>6
    <3>1. objs[q].closed = 1
      BY <1>3, OnlyCurrent
    <3>2. objs[q].h = 0
      BY <3>1, SMT DEF KInv, Open, cached
    <3> QED  BY <2>7, <3>2 DEF Objects
  <2>9. PICK w : w = x
    OBVIOUS
  <2>10. /\ DOMAIN w = HandleFields /\ w.obj = cur /\ w.file = d /\ w.total = dirs[d].meta
         /\ w.metaDirty = FALSE /\ w.tree = dirs[d].idx /\ w.idxDirty = FALSE
    BY <2>9 DEF HandleFields
  <2>11. hs' = Append(hs, w)
    BY <1>6, <2>9
  <2> HIDE DEF x
  <2>12. Len(hs) \in Nat /\ IsSeq(hs) /\ Len(dirs) \in Nat /\ d \in 1..Len(dirs)
    <3>1. Len(hs) \in Nat /\ IsSeq(hs) /\ Len(dirs) \in Nat /\ d \in 0..Len(dirs)
      BY <1>2 DEF KInv, Files, IsSeq
    <3> QED  BY <1>6, <3>1, SMT
  <2> HIDE DEF d
  <2>13. /\ IsSeq(hs') /\ Len(hs') = k /\ hs'[k] = w
         /\ \A i \in 1..Len(hs) : hs'[i] = hs[i]
    BY <2>1, <2>11, <2>12, AppendFacts, SMT
  <2>14. k \in Nat /\ k # 0 /\ \A i \in 1..k : i \in 1..Len(hs) \/ i = k
    BY <2>1, <2>12, SMT
  <2>15. objs'[cur] = z /\ Len(objs') = Len(objs)
    BY <1>2, <2>7 DEF Objects
  <2>16. Files'
    <3>1. \A i \in 1..k : DOMAIN hs'[i] = HandleFields /\ hs'[i].obj \in 1..Len(objs)
      BY <1>2, <2>10, <2>13, <2>14 DEF KInv, Files
    <3>2. \A q \in 1..Len(objs) : objs'[q].name \in Names /\ objs'[q].h \in 0..k
      <4>1. z.name \in Names /\ z.h \in 0..k
        BY <1>2, <2>6, <2>14, SMTT(30) DEF KInv, Files
      <4>2. \A q \in 1..Len(objs) : objs[q].name \in Names /\ objs[q].h \in 0..k
        BY <2>8, <2>14, SMT DEF KInv, Files
      <4> QED  BY <2>8, <2>15, <4>1, <4>2
    <3> QED  BY <1>1, <2>13, <2>15, <3>1, <3>2 DEF KInv, Files
  <2>17. ~inUse(d)
    BY <2>8 DEF inUse
  <2>18. cached(cur)'
    <3>1. dirs[d].meta = Len(dirs[d].pages) /\ \A a \in acked : a[1] = d => a[2] \in dirs[d].idx
      BY <2>12, <2>17 DEF KInv, Saved
    <3>2. names'[objs'[cur].name] = d
      BY <1>1, <2>6, <2>15 DEF d
    <3>3. hs'[objs'[cur].h] = w
      BY <2>6, <2>13, <2>15
    <3> QED  BY <1>1, <2>6, <2>10, <2>15, <3>1, <3>2, <3>3, SMTT(30) DEF cached
  <2>19. Open'
    <3>1. \A q \in 1..Len(objs) : objs'[q].h # 0 => q = cur
      BY <2>8
    <3>2. \A q \in 1..Len(objs) : objs'[q].closed = 0 => names'[objs'[q].name] # 0
      BY <1>1, <2>6, <2>8, <2>15, SMT DEF KInv, Open
    <3> QED  BY <1>1, <2>15, <2>18, <3>1, <3>2 DEF Open
  <2>20. Saved'
    BY <1>1, <2>8 DEF KInv, Saved, inUse
  <2>21. Turns'
    <3>1. reqOK(r)'
      BY <1>1, <1>2, <2>3, <2>6, <2>14, <2>15 DEF reqOK, Switch, Work
    <3>2. ASSUME NEW e \in Clients \ {c} PROVE reqOK(req[e])'
      <4>1. req'[e] = req[e] /\ reqOK(req[e]) /\ req[e].pc \notin Switch
        BY <1>1, <1>3, <2>4 DEF KInv, Turns
      <4>2. req[e].pc \notin {"insert", "index"}
        BY <1>6, <4>1 DEF reqOK
      <4> QED  BY <1>1, <4>1, <4>2 DEF reqOK, Switch
    <3> QED  BY <1>1, <2>3, <2>4, <3>1, <3>2, TurnsStep DEF Switch, Work
  <2> QED  BY <2>16, <2>19, <2>20, <2>21 DEF KInv
<1> QED  BY <1>2, <1>4, <1>5, <1>6 DEF OpenTable

\* HeapFile.Insert counts every page, so it overwrites none that holds a row.
LEMMA InsertHeapKInv == ASSUME AInv, KInv, NEW c \in Clients, insertHeap(c) PROVE KInv'
<1>1. /\ req[c].pc = "insert" /\ DOMAIN req[c] = ReqFields /\ reqOK(req[c]) /\ n' = n
      /\ UNCHANGED <<names, objs, cur, acked>> /\ DOMAIN req = Clients
  BY DEF insertHeap, at, AInv, Shape, KInv, Turns
<1>2. PICK h : h = req[c].h
  OBVIOUS
<1>3. req[c].obj = cur /\ h = objs[cur].h /\ h # 0 /\ req[c].row \in Nat /\ cur \in 1..Len(objs)
  BY <1>1, <1>2 DEF reqOK, AInv, Owned, Work
<1>4. PICK d : d = hs[h].file
  OBVIOUS
<1>5. /\ cached(cur) /\ h \in 1..Len(hs) /\ DOMAIN hs[h] = HandleFields /\ d # 0 /\ d \in 1..Len(dirs)
      /\ DOMAIN dirs[d] = DirFields
  BY <1>3, <1>4, CachedFacts
<1>6. /\ hs[h].obj = cur /\ hs[h].total = Len(dirs[d].pages)
      /\ (~hs[h].metaDirty => dirs[d].meta = hs[h].total) /\ (~hs[h].idxDirty => dirs[d].idx = hs[h].tree)
      /\ \A a \in acked : a[1] = d => a[2] \in hs[h].tree
  BY <1>3, <1>4, <1>5 DEF cached
<1>7. PICK last : last = Len(dirs[d].pages)
  OBVIOUS
<1>8. last \in Nat /\ last > 0
  BY <1>5, <1>7 DEF KInv, Files, IsSeq
<1>9. PICK p : p = IF dirs[d].pages[last] = Null THEN last ELSE last + 1
  OBVIOUS
<1>10. p \in Nat /\ p > 0 /\ p \in 1..p /\ p >= last /\ (IF p > last THEN p ELSE last) = p
  BY <1>8, <1>9, SMT
<1>11. PICK P : P = [q \in 1..p |-> IF q = p THEN req[c].row ELSE dirs[d].pages[q]]
  OBVIOUS
<1>12. IsSeq(P) /\ Len(P) = p
  BY <1>10, <1>11, FunctionIsSeq
<1>13. P[p] = req[c].row
  BY <1>10, <1>11
<1>14. \A q \in 1..last : dirs[d].pages[q] \in Nat => q \in 1..p /\ P[q] = dirs[d].pages[q]
  <2> SUFFICES ASSUME NEW q \in 1..last, dirs[d].pages[q] \in Nat
               PROVE  q \in 1..p /\ P[q] = dirs[d].pages[q]
    OBVIOUS
  <2>1. q \in 1..p /\ q # last + 1
    BY <1>8, <1>10, SMT
  <2>2. q # p
    BY <1>9, <2>1, AdminAssumption
  <2> QED  BY <1>11, <2>1, <2>2
<1>15. PICK r : r = [req[c] EXCEPT !.pc = "index", !.dir = d]
  OBVIOUS
<1>16. r.pc = "index" /\ r.obj = cur /\ r.row = req[c].row /\ r.h = h /\ r.dir = d
  BY <1>1, <1>2, <1>3, <1>15 DEF ReqFields
<1>17. PICK x : x = [hs[h] EXCEPT !.file = d, !.total = p, !.metaDirty = @ \/ p # last]
  OBVIOUS
<1>18. /\ DOMAIN x = HandleFields /\ x.obj = cur /\ x.file = d /\ x.total = p /\ x.tree = hs[h].tree
       /\ x.idxDirty = hs[h].idxDirty /\ x.metaDirty = (hs[h].metaDirty \/ p # last)
  BY <1>5, <1>6, <1>17 DEF HandleFields
<1>19. PICK y : y = [dirs[d] EXCEPT !.pages = P]
  OBVIOUS
<1>20. DOMAIN y = DirFields /\ y.pages = P /\ y.meta = dirs[d].meta /\ y.idx = dirs[d].idx
  BY <1>5, <1>19 DEF DirFields
<1>21. /\ dirs' = [dirs EXCEPT ![d] = y] /\ hs' = [hs EXCEPT ![h] = x] /\ req' = [req EXCEPT ![c] = r]
  <2>1. segment(h) = d
    BY <1>4, <1>5 DEF segment
  <2>2. hs[h].total = last
    BY <1>6, <1>7
  <2>3. dirs' = [dirs EXCEPT ![d].pages = [q \in 1..(IF p > Len(@) THEN p ELSE Len(@)) |->
                                            IF q = p THEN req[c].row ELSE @[q]]]
    BY <1>2, <1>5, <1>9, <2>1, <2>2, SMT DEF insertHeap
  <2>4. hs' = [hs EXCEPT ![h].file = d, ![h].total = p, ![h].metaDirty = @ \/ p # last]
    BY <1>2, <1>5, <1>9, <2>1, <2>2 DEF insertHeap
  <2>5. req' = [req EXCEPT ![c].pc = "index", ![c].dir = d]
    BY <1>2, <1>5, <2>1 DEF insertHeap
  <2>6. dirs' = [dirs EXCEPT ![d] = y]
    BY <1>7, <1>10, <1>11, <1>19, <2>3
  <2> QED  BY <1>15, <1>17, <2>4, <2>5, <2>6
<1>22. Handles(h, x) /\ Directories(d, y)
  BY <1>5, <1>21, HandlesStep, DirectoriesStep
<1>23. Files' /\ Open' /\ Saved'
  <2>1. \A a \in acked : a[1] = d => \E q \in 1..Len(y.pages) : y.pages[q] = a[2]
    <3> SUFFICES ASSUME NEW a \in acked, a[1] = d PROVE \E q \in 1..p : P[q] = a[2]
      BY <1>12, <1>20
    <3>1. PICK q \in 1..last : dirs[d].pages[q] = a[2] /\ a[2] \in Nat
      BY <1>7 DEF KInv, Saved
    <3> QED  BY <1>14, <3>1
  <2>2. x.total = Len(y.pages) /\ IsSeq(y.pages) /\ Len(y.pages) > 0
    BY <1>10, <1>12, <1>18, <1>20
  <2>3. (~x.metaDirty => y.meta = x.total) /\ (~x.idxDirty => y.idx = x.tree)
    BY <1>6, <1>7, <1>18, <1>20
  <2>4. Changed(cur, h, d, x, y)
    BY <1>1, <1>3, <1>4, <1>6, <1>18, <1>20, <1>22, <2>1, <2>2, <2>3 DEF Changed
  <2> QED  BY <1>3, <2>4, HandleStep
<1>24. hs'[h] = x /\ dirs'[d] = y
  BY <1>5, <1>22 DEF Handles, Directories
<1>25. reqOK(r)'
  BY <1>1, <1>3, <1>10, <1>12, <1>13, <1>16, <1>18, <1>20, <1>24 DEF reqOK, Switch, Work
<1>26. ASSUME NEW e \in Clients \ {c} PROVE reqOK(req[e])'
  <2>1. req'[e] = req[e] /\ reqOK(req[e]) /\ req[e].pc \notin Switch
    BY <1>1, <1>21 DEF KInv, Turns, Work
  <2>2. CASE req[e].pc = "index"
    <3>1. req[e].h = h /\ req[e].dir = d /\ req[e].row \in Nat
      BY <1>3, <1>4, <2>1, <2>2 DEF reqOK, Work
    <3>2. PICK q \in 1..last : dirs[d].pages[q] = req[e].row
      BY <1>7, <2>1, <2>2, <3>1 DEF reqOK
    <3>3. q \in 1..Len(y.pages) /\ y.pages[q] = req[e].row
      BY <1>12, <1>14, <1>20, <3>1, <3>2
    <3> QED  BY <1>1, <1>18, <1>24, <2>1, <2>2, <3>1, <3>3, SMT DEF reqOK, Switch
  <2>3. CASE req[e].pc # "index"
    BY <1>1, <2>1, <2>3 DEF reqOK, Switch
  <2> QED  BY <2>2, <2>3
<1>27. Turns'
  BY <1>1, <1>16, <1>21, <1>25, <1>26, TurnsStep DEF Switch, Work
<1> QED  BY <1>23, <1>27 DEF KInv

\* Index.Insert, and the answer that promises the row.
LEMMA InsertIndexKInv == ASSUME AInv, KInv, NEW c \in Clients, insertIndex(c) PROVE KInv'
<1>1. /\ req[c].pc = "index" /\ reqOK(req[c]) /\ n' = n /\ UNCHANGED <<names, dirs, objs, cur>>
      /\ DOMAIN req = Clients /\ req' = [req EXCEPT ![c] = Idle]
  BY DEF insertIndex, at, answered, AInv, Shape, KInv, Turns
<1>2. PICK h : h = req[c].h
  OBVIOUS
<1>3. PICK d : d = hs[h].file
  OBVIOUS
<1>4. PICK row : row = req[c].row
  OBVIOUS
<1>5. /\ h = objs[cur].h /\ h # 0 /\ row \in Nat /\ cur \in 1..Len(objs) /\ req[c].dir = d
      /\ \E p \in 1..Len(dirs[d].pages) : dirs[d].pages[p] = row
  BY <1>1, <1>2, <1>3, <1>4 DEF reqOK, AInv, Owned, Work
<1>6. /\ cached(cur) /\ h \in 1..Len(hs) /\ DOMAIN hs[h] = HandleFields /\ d \in 1..Len(dirs)
      /\ DOMAIN dirs[d] = DirFields
  BY <1>3, <1>5, CachedFacts
<1>7. /\ hs[h].obj = cur /\ hs[h].total = Len(dirs[d].pages)
      /\ (~hs[h].metaDirty => dirs[d].meta = hs[h].total)
      /\ \A a \in acked : a[1] = d => a[2] \in hs[h].tree
  BY <1>3, <1>5, <1>6 DEF cached
<1>8. PICK x : x = [hs[h] EXCEPT !.tree = @ \cup {row}, !.idxDirty = TRUE]
  OBVIOUS
<1>9. /\ DOMAIN x = HandleFields /\ x.obj = cur /\ x.file = d /\ x.total = hs[h].total
      /\ x.tree = hs[h].tree \cup {row} /\ x.idxDirty = TRUE /\ x.metaDirty = hs[h].metaDirty
  BY <1>3, <1>6, <1>7, <1>8 DEF HandleFields
<1>10. Handles(h, x)
  <2>1. hs' = [hs EXCEPT ![h] = x]
    BY <1>2, <1>4, <1>8 DEF insertIndex
  <2> QED  BY <1>6, <2>1, HandlesStep
<1>11. acked' = acked \cup {<<d, row>>}
  BY <1>4, <1>5 DEF insertIndex
<1>12. PICK y : y = dirs[d]
  OBVIOUS
<1>13. Directories(d, y)
  BY <1>1, <1>12 DEF Directories, KInv, Files
<1>14. IsSeq(y.pages) /\ Len(y.pages) > 0
  BY <1>6, <1>12 DEF KInv, Files
<1>15. \A a \in acked' : a[1] = d => a[2] \in x.tree /\ \E p \in 1..Len(y.pages) : y.pages[p] = a[2]
  <2>1. \A a \in acked : a[1] = d => a[2] \in x.tree /\ \E p \in 1..Len(y.pages) : y.pages[p] = a[2]
    <3> SUFFICES ASSUME NEW a \in acked, a[1] = d
                 PROVE  a[2] \in x.tree /\ \E p \in 1..Len(y.pages) : y.pages[p] = a[2]
      OBVIOUS
    <3>1. \E p \in 1..Len(dirs[a[1]].pages) : dirs[a[1]].pages[p] = a[2]
      BY DEF KInv, Saved
    <3>2. a[2] \in hs[h].tree
      BY <1>7
    <3> QED  BY <1>9, <1>12, <3>1, <3>2
  <2>2. row \in x.tree /\ \E p \in 1..Len(y.pages) : y.pages[p] = row
    BY <1>5, <1>9, <1>12
  <2>3. <<d, row>>[1] = d /\ <<d, row>>[2] = row
    OBVIOUS
  <2> QED  BY <1>11, <2>1, <2>2, <2>3
<1>16. \A a \in acked' : a \in acked \/ (a[1] = d /\ a[2] \in Nat)
  BY <1>5, <1>11, SMT
<1>17. Files' /\ Open' /\ Saved'
  <2>1. Changed(cur, h, d, x, y)
    BY <1>1, <1>3, <1>5, <1>6, <1>7, <1>9, <1>10, <1>12, <1>13, <1>14, <1>15, <1>16 DEF Changed
  <2> QED  BY <1>5, <2>1, HandleStep
<1>18. \A e \in Clients \ {c} : reqOK(req[e])'
  <2> SUFFICES ASSUME NEW e \in Clients \ {c} PROVE reqOK(req[e])'
    OBVIOUS
  <2>1. req'[e] = req[e] /\ reqOK(req[e]) /\ req[e].pc \notin Switch
    BY <1>1 DEF KInv, Turns, Work
  <2>2. req[e].pc = "index" => req[e].dir = hs'[req[e].h].file
    <3>1. hs'[h] = x
      BY <1>6, <1>10 DEF Handles
    <3> QED  BY <1>3, <1>5, <1>9, <2>1, <3>1 DEF reqOK
  <2> QED  BY <1>1, <2>1, <2>2 DEF reqOK, Switch
<1>19. Turns'
  BY <1>1, <1>18, IdleOK, TurnsStep
<1> QED  BY <1>17, <1>19 DEF KInv

\* The databases at the start are listed, each of them.
LEMMA NamesListed ==
    ASSUME NEW list, list = listed(Names)
    PROVE  \E k \in Nat \ {0} : /\ list \in [1..k -> Names]
                               /\ \A m \in Names : \E i \in 1..k : list[i] = m
<1>1. PICK k : k = Cardinality(Names)
  OBVIOUS
<1>2. k \in Nat \ {0} /\ ExistsBijection(1..k, Names)
  BY <1>1, AdminAssumption
<1>3. list \in Bijection(1..k, Names)
  BY <1>1, <1>2 DEF ExistsBijection, listed
<1>4. list \in [1..k -> Names] /\ \A m \in Names : \E i \in 1..k : list[i] = m
  BY <1>3 DEF Bijection, Injection, Surjection
<1> QED  BY <1>2, <1>4

\* At the start every name has a directory with an empty table, and no handle is open.
LEMMA InitKInv == Init => KInv
<1> SUFFICES ASSUME Init PROVE KInv
  OBVIOUS
<1>1. PICK list : list = listed(Names)
  OBVIOUS
<1>2. PICK k \in Nat \ {0} : list \in [1..k -> Names] /\ \A m \in Names : \E i \in 1..k : list[i] = m
  BY <1>1, NamesListed, SMT
<1>3. PICK y : y = NewDir(TRUE)
  OBVIOUS
<1>4. PICK x : x = NewDB(list[1], TRUE)
  OBVIOUS
<1>5. /\ names = [m \in Names |-> CHOOSE i \in DOMAIN list : list[i] = m]
      /\ dirs = [d \in DOMAIN list |-> y] /\ objs = <<x>> /\ cur = 1 /\ hs = <<>>
      /\ req = [c \in Clients |-> Idle] /\ n = 0 /\ acked = {}
  BY <1>1, <1>3, <1>4, SMT DEF Init
<1>6. y.meta = Len(y.pages) /\ DOMAIN y = DirFields /\ IsSeq(y.pages) /\ Len(y.pages) > 0
  <2>1. y.pages = <<Null>> /\ y.meta = 1 /\ DOMAIN y = DirFields
    BY <1>3 DEF NewDir, DirFields
  <2>2. IsSeq(<<Null>>) /\ Len(<<Null>>) = 1
    BY SMT DEF IsSeq
  <2> QED  BY <2>1, <2>2, SMT
<1>7. x.name \in Names /\ x.h = 0
  <2>1. list[1] \in Names
    BY <1>2, SMT
  <2> QED  BY <1>4, <2>1 DEF NewDB
<1>8. /\ dirs = [d \in 1..k |-> dirs[d]]
      /\ \A d \in 1..k : dirs[d] = y
  BY <1>2, <1>5
<1>9. IsSeq(dirs) /\ Len(dirs) = k
  BY <1>2, <1>8, FunctionIsSeq
<1>10. IsSeq(hs) /\ Len(hs) = 0
  BY <1>5, SMT DEF IsSeq
<1>11. Len(objs) = 1 /\ objs[1] = x /\ \A o \in 1..Len(objs) : objs[o] = x
  BY <1>5, SMT
<1>12. DOMAIN names = Names /\ \A m \in Names : names[m] \in 1..k /\ list[names[m]] = m
  <2>1. \A m \in Names : \E i \in DOMAIN list : list[i] = m
    BY <1>2
  <2>2. \A m \in Names : names[m] \in DOMAIN list /\ list[names[m]] = m
    BY <1>5, <2>1
  <2> QED  BY <1>2, <1>5, <2>2
<1>13. Files
  <2>1. \A m \in Names : names[m] \in 0..Len(dirs)
    BY <1>2, <1>9, <1>12, SMT
  <2>2. \A m, j \in Names : names[m] = names[j] => m = j
    BY <1>12
  <2>3. \A d \in 1..Len(dirs) : DOMAIN dirs[d] = DirFields /\ IsSeq(dirs[d].pages) /\ Len(dirs[d].pages) > 0
    BY <1>6, <1>8, <1>9
  <2>4. \A o \in 1..Len(objs) : objs[o].name \in Names /\ objs[o].h \in 0..Len(hs)
    BY <1>7, <1>10, <1>11, SMT
  <2> QED  BY <1>9, <1>10, <1>12, <2>1, <2>2, <2>3, <2>4, SMTT(30) DEF Files
<1>14. Turns
  <2>1. Idle.pc = "idle"
    BY DEF Idle
  <2> QED  BY <1>5, <2>1 DEF Turns, reqOK, Switch, Work
<1>15. Open
  <2>1. \A m \in Names : names[m] # 0
    BY <1>2, <1>12, SMTT(30)
  <2> QED  BY <1>5, <1>7, <1>11, <2>1 DEF Open
<1>16. Saved
  <2>1. \A d \in 1..Len(dirs) : dirs[d].meta = Len(dirs[d].pages)
    BY <1>6, <1>8, <1>9
  <2> QED  BY <1>5, <2>1 DEF Saved
<1> QED  BY <1>13, <1>14, <1>15, <1>16 DEF KInv

\* While row requests and switches keep apart, KInv is inductive.
LEMMA NextKInv == AInv /\ inTurn /\ KInv /\ [Next]_vars => inTurn' /\ KInv'
<1> SUFFICES ASSUME AInv, inTurn, KInv, [Next]_vars PROVE inTurn' /\ KInv'
  OBVIOUS
<1>1. use' = use
  <2>1. ASSUME NEW c \in Clients, Step(c) PROVE use' = use
    BY <2>1 DEF Step, openNew, swap, closeIndexes, closeHeap, readDB, OpenTable, insertHeap, insertIndex
  <2>2. ASSUME NEW c \in Clients,
               handleSwitchDB(c) \/ handleInsertRow(c) \/ dropDatabase(c) \/ renameDatabase(c)
        PROVE  use' = use
    BY <2>2 DEF handleSwitchDB, handleInsertRow, dropDatabase, renameDatabase
  <2>3. UNCHANGED vars => use' = use
    BY DEF vars
  <2> QED  BY <2>1, <2>2, <2>3 DEF Next, Finished
<1>2. CASE UNCHANGED vars
  <2>1. names' = names /\ dirs' = dirs /\ hs' = hs /\ objs' = objs /\ acked' = acked
    BY <1>2 DEF vars
  <2>2. Files'
    BY <2>1 DEF KInv, Files
  <2>3. Open'
    BY <2>1 DEF KInv, Open, cached
  <2>4. Turns' /\ Saved'
    BY <1>2 DEF vars, KInv, Turns, reqOK, Saved, inUse
  <2> QED  BY <1>1, <2>2, <2>3, <2>4 DEF KInv, inTurn
<1>3. ASSUME NEW c \in Clients,
             \/ handleSwitchDB(c) \/ handleInsertRow(c) \/ dropDatabase(c) \/ renameDatabase(c)
             \/ Step(c)
      PROVE  KInv'
  BY <1>3, HandleSwitchKInv, HandleInsertKInv, RemoveKInv, OpenNewKInv, SwapKInv, CloseIndexesKInv,
     CloseHeapKInv, ReadKInv, OpenTableKInv, InsertHeapKInv, InsertIndexKInv DEF Step
<1> QED  BY <1>1, <1>2, <1>3 DEF Next, Finished, inTurn

\* While row requests and switches keep apart and the database in use is neither
\* renamed nor dropped, a cached handle works on the directory of its database and
\* saves on Close whatever it changed, and a directory without a cached handle holds
\* everything that was promised (handlers.go:41-49, 475-500).
THEOREM AdminFilesInvariant == Spec => [](inTurn => KInv)
<1>1. Init => (inTurn => KInv)
  BY InitKInv
<1>2. AInv /\ (inTurn => KInv) /\ [Next]_vars => (inTurn => KInv)'
  <2> SUFFICES ASSUME AInv, inTurn => KInv, [Next]_vars, inTurn' PROVE KInv'
    OBVIOUS
  <2>1. inTurn
    BY ZenonT(30) DEF Next, handleSwitchDB, handleInsertRow, dropDatabase, renameDatabase, Step, openNew, swap,
           closeIndexes, closeHeap, readDB, OpenTable, insertHeap, insertIndex, Finished, vars, inTurn
  <2> QED  BY <2>1, NextKInv
<1> QED  BY <1>1, <1>2, AdminInvariant, PTL DEF Spec

\* The rows an answer promised are found by whoever opens their database next, as
\* long as row requests and switches keep apart and the database in use is neither
\* renamed nor dropped (handlers.go:49, 475, 500).
THEOREM AdminKept == Spec => []Kept
<1>1. AInv /\ (inTurn => KInv) => Kept
  <2> SUFFICES ASSUME AInv, KInv, NEW r \in acked, NEW d, d = r[1],
                      \A o \in DOMAIN objs : objs[o].closed = 0 => names[objs[o].name] # d
               PROVE  /\ r[2] \in {dirs[d].pages[p] : p \in 1..dirs[d].meta}
                      /\ r[2] \in dirs[d].idx
    BY DEF Kept, AckedFound, inTurn
  <2>1. DOMAIN objs = 1..Len(objs)
    BY DEF AInv, Shape, IsSeq
  <2>2. ~inUse(d)
    BY <2>1, SMT DEF inUse, KInv, Open, cached
  <2>3. d \in 1..Len(dirs)
    BY DEF KInv, Saved
  <2>4. dirs[d].meta = Len(dirs[d].pages) /\ r[2] \in dirs[d].idx
    BY <2>2, <2>3 DEF KInv, Saved
  <2>5. \E p \in 1..Len(dirs[d].pages) : dirs[d].pages[p] = r[2]
    BY DEF KInv, Saved
  <2> QED  BY <2>4, <2>5
<1> QED  BY <1>1, AdminInvariant, AdminFilesInvariant, PTL
=============================================================================
