------------------------------- MODULE Engine -------------------------------
(***************************************************************************)
(* Clients that run scripts of SELECT, INSERT, UPDATE and DELETE on one     *)
(* table (query/engine.go and the operators of query/physical.go that reach *)
(* storage).  A step is what happens under one lock of the storage layer    *)
(* together with the computation that follows it.                           *)
(*                                                                         *)
(* The heap is the sequence of the rows ever stored, in scan order; a RID   *)
(* is a position in it and is not used again (HeapFile).  The set of        *)
(* indexes does not change here (TableHandle).  Rows fit in a page.         *)
(***************************************************************************)
EXTENDS Meaning, Bags

CONSTANTS Clients,
          Setups    \* [schema, rows, indexed, unique, scripts]: a table and a script for each client

VARIABLES schema,
          heap,     \* [row, live]
          tree,     \* column -> entries of its index
          unique,   \* columns whose index is unique
          cl,       \* the clients
          told      \* ghost: the number of rows according to the answers given

vars == <<schema, heap, tree, unique, cl, told>>

\* pc: what the client does next.  src, left: RIDs and rows still to come from
\* the input.  snapshot: the input is a table scan.  cur: the row just pulled;
\* rid: the row found for it.  todo: index operations left.  Ghosts: from, the
\* live rows that the input could see when it was opened; killed and made, the
\* rows this statement deleted and stored; out, the rows of a SELECT; failed and
\* ran, that a statement failed and that the client has begun.
Idle(script, failed, ran) ==
    [script |-> script, pc |-> "idle", src |-> <<>>, left |-> NoLimit, snapshot |-> TRUE,
     cur |-> 0, rid |-> 0, todo |-> <<>>, count |-> 0, err |-> FALSE,
     from |-> {}, killed |-> {}, made |-> {}, out |-> <<>>,
     failed |-> failed, ran |-> ran]

Init ==
    \E u \in Setups :
        /\ schema = u.schema
        /\ heap = [r \in DOMAIN u.rows |-> [row |-> u.rows[r], live |-> TRUE]]
        /\ tree = [c \in u.indexed |-> {entry(column(u.schema, u.rows[r], c), r) : r \in DOMAIN u.rows}]
        /\ unique = u.unique
        /\ cl = [c \in Clients |-> Idle(u.scripts[c], FALSE, FALSE)]
        /\ told = Len(u.rows)

stmt(c) == Head(cl[c].script)
live == {r \in DOMAIN heap : heap[r].live}
set(c, new) == cl' = [cl EXCEPT ![c] = new]

\* The row that arrives in the heap for the row given.
stored(row) == [i \in DOMAIN row |-> Stored(schema[i].type, row[i])]

\* The columns of the indexes in some order: a range over a map.
indexOrders == SetToSeqs(DOMAIN tree)

----------------------------------------------------------------------------
\* executeNode: Plan, Optimize, Open

planOfStmt(s) ==
    CASE s.stmt = "select" -> planSelect(schema, s)
      [] s.stmt = "update" -> planUpdate(schema, s)
      [] s.stmt = "delete" -> planDelete(schema, s)

\* planInsert and optimizeInsert: as many literals as columns.
insertable(s) == Len(s.values) = Len(schema) /\ \A i \in DOMAIN s.values : isLiteral(s.values[i])

OpenInsert(c) ==
    /\ cl[c].pc = "idle" /\ cl[c].script # <<>> /\ stmt(c).stmt = "insert"
    /\ set(c, [cl[c] EXCEPT !.pc = IF insertable(stmt(c)) THEN "insert" ELSE "done",
                            !.err = ~insertable(stmt(c)), !.ran = TRUE])
    /\ UNCHANGED <<schema, heap, tree, unique, told>>

\* The input is a scan, whose rows are copied at once (newScanner), or the RIDs
\* an index gives, whose rows are fetched as they are asked for.
Open(c) ==
    /\ cl[c].pc = "idle" /\ cl[c].script # <<>> /\ stmt(c).stmt # "insert"
    /\ LET p     == planOfStmt(stmt(c))
           nodes == Optimize(DOMAIN tree, p.nodes)
           scan  == nodes[1].node = "scan"
           seen  == IF scan THEN live ELSE {r \in live : \E e \in tree[nodes[1].column] : e.rid = r}
       IN  set(c, IF ~p.ok THEN [cl[c] EXCEPT !.pc = "done", !.err = TRUE, !.ran = TRUE]
                  ELSE [cl[c] EXCEPT !.pc = "pull", !.snapshot = scan, !.left = stmt(c).limit,
                                     !.src = IF scan THEN SetToSortSeq(live, <)
                                             ELSE indexRIDs(tree[nodes[1].column], nodes[1]),
                                     !.from = seen, !.ran = TRUE])
    /\ UNCHANGED <<schema, heap, tree, unique, told>>

----------------------------------------------------------------------------
\* The input of SELECT, UPDATE and DELETE

\* Mutant: a deleted row ends an index scan.
Pull_DeletedIsEOF(c) ==
    LET me   == cl[c]
        r    == Head(me.src)
        pass == IF me.snapshot /\ stmt(c).where # NoExpr
                THEN Eval(schema, stmt(c).where, heap[r].row) ELSE NewBooleanValue(TRUE)
        next == [me EXCEPT !.src = Tail(@)]
    IN  /\ me.pc = "pull"
        /\ set(c, IF me.src = <<>> \/ me.left = 0 \/ (~me.snapshot /\ ~heap[r].live)
                  THEN [me EXCEPT !.pc = "done"]
                  ELSE IF ~isTrue(pass) THEN next
                  ELSE IF stmt(c).stmt = "select" THEN [next EXCEPT !.out = Append(@, r)]
                  ELSE [next EXCEPT !.pc = "find", !.cur = r])
        /\ UNCHANGED <<schema, heap, tree, unique, told>>

\* One row of the source through filter and limit.  There is a filter exactly
\* above a table scan; a row deleted since the index was read is skipped.
Pull(c) ==
    LET me   == cl[c]
        r    == Head(me.src)
        rest == [me EXCEPT !.src = Tail(@)]
        pass == IF me.snapshot /\ stmt(c).where # NoExpr
                THEN Eval(schema, stmt(c).where, heap[r].row) ELSE NewBooleanValue(TRUE)
        next == [rest EXCEPT !.left = IF @ = NoLimit THEN @ ELSE @ - 1]
    IN  /\ me.pc = "pull"
        /\ set(c, IF me.src = <<>> \/ me.left = 0 THEN [me EXCEPT !.pc = "done"]
                  ELSE IF ~me.snapshot /\ ~heap[r].live THEN rest
                  ELSE IF pass = Failed THEN [me EXCEPT !.pc = "done", !.err = TRUE]
                  ELSE IF ~isTrue(pass) THEN rest
                  ELSE IF stmt(c).stmt = "select" THEN [next EXCEPT !.out = Append(@, r)]
                  ELSE [next EXCEPT !.pc = "find", !.cur = r])
        /\ UNCHANGED <<schema, heap, tree, unique, told>>

\* Mutant: the scan goes on after a match.
Find_NoBreak(c) ==
    LET same == {r \in live : rowsEqual(heap[r].row, heap[cl[c].cur].row)}
    IN  /\ cl[c].pc = "find"
        /\ set(c, IF same = {} THEN [cl[c] EXCEPT !.pc = "pull"]
                  ELSE [cl[c] EXCEPT !.pc = "apply", !.rid = Max(same)])
        /\ UNCHANGED <<schema, heap, tree, unique, told>>

\* Mutant: a row that is gone is asked for again.
Find_Retry(c) ==
    LET same == {r \in live : rowsEqual(heap[r].row, heap[cl[c].cur].row)}
    IN  /\ cl[c].pc = "find"
        /\ set(c, IF same = {} THEN [cl[c] EXCEPT !.pc = "pull", !.src = <<cl[c].cur>> \o @]
                  ELSE [cl[c] EXCEPT !.pc = "apply", !.rid = Min(same)])
        /\ UNCHANGED <<schema, heap, tree, unique, told>>

\* UPDATE and DELETE look for the RID of a row by scanning for an equal one.
Find(c) ==
    LET same == {r \in live : rowsEqual(heap[r].row, heap[cl[c].cur].row)}
    IN  /\ cl[c].pc = "find"
        /\ set(c, IF same = {} THEN [cl[c] EXCEPT !.pc = "pull"]
                  ELSE [cl[c] EXCEPT !.pc = "apply", !.rid = Min(same)])
        /\ UNCHANGED <<schema, heap, tree, unique, told>>

----------------------------------------------------------------------------
\* TableHandle.Insert, Update and Delete

indexOp(op, col, v, r) == [op |-> op, column |-> col, value |-> v, rid |-> r]
oldEntry(col, r) == indexOp("delete", col, column(schema, heap[r].row, col), r)
newEntry(col, row, r) == indexOp("insert", col, column(schema, row, col), r)

kill(r) == [heap EXCEPT ![r].live = FALSE]

\* Nothing to do for the indexes: the next row, or the end of an INSERT.
afterIndexes(me) ==
    IF me.todo # <<>> THEN [me EXCEPT !.pc = "index"]
    ELSE [me EXCEPT !.pc = IF Head(me.script).stmt = "insert" THEN "done" ELSE "pull", !.count = @ + 1]

\* Mutant: a row that another statement deleted is counted.
ApplyDelete_CountDead(c) ==
    LET me == cl[c]
    IN  /\ me.pc = "apply" /\ stmt(c).stmt = "delete"
        /\ \E order \in indexOrders :
              set(c, afterIndexes([me EXCEPT !.killed = @ \cup {me.rid},
                                             !.todo = [i \in DOMAIN order |-> oldEntry(order[i], me.rid)]]))
        /\ heap' = kill(me.rid)
        /\ UNCHANGED <<schema, tree, unique, told>>

\* A row deleted in the meantime is not counted.
ApplyDelete(c) ==
    LET me == cl[c]
    IN  /\ me.pc = "apply" /\ stmt(c).stmt = "delete"
        /\ IF ~heap[me.rid].live THEN set(c, [me EXCEPT !.pc = "pull"]) /\ UNCHANGED heap
           ELSE /\ \E order \in indexOrders :
                      set(c, afterIndexes([me EXCEPT !.killed = @ \cup {me.rid},
                                !.todo = [i \in DOMAIN order |-> oldEntry(order[i], me.rid)]]))
                /\ heap' = kill(me.rid)
        /\ UNCHANGED <<schema, tree, unique, told>>

\* SET is evaluated on the row pulled; the last item of a column counts.
setFails(s, row) == \E k \in DOMAIN s.set : Eval(schema, s.set[k].value, row) = Failed
assigned(s, row) == [i \in DOMAIN row |->
    LET items == {k \in DOMAIN s.set : s.set[k].column = schema[i].name}
    IN  IF items = {} THEN row[i] ELSE Eval(schema, s.set[Max(items)].value, row)]

\* The indexes get the new values as they were evaluated, the heap as it stores
\* them.  Earlier rows stay updated when a row is refused.
ApplyUpdate(c) ==
    LET me  == cl[c]
        row == assigned(stmt(c), heap[me.cur].row)
        new == Len(heap) + 1
    IN  /\ me.pc = "apply" /\ stmt(c).stmt = "update"
        /\ IF setFails(stmt(c), heap[me.cur].row)
           THEN set(c, [me EXCEPT !.pc = "done", !.err = TRUE]) /\ UNCHANGED heap
           ELSE IF ~heap[me.rid].live THEN set(c, [me EXCEPT !.pc = "pull"]) /\ UNCHANGED heap
           ELSE IF ~validateRow(schema, row)
           THEN set(c, [me EXCEPT !.pc = "done", !.err = TRUE]) /\ UNCHANGED heap
           ELSE /\ heap' = Append(kill(me.rid), [row |-> stored(row), live |-> TRUE])
                /\ \E order \in indexOrders :
                      set(c, afterIndexes([me EXCEPT
                                !.killed = @ \cup {me.rid}, !.made = @ \cup {new},
                                !.todo = FlattenSeq([i \in DOMAIN order |->
                                    <<oldEntry(order[i], me.rid), newEntry(order[i], row, new)>>])]))
        /\ UNCHANGED <<schema, tree, unique, told>>

Insert(c) ==
    LET me  == cl[c]
        row == [i \in DOMAIN stmt(c).values |-> literal(stmt(c).values[i])]
        new == Len(heap) + 1
    IN  /\ me.pc = "insert"
        /\ IF ~validateRow(schema, row)
           THEN set(c, [me EXCEPT !.pc = "done", !.err = TRUE]) /\ UNCHANGED heap
           ELSE /\ heap' = Append(heap, [row |-> stored(row), live |-> TRUE])
                /\ \E order \in indexOrders :
                      set(c, afterIndexes([me EXCEPT !.rid = new, !.made = {new},
                                !.todo = [i \in DOMAIN order |-> newEntry(order[i], row, new)]]))
        /\ UNCHANGED <<schema, tree, unique, told>>

\* One index at a time.  A unique violation undoes an INSERT and is ignored by
\* an UPDATE.
IndexStep(c) ==
    LET me  == cl[c]
        op  == Head(me.todo)
        bad == op.op = "insert" /\ op.column \in unique /\ Violates(tree[op.column], op.value, op.rid)
        e   == entry(op.value, op.rid)
    IN  /\ me.pc = "index"
        /\ set(c, IF bad /\ stmt(c).stmt = "insert" THEN [me EXCEPT !.pc = "rollback", !.todo = <<>>]
                  ELSE afterIndexes([me EXCEPT !.todo = Tail(@)]))
        /\ tree' = IF bad THEN tree
                   ELSE [tree EXCEPT ![op.column] = IF op.op = "insert" THEN ReplaceOrInsert(@, e)
                                                    ELSE TreeDelete(@, e)]
        /\ UNCHANGED <<schema, heap, unique, told>>

\* Entries made in other indexes stay.
Rollback(c) ==
    /\ cl[c].pc = "rollback"
    /\ heap' = kill(cl[c].rid)
    /\ set(c, [cl[c] EXCEPT !.pc = "done", !.err = TRUE, !.killed = {cl[c].rid}])
    /\ UNCHANGED <<schema, tree, unique, told>>

----------------------------------------------------------------------------
\* ExecuteScript

\* The first error ends the script.
Answer(c) ==
    LET me == cl[c]
        kind == stmt(c).stmt
    IN  /\ me.pc = "done"
        /\ set(c, Idle(IF me.err THEN <<>> ELSE Tail(me.script), me.failed \/ me.err, TRUE))
        /\ told' = IF me.err \/ kind \in {"select", "update"} THEN told
                   ELSE IF kind = "insert" THEN told + 1 ELSE told - me.count
        /\ UNCHANGED <<schema, heap, tree, unique>>


Over(c) == cl[c].pc = "idle" /\ cl[c].script = <<>>
Finished == (\A c \in Clients : Over(c)) /\ UNCHANGED vars

Step(c) == \/ Open(c) \/ OpenInsert(c) \/ Pull(c) \/ Find(c)
           \/ ApplyDelete(c) \/ ApplyUpdate(c) \/ Insert(c) \/ IndexStep(c)
           \/ Rollback(c) \/ Answer(c)

Next == (\E c \in Clients : Step(c)) \/ Finished

\* The Go scheduler runs every goroutine that can run: weak fairness of Step(c),
\* which is enabled exactly until the client is over.
Fair(c) == []<>Over(c) \/ []<><<cl'[c] # cl[c]>>_vars

Spec == Init /\ [][Next]_vars /\ \A c \in Clients : Fair(c)

----------------------------------------------------------------------------
\* Properties

\* The types of the variables; a stored row has, in every column, a value of the
\* column's kind or NULL.
TypeOK ==
    /\ \A r \in DOMAIN heap :
          /\ validateRow(schema, heap[r].row) /\ heap[r].live \in BOOLEAN
          /\ \A i \in DOMAIN schema : heap[r].row[i].kind \in {KindNull, schema[i].type}
    /\ \A c \in Clients :
          /\ cl[c].pc \in {"idle", "pull", "find", "apply", "insert", "index", "rollback", "done"}
          /\ cl[c].left >= NoLimit
          /\ ToSet(cl[c].src) \cup cl[c].killed \cup cl[c].made \subseteq DOMAIN heap

isDML(c) == cl[c].pc \notin {"idle"} /\ stmt(c).stmt \in {"update", "delete"}
matches(s, r) == s.where = NoExpr \/ Truth(schema, s.where, heap[r].row) = 2
alone(c) == \A d \in Clients \ {c} : ~cl[d].ran

\* The index scan stands for the whole WHERE clause (see IndexScanExact in Query).
exactSource(c) == cl[c].snapshot \/ translatable(schema, stmt(c).where)

imageBag(S, f(_)) == ToBag([i \in 1..Cardinality(S) |-> f(SetToSeq(S)[i])])

\* An UPDATE or DELETE that runs alone has, at every moment, replaced some of the
\* matching rows by their images and touched nothing else, its own new rows
\* included (physical.go:442: rows are found again by value, and an update moves
\* them); when it ends without error it has done so to all of them, or to as many
\* as LIMIT says, and reports their number.
StatementExact ==
    \A c \in Clients : isDML(c) /\ alone(c) /\ exactSource(c) =>
        LET me   == cl[c]
            s    == stmt(c)
            want == {r \in me.from : matches(s, r)}
            size == Cardinality(want)
        IN  /\ me.killed \subseteq want
            /\ live = (me.from \ me.killed) \cup me.made
            /\ imageBag(me.made, LAMBDA r : heap[r].row)
                 = IF s.stmt = "delete" THEN EmptyBag
                   ELSE imageBag(me.killed, LAMBDA r : stored(assigned(s, heap[r].row)))
            /\ me.pc = "done" /\ ~me.err =>
                 /\ Cardinality(me.killed) = IF s.limit = NoLimit THEN size ELSE Min({s.limit, size})
                 /\ me.count = Cardinality(me.killed)

\* Whatever other clients do between the steps of an UPDATE or DELETE, every row
\* it removes satisfies its WHERE clause, although that is checked, if at all, on
\* a copy taken earlier (physical.go:125, 453).
OnlyMatching ==
    \A c \in Clients : isDML(c) /\ exactSource(c) => \A r \in cl[c].killed : matches(stmt(c), r)

\* No UPDATE replaces a row that it stored itself: a row "deleted between filter
\* and update" is skipped (physical.go:470).
NotTwice == \A c \in Clients : isDML(c) => cl[c].killed \cap cl[c].made = {}

\* A SELECT returns only rows that satisfy WHERE, none twice, and every matching
\* row that was there from its start to its end; a table scan returns exactly the
\* rows of the moment it was opened (physical.go:52, 113-154).
SelectStable ==
    \A c \in Clients :
        LET me   == cl[c]
            want == {r \in me.from : matches(stmt(c), r)}
        IN  me.pc = "done" /\ ~me.err /\ stmt(c).stmt = "select" /\ exactSource(c) =>
              /\ IsInjective(me.out)
              /\ \A i \in DOMAIN me.out : matches(stmt(c), me.out[i])
              /\ stmt(c).limit = NoLimit => want \cap live \subseteq ToSet(me.out)
              /\ stmt(c).limit = NoLimit /\ me.snapshot => ToSet(me.out) = want

\* The answers add up: when no statement runs and none has failed, the table has
\* the rows it started with plus those that clients were told were inserted minus
\* those they were told were deleted (physical.go:587, handle.go:106).
AnswersAddUp ==
    (\A c \in Clients : cl[c].pc = "idle" /\ ~cl[c].failed) =>
        Cardinality(live) = told

\* When no statement is between the heap and an index, every row is in every index
\* that is not unique, and an entry that leads to a row has that row's value, so
\* that reading through an index finds what a scan would: the index was given the
\* values as evaluated and loses them by the values as stored (handle.go:35, 88).
IndexAgrees ==
    (\A c \in Clients : cl[c].todo = <<>> /\ cl[c].pc # "rollback") =>
        \A col \in DOMAIN tree :
            /\ \A e \in tree[col] : e.rid \in live => e.value = column(schema, heap[e.rid].row, col)
            /\ col \notin unique => \A r \in live : \E e \in tree[col] : e.rid = r

\* Every started statement is answered: an UPDATE does not chase the rows it
\* appends, and a deleted row does not stop an index scan (physical.go:139, 442).
Answered == \A c \in Clients : cl[c].pc # "idle" ~> cl[c].pc = "idle"
=============================================================================
