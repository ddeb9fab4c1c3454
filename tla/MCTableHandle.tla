--------------------------- MODULE MCTableHandle ---------------------------
(***************************************************************************)
(* Small tables for TLC: one or two goroutines, one or two columns of two  *)
(* values, and pages of two rows, so that a third row starts a page whose  *)
(* number is not on disk yet.                                              *)
(***************************************************************************)
EXTENDS TableHandle, TLC

CONSTANTS a, b   \* columns

\* Goroutines are interchangeable, and so are values: no step compares them
\* but for equality.
Symmetry == Permutations(Clients) \cup Permutations(Values)

RowOps == {"Insert", "Update", "Delete"}
SchemaOps == RowOps \cup {"CreateIndex", "DropIndex"}

\* Two indexes and writers that use the RIDs they were given.
TwoIndexes == [columns |-> {a, b}, unique |-> {}, indexed |-> {a, b}, maxPages |-> 3, slotsPerPage |-> 1,
               ops |-> RowOps, scanRIDs |-> FALSE, crashes |-> FALSE]
\* A unique index, and two rows to a page.
UniqueIndex == [TwoIndexes EXCEPT !.columns = {a}, !.unique = {a}, !.indexed = {a}, !.maxPages = 2,
                                  !.slotsPerPage = 2, !.ops = {"Insert", "Delete"}]
\* An index created and dropped under writers that use any RID.
SchemaChange == [TwoIndexes EXCEPT !.columns = {a}, !.indexed = {}, !.ops = SchemaOps, !.scanRIDs = TRUE]
\* Flush, and crashes at any moment.
Flushes == [TwoIndexes EXCEPT !.columns = {a}, !.indexed = {a}, !.ops = {"Insert", "Update", "Flush"},
                              !.scanRIDs = TRUE, !.crashes = TRUE]

AllUses == {TwoIndexes, UniqueIndex, SchemaChange, Flushes}
=============================================================================
