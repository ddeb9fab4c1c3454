-------------------------------- MODULE MCDB --------------------------------
(***************************************************************************)
(* Two goroutines and two table names; a name can be dropped, created and   *)
(* opened again.                                                            *)
(***************************************************************************)
EXTENDS DB, TLC

CONSTANTS t, u   \* table names; u is t, a dot and more where names are dotted

Catalog == {"Create", "Drop", "Open", "Close", "Insert"}
Indexes == Catalog \cup {"CreateIndex", "Flush"}
Everything == Indexes \cup {"Validate"}

\* Rows and indexes of tables that are dropped and created again.
RowsUse == [dotted |-> {}, maxFiles |-> 3, maxHandles |-> 3, ops |-> Indexes,
            keepHandles |-> FALSE, failures |-> TRUE, crashes |-> TRUE]
\* Everything at once.
CatalogUse == [dotted |-> {<<t, u>>}, maxFiles |-> 2, maxHandles |-> 2, ops |-> Everything,
               keepHandles |-> TRUE, failures |-> TRUE, crashes |-> TRUE]

BothUses == {RowsUse, CatalogUse}
Symmetry == Permutations(Clients)
=============================================================================
