--------------------------- MODULE MCAdminServer ----------------------------
(* The constants of the Admin run. *)
EXTENDS AdminServer

\* Switches and row requests one after the other, each kind with itself at once.
InTurn == [requests |-> 5, overlap |-> FALSE, current |-> FALSE]

\* Everything at once.
Together == [requests |-> 4, overlap |-> TRUE, current |-> TRUE]

AllUses == {InTurn, Together}
=============================================================================
