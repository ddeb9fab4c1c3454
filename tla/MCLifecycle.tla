---------------------------- MODULE MCLifecycle -----------------------------
(* The constants of the Lifecycle run. *)
EXTENDS Lifecycle

CONSTANTS a, b

OneOperator == [operators |-> {a}, servers |-> 3, slow |-> FALSE, failures |-> TRUE, crashes |-> FALSE]
Killed == [OneOperator EXCEPT !.crashes = TRUE, !.servers = 2]
Slow == [OneOperator EXCEPT !.slow = TRUE, !.servers = 2]
TwoOperators == [OneOperator EXCEPT !.operators = {a, b}, !.servers = 2]

AllUses == {OneOperator, Killed, Slow, TwoOperators}
=============================================================================
