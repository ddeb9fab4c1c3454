----------------------------- MODULE SlotStore -----------------------------
(***************************************************************************)
(* What a slotted page promises its callers: an append-only table of       *)
(* slots.  A slot ID is handed out once, names the same tuple until it is  *)
(* deleted, and stays deleted for ever (storage/page.go: "SlotIDs are      *)
(* never reused or renumbered, even after compaction").  Nothing here      *)
(* knows about bytes, offsets or compaction.                               *)
(***************************************************************************)
EXTENDS Integers

CONSTANTS
    Data,       \* the tuples a caller may store
    Deleted     \* what a deleted slot reads as

VARIABLES
    count,      \* how many slot IDs have been handed out
    store       \* slot ID -> the tuple, or Deleted

vars == <<count, store>>

Init ==
    /\ count = 0
    /\ store = [s \in 0 .. -1 |-> Deleted]

Insert(data) ==
    /\ count' = count + 1
    /\ store' = [s \in 0 .. count |-> IF s = count THEN data ELSE store[s]]

Delete(s) ==
    /\ store[s] # Deleted
    /\ store' = [store EXCEPT ![s] = Deleted]
    /\ UNCHANGED count

Next ==
    \/ \E data \in Data : Insert(data)
    \/ \E s \in 0 .. count - 1 : Delete(s)

Spec == Init /\ [][Next]_vars
=============================================================================
