------------------------------ MODULE MCDaemon ------------------------------
(***************************************************************************)
(* Three connections of the daemon, with every kind of request.             *)
(***************************************************************************)
EXTENDS Daemon

AllRequests == {"insert", "shutdown", "malformed"}
=============================================================================
