------------------------------- MODULE Daemon -------------------------------
(***************************************************************************)
(* The dbserver daemon: daemon.Server (daemon/server.go) driven by main     *)
(* (cmd/dbserver/main.go) and by clients that send one request per          *)
(* connection (daemon/client.go).                                           *)
(*                                                                         *)
(* Threads: main (the accept loop, then the cleanup), one handler per       *)
(* accepted connection, the goroutine that waits for SIGTERM or SIGINT, and *)
(* one goroutine per "shutdown" request.  A request that writes is an       *)
(* insert into a table with an index: OpenTable under db.mu, heap.Insert    *)
(* under h.mu, idx.Insert under idx.mu.                                     *)
(***************************************************************************)
EXTENDS Integers, FiniteSets

CONSTANTS Conns,     \* client connections, one request each
          Requests   \* the kinds of request: "insert", "shutdown", "malformed"

ASSUME DaemonAssumption == Requests \subseteq {"insert", "shutdown", "malformed"}

VARIABLES
    main,      \* where main is
    listener,  \* is the listening socket open?
    wg,        \* Server.wg
    conn,      \* each connection: state, request and the handle its handler got
    stopper,   \* the goroutines that call Shutdown: the signal's and the requests'
    dbmu,      \* does main hold db.mu (DB.Close)?
    handle,    \* the cached TableHandle: 0 none, else its number
    opened,    \* handles created so far
    heap,      \* connections whose row is in the heap
    index,     \* connections whose row is in the index of a handle
    heapSaved, \* connections whose row heap.Close covers
    indexSaved,\* connections whose entry idx.Close has written
    early      \* ghost: inserts answered while the listener was open

vars == <<main, listener, wg, conn, stopper, dbmu, handle, opened,
          heap, index, heapSaved, indexSaved, early>>
dbVars == <<dbmu, handle, opened, heap, index, heapSaved, indexSaved>>

Running == main # "exited"

\* A connection that Accept has returned and whose handler has not finished.
InFlight == {"accepted", "reading", "sent", "open", "heap", "reply"}
inFlight == {c \in Conns : conn[c].state \in InFlight}

Signal == "signal"
Stoppers == Conns \cup {Signal}

Init == /\ main = "accept" /\ listener = TRUE /\ wg = 0
        /\ conn = [c \in Conns |-> [state |-> "new", req |-> "none", h |-> 0]]
        /\ stopper = [s \in Stoppers |-> "none"]
        /\ dbmu = FALSE /\ handle = 0 /\ opened = 0
        /\ heap = {} /\ index = {} /\ heapSaved = {} /\ indexSaved = {}
        /\ early = {}

to(c, state) == conn' = [conn EXCEPT ![c].state = state]

----------------------------------------------------------------------------
\* The clients: Send dials, writes its request, reads the answer.  The time
\* between two of its steps is unbounded, and it may stop between them.

Dial(c) ==
    /\ conn[c].state = "new" /\ listener /\ Running
    /\ to(c, "queued")
    /\ UNCHANGED <<main, listener, wg, stopper, dbVars, early>>

SendRequest(c) ==
    /\ conn[c].state = "reading" /\ Running
    /\ \E r \in Requests : conn' = [conn EXCEPT ![c].state = "sent", ![c].req = r]
    /\ UNCHANGED <<main, listener, wg, stopper, dbVars, early>>

SigTerm ==
    /\ stopper[Signal] = "none" /\ Running
    /\ stopper' = [stopper EXCEPT ![Signal] = "close"]
    /\ UNCHANGED <<main, listener, wg, conn, dbVars, early>>

----------------------------------------------------------------------------
\* Serve: Accept, then wg.Add and the handler's goroutine.

Accept(c) ==
    /\ main = "accept" /\ listener /\ conn[c].state = "queued"
    /\ to(c, "accepted") /\ main' = "spawn"
    /\ UNCHANGED <<listener, wg, stopper, dbVars, early>>

Spawn(c) ==
    /\ main = "spawn" /\ conn[c].state = "accepted"
    /\ wg' = wg + 1
    /\ to(c, "reading") /\ main' = "accept"
    /\ UNCHANGED <<listener, stopper, dbVars, early>>

\* Accept fails because the listener is closed: Serve returns.
ServeReturn ==
    /\ main = "accept" /\ ~listener
    /\ main' = "close"
    /\ UNCHANGED <<listener, wg, conn, stopper, dbVars, early>>

----------------------------------------------------------------------------
\* handleConn and dispatch

\* Mutant: a request that cannot be decoded is not answered.
Dispatch_DropMalformed(c) ==
    /\ Running /\ conn[c].state = "sent" /\ conn[c].req # "malformed"
    /\ \/ /\ conn[c].req = "shutdown"
          /\ stopper' = [stopper EXCEPT ![c] = "close"]
          /\ to(c, "reply")
          /\ UNCHANGED <<handle, opened>>
       \/ /\ conn[c].req = "insert" /\ ~dbmu
          /\ opened' = IF handle = 0 THEN opened + 1 ELSE opened
          /\ handle' = IF handle = 0 THEN opened + 1 ELSE handle
          /\ conn' = [conn EXCEPT ![c].state = "open", ![c].h = handle']
          /\ UNCHANGED stopper
    /\ UNCHANGED <<main, listener, wg, dbmu, heap, index, heapSaved, indexSaved, early>>

\* The request is decoded and dispatched.  "shutdown" starts Shutdown in a
\* goroutine of its own; a malformed request is answered with an error; an
\* insert calls OpenTable, which opens the table again if it has no handle.
Dispatch(c) ==
    /\ Running /\ conn[c].state = "sent"
    /\ \/ /\ conn[c].req = "malformed"
          /\ to(c, "reply")
          /\ UNCHANGED <<stopper, handle, opened>>
       \/ /\ conn[c].req = "shutdown"
          /\ stopper' = [stopper EXCEPT ![c] = "close"]
          /\ to(c, "reply")
          /\ UNCHANGED <<handle, opened>>
       \/ /\ conn[c].req = "insert" /\ ~dbmu
          /\ opened' = IF handle = 0 THEN opened + 1 ELSE opened
          /\ handle' = IF handle = 0 THEN opened + 1 ELSE handle
          /\ conn' = [conn EXCEPT ![c].state = "open", ![c].h = handle']
          /\ UNCHANGED stopper
    /\ UNCHANGED <<main, listener, wg, dbmu, heap, index, heapSaved, indexSaved, early>>

InsertHeap(c) ==
    /\ Running /\ conn[c].state = "open"
    /\ heap' = heap \cup {c}
    /\ to(c, "heap")
    /\ UNCHANGED <<main, listener, wg, stopper, dbmu, handle, opened, index,
                   heapSaved, indexSaved, early>>

InsertIndex(c) ==
    /\ Running /\ conn[c].state = "heap"
    /\ index' = index \cup {c}
    /\ to(c, "reply")
    /\ UNCHANGED <<main, listener, wg, stopper, dbmu, handle, opened, heap,
                   heapSaved, indexSaved, early>>

\* The answer is written, the connection closed and wg.Done called.
Reply(c) ==
    /\ Running /\ conn[c].state = "reply"
    /\ to(c, "done")
    /\ wg' = wg - 1
    /\ early' = IF listener /\ conn[c].req = "insert" THEN early \cup {c} ELSE early
    /\ UNCHANGED <<main, listener, stopper, dbVars>>

----------------------------------------------------------------------------
\* Shutdown: close the listener (connections not accepted yet are reset),
\* then wait for the handlers.

\* Mutant: the handlers are waited for before the listener is closed.
CloseListener_AfterWait(s) ==
    /\ Running /\ stopper[s] = "close" /\ wg = 0
    /\ listener' = FALSE
    /\ stopper' = [stopper EXCEPT ![s] = "wait"]
    /\ conn' = [c \in Conns |->
                  IF conn[c].state = "queued" THEN [conn[c] EXCEPT !.state = "done"] ELSE conn[c]]
    /\ UNCHANGED <<main, wg, dbVars, early>>

CloseListener(s) ==
    /\ Running /\ stopper[s] = "close"
    /\ listener' = FALSE
    /\ stopper' = [stopper EXCEPT ![s] = "wait"]
    /\ conn' = [c \in Conns |->
                  IF conn[c].state = "queued" THEN [conn[c] EXCEPT !.state = "done"] ELSE conn[c]]
    /\ UNCHANGED <<main, wg, dbVars, early>>

Waited(s) ==
    /\ Running /\ stopper[s] = "wait" /\ wg = 0
    /\ stopper' = [stopper EXCEPT ![s] = "done"]
    /\ UNCHANGED <<main, listener, wg, conn, dbVars, early>>

----------------------------------------------------------------------------
\* main after Serve: DB.Close (db.mu, then closeHeap of the cached handle: the
\* indexes, then the heap), the socket and PID files, the end of the process.

ownedBy(h, set) == {c \in set : conn[c].h = h}

\* Mutant: the indexes are not saved.
CloseIndexes_NoSave ==
    /\ main = "close"
    /\ dbmu' = TRUE
    /\ main' = "closeHeap"
    /\ UNCHANGED <<listener, wg, conn, stopper, handle, opened, heap, index, heapSaved,
                   indexSaved, early>>

CloseIndexes ==
    /\ main = "close"
    /\ dbmu' = TRUE
    /\ indexSaved' = IF handle = 0 THEN {} ELSE ownedBy(handle, index)
    /\ main' = "closeHeap"
    /\ UNCHANGED <<listener, wg, conn, stopper, handle, opened, heap, index, heapSaved, early>>

CloseHeap ==
    /\ main = "closeHeap"
    /\ heapSaved' = IF handle = 0 THEN {} ELSE ownedBy(handle, heap)
    /\ handle' = 0 /\ dbmu' = FALSE
    /\ main' = "remove"
    /\ UNCHANGED <<listener, wg, conn, stopper, opened, heap, index, indexSaved, early>>

Exit ==
    /\ main = "remove"
    /\ main' = "exited"
    /\ UNCHANGED <<listener, wg, conn, stopper, dbVars, early>>

----------------------------------------------------------------------------
Handler(c) == Dispatch(c) \/ InsertHeap(c) \/ InsertIndex(c) \/ Reply(c)

Main == (\E c \in Conns : Accept(c) \/ Spawn(c)) \/ ServeReturn \/ CloseIndexes \/ CloseHeap \/ Exit

Shutdown(s) == CloseListener(s) \/ Waited(s)

Next == \/ \E c \in Conns : Dial(c) \/ SendRequest(c) \/ Handler(c)
        \/ SigTerm \/ Main
        \/ \E s \in Stoppers : Shutdown(s)

Spec == Init /\ [][Next]_vars

\* The Go scheduler runs every goroutine that can run.  Nothing is assumed of
\* the clients: they may connect and never send.
Fairness == /\ WF_vars(Main)
            /\ \A c \in Conns : WF_vars(Handler(c))
            /\ \A s \in Stoppers : WF_vars(Shutdown(s))

LiveSpec == Spec /\ Fairness

----------------------------------------------------------------------------
\* Properties

\* The types of the variables.  At most one handle is open before DB.Close and
\* at most one more after it.
TypeOK ==
    /\ main \in {"accept", "spawn", "close", "closeHeap", "remove", "exited"}
    /\ listener \in BOOLEAN /\ dbmu \in BOOLEAN
    /\ wg \in Nat
    /\ \A c \in Conns : conn[c].state \in InFlight \cup {"new", "queued", "done"}
                        /\ conn[c].h \in 0..opened
    /\ opened \in 0..2 /\ handle \in 0..opened
    /\ heap \subseteq Conns /\ index \subseteq heap

\* wg.Add and wg.Done pair up: the WaitGroup counts the handlers that run, so
\* it never goes negative (which panics) and reaches zero when they are done.
WaitGroupCounts ==
    wg = Cardinality({c \in inFlight : conn[c].state # "accepted"})

\* "Both modes ensure data consistency on clean shutdown: Close() calls Sync()
\* on all files before exiting" (README.md:767-768): an insert that was
\* answered before the shutdown began is in the heap and in the index file when
\* the process has ended.
EarlyInsertsSaved ==
    main = "exited" => early \subseteq heapSaved \cap indexSaved

\* "Send SIGTERM or SIGINT to trigger a graceful shutdown" (main.go:10): after
\* a signal or an accepted "shutdown" request the process ends, even if a
\* client holds a connection open and sends nothing.
Stops == (\E s \in Stoppers : stopper[s] # "none") ~> (main = "exited")

\* A request that has arrived is answered, unless the process ends first.
Answered == \A c \in Conns :
    (conn[c].state = "sent") ~> (conn[c].state = "done" \/ main = "exited")

\* "Shutdown closes the listener and waits for all in-flight handlers before
\* the process exits" (README.md:558-559): no accepted connection is left
\* unserved when the process ends.
ExitWaits == main = "exited" => inFlight = {}

\* "Shutdown closes the listener and waits for all in-flight connections to
\* finish" (server.go:45): when Shutdown has returned no connection that Accept
\* returned is still being served.
ShutdownWaits == \A s \in Stoppers : stopper[s] = "done" => inFlight = {}
=============================================================================
