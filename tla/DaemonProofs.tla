---------------------------- MODULE DaemonProofs ----------------------------
(***************************************************************************)
(* Two facts about the daemon for any set of connections: inserts answered  *)
(* before the shutdown began are saved, and the WaitGroup counts.           *)
(***************************************************************************)
EXTENDS Daemon, FiniteSetTheorems, TLAPS

\* The connections whose insert is in the heap and in the index.
inserted(c) == conn[c].req = "insert" /\ conn[c].state \in {"reply", "done"}

\* The handlers that run.
serving == {c \in inFlight : conn[c].state # "accepted"}

Shape ==
    /\ DOMAIN conn = Conns
    /\ \A c \in Conns : DOMAIN conn[c] = {"state", "req", "h"}
    /\ listener \in BOOLEAN /\ opened \in Nat
    /\ \A c \in Conns : conn[c].state \in {"new", "queued"} => conn[c].req = "none"

\* Until DB.Close has run, every insert works on the one cached handle; what is
\* answered is in the heap and in the index; after Serve nothing more counts as
\* early; and each part of Close covers its share.
Saved ==
    /\ \A c \in Conns : inserted(c) => c \in heap /\ c \in index
    /\ \A c \in Conns : conn[c].req = "insert" /\ conn[c].state = "heap" => c \in heap
    /\ early \subseteq {c \in Conns : conn[c].req = "insert" /\ conn[c].state = "done"}
    /\ main \in {"accept", "spawn", "close", "closeHeap"} =>
          \A c \in Conns : conn[c].req = "insert" /\ conn[c].state \in {"open", "heap", "reply", "done"} =>
              conn[c].h = handle /\ handle # 0
    /\ main \in {"close", "closeHeap", "remove", "exited"} => ~listener
    /\ main \in {"closeHeap", "remove", "exited"} => early \subseteq indexSaved
    /\ main \in {"remove", "exited"} => early \subseteq heapSaved

DInv == Shape /\ Saved

\* Nothing is inserted or saved at the start.
LEMMA InitInv == Init => DInv
  BY DEF Init, DInv, Shape, Saved, inserted

\* Steps of one connection's handler.
LEMMA HandlerInv == ASSUME DInv, NEW c \in Conns, Handler(c) PROVE DInv'
<1>1. CASE Dispatch(c)
  BY <1>1 DEF Dispatch, DInv, Shape, Saved, inserted, to, Running
<1>2. CASE InsertHeap(c)
  BY <1>2 DEF InsertHeap, DInv, Shape, Saved, inserted, to, Running
<1>3. CASE InsertIndex(c)
  BY <1>3 DEF InsertIndex, DInv, Shape, Saved, inserted, to, Running
<1>4. CASE Reply(c)
  BY <1>4 DEF Reply, DInv, Shape, Saved, inserted, to, Running, dbVars
<1> QED  BY <1>1, <1>2, <1>3, <1>4 DEF Handler

\* Steps of main: the accept loop and, after it, DB.Close part by part.
LEMMA MainInv == ASSUME DInv, Main PROVE DInv'
<1>1. ASSUME NEW c \in Conns, Accept(c) PROVE DInv'
  BY <1>1 DEF Accept, DInv, Shape, Saved, inserted, to, dbVars
<1>2. ASSUME NEW c \in Conns, Spawn(c) PROVE DInv'
  BY <1>2 DEF Spawn, DInv, Shape, Saved, inserted, to, dbVars
<1>3. CASE ServeReturn
  BY <1>3 DEF ServeReturn, DInv, Shape, Saved, inserted, dbVars
<1>4. CASE CloseIndexes
  BY <1>4 DEF CloseIndexes, ownedBy, DInv, Shape, Saved, inserted
<1>5. CASE CloseHeap
  BY <1>5 DEF CloseHeap, ownedBy, DInv, Shape, Saved, inserted
<1>6. CASE Exit
  BY <1>6 DEF Exit, DInv, Shape, Saved, inserted, dbVars
<1> QED  BY <1>1, <1>2, <1>3, <1>4, <1>5, <1>6 DEF Main

\* The clients, the signal, and the goroutines that run Shutdown.
LEMMA OutsideInv ==
    ASSUME DInv, \/ \E c \in Conns : Dial(c) \/ SendRequest(c)
                 \/ SigTerm
                 \/ \E s \in Stoppers : Shutdown(s)
    PROVE  DInv'
<1>1. ASSUME NEW c \in Conns, Dial(c) PROVE DInv'
  BY <1>1 DEF Dial, DInv, Shape, Saved, inserted, to, dbVars
<1>2. ASSUME NEW c \in Conns, SendRequest(c) PROVE DInv'
  <2>1. PICK r \in Requests : conn' = [conn EXCEPT ![c].state = "sent", ![c].req = r]
    BY <1>2 DEF SendRequest
  <2>2. UNCHANGED <<main, listener, opened, handle, heap, index, heapSaved, indexSaved, early>>
        /\ conn[c].state = "reading"
    BY <1>2 DEF SendRequest, dbVars
  <2>3. DOMAIN conn' = Conns /\ \A d \in Conns : DOMAIN conn'[d] = {"state", "req", "h"}
    BY <2>1 DEF DInv, Shape
  <2>4. conn'[c].state = "sent" /\ \A d \in Conns \ {c} : conn'[d] = conn[d]
    BY <2>1 DEF DInv, Shape
  <2>5. Shape'
    BY <2>2, <2>3, <2>4 DEF DInv, Shape
  <2>6. Saved'
    BY <2>2, <2>4 DEF DInv, Saved, inserted
  <2> QED  BY <2>5, <2>6 DEF DInv
<1>3. CASE SigTerm
  BY <1>3 DEF SigTerm, DInv, Shape, Saved, inserted, dbVars
<1>4. ASSUME NEW s \in Stoppers, CloseListener(s) PROVE DInv'
  <2>1. UNCHANGED <<main, opened, handle, heap, index, heapSaved, indexSaved, early>> /\ listener' = FALSE
    BY <1>4 DEF CloseListener, dbVars
  <2>2. /\ DOMAIN conn' = Conns
        /\ \A d \in Conns : conn'[d] = IF conn[d].state = "queued" THEN [conn[d] EXCEPT !.state = "done"]
                                                                 ELSE conn[d]
    BY <1>4 DEF CloseListener
  <2>3. \A d \in Conns :
           /\ DOMAIN conn'[d] = {"state", "req", "h"}
           /\ conn'[d] = conn[d] \/ (conn'[d].state = "done" /\ conn'[d].req = "none" /\ conn[d].state = "queued")
    BY <2>2 DEF DInv, Shape
  <2>4. Shape'
    BY <2>1, <2>2, <2>3 DEF DInv, Shape
  <2>5. Saved'
    BY <2>1, <2>3 DEF DInv, Saved, inserted
  <2> QED  BY <2>4, <2>5 DEF DInv
<1>5. ASSUME NEW s \in Stoppers, Waited(s) PROVE DInv'
  BY <1>5 DEF Waited, DInv, Shape, Saved, inserted, dbVars
<1> QED  BY <1>1, <1>2, <1>3, <1>4, <1>5 DEF Shutdown

\* The invariant holds in every state the daemon can be in.
THEOREM DaemonInvariant == Spec => []DInv
<1>1. ASSUME DInv, [Next]_vars PROVE DInv'
  <2>1. CASE UNCHANGED vars
    BY <1>1, <2>1 DEF vars, DInv, Shape, Saved, inserted
  <2>2. CASE Next
    BY <1>1, <2>2, HandlerInv, MainInv, OutsideInv DEF Next
  <2> QED  BY <1>1, <2>1, <2>2
<1> QED  BY InitInv, <1>1, PTL DEF Spec

\* Whatever the number of clients and the order of their steps, an insert that
\* was answered while the listener was open is covered by DB.Close before the
\* process ends.
THEOREM DaemonEarlyInsertsSaved == Spec => []EarlyInsertsSaved
<1>1. DInv => EarlyInsertsSaved
  BY DEF DInv, Saved, EarlyInsertsSaved
<1> QED  BY <1>1, DaemonInvariant, PTL

-----------------------------------------------------------------------------
\* The WaitGroup

Counted == Shape /\ IsFiniteSet(serving) /\ wg = Cardinality(serving)

\* wg.Add of an accepted connection adds its handler, which did not run before.
LEMMA SpawnCounts == ASSUME Counted, NEW c \in Conns, Spawn(c) PROVE Counted'
<1>1. serving' = serving \cup {c} /\ c \notin serving
  BY DEF Counted, Shape, Spawn, to, serving, inFlight, InFlight
<1>2. IsFiniteSet(serving') /\ Cardinality(serving') = Cardinality(serving) + 1
  BY <1>1, FS_AddElement DEF Counted
<1> QED  BY <1>2 DEF Counted, Shape, Spawn, to, dbVars

\* wg.Done removes the handler that has answered.
LEMMA ReplyCounts == ASSUME Counted, NEW c \in Conns, Reply(c) PROVE Counted'
<1>1. serving' = serving \ {c} /\ c \in serving
  BY DEF Counted, Shape, Reply, to, serving, inFlight, InFlight
<1>2. IsFiniteSet(serving') /\ Cardinality(serving') = Cardinality(serving) - 1
  BY <1>1, FS_RemoveElement DEF Counted
<1> QED  BY <1>2 DEF Counted, Shape, Reply, to, dbVars

\* No other step starts or ends a handler.
LEMMA OtherCounts ==
    ASSUME Counted, DInv, Next, DInv',
           \A c \in Conns : ~Spawn(c) /\ ~Reply(c)
    PROVE  Counted'
<1>1. SUFFICES wg' = wg /\ serving' = serving
  BY DEF Counted, DInv
<1>2. ASSUME NEW c \in Conns, Dial(c) \/ SendRequest(c) \/ Handler(c) PROVE wg' = wg /\ serving' = serving
  BY <1>2 DEF Counted, Shape, serving, inFlight, InFlight, to, Dial, SendRequest, Handler,
              Dispatch, InsertHeap, InsertIndex
<1>3. CASE SigTerm
  BY <1>3 DEF SigTerm, serving, inFlight
<1>4. ASSUME NEW c \in Conns, Accept(c) PROVE wg' = wg /\ serving' = serving
  BY <1>4 DEF Counted, Shape, Accept, to, serving, inFlight, InFlight
<1>5. CASE ServeReturn \/ CloseIndexes \/ CloseHeap \/ Exit
  BY <1>5 DEF ServeReturn, CloseIndexes, CloseHeap, Exit, serving, inFlight
<1>6. ASSUME NEW s \in Stoppers, Shutdown(s) PROVE wg' = wg /\ serving' = serving
  BY <1>6 DEF Counted, Shape, Shutdown, CloseListener, Waited, serving, inFlight, InFlight
<1> QED  BY <1>2, <1>3, <1>4, <1>5, <1>6 DEF Next, Main

\* wg.Add and wg.Done pair up for any set of connections, infinite ones
\* included: the WaitGroup is the number of handlers that run, hence never
\* negative, which would panic.
THEOREM DaemonWaitGroupCounts == Spec => []WaitGroupCounts
<1>1. Init => Counted
  <2>1. ASSUME Init PROVE serving = {}
    BY <2>1 DEF Init, serving, inFlight, InFlight
  <2>2. ASSUME Init PROVE Shape /\ wg = 0
    BY <2>2 DEF Init, Shape
  <2> QED  BY <2>1, <2>2, FS_EmptySet DEF Counted
<1>2. ASSUME Counted, DInv, [Next]_vars, DInv' PROVE Counted'
  <2>1. CASE UNCHANGED vars
    BY <1>2, <2>1 DEF vars, Counted, Shape, serving, inFlight
  <2>2. CASE Next
    BY <1>2, <2>2, SpawnCounts, ReplyCounts, OtherCounts
  <2> QED  BY <1>2, <2>1, <2>2
<1>3. Counted => WaitGroupCounts
  BY DEF Counted, WaitGroupCounts, serving
<1> QED  BY <1>1, <1>2, <1>3, DaemonInvariant, PTL DEF Spec
=============================================================================
