--------------------------- MODULE LifecycleProofs ---------------------------
(***************************************************************************)
(* OneServer, ReportsTrue and NothingLeft of Lifecycle for any number of    *)
(* servers and commands: with one operator only the last process launched   *)
(* can be running, and its step determines both files.                      *)
(***************************************************************************)
EXTENDS Lifecycle, SeqFacts, FiniteSetTheorems, TLAPS

\* Most steps are first-order: Zenon proves them unless they name another prover.
USE Zenon

last == Len(proc)
lastPC == IF last = 0 THEN "exited" ELSE proc[last].pc

ProcFields == {"pc", "term"}
PCs == {"create", "write", "open", "unlink", "listen", "abort", "notify", "serve", "close",
        "rmSock", "rmPID", "exited", "killed"}
OpFields == {"pc", "cmd", "pid", "said"}

Shape ==
    /\ IsSeq(proc) /\ DOMAIN op = Operators
    /\ \A s \in DOMAIN proc : DOMAIN proc[s] = ProcFields /\ proc[s].pc \in PCs
    /\ \A o \in Operators : DOMAIN op[o] = OpFields

\* The steps of a process in which its PID, or its socket, is in the file.
OwnsPID == {"open", "unlink", "listen", "notify", "serve", "close", "rmSock", "rmPID"}
OwnsSock == {"notify", "serve"}

\* What is in the files, seen from operator o: what the last process has put
\* there, or what doStop has not removed yet of a process it killed.
filesOK(o) ==
    /\ pidFile = IF lastPC \in OwnsPID \/ (lastPC = "killed" /\ op[o].pc \in {"waitPID", "cleanPID"})
                 THEN last ELSE IF lastPC = "write" THEN Empty ELSE NoFile
    /\ sock = IF lastPC \in OwnsSock \/ (lastPC = "killed" /\ op[o].pc \in {"waitPID", "cleanPID", "cleanSock"})
              THEN last ELSE NoFile

\* What operator o knows of the last process.
knowsOK(o) ==
    /\ op[o].said # "" => op[o].pc = "idle"
    /\ op[o].said = "started" => op[o].pid = last /\ lastPC \in {"notify", "serve"} /\ ~proc[last].term
    /\ op[o].said = "stopped" \/ op[o].pc = "launch" => lastPC \in Gone
    /\ op[o].pc = "waitSock" =>
          /\ op[o].pid = last /\ last > 0 /\ ~proc[last].term
          /\ lastPC \in {"create", "write", "open", "unlink", "listen", "notify", "serve", "exited"}
    /\ op[o].pc \in {"signal", "waitPID"} => op[o].pid = last /\ last > 0
    /\ op[o].pc = "signal" => lastPC # "killed"
    /\ op[o].pc = "waitPID" => lastPC # "notify"
    /\ op[o].pc \in {"cleanPID", "cleanSock"} => lastPC = "killed"
    /\ lastPC \in {"create", "write", "open", "unlink", "listen"} => op[o].pc = "waitSock"

LInv ==
    /\ Shape
    /\ \A o \in Operators \ use.operators : op[o].pc = "idle" /\ op[o].said = ""
    /\ orderly => /\ \A s \in DOMAIN proc : s # last => proc[s].pc \in Gone
                  /\ lastPC # "abort"
                  /\ \A o \in use.operators : filesOK(o) /\ knowsOK(o)

----------------------------------------------------------------------------
\* A process goes on to its next step.
LEMMA To ==
    ASSUME Shape, NEW s \in DOMAIN proc, NEW pc, to(s, pc)
    PROVE  /\ IsSeq(proc') /\ last' = last /\ DOMAIN proc' = DOMAIN proc
           /\ \A q \in DOMAIN proc : /\ DOMAIN proc'[q] = ProcFields /\ proc'[q].term = proc[q].term
                                     /\ proc'[q].pc = IF q = s THEN pc ELSE proc[q].pc
<1>1. proc' = [proc EXCEPT ![s] = [proc[s] EXCEPT !.pc = pc]]
  BY DEF to
<1>2. \A q \in DOMAIN proc : proc'[q] = IF q = s THEN [proc[s] EXCEPT !.pc = pc] ELSE proc[q]
  BY <1>1
<1>3. DOMAIN proc' = DOMAIN proc
  BY <1>1
<1>4. IsSeq(proc') /\ last' = last
  <2>1. DOMAIN proc = 1..Len(proc) /\ IsSeq(proc)
    BY DEF Shape, IsSeq
  <2>2. proc' = [i \in 1..Len(proc) |-> proc'[i]]
    BY <1>1, <2>1
  <2> QED
    BY <2>1, <2>2, SameDomain DEF last
<1> QED
  BY <1>2, <1>3, <1>4 DEF Shape, ProcFields

\* With one operator it is the last one: the others have ended.
LEMMA OnlyLast ==
    ASSUME LInv, orderly, NEW s \in DOMAIN proc, Alive(s)
    PROVE  s = last /\ lastPC = proc[s].pc /\ last > 0
<1>1. DOMAIN proc = 1..last /\ last \in Nat
  BY DEF LInv, Shape, IsSeq, last
<1>2. s = last
  BY DEF LInv, Alive
<1> QED
  BY <1>1, <1>2, SMT DEF lastPC

\* The steps of a server.
LEMMA ServerOK ==
    ASSUME LInv, NEW s \in DOMAIN proc, Server(s)
    PROVE  LInv'
<1>1. UNCHANGED <<use, op>> /\ (orderly' <=> orderly)
  BY DEF Server, CreatePID, WritePID, OpenDB, OpenDBFails, RemoveStale, Listen, Abort, Notify,
         ServeReturns, CloseDB, RemoveSock, RemovePID, orderly
<1> DEFINE step(from, pc) == proc[s].pc = from /\ to(s, pc) /\ from \notin Gone
<1>2. \/ step("create", "write") /\ pidFile' = Empty /\ sock' = sock
      \/ step("write", "open") /\ pidFile' = s /\ sock' = sock
      \/ step("open", "unlink") /\ pidFile' = pidFile /\ sock' = sock
      \/ step("open", "exited") /\ pidFile' = NoFile /\ sock' = sock
      \/ step("unlink", "listen") /\ pidFile' = pidFile /\ sock' = NoFile
      \/ step("listen", "notify") /\ sock = NoFile /\ pidFile' = pidFile /\ sock' = s
      \/ step("listen", "abort") /\ sock # NoFile /\ pidFile' = pidFile /\ sock' = sock
      \/ step("abort", "exited") /\ pidFile' = NoFile /\ sock' = sock
      \/ step("notify", "serve") /\ pidFile' = pidFile /\ sock' = sock
      \/ step("serve", "close") /\ proc[s].term /\ pidFile' = pidFile /\ sock' = NoFile
      \/ step("close", "rmSock") /\ pidFile' = pidFile /\ sock' = sock
      \/ step("rmSock", "rmPID") /\ pidFile' = pidFile /\ sock' = NoFile
      \/ step("rmPID", "exited") /\ pidFile' = NoFile /\ sock' = sock
  BY SMT DEF Server, CreatePID, WritePID, OpenDB, OpenDBFails, RemoveStale, Listen, Abort, Notify,
         ServeReturns, CloseDB, RemoveSock, RemovePID, at, Gone
<1>3. PICK pc \in PCs : to(s, pc)
  BY <1>2 DEF PCs
<1>4. /\ IsSeq(proc') /\ last' = last /\ DOMAIN proc' = DOMAIN proc
      /\ \A q \in DOMAIN proc : /\ DOMAIN proc'[q] = ProcFields /\ proc'[q].term = proc[q].term
                                /\ proc'[q].pc = IF q = s THEN pc ELSE proc[q].pc
  BY <1>3, To DEF LInv
<1>5. Shape'
  BY <1>1, <1>4 DEF LInv, Shape
<1>6. ASSUME orderly
      PROVE  /\ \A q \in DOMAIN proc' : q # last' => proc'[q].pc \in Gone
             /\ lastPC' # "abort"
             /\ \A o \in use.operators : filesOK(o)' /\ knowsOK(o)'
  <2>1. Alive(s)
    BY <1>2 DEF Alive
  <2>2. s = last /\ lastPC = proc[last].pc /\ last > 0
    BY <1>6, <2>1, OnlyLast
  <2>3. lastPC' = proc'[s].pc /\ proc'[last].term = proc[last].term
    BY <1>4, <2>2, SMT DEF lastPC
  <2>4. \A q \in DOMAIN proc' : q # last' => proc'[q].pc \in Gone
    BY <1>4, <1>6, <2>2 DEF LInv
  <2>5. \/ lastPC = "create" /\ lastPC' = "write" /\ pidFile' = Empty /\ sock' = sock
        \/ lastPC = "write" /\ lastPC' = "open" /\ pidFile' = last /\ sock' = sock
        \/ lastPC = "open" /\ lastPC' = "unlink" /\ pidFile' = pidFile /\ sock' = sock
        \/ lastPC = "open" /\ lastPC' = "exited" /\ pidFile' = NoFile /\ sock' = sock
        \/ lastPC = "unlink" /\ lastPC' = "listen" /\ pidFile' = pidFile /\ sock' = NoFile
        \/ lastPC = "listen" /\ lastPC' = "notify" /\ sock = NoFile /\ pidFile' = pidFile /\ sock' = last
        \/ lastPC = "listen" /\ lastPC' = "abort" /\ sock # NoFile
        \/ lastPC = "abort"
        \/ lastPC = "notify" /\ lastPC' = "serve" /\ pidFile' = pidFile /\ sock' = sock
        \/ lastPC = "serve" /\ lastPC' = "close" /\ proc[last].term /\ pidFile' = pidFile /\ sock' = NoFile
        \/ lastPC = "close" /\ lastPC' = "rmSock" /\ pidFile' = pidFile /\ sock' = sock
        \/ lastPC = "rmSock" /\ lastPC' = "rmPID" /\ pidFile' = pidFile /\ sock' = NoFile
        \/ lastPC = "rmPID" /\ lastPC' = "exited" /\ pidFile' = NoFile /\ sock' = sock
    <3>1. \A x : to(s, x) => proc'[s].pc = x
      BY To DEF LInv
    <3> QED
      BY <1>2, <2>2, <2>3, <3>1, SMT
  <2>6. lastPC # "abort" /\ \A o \in use.operators : filesOK(o) /\ knowsOK(o)
    BY <1>6 DEF LInv
  <2>7. PICK u \in Operators : use.operators = {u}
    BY <1>6 DEF orderly
  <2>8. lastPC' # "abort" /\ filesOK(u)'
    BY <1>1, <1>4, <2>2, <2>5, <2>6, <2>7 DEF filesOK, knowsOK, OwnsPID, OwnsSock
  <2>9. knowsOK(u)'
    BY <1>1, <1>4, <2>2, <2>3, <2>5, <2>6, <2>7, ZenonT(30) DEF filesOK, knowsOK, OwnsPID, OwnsSock, Gone
  <2> QED
    BY <2>4, <2>7, <2>8, <2>9
<1> QED
  BY <1>1, <1>5, <1>6 DEF LInv

----------------------------------------------------------------------------
\* The commands

\* An operator's command goes on.
LEMMA SetOp ==
    ASSUME Shape, NEW o \in Operators, NEW k, DOMAIN k = OpFields, op' = [op EXCEPT ![o] = k]
    PROVE  /\ DOMAIN op' = Operators /\ \A q \in Operators : DOMAIN op'[q] = OpFields
           /\ op'[o] = k /\ \A q \in Operators \ {o} : op'[q] = op[q]
  BY DEF Shape

\* A command's next step changes nothing but where that command is.
LEMMA GotoOp ==
    ASSUME Shape, NEW o \in Operators, NEW pc, goto(o, pc)
    PROVE  /\ DOMAIN op' = Operators /\ \A q \in Operators : DOMAIN op'[q] = OpFields
           /\ op'[o].pc = pc /\ op'[o].cmd = op[o].cmd /\ op'[o].pid = op[o].pid /\ op'[o].said = op[o].said
           /\ \A q \in Operators \ {o} : op'[q] = op[q]
  BY DEF Shape, goto, OpFields

\* A command that says something else than "started" or "stopped".
LEMMA SayOtherOp ==
    ASSUME Shape, NEW o \in Operators, sayOther(o)
    PROVE  /\ DOMAIN op' = Operators /\ \A q \in Operators : DOMAIN op'[q] = OpFields
           /\ op'[o].pc = "idle" /\ op'[o].said = ""
           /\ \A q \in Operators \ {o} : op'[q] = op[q]
  BY SetOp DEF sayOther, Idle, OpFields

\* A command that reports its result is done, and changes no other.
LEMMA SayOp ==
    ASSUME Shape, NEW o \in Operators, NEW what, say(o, what)
    PROVE  /\ DOMAIN op' = Operators /\ \A q \in Operators : DOMAIN op'[q] = OpFields
           /\ op'[o].pc = "idle" /\ op'[o].said = what /\ op'[o].pid = op[o].pid
           /\ \A q \in Operators \ {o} : op'[q] = op[q]
<1> DEFINE k == [Idle EXCEPT !.said = what, !.pid = op[o].pid]
<1>1. DOMAIN k = OpFields /\ k.pc = "idle" /\ k.said = what /\ k.pid = op[o].pid
  BY DEF Idle, OpFields
<1>2. op' = [op EXCEPT ![o] = k]
  BY DEF say
<1> HIDE DEF k
<1> QED
  BY <1>1, <1>2, SetOp

\* Only an operator of the use runs a command, and with one of them only that
\* operator's view matters.
LEMMA OpStep ==
    ASSUME LInv, use' = use, NEW o \in Operators, o \in use.operators, Shape',
           \A q \in Operators \ {o} : op'[q] = op[q],
           orderly => /\ \A s \in DOMAIN proc' : s # last' => proc'[s].pc \in Gone
                      /\ lastPC' # "abort" /\ filesOK(o)' /\ knowsOK(o)'
    PROVE  LInv'
<1>1. orderly' <=> orderly
  BY DEF orderly
<1>2. orderly => use.operators = {o}
  BY DEF orderly
<1>3. \A q \in Operators \ use'.operators : op'[q].pc = "idle" /\ op'[q].said = ""
  BY DEF LInv
<1>4. orderly => \A q \in use'.operators : filesOK(q)' /\ knowsOK(q)'
  BY <1>2
<1> QED
  BY <1>1, <1>3, <1>4 DEF LInv

\* What an operator without a command has to know.
Early == {"create", "write", "open", "unlink", "listen"}
Cleaning == {"waitPID", "cleanPID", "cleanSock"}

\* A command ends, with no server coming up and nothing to clean.
LEMMA SayOtherOK ==
    ASSUME LInv, NEW o \in Operators, o \in use.operators, sayOther(o),
           UNCHANGED <<use, pidFile, sock, proc>>,
           orderly => lastPC \notin Early /\ (lastPC = "killed" => op[o].pc \notin Cleaning)
    PROVE  LInv'
<1>1. /\ DOMAIN op' = Operators /\ \A q \in Operators : DOMAIN op'[q] = OpFields
      /\ op'[o].pc = "idle" /\ op'[o].said = ""
      /\ \A q \in Operators \ {o} : op'[q] = op[q]
  BY SayOtherOp DEF LInv
<1>2. last' = last /\ lastPC' = lastPC
  BY DEF last, lastPC
<1>3. Shape'
  BY <1>1 DEF LInv, Shape
<1>4. ASSUME orderly
      PROVE  /\ \A s \in DOMAIN proc' : s # last' => proc'[s].pc \in Gone
             /\ lastPC' # "abort" /\ filesOK(o)' /\ knowsOK(o)'
  BY <1>1, <1>2, <1>4 DEF LInv, filesOK, knowsOK, Early, Cleaning
<1> QED
  BY <1>1, <1>3, <1>4, OpStep

\* The server process launched last is one of the processes.
LEMMA LastPC ==
    ASSUME Shape
    PROVE  lastPC \in PCs /\ last \in Nat /\ DOMAIN proc = 1..last
<1>1. DOMAIN proc = 1..last /\ last \in Nat
  BY DEF Shape, IsSeq, last
<1> QED
  BY <1>1, SMT DEF Shape, lastPC, PCs

\* The process of the PID file, while one runs that has written it.
LEMMA ReadPID ==
    ASSUME LInv, orderly, NEW o \in use.operators
    PROVE  /\ lastPC \in OwnsPID => readPID = last /\ last # 0
           /\ readPID # 0 => readPID = last /\ lastPC \notin Gone /\ last > 0
<1>1. DOMAIN proc = 1..last /\ last \in Nat
  BY DEF LInv, Shape, IsSeq, last
<1>2. lastPC \in OwnsPID => pidFile = last
  BY DEF LInv, filesOK
<1>3. lastPC \in OwnsPID => last \in DOMAIN proc /\ Alive(last)
  BY <1>1, SMT DEF lastPC, Alive, OwnsPID, Gone
<1>4. readPID # 0 => readPID \in DOMAIN proc /\ Alive(readPID)
  BY DEF readPID
<1> QED
  BY <1>1, <1>2, <1>3, <1>4, OnlyLast, SMT DEF readPID, Alive

\* A command is typed.
LEMMA CommandOK ==
    ASSUME LInv, NEW o \in Operators, Command(o)
    PROVE  LInv'
<1>1. op[o].pc = "idle" /\ o \in use.operators /\ UNCHANGED <<use, pidFile, sock, proc>>
  BY DEF Command, in
<1>2. PICK k : op' = [op EXCEPT ![o] = k] /\ DOMAIN k = OpFields /\ k.said = ""
               /\ k.pc \in {"start", "stop", "status", "shutdown"}
  <2>1. PICK cmd \in {"start", "stop", "restart", "status", "shutdown"} :
          op' = [op EXCEPT ![o] = [Idle EXCEPT !.cmd = cmd,
                       !.pc = CASE cmd = "start" -> "start" [] cmd \in {"stop", "restart"} -> "stop"
                                [] OTHER -> cmd]]
    BY DEF Command
  <2> DEFINE k == [Idle EXCEPT !.cmd = cmd,
                       !.pc = CASE cmd = "start" -> "start" [] cmd \in {"stop", "restart"} -> "stop"
                                [] OTHER -> cmd]
  <2>2. DOMAIN k = OpFields /\ k.said = "" /\ k.pc \in {"start", "stop", "status", "shutdown"}
    BY DEF Idle, OpFields
  <2> HIDE DEF k
  <2>3. op' = [op EXCEPT ![o] = k]
    BY <2>1 DEF k
  <2> QED
    BY <2>2, <2>3
<1>3. /\ DOMAIN op' = Operators /\ \A q \in Operators : DOMAIN op'[q] = OpFields
      /\ op'[o] = k /\ \A q \in Operators \ {o} : op'[q] = op[q]
  BY <1>2, SetOp DEF LInv
<1>4. last' = last /\ lastPC' = lastPC
  BY <1>1 DEF last, lastPC
<1>5. Shape'
  BY <1>1, <1>3 DEF LInv, Shape
<1>6. ASSUME orderly
      PROVE  /\ \A s \in DOMAIN proc' : s # last' => proc'[s].pc \in Gone
             /\ lastPC' # "abort" /\ filesOK(o)' /\ knowsOK(o)'
  <2>0. op'[o].said = "" /\ op'[o].pc \in {"start", "stop", "status", "shutdown"}
    BY <1>2, <1>3
  <2>1. /\ \A s \in DOMAIN proc : s # last => proc[s].pc \in Gone
        /\ lastPC # "abort" /\ filesOK(o) /\ knowsOK(o)
    BY <1>1, <1>6 DEF LInv
  <2>2. filesOK(o)'
    <3>1. op[o].pc \notin {"waitPID", "cleanPID", "cleanSock"}
      BY <1>1, SMT
    <3>2. op'[o].pc \notin {"waitPID", "cleanPID", "cleanSock"}
      BY <2>0
    <3> QED
      BY <1>1, <1>4, <2>1, <3>1, <3>2, SMT DEF filesOK
  <2>3. knowsOK(o)'
    <3>1. lastPC \notin {"create", "write", "open", "unlink", "listen"}
      BY <1>1, <2>1, SMT DEF knowsOK
    <3> QED
      BY <1>4, <2>0, <3>1 DEF knowsOK
  <2> QED
    BY <1>1, <1>4, <2>1, <2>2, <2>3
<1> QED
  BY <1>1, <1>3, <1>5, <1>6, OpStep

\* A command that only looks.
LEMMA doStatusOK ==
    ASSUME LInv, NEW o \in Operators, o \in use.operators, doStatus(o)
    PROVE  LInv'
  BY SayOtherOK DEF doStatus, in, LInv, knowsOK, Early, Cleaning

\* A request to shut down, to a server that serves.
LEMMA doForwardOK ==
    ASSUME LInv, NEW o \in Operators, o \in use.operators, doForward(o)
    PROVE  LInv'
<1>1. op[o].pc = "shutdown" /\ sayOther(o) /\ UNCHANGED <<use, pidFile, sock>>
  BY DEF doForward, in
<1>2. CASE UNCHANGED proc
  BY <1>1, <1>2, SayOtherOK DEF LInv, knowsOK, Early, Cleaning
<1>3. CASE sock # NoFile /\ proc[sock].pc = "serve" /\ proc' = [proc EXCEPT ![sock].term = TRUE]
  <2>1. /\ DOMAIN op' = Operators /\ \A q \in Operators : DOMAIN op'[q] = OpFields
        /\ op'[o].pc = "idle" /\ op'[o].said = ""
        /\ \A q \in Operators \ {o} : op'[q] = op[q]
    BY <1>1, SayOtherOp DEF LInv
  <2>2. /\ DOMAIN proc' = DOMAIN proc
        /\ \A s \in DOMAIN proc : DOMAIN proc'[s] = ProcFields /\ proc'[s].pc = proc[s].pc
    <3>1. \A s \in DOMAIN proc : proc'[s] = IF s = sock THEN [proc[s] EXCEPT !.term = TRUE] ELSE proc[s]
      BY <1>3
    <3> QED
      BY <1>3, <3>1 DEF LInv, Shape, ProcFields
  <2>3. IsSeq(proc') /\ last' = last
    <3>1. DOMAIN proc = 1..Len(proc) /\ IsSeq(proc)
      BY DEF LInv, Shape, IsSeq
    <3>2. proc' = [i \in 1..Len(proc) |-> proc'[i]]
      BY <1>3, <3>1
    <3> QED
      BY <3>1, <3>2, SameDomain DEF last
  <2>4. Shape'
    BY <2>1, <2>2, <2>3 DEF LInv, Shape
  <2>5. lastPC' = lastPC
    <3>1. last \in Nat /\ DOMAIN proc = 1..last
      BY LastPC DEF LInv
    <3>2. last = 0 \/ last \in DOMAIN proc
      BY <3>1, SMTT(30)
    <3> QED
      BY <2>2, <2>3, <3>2 DEF lastPC
  <2>6. ASSUME orderly
        PROVE  /\ \A s \in DOMAIN proc' : s # last' => proc'[s].pc \in Gone
               /\ lastPC' # "abort" /\ filesOK(o)' /\ knowsOK(o)'
    BY <1>1, <2>1, <2>2, <2>3, <2>5, <2>6 DEF LInv, filesOK, knowsOK
  <2> QED
    BY <1>1, <2>1, <2>4, <2>6, OpStep
<1> QED
  BY <1>2, <1>3 DEF doForward, at

\* start reads the PID file and asks whether that process is alive.
LEMMA StartCheckOK ==
    ASSUME LInv, NEW o \in Operators, o \in use.operators, StartCheck(o)
    PROVE  LInv'
<1>1. op[o].pc = "start" /\ UNCHANGED <<use, pidFile, sock, proc>>
  BY DEF StartCheck, in
<1>2. CASE sayOther(o)
  BY <1>1, <1>2, SayOtherOK DEF LInv, knowsOK, Early, Cleaning
<1>3. CASE readPID = 0 /\ goto(o, "launch")
  <2>1. /\ DOMAIN op' = Operators /\ \A q \in Operators : DOMAIN op'[q] = OpFields
        /\ op'[o].pc = "launch" /\ op'[o].said = op[o].said
        /\ \A q \in Operators \ {o} : op'[q] = op[q]
    BY <1>3, GotoOp DEF LInv
  <2>2. last' = last /\ lastPC' = lastPC
    BY <1>1 DEF last, lastPC
  <2>3. Shape'
    BY <1>1, <2>1 DEF LInv, Shape
  <2>4. ASSUME orderly
        PROVE  /\ \A s \in DOMAIN proc' : s # last' => proc'[s].pc \in Gone
               /\ lastPC' # "abort" /\ filesOK(o)' /\ knowsOK(o)'
    <3>1. lastPC \notin OwnsPID
      BY <1>3, <2>4, ReadPID
    <3> QED
      BY <1>1, <2>1, <2>2, <2>4, <3>1, LastPC DEF LInv, filesOK, knowsOK, Gone, OwnsPID, PCs
  <2> QED
    BY <1>1, <2>1, <2>3, <2>4, OpStep
<1> QED
  BY <1>2, <1>3 DEF StartCheck

\* start launches a server process.
LEMMA LaunchOK ==
    ASSUME LInv, NEW o \in Operators, o \in use.operators, Launch(o)
    PROVE  LInv'
<1> DEFINE k == [op[o] EXCEPT !.pc = "waitSock", !.pid = Len(proc) + 1]
           r == [pc |-> "create", term |-> FALSE]
<1>1. op[o].pc = "launch" /\ proc' = Append(proc, r) /\ UNCHANGED <<use, pidFile, sock>>
  BY DEF Launch, in
<1>2. op' = [op EXCEPT ![o] = k]
  BY DEF Launch
<1>3. DOMAIN k = OpFields /\ k.pc = "waitSock" /\ k.pid = last + 1 /\ k.said = op[o].said
  BY DEF LInv, Shape, OpFields, last
<1>4. DOMAIN r = ProcFields /\ r.pc = "create" /\ ~r.term
  BY DEF ProcFields
<1> HIDE DEF k, r
<1>5. /\ DOMAIN op' = Operators /\ \A q \in Operators : DOMAIN op'[q] = OpFields
      /\ op'[o] = k /\ \A q \in Operators \ {o} : op'[q] = op[q]
  BY <1>2, <1>3, SetOp DEF LInv
<1>6. DOMAIN proc = 1..last /\ last \in Nat
  BY LastPC DEF LInv
<1>7. /\ IsSeq(proc') /\ last' = last + 1 /\ proc'[last + 1] = r
      /\ \A s \in 1..last : proc'[s] = proc[s]
  <2>1. IsSeq(proc)
    BY DEF LInv, Shape
  <2> QED
    BY <1>1, <2>1, AppendFacts, SMT DEF last
<1>8. DOMAIN proc' = 1..last + 1
  BY <1>7 DEF IsSeq, last
<1>9. Shape'
  <2>1. \A s \in DOMAIN proc' : s \in DOMAIN proc \/ s = last + 1
    BY <1>6, <1>8, SMT
  <2>2. \A s \in DOMAIN proc' : DOMAIN proc'[s] = ProcFields /\ proc'[s].pc \in PCs
    BY <1>4, <1>6, <1>7, <2>1 DEF LInv, Shape, PCs
  <2> QED
    BY <1>5, <1>7, <2>2 DEF Shape
<1>10. lastPC' = "create" /\ ~proc'[last'].term /\ last' > 0
  BY <1>4, <1>6, <1>7, SMT DEF lastPC
<1>11. ASSUME orderly
       PROVE  /\ \A s \in DOMAIN proc' : s # last' => proc'[s].pc \in Gone
              /\ lastPC' # "abort" /\ filesOK(o)' /\ knowsOK(o)'
  <2>1. lastPC \in Gone /\ op[o].said = "" /\ filesOK(o)
    BY <1>1, <1>11 DEF LInv, knowsOK
  <2>2. pidFile = NoFile /\ sock = NoFile
    BY <1>1, <2>1 DEF filesOK, Gone, OwnsPID, OwnsSock
  <2>3. \A s \in DOMAIN proc' : s # last' => proc'[s].pc \in Gone
    <3> SUFFICES ASSUME NEW s \in DOMAIN proc', s # last'  PROVE proc'[s].pc \in Gone
      OBVIOUS
    <3>1. s \in 1..last /\ proc'[s] = proc[s]
      BY <1>6, <1>7, <1>8, SMT
    <3>2. CASE s = last
      <4>1. last # 0
        BY <1>6, <3>1, <3>2, SMT
      <4>2. lastPC = proc[s].pc
        BY <3>2, <4>1 DEF lastPC
      <4> QED
        BY <2>1, <3>1, <4>2
    <3>3. CASE s # last
      BY <1>6, <1>11, <3>1, <3>3 DEF LInv
    <3> QED
      BY <3>2, <3>3
  <2>4. filesOK(o)'
    BY <1>1, <1>10, <2>2 DEF filesOK, OwnsPID, OwnsSock
  <2>5. knowsOK(o)'
    BY <1>3, <1>5, <1>7, <1>10, <2>1 DEF knowsOK
  <2> QED
    BY <1>10, <2>3, <2>4, <2>5
<1> QED
  BY <1>1, <1>5, <1>9, <1>11, OpStep

\* Where the processes and the files stay as they are, the clauses about the
\* operator are all that changes.
LEMMA OpOnly ==
    ASSUME LInv, NEW o \in Operators, o \in use.operators, UNCHANGED <<use, pidFile, sock, proc>>,
           DOMAIN op' = Operators, \A q \in Operators : DOMAIN op'[q] = OpFields,
           \A q \in Operators \ {o} : op'[q] = op[q], orderly => filesOK(o)' /\ knowsOK(o)'
    PROVE  LInv'
<1>1. last' = last /\ lastPC' = lastPC
  BY DEF last, lastPC
<1>2. Shape'
  BY DEF LInv, Shape
<1> QED
  BY <1>1, <1>2, OpStep DEF LInv

\* start sees the socket and reports success.
LEMMA StartSeenOK ==
    ASSUME LInv, NEW o \in Operators, o \in use.operators, StartSeen(o)
    PROVE  LInv'
<1>1. op[o].pc = "waitSock" /\ sock # NoFile /\ UNCHANGED <<use, pidFile, sock, proc>>
  BY DEF StartSeen, in
<1>2. /\ DOMAIN op' = Operators /\ \A q \in Operators : DOMAIN op'[q] = OpFields
      /\ op'[o].pc = "idle" /\ op'[o].said = "started" /\ op'[o].pid = op[o].pid
      /\ \A q \in Operators \ {o} : op'[q] = op[q]
  BY SayOp DEF StartSeen, LInv
<1>3. last' = last /\ lastPC' = lastPC
  BY <1>1 DEF last, lastPC
<1>4. ASSUME orderly  PROVE filesOK(o)' /\ knowsOK(o)'
  BY <1>1, <1>2, <1>3, <1>4 DEF LInv, filesOK, knowsOK, OwnsSock
<1> QED
  BY <1>1, <1>2, <1>4, OpOnly

\* start gives up on the socket.
LEMMA StartTimeoutOK ==
    ASSUME LInv, NEW o \in Operators, o \in use.operators, StartTimeout(o)
    PROVE  LInv'
<1>1. /\ op[o].pc = "waitSock" /\ sock = NoFile /\ sayOther(o) /\ UNCHANGED <<use, pidFile, sock, proc>>
      /\ use.slow \/ proc[op[o].pid].pc \notin Starting
  BY DEF StartTimeout, in
<1>2. orderly => lastPC \notin Early /\ lastPC # "killed"
  BY <1>1 DEF LInv, knowsOK, orderly, lastPC, Starting, Early
<1> QED
  BY <1>1, <1>2, SayOtherOK

\* The end of doStop, in a state without a server.
LEMMA StoppedRestart ==
    ASSUME LInv, NEW o \in Operators, o \in use.operators, goto(o, "start"),
           UNCHANGED <<use, pidFile, sock, proc>>, op[o].pc # "idle",
           orderly => lastPC \notin Early /\ (lastPC = "killed" => op[o].pc \notin Cleaning)
    PROVE  LInv'
<1>1. /\ DOMAIN op' = Operators /\ \A q \in Operators : DOMAIN op'[q] = OpFields
      /\ op'[o].pc = "start" /\ op'[o].said = op[o].said
      /\ \A q \in Operators \ {o} : op'[q] = op[q]
  BY GotoOp DEF LInv
<1>2. last' = last /\ lastPC' = lastPC
  BY DEF last, lastPC
<1>3. ASSUME orderly  PROVE filesOK(o)' /\ knowsOK(o)'
  BY <1>1, <1>2, <1>3 DEF LInv, filesOK, knowsOK, Early, Cleaning
<1> QED
  BY <1>1, <1>3, OpOnly

\* stop reads the PID file and sends SIGTERM to the process.
LEMMA StopCheckOK ==
    ASSUME LInv, NEW o \in Operators, o \in use.operators, StopCheck(o)
    PROVE  LInv'
<1>1. op[o].pc = "stop" /\ UNCHANGED <<use, pidFile, sock, proc>>
  BY DEF StopCheck, in
<1>2. CASE sayOther(o)
  BY <1>1, <1>2, SayOtherOK DEF LInv, knowsOK, Early, Cleaning
<1>3. CASE goto(o, "start")
  BY <1>1, <1>3, StoppedRestart DEF LInv, knowsOK, Early, Cleaning
<1>4. CASE readPID # 0 /\ op' = [op EXCEPT ![o].pc = "signal", ![o].pid = readPID]
  <2> DEFINE k == [op[o] EXCEPT !.pc = "signal", !.pid = readPID]
  <2>1. DOMAIN k = OpFields /\ k.pc = "signal" /\ k.pid = readPID /\ k.said = op[o].said
    BY DEF LInv, Shape, OpFields
  <2>2. op' = [op EXCEPT ![o] = k]
    BY <1>4
  <2> HIDE DEF k
  <2>3. /\ DOMAIN op' = Operators /\ \A q \in Operators : DOMAIN op'[q] = OpFields
        /\ op'[o] = k /\ \A q \in Operators \ {o} : op'[q] = op[q]
    BY <2>1, <2>2, SetOp DEF LInv
  <2>4. last' = last /\ lastPC' = lastPC
    BY <1>1 DEF last, lastPC
  <2>5. ASSUME orderly  PROVE filesOK(o)' /\ knowsOK(o)'
    <3>1. readPID = last /\ lastPC \notin Gone /\ last > 0
      BY <1>4, <2>5, ReadPID
    <3> QED
      BY <1>1, <2>1, <2>3, <2>4, <2>5, <3>1 DEF LInv, filesOK, knowsOK, Gone
  <2> QED
    BY <1>1, <2>1, <2>3, <2>5, OpOnly
<1> QED
  BY <1>2, <1>3, <1>4 DEF StopCheck, stopped

\* SIGTERM ends a server that has not asked for it yet, and tells another.
LEMMA SignalOK ==
    ASSUME LInv, NEW o \in Operators, o \in use.operators, Signal(o)
    PROVE  LInv'
<1> DEFINE s == op[o].pid
<1>1. op[o].pc = "signal" /\ UNCHANGED <<use, pidFile, sock>>
  BY DEF Signal, in
<1>2. CASE sayOther(o) /\ UNCHANGED proc
  BY <1>1, <1>2, SayOtherOK DEF LInv, knowsOK, Early, Cleaning
<1>3. CASE /\ Alive(s) /\ goto(o, "waitPID")
           /\ proc' = IF proc[s].pc \in Starting THEN [proc EXCEPT ![s].pc = "killed"]
                      ELSE [proc EXCEPT ![s].term = TRUE]
  <2>1. /\ DOMAIN op' = Operators /\ \A q \in Operators : DOMAIN op'[q] = OpFields
        /\ op'[o].pc = "waitPID" /\ op'[o].pid = op[o].pid /\ op'[o].said = op[o].said
        /\ \A q \in Operators \ {o} : op'[q] = op[q]
    BY <1>3, GotoOp DEF LInv
  <2>2. /\ DOMAIN proc' = DOMAIN proc
        /\ \A q \in DOMAIN proc :
              /\ DOMAIN proc'[q] = ProcFields
              /\ proc'[q].pc = IF q = s /\ proc[s].pc \in Starting THEN "killed" ELSE proc[q].pc
    <3>1. CASE proc[s].pc \in Starting
      <4>1. \A q \in DOMAIN proc : proc'[q] = IF q = s THEN [proc[q] EXCEPT !.pc = "killed"] ELSE proc[q]
        BY <1>3, <3>1
      <4> QED
        BY <1>3, <3>1, <4>1 DEF LInv, Shape, ProcFields
    <3>2. CASE proc[s].pc \notin Starting
      <4>1. \A q \in DOMAIN proc : proc'[q] = IF q = s THEN [proc[q] EXCEPT !.term = TRUE] ELSE proc[q]
        BY <1>3, <3>2
      <4> QED
        BY <1>3, <3>2, <4>1 DEF LInv, Shape, ProcFields
    <3> QED
      BY <3>1, <3>2
  <2>3. IsSeq(proc') /\ last' = last
    <3>1. DOMAIN proc = 1..Len(proc) /\ IsSeq(proc)
      BY DEF LInv, Shape, IsSeq
    <3>2. proc' = [i \in 1..Len(proc) |-> proc'[i]]
      BY <1>3, <3>1
    <3> QED
      BY <3>1, <3>2, SameDomain DEF last
  <2>4. Shape'
    BY <2>1, <2>2, <2>3 DEF LInv, Shape, PCs
  <2>5. ASSUME orderly
        PROVE  /\ \A q \in DOMAIN proc' : q # last' => proc'[q].pc \in Gone
               /\ lastPC' # "abort" /\ filesOK(o)' /\ knowsOK(o)'
    <3>1. filesOK(o) /\ knowsOK(o) /\ lastPC # "abort"
      BY <2>5 DEF LInv
    <3>2. s = last /\ last > 0 /\ last \in DOMAIN proc
      <4>1. s = last /\ last > 0
        BY <1>1, <3>1 DEF knowsOK
      <4>2. DOMAIN proc = 1..last /\ last \in Nat
        BY LastPC DEF LInv
      <4> QED
        BY <4>1, <4>2, SMT
    <3>3. lastPC = proc[last].pc /\ lastPC' = IF lastPC \in Starting THEN "killed" ELSE lastPC
      BY <2>2, <2>3, <3>2, SMTT(30) DEF lastPC
    <3>4. lastPC \in Starting => lastPC = "notify"
      BY <1>1, <3>1 DEF knowsOK, Starting
    <3>5. \A q \in DOMAIN proc' : q # last' => proc'[q].pc \in Gone
      BY <2>2, <2>3, <2>5, <3>2 DEF LInv
    <3>6. lastPC \notin Gone
      BY <1>3, <3>2, <3>3 DEF Alive
    <3>7. filesOK(o)'
      BY <1>1, <2>1, <2>3, <3>1, <3>3, <3>4, <3>6 DEF filesOK, OwnsPID, OwnsSock, Gone
    <3>8. knowsOK(o)'
      BY <1>1, <2>1, <2>3, <3>1, <3>2, <3>3, <3>4, <3>6 DEF knowsOK, Starting, Gone
    <3> QED
      BY <3>1, <3>3, <3>5, <3>7, <3>8
  <2> QED
    BY <1>1, <2>1, <2>4, <2>5, OpStep
<1> QED
  BY <1>2, <1>3 DEF Signal

\* "dbserver stopped", in a state without a server and with nothing to clean.
LEMMA StoppedSay ==
    ASSUME LInv, NEW o \in Operators, o \in use.operators, say(o, "stopped"),
           UNCHANGED <<use, pidFile, sock, proc>>, orderly => lastPC = "exited"
    PROVE  LInv'
<1>1. /\ DOMAIN op' = Operators /\ \A q \in Operators : DOMAIN op'[q] = OpFields
      /\ op'[o].pc = "idle" /\ op'[o].said = "stopped"
      /\ \A q \in Operators \ {o} : op'[q] = op[q]
  BY SayOp DEF LInv
<1>2. last' = last /\ lastPC' = lastPC
  BY DEF last, lastPC
<1>3. ASSUME orderly  PROVE filesOK(o)' /\ knowsOK(o)'
  BY <1>1, <1>2, <1>3 DEF LInv, filesOK, knowsOK, Gone
<1> QED
  BY <1>1, <1>3, OpOnly

\* stop sees that the PID file is gone and reports success.
LEMMA StopSeenOK ==
    ASSUME LInv, NEW o \in Operators, o \in use.operators, StopSeen(o)
    PROVE  LInv'
<1>1. op[o].pc = "waitPID" /\ pidFile = NoFile /\ UNCHANGED <<use, pidFile, sock, proc>>
  BY DEF StopSeen, in
<1>2. orderly => lastPC = "exited"
  <2> SUFFICES ASSUME orderly  PROVE lastPC = "exited"
    OBVIOUS
  <2>1. filesOK(o) /\ knowsOK(o) /\ lastPC \in PCs /\ last \in Nat /\ lastPC # "abort"
    BY LastPC DEF LInv
  <2>2. last # NoFile
    <3>1. last > 0
      BY <1>1, <2>1 DEF knowsOK
    <3> QED
      BY <2>1, <3>1, SMT DEF NoFile
  <2>3. lastPC \notin OwnsPID /\ lastPC # "killed"
    BY <1>1, <2>1, <2>2 DEF filesOK
  <2>4. lastPC \notin Early
    BY <1>1, <2>1 DEF knowsOK, Early
  <2> QED
    BY <2>1, <2>3, <2>4 DEF OwnsPID, Early, PCs
<1>3. CASE goto(o, "start")
  BY <1>1, <1>2, <1>3, StoppedRestart DEF Early
<1>4. CASE say(o, "stopped")
  BY <1>1, <1>2, <1>4, StoppedSay
<1> QED
  BY <1>3, <1>4 DEF StopSeen, stopped

\* stop gives up on the PID file.
LEMMA StopTimeoutOK ==
    ASSUME LInv, NEW o \in Operators, o \in use.operators, StopTimeout(o)
    PROVE  LInv'
<1>1. op[o].pc = "waitPID" /\ pidFile # NoFile /\ UNCHANGED <<use, pidFile, sock, proc>>
  BY DEF StopTimeout, in
<1>2. CASE readPID # 0 /\ sayOther(o)
  <2>1. orderly => lastPC \notin Early /\ lastPC \notin Gone
    BY <1>1, <1>2, ReadPID DEF LInv, knowsOK, Early
  <2> QED
    BY <1>1, <1>2, <2>1, SayOtherOK DEF Gone
<1>3. CASE readPID = 0 /\ goto(o, "cleanPID")
  <2>1. /\ DOMAIN op' = Operators /\ \A q \in Operators : DOMAIN op'[q] = OpFields
        /\ op'[o].pc = "cleanPID" /\ op'[o].said = op[o].said /\ op'[o].pid = op[o].pid
        /\ \A q \in Operators \ {o} : op'[q] = op[q]
    BY <1>3, GotoOp DEF LInv
  <2>2. last' = last /\ lastPC' = lastPC
    BY <1>1 DEF last, lastPC
  <2>3. ASSUME orderly  PROVE filesOK(o)' /\ knowsOK(o)'
    <3>1. lastPC \notin OwnsPID /\ filesOK(o) /\ knowsOK(o)
      BY <1>3, <2>3, ReadPID DEF LInv
    <3>2. lastPC = "killed"
      BY <1>1, <3>1 DEF filesOK, knowsOK
    <3> QED
      BY <1>1, <2>1, <2>2, <3>1, <3>2 DEF filesOK, knowsOK
  <2> QED
    BY <1>1, <2>1, <2>3, OpOnly
<1> QED
  BY <1>2, <1>3 DEF StopTimeout

\* doStop removes the files a killed server left.
LEMMA CleanOK ==
    ASSUME LInv, NEW o \in Operators, o \in use.operators, CleanPID(o) \/ CleanSock(o)
    PROVE  LInv'
<1>1. UNCHANGED <<use, proc>> /\ last' = last /\ lastPC' = lastPC
  BY DEF CleanPID, CleanSock, last, lastPC
<1>2. /\ DOMAIN op' = Operators /\ \A q \in Operators : DOMAIN op'[q] = OpFields
      /\ \A q \in Operators \ {o} : op'[q] = op[q]
      /\ \/ /\ op[o].pc = "cleanPID" /\ op'[o].pc = "cleanSock" /\ op'[o].said = op[o].said
            /\ pidFile' = NoFile /\ sock' = sock
         \/ /\ op[o].pc = "cleanSock" /\ op'[o].pc = "start" /\ op'[o].said = op[o].said
            /\ pidFile' = pidFile /\ sock' = NoFile
         \/ /\ op[o].pc = "cleanSock" /\ op'[o].pc = "idle" /\ op'[o].said = "stopped"
            /\ pidFile' = pidFile /\ sock' = NoFile
  <2>1. Shape
    BY DEF LInv
  <2>2. CASE CleanPID(o)
    BY <2>1, <2>2, GotoOp DEF CleanPID, in
  <2>3. CASE CleanSock(o) /\ goto(o, "start")
    BY <2>1, <2>3, GotoOp DEF CleanSock, in
  <2>4. CASE CleanSock(o) /\ say(o, "stopped")
    BY <2>1, <2>4, SayOp DEF CleanSock, in
  <2> QED
    BY <2>2, <2>3, <2>4 DEF CleanSock, stopped
<1>3. Shape'
  BY <1>1, <1>2 DEF LInv, Shape
<1>4. ASSUME orderly
      PROVE  /\ \A q \in DOMAIN proc' : q # last' => proc'[q].pc \in Gone
             /\ lastPC' # "abort" /\ filesOK(o)' /\ knowsOK(o)'
  <2>1. lastPC = "killed" /\ filesOK(o) /\ knowsOK(o)
    BY <1>2, <1>4 DEF LInv, knowsOK
  <2>2. filesOK(o)'
    BY <1>1, <1>2, <2>1 DEF filesOK, OwnsPID, OwnsSock
  <2>3. knowsOK(o)'
    BY <1>1, <1>2, <2>1 DEF knowsOK, Gone
  <2> QED
    BY <1>1, <1>4, <2>1, <2>2, <2>3 DEF LInv
<1> QED
  BY <1>1, <1>2, <1>3, <1>4, OpStep

----------------------------------------------------------------------------
\* The theorems

\* With no server and no files the invariant holds.
LEMMA InitOK == Init => LInv
<1> SUFFICES ASSUME Init  PROVE LInv
  OBVIOUS
<1>1. /\ use \in Uses /\ pidFile = NoFile /\ sock = NoFile /\ proc = <<>>
      /\ DOMAIN op = Operators /\ \A o \in Operators : op[o] = Idle
  BY DEF Init
<1>2. Len(proc) = 0 /\ DOMAIN proc = {} /\ IsSeq(proc)
  BY <1>1, SMT DEF IsSeq
<1>3. DOMAIN Idle = OpFields /\ Idle.pc = "idle" /\ Idle.said = ""
  BY DEF Idle, OpFields
<1>4. lastPC = "exited" /\ last = 0
  BY <1>2 DEF lastPC, last
<1>5. Shape
  BY <1>1, <1>2, <1>3 DEF Shape
<1>6. \A o \in Operators : filesOK(o) /\ knowsOK(o)
  BY <1>1, <1>3, <1>4 DEF filesOK, knowsOK, OwnsPID, OwnsSock
<1>7. use.operators \subseteq Operators
  BY <1>1, LifecycleAssumption
<1> QED
  BY <1>1, <1>2, <1>3, <1>4, <1>5, <1>6, <1>7 DEF LInv

\* Only an operator of the use is in a command.
LEMMA DbctlOK ==
    ASSUME LInv, NEW o \in Operators, Dbctl(o)
    PROVE  LInv'
<1>1. op[o].pc # "idle"
  BY DEF Dbctl, doStatus, doForward, StartCheck, Launch, StartSeen, StartTimeout, StopCheck, Signal,
         StopSeen, StopTimeout, CleanPID, CleanSock, in
<1>2. o \in use.operators
  BY <1>1 DEF LInv
<1> QED
  BY <1>2, doStatusOK, doForwardOK, StartCheckOK, LaunchOK, StartSeenOK, StartTimeoutOK, StopCheckOK,
     SignalOK, StopSeenOK, StopTimeoutOK, CleanOK DEF Dbctl

\* A server that is killed from outside: not in an orderly use.
LEMMA KillOK ==
    ASSUME LInv, NEW s \in DOMAIN proc, Kill(s)
    PROVE  LInv'
<1>1. use.crashes /\ to(s, "killed") /\ UNCHANGED <<use, op>>
  BY DEF Kill
<1>2. ~orderly /\ ~orderly'
  BY <1>1 DEF orderly
<1>3. /\ IsSeq(proc') /\ DOMAIN proc' = DOMAIN proc
      /\ \A q \in DOMAIN proc : /\ DOMAIN proc'[q] = ProcFields
                                /\ proc'[q].pc = IF q = s THEN "killed" ELSE proc[q].pc
  BY <1>1, To DEF LInv
<1>4. Shape'
  BY <1>1, <1>3 DEF LInv, Shape, PCs
<1> QED
  BY <1>1, <1>2, <1>4 DEF LInv

\* Every step of a command or of a server process keeps the invariant.
LEMMA NextOK == LInv /\ [Next]_vars => LInv'
<1> SUFFICES ASSUME LInv, [Next]_vars  PROVE LInv'
  OBVIOUS
<1>1. CASE UNCHANGED vars
  <2>1. UNCHANGED <<use, pidFile, sock, proc, op>>
    BY <1>1 DEF vars
  <2>2. last' = last /\ lastPC' = lastPC /\ (orderly' <=> orderly) /\ Shape'
    <3>1. last' = last /\ (orderly' <=> orderly) /\ Shape'
      BY <2>1 DEF last, orderly, Shape, LInv
    <3> QED
      BY <2>1, <3>1 DEF lastPC
  <2>3. ASSUME NEW o, filesOK(o), knowsOK(o)  PROVE filesOK(o)' /\ knowsOK(o)'
    <3>1. filesOK(o)'
      BY <2>1, <2>2, <2>3 DEF filesOK
    <3>2. knowsOK(o)'
      BY <2>1, <2>2, <2>3 DEF knowsOK
    <3> QED
      BY <3>1, <3>2
  <2> QED
    BY <2>1, <2>2, <2>3 DEF LInv
<1>2. ASSUME NEW s \in DOMAIN proc, Server(s) \/ Kill(s)  PROVE LInv'
  BY <1>2, ServerOK, KillOK
<1>3. ASSUME NEW o \in Operators, Command(o) \/ Dbctl(o)  PROVE LInv'
  BY <1>3, CommandOK, DbctlOK
<1> QED
  BY <1>1, <1>2, <1>3 DEF Next

\* With one operator the last process launched and the step it is in determine
\* the PID file and the socket.
THEOREM FilesInvariant == Spec => []LInv
  BY InitOK, NextOK, PTL DEF Spec

\* Only the last process can have the database open.
LEMMA HasDBLast ==
    ASSUME LInv, orderly, NEW s \in HasDB
    PROVE  s = last /\ lastPC = proc[s].pc /\ last > 0
<1>1. s \in DOMAIN proc /\ Alive(s)
  BY DEF HasDB, Alive, Gone
<1> QED
  BY <1>1, OnlyLast

\* At most one process has the database open (dbctl/main.go:112,
\* dbserver/main.go:84-88), for any number of servers and commands.
THEOREM LifecycleOneServer == Spec => []OneServer
<1>1. LInv => OneServer
  <2> SUFFICES ASSUME LInv, orderly  PROVE Cardinality(HasDB) <= 1
    BY DEF OneServer, OneOpen
  <2>1. HasDB \subseteq {last}
    BY HasDBLast
  <2>2. IsFiniteSet({last}) /\ Cardinality({last}) = 1
    BY FS_Singleton
  <2>3. Cardinality(HasDB) <= Cardinality({last})
    BY <2>1, <2>2, FS_Subset
  <2> QED
    BY <2>2, <2>3
<1> QED
  BY <1>1, FilesInvariant, PTL

\* After "dbserver stopped" no process has the database open, and a server
\* reported as started owns both files (dbctl/main.go:150-161, 180-192).
THEOREM LifecycleReportsTrue == Spec => []ReportsTrue
<1>1. LInv => ReportsTrue
  <2> SUFFICES ASSUME LInv, orderly, NEW o \in Operators
               PROVE  /\ op[o].said = "stopped" => HasDB = {}
                      /\ op[o].said = "started" =>
                            /\ sock = op[o].pid /\ pidFile = op[o].pid
                            /\ proc[op[o].pid].pc \in {"notify", "serve"}
    BY DEF ReportsTrue
  <2>1. CASE o \notin use.operators
    BY <2>1 DEF LInv
  <2>2. CASE o \in use.operators
    <3>1. filesOK(o) /\ knowsOK(o)
      BY <2>2 DEF LInv
    <3>2. ASSUME op[o].said = "stopped"  PROVE HasDB = {}
      <4>1. lastPC \in Gone
        BY <3>1, <3>2 DEF knowsOK
      <4>2. \A s \in HasDB : proc[s].pc \notin Gone
        BY DEF HasDB, Gone
      <4> QED
        BY <4>1, <4>2, HasDBLast
    <3>3. ASSUME op[o].said = "started"
          PROVE  sock = op[o].pid /\ pidFile = op[o].pid /\ proc[op[o].pid].pc \in {"notify", "serve"}
      <4>1. op[o].pid = last /\ lastPC \in {"notify", "serve"}
        BY <3>1, <3>3 DEF knowsOK
      <4> QED
        BY <3>1, <4>1 DEF filesOK, OwnsPID, OwnsSock, lastPC
    <3> QED
      BY <3>2, <3>3
  <2> QED
    BY <2>1, <2>2
<1> QED
  BY <1>1, FilesInvariant, PTL

\* With no process and no command running neither file is there
\* (dbctl/main.go:188-192).
THEOREM LifecycleNothingLeft == Spec => []NothingLeft
<1>1. LInv => NothingLeft
  <2> SUFFICES ASSUME LInv, orderly, Running = {}, \A o \in Operators : op[o].pc = "idle"
               PROVE  pidFile = NoFile /\ sock = NoFile
    BY DEF NothingLeft
  <2>1. PICK o \in Operators : use.operators = {o}
    BY DEF orderly
  <2>2. filesOK(o) /\ op[o].pc = "idle"
    BY <2>1 DEF LInv
  <2>3. lastPC \in Gone
    <3>1. DOMAIN proc = 1..last /\ last \in Nat
      BY LastPC DEF LInv
    <3>2. CASE last = 0
      BY <3>2 DEF lastPC, Gone
    <3>3. CASE last # 0
      BY <3>1, <3>3, SMT DEF lastPC, Running, Alive
    <3> QED
      BY <3>2, <3>3
  <2> QED
    BY <2>2, <2>3 DEF filesOK, Gone, OwnsPID, OwnsSock
<1> QED
  BY <1>1, FilesInvariant, PTL
=============================================================================
