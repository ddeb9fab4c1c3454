----------------------------- MODULE Lifecycle ------------------------------
(***************************************************************************)
(* The life of dbserver processes (cmd/dbserver/main.go) under the commands *)
(* of dbctl (cmd/dbctl/main.go), which know them by a PID file and by the   *)
(* socket beside it.  Both are looked at, written and removed in separate   *)
(* steps, by name: whoever removes the file removes the one that is there.  *)
(* What a server does between Serve and its return is in Daemon.            *)
(***************************************************************************)
EXTENDS Integers, FiniteSets, Sequences

CONSTANTS Operators,   \* people or scripts that run dbctl
          Uses         \* [operators, servers, slow, failures, crashes]

ASSUME LifecycleAssumption ==
    \A u \in Uses : /\ u.operators \subseteq Operators /\ u.servers \in Nat
                    /\ {u.slow, u.failures, u.crashes} \subseteq BOOLEAN

VARIABLES use,      \* who operates; bound: processes launched; may a start give up on a server that still comes up,
                    \* may OpenDB fail, may a server be killed without notice?
          pidFile,  \* NoFile, Empty (created, not yet written) or a process
          sock,     \* NoFile or the process that created the socket
          proc,     \* the processes in the order of their launch
          op        \* the command each operator runs, and the last report if it was
                    \* "started" or "stopped"

vars == <<use, pidFile, sock, proc, op>>

NoFile == 0
Empty == -1

Gone == {"exited", "killed"}
Alive(s) == proc[s].pc \notin Gone

\* Before signal.Notify a SIGTERM ends the process at once.
Starting == {"create", "write", "open", "unlink", "listen", "abort", "notify"}
Running == {s \in DOMAIN proc : Alive(s)}

\* The processes between OpenDB and DB.Close.
HasDB == {s \in DOMAIN proc : proc[s].pc \in {"unlink", "listen", "abort", "notify", "serve", "close"}}

Idle == [pc |-> "idle", cmd |-> "", pid |-> 0, said |-> ""]

MaxServers == CHOOSE n \in {u.servers : u \in Uses} : \A u \in Uses : u.servers <= n

Init == /\ use \in Uses
        /\ pidFile = NoFile /\ sock = NoFile
        /\ proc = <<>>
        /\ op = [o \in Operators |-> Idle]

----------------------------------------------------------------------------
\* dbserver: main

at(s, pc) == proc[s].pc = pc
to(s, pc) == proc' = [proc EXCEPT ![s].pc = pc]

\* os.WriteFile creates or truncates, then writes.
CreatePID(s) == at(s, "create") /\ to(s, "write") /\ pidFile' = Empty /\ UNCHANGED <<use, sock, op>>
WritePID(s) == at(s, "write") /\ to(s, "open") /\ pidFile' = s /\ UNCHANGED <<use, sock, op>>

OpenDB(s) == at(s, "open") /\ to(s, "unlink") /\ UNCHANGED <<use, pidFile, sock, op>>
OpenDBFails(s) ==
    /\ use.failures /\ at(s, "open") /\ to(s, "exited")
    /\ pidFile' = NoFile
    /\ UNCHANGED <<use, sock, op>>

RemoveStale(s) == at(s, "unlink") /\ to(s, "listen") /\ sock' = NoFile /\ UNCHANGED <<use, pidFile, op>>

\* net.Listen fails when the name is in use.
Listen(s) ==
    /\ at(s, "listen")
    /\ to(s, IF sock = NoFile THEN "notify" ELSE "abort")
    /\ sock' = IF sock = NoFile THEN s ELSE sock
    /\ UNCHANGED <<use, pidFile, op>>
Abort(s) == at(s, "abort") /\ to(s, "exited") /\ pidFile' = NoFile /\ UNCHANGED <<use, sock, op>>

Notify(s) == at(s, "notify") /\ to(s, "serve") /\ UNCHANGED <<use, pidFile, sock, op>>

\* Shutdown: closing a Unix listener removes its socket file; Serve returns.
ServeReturns(s) ==
    /\ at(s, "serve") /\ proc[s].term /\ to(s, "close")
    /\ sock' = NoFile
    /\ UNCHANGED <<use, pidFile, op>>

CloseDB(s) == at(s, "close") /\ to(s, "rmSock") /\ UNCHANGED <<use, pidFile, sock, op>>
RemoveSock(s) == at(s, "rmSock") /\ to(s, "rmPID") /\ sock' = NoFile /\ UNCHANGED <<use, pidFile, op>>

\* Mutant: the PID file stays.
RemovePID_Keep(s) == at(s, "rmPID") /\ to(s, "exited") /\ UNCHANGED <<use, pidFile, sock, op>>

RemovePID(s) == at(s, "rmPID") /\ to(s, "exited") /\ pidFile' = NoFile /\ UNCHANGED <<use, sock, op>>

Server(s) ==
    \/ CreatePID(s) \/ WritePID(s) \/ OpenDB(s) \/ OpenDBFails(s) \/ RemoveStale(s)
    \/ Listen(s) \/ Abort(s) \/ Notify(s)
    \/ ServeReturns(s) \/ CloseDB(s) \/ RemoveSock(s) \/ RemovePID(s)

Kill(s) == use.crashes /\ Alive(s) /\ to(s, "killed") /\ UNCHANGED <<use, pidFile, sock, op>>

----------------------------------------------------------------------------
\* dbctl

\* The process of the PID file if it is alive, else 0.
readPID == IF pidFile \in DOMAIN proc /\ Alive(pidFile) THEN pidFile ELSE 0

in(o, pc) == op[o].pc = pc
goto(o, pc) == op' = [op EXCEPT ![o].pc = pc]
say(o, what) == op' = [op EXCEPT ![o] = [Idle EXCEPT !.said = what, !.pid = op[o].pid]]
sayOther(o) == op' = [op EXCEPT ![o] = Idle]

\* Commands that may still launch a server.
ToLaunch == {o \in Operators : op[o].cmd \in {"start", "restart"} /\ op[o].pc # "waitSock"}

Command(o) ==
    /\ in(o, "idle") /\ o \in use.operators
    /\ \E cmd \in {"start", "stop", "restart", "status", "shutdown"} :
          /\ cmd \in {"start", "restart"} => Len(proc) + Cardinality(ToLaunch) < use.servers
          /\ op' = [op EXCEPT ![o] = [Idle EXCEPT !.cmd = cmd,
                       !.pc = CASE cmd = "start" -> "start" [] cmd \in {"stop", "restart"} -> "stop"
                                [] OTHER -> cmd]]
    /\ UNCHANGED <<use, pidFile, sock, proc>>

doStatus(o) ==
    /\ in(o, "status")
    /\ sayOther(o)
    /\ UNCHANGED <<use, pidFile, sock, proc>>

\* A "shutdown" request that the server behind the socket accepts.
doForward(o) ==
    /\ in(o, "shutdown")
    /\ IF sock # NoFile /\ at(sock, "serve")
       THEN sayOther(o) /\ proc' = [proc EXCEPT ![sock].term = TRUE]
       ELSE sayOther(o) /\ UNCHANGED proc
    /\ UNCHANGED <<use, pidFile, sock>>

\* doStart

StartCheck(o) ==
    /\ in(o, "start")
    /\ IF readPID # 0 THEN sayOther(o) ELSE goto(o, "launch")
    /\ UNCHANGED <<use, pidFile, sock, proc>>

Launch(o) ==
    /\ in(o, "launch")
    /\ proc' = Append(proc, [pc |-> "create", term |-> FALSE])
    /\ op' = [op EXCEPT ![o].pc = "waitSock", ![o].pid = Len(proc) + 1]
    /\ UNCHANGED <<use, pidFile, sock>>

StartSeen(o) ==
    /\ in(o, "waitSock") /\ sock # NoFile
    /\ say(o, "started")
    /\ UNCHANGED <<use, pidFile, sock, proc>>

\* Mutant: no limit on the wait for a server that runs.
StartTimeout_NoLimit(o) ==
    /\ in(o, "waitSock") /\ sock = NoFile
    /\ ~Alive(op[o].pid)
    /\ sayOther(o)
    /\ UNCHANGED <<use, pidFile, sock, proc>>

\* Two seconds have passed.
StartTimeout(o) ==
    /\ in(o, "waitSock") /\ sock = NoFile
    /\ use.slow \/ proc[op[o].pid].pc \notin Starting
    /\ sayOther(o)
    /\ UNCHANGED <<use, pidFile, sock, proc>>

\* The end of doStop: restart goes on.
stopped(o, report) == IF op[o].cmd = "restart" THEN goto(o, "start") ELSE report

StopCheck(o) ==
    /\ in(o, "stop")
    /\ IF readPID = 0 THEN stopped(o, sayOther(o))
       ELSE op' = [op EXCEPT ![o].pc = "signal", ![o].pid = readPID]
    /\ UNCHANGED <<use, pidFile, sock, proc>>

Signal(o) ==
    LET s == op[o].pid
    IN  /\ in(o, "signal")
        /\ IF ~Alive(s) THEN sayOther(o) /\ UNCHANGED proc
           ELSE /\ goto(o, "waitPID")
                /\ proc' = IF proc[s].pc \in Starting THEN [proc EXCEPT ![s].pc = "killed"]
                           ELSE [proc EXCEPT ![s].term = TRUE]
        /\ UNCHANGED <<use, pidFile, sock>>

StopSeen(o) ==
    /\ in(o, "waitPID") /\ pidFile = NoFile
    /\ stopped(o, say(o, "stopped"))
    /\ UNCHANGED <<use, pidFile, sock, proc>>

\* Mutant: the files are removed, whoever they belong to.
StopTimeout_Force(o) ==
    /\ in(o, "waitPID") /\ pidFile # NoFile
    /\ goto(o, "cleanPID")
    /\ UNCHANGED <<use, pidFile, sock, proc>>

\* Mutant: restart goes on although the server still runs.
StopTimeout_Insist(o) ==
    /\ in(o, "waitPID") /\ pidFile # NoFile
    /\ IF readPID = 0 \/ op[o].cmd = "restart" THEN goto(o, "cleanPID") ELSE sayOther(o)
    /\ UNCHANGED <<use, pidFile, sock, proc>>

\* Five seconds have passed: files of a dead process are removed.
StopTimeout(o) ==
    /\ in(o, "waitPID") /\ pidFile # NoFile
    /\ IF readPID = 0 THEN goto(o, "cleanPID") ELSE sayOther(o)
    /\ UNCHANGED <<use, pidFile, sock, proc>>

CleanPID(o) == in(o, "cleanPID") /\ goto(o, "cleanSock") /\ pidFile' = NoFile /\ UNCHANGED <<use, sock, proc>>

CleanSock(o) == in(o, "cleanSock") /\ stopped(o, say(o, "stopped")) /\ sock' = NoFile /\ UNCHANGED <<use, pidFile, proc>>

Dbctl(o) ==
    \/ doStatus(o) \/ doForward(o)
    \/ StartCheck(o) \/ Launch(o) \/ StartSeen(o) \/ StartTimeout(o)
    \/ StopCheck(o) \/ Signal(o) \/ StopSeen(o) \/ StopTimeout(o) \/ CleanPID(o) \/ CleanSock(o)

Next == \/ \E s \in DOMAIN proc : Server(s) \/ Kill(s)
        \/ \E o \in Operators : Command(o) \/ Dbctl(o)

Spec == Init /\ [][Next]_vars

\* Processes run, and a dbctl that was called goes on; nobody has to call it.
Fairness == /\ \A s \in 1..MaxServers : WF_vars(s \in DOMAIN proc /\ Server(s))
            /\ \A o \in Operators : WF_vars(Dbctl(o))

LiveSpec == Spec /\ Fairness

----------------------------------------------------------------------------
\* Properties

\* One operator, no server killed from outside, and none given up on while it
\* comes up.
orderly == (\E o \in Operators : use.operators = {o}) /\ ~use.crashes /\ ~use.slow

\* At most one process has the database open.
OneOpen == Cardinality(HasDB) <= 1

\* A second server is started only after the first has closed the database
\* (dbctl/main.go:112, dbserver/main.go:84-88).
OneServer == orderly => OneOpen

\* What dbctl reports is true, although all it sees is files.  After "dbserver
\* stopped" no process has the database open (dbctl/main.go:180-192).  A server
\* reported as started can be reached and stopped until someone does: both files
\* are its own, although its predecessors remove files of the same names
\* (dbctl/main.go:150-161, dbserver/main.go:87-88).
ReportsTrue ==
    \A o \in Operators :
        /\ orderly /\ op[o].said = "stopped" => HasDB = {}
        /\ orderly /\ op[o].said = "started" =>
              sock = op[o].pid /\ pidFile = op[o].pid /\ proc[op[o].pid].pc \in {"notify", "serve"}

\* Nothing is left of servers that have ended: with no process and no command
\* running there is no socket and no PID file, also when SIGTERM came before the
\* server could handle it (dbctl/main.go:188-192).
NothingLeft ==
    orderly /\ Running = {} /\ (\A o \in Operators : op[o].pc = "idle") =>
        pidFile = NoFile /\ sock = NoFile

\* Every dbctl command returns, whatever the servers and other commands do
\* (dbctl/main.go:151, 181).
Returns == \A o \in Operators : op[o].pc # "idle" ~> op[o].pc = "idle"
=============================================================================
