------------------------------- MODULE Daemon -------------------------------
(***************************************************************************)
(* The life of the daemon and the calls of its clients                     *)
(* (search-server/src/main.rs; search-cli/src/main.rs, mcp/tools.rs).      *)
(*                                                                         *)
(* A daemon is found through the port file and, when it does not answer,   *)
(* signalled through the pid file.  It writes both before it is ready and  *)
(* removes both when it ends, whoever wrote them last.  Its main loop      *)
(* accepts connections, which the operating system has already completed,  *)
(* and hands them to one worker, which answers one after the other.  A     *)
(* worker that panics takes its queue along, and the main loop only learns *)
(* of it from the next connection.                                         *)
(***************************************************************************)
EXTENDS Naturals, FiniteSetsExt, SequencesExt

CONSTANTS
  MaxDaemons, \* bound: daemons that are spawned, each with its own port
  Clients,    \* command lines and MCP servers
  Starters,   \* bound: the clients that start daemons
  Missing,    \* a file that does not exist, no daemon
  MaxFaults   \* bound: daemons killed or failing to load, panics of workers

ASSUME DaemonAssumption ==
  /\ MaxDaemons \in Nat
  /\ MaxFaults \in Nat
  /\ Missing \notin 1..MaxDaemons
  /\ Clients \cap {"free", "dead"} = {}
  /\ Starters \subseteq Clients

VARIABLES
  main,      \* per daemon: where its main thread is
  shutdown,  \* per daemon: SHUTDOWN
  backlog,   \* per daemon: connections the main loop has not accepted
  queue,     \* per daemon: connections the worker has not taken
  worker,    \* per daemon: "free", "dead", or the client it serves
  portFile,  \* daemon.port
  pidFile,   \* daemon.pid
  client,    \* per client: its command, where it is in it, and its daemon
  shared,    \* history: daemons that were alive at the same time as another
  faults     \* history: faults so far

Daemons == 1..MaxDaemons

servers == <<main, shutdown, backlog, queue, worker>>
files == <<portFile, pidFile>>
history == <<shared, faults>>
vars == <<servers, files, client, history>>

Idle == [cmd |-> "none", pc |-> "idle", to |-> Missing, spawned |-> FALSE]
Commands == {"start", "stop", "search"}

Alive(d) == main[d] \notin {"unborn", "gone"}
Listens(d) == Alive(d) /\ main[d] # "clear"
Serving(d) == main[d] \in {"check", "accept", "drain"}

-----------------------------------------------------------------------------
(* Clients.                                                                *)

Goto(c, pc) ==
  client' = [client EXCEPT ![c].pc = pc,
                            ![c].to = IF pc = "wait" THEN @ ELSE Missing]

Ends(c) == client' = [client EXCEPT ![c] = Idle]

(* A command that finds no daemon: a search runs in this process, a start  *)
(* spawns a daemon and then tries again, a stop looks for the process.     *)
WithoutDaemon(c) ==
  CASE client[c].cmd = "search" -> Ends(c)
    [] client[c].cmd = "stop" -> Goto(c, "pid")
    [] client[c].cmd = "start" -> Goto(c, IF client[c].spawned THEN "port" ELSE "spawn")

(* Every start that is under way has a process left to spawn. *)
Unborn == {d \in Daemons : main[d] = "unborn"}
Starting == {c \in Clients : client[c].cmd = "start" /\ ~client[c].spawned}

Begin(c, cmd) ==
  /\ client[c] = Idle
  /\ cmd = "start" =>
       c \in Starters /\ Cardinality(Starting) < Cardinality(Unborn)
  /\ client' = [client EXCEPT ![c] =
       [cmd |-> cmd, pc |-> "port", to |-> Missing, spawned |-> FALSE]]
  /\ UNCHANGED <<servers, files, history>>

(* connect_to_daemon *)
ReadPort(c) ==
  /\ client[c].pc = "port"
  /\ IF portFile = Missing THEN WithoutDaemon(c)
     ELSE client' = [client EXCEPT ![c].pc = "connect", ![c].to = portFile]
  /\ UNCHANGED <<servers, files, history>>

Connect(c) ==
  /\ client[c].pc = "connect"
  /\ IF Listens(client[c].to)
     THEN /\ backlog' = [backlog EXCEPT ![client[c].to] = Append(@, c)]
          /\ Goto(c, "wait")
     ELSE WithoutDaemon(c) /\ UNCHANGED backlog
  /\ UNCHANGED <<main, shutdown, queue, worker, files, history>>

(* rpc_call on a connection that was closed without an answer: a stop does *)
(* not look at the answer, the others go on as if there were no daemon.    *)
Unanswered(c) ==
  IF client[c].cmd = "stop" THEN Ends(c) ELSE WithoutDaemon(c)

Lost(c) ==
  /\ client[c].pc = "wait"
  /\ LET d == client[c].to IN
       /\ worker[d] # c
       /\ ~Contains(backlog[d], c) /\ ~Contains(queue[d], c)
  /\ Unanswered(c)
  /\ UNCHANGED <<servers, files, history>>

(* handle_daemon_start spawns the server, which overlaps with any other.   *)
Spawn(c) ==
  /\ client[c].pc = "spawn"
  /\ LET d == Min(Unborn) IN
       /\ main' = [main EXCEPT ![d] = "clear"]
       /\ shared' = LET others == {e \in Daemons : Alive(e)}
                    IN IF others = {} THEN shared ELSE shared \cup others \cup {d}
  /\ client' = [client EXCEPT ![c].pc = "port", ![c].spawned = TRUE]
  /\ UNCHANGED <<shutdown, backlog, queue, worker, files, faults>>

(* wait_for_daemon gives up after five seconds, unless an attempt reaches a*)
(* daemon: then it waits for the answer.                                   *)
Deadline(c) ==
  /\ client[c].pc \in {"port", "connect"} /\ client[c].spawned
  /\ Ends(c)
  /\ UNCHANGED <<servers, files, history>>

Dies(d) ==
  /\ main' = [main EXCEPT ![d] = "gone"]
  /\ backlog' = [backlog EXCEPT ![d] = <<>>]
  /\ queue' = [queue EXCEPT ![d] = <<>>]
  /\ worker' = [worker EXCEPT ![d] = "free"]
  /\ shutdown' = [shutdown EXCEPT ![d] = FALSE]

(* handle_daemon_stop by the pid file: the signal sets SHUTDOWN once the   *)
(* handlers are installed, and kills a daemon that still loads.            *)
Signal(c) ==
  /\ client[c].pc = "pid"
  /\ IF pidFile = Missing
     THEN Ends(c) /\ UNCHANGED servers
     ELSE /\ Ends(c)
          /\ CASE main[pidFile] \in {"unborn", "gone"} -> UNCHANGED servers
               [] main[pidFile] \in {"clear", "bound", "named", "load"} ->
                    Dies(pidFile)
               [] OTHER ->
                    /\ shutdown' = [shutdown EXCEPT ![pidFile] = TRUE]
                    /\ UNCHANGED <<main, backlog, queue, worker>>
  /\ UNCHANGED <<files, history>>

-----------------------------------------------------------------------------
(* A daemon.                                                               *)

(* main: a stale port file is removed, the listener is bound, the pid file *)
(* and then the port file are written, the stores and the root are loaded, *)
(* the worker starts.                                                      *)
RemovesLate(d) ==
  \/ main[d] = "clear" /\ main' = [main EXCEPT ![d] = "bound"]
     /\ portFile' = d /\ pidFile' = d
  \/ main[d] = "bound" /\ main' = [main EXCEPT ![d] = "load"]
     /\ portFile' = Missing /\ UNCHANGED pidFile
  \/ main[d] = "load" /\ main' = [main EXCEPT ![d] = "check"] /\ UNCHANGED files
Starts(d) ==
  \/ main[d] = "clear" /\ main' = [main EXCEPT ![d] = "bound"]
     /\ portFile' = Missing /\ UNCHANGED pidFile
  \/ main[d] = "bound" /\ main' = [main EXCEPT ![d] = "named"]
     /\ pidFile' = d /\ UNCHANGED portFile
  \/ main[d] = "named" /\ main' = [main EXCEPT ![d] = "load"]
     /\ portFile' = d /\ UNCHANGED pidFile
  \/ main[d] = "load" /\ main' = [main EXCEPT ![d] = "check"] /\ UNCHANGED files

StartUp(d) ==
  /\ Starts(d)
  /\ UNCHANGED <<shutdown, backlog, queue, worker, client, history>>

(* The main loop looks at SHUTDOWN and at the idle timeout, which a caller *)
(* chooses, then accepts.                                                  *)
MustStopWhenIdle(d) == shutdown[d] /\ backlog[d] = <<>>
MustStop(d) == shutdown[d]

Check(d) ==
  /\ main[d] = "check"
  /\ \/ main' = [main EXCEPT ![d] = IF MustStop(d) THEN "drain" ELSE "accept"]
     \/ main' = [main EXCEPT ![d] = "drain"]
  /\ UNCHANGED <<shutdown, backlog, queue, worker, files, client, history>>

(* A connection the dead worker's channel does not take ends the loop.     *)
Accept(d) ==
  /\ main[d] = "accept"
  /\ IF backlog[d] = <<>> THEN main' = [main EXCEPT ![d] = "check"] /\ UNCHANGED <<backlog, queue>>
     ELSE /\ backlog' = [backlog EXCEPT ![d] = Tail(@)]
          /\ IF worker[d] = "dead"
             THEN main' = [main EXCEPT ![d] = "drain"] /\ UNCHANGED queue
             ELSE /\ main' = [main EXCEPT ![d] = "check"]
                  /\ queue' = [queue EXCEPT ![d] = Append(@, backlog[d][1])]
  /\ UNCHANGED <<shutdown, worker, files, client, history>>

(* The channel is closed and the worker joined, which serves what is left. *)
JoinedAlive(d) == worker[d] = "free" /\ queue[d] = <<>>
Joined(d) == worker[d] = "dead" \/ (worker[d] = "free" /\ queue[d] = <<>>)

(* After that and the flush of the services, which nobody sees, the files  *)
(* go, whosever they are, and with the process the listener and what waits *)
(* in it.                                                                  *)
ShutDown(d) ==
  /\ \/ /\ main[d] = "drain" /\ Joined(d) /\ portFile' = Missing
        /\ main' = [main EXCEPT ![d] = "rmpid"]
        /\ UNCHANGED <<backlog, queue, worker, shutdown, pidFile>>
     \/ /\ main[d] = "rmpid" /\ pidFile' = Missing
        /\ Dies(d)
        /\ UNCHANGED portFile
  /\ UNCHANGED <<client, history>>

(* The worker: the next connection, and the answer to its one request. *)
TakePeeking(d) ==
  /\ Serving(d)
  /\ worker[d] = "free" /\ queue[d] # <<>>
  /\ worker' = [worker EXCEPT ![d] = queue[d][1]]
  /\ UNCHANGED <<main, shutdown, backlog, queue, files, client, history>>
Take(d) ==
  /\ Serving(d)
  /\ worker[d] = "free" /\ queue[d] # <<>>
  /\ worker' = [worker EXCEPT ![d] = queue[d][1]]
  /\ queue' = [queue EXCEPT ![d] = Tail(@)]
  /\ UNCHANGED <<main, shutdown, backlog, files, client, history>>

(* dispatch: status for a start, shutdown for a stop, or a search. *)
Answer(d) ==
  /\ Serving(d)
  /\ worker[d] \in Clients
  /\ worker' = [worker EXCEPT ![d] = "free"]
  /\ LET c == worker[d] IN
       /\ shutdown' = [shutdown EXCEPT ![d] = @ \/ client[c].cmd = "stop"]
       /\ Ends(c)
  /\ UNCHANGED <<main, backlog, queue, files, history>>

(* A request that panics ends the worker, with the connections it had.     *)
Panic(d) ==
  /\ Serving(d)
  /\ worker[d] \in Clients
  /\ faults < MaxFaults
  /\ faults' = faults + 1
  /\ worker' = [worker EXCEPT ![d] = "dead"]
  /\ queue' = [queue EXCEPT ![d] = <<>>]
  /\ UNCHANGED <<main, shutdown, backlog, files, client, shared>>

(* A daemon that is killed, or whose state does not load, leaves its files.*)
Death(d) ==
  /\ Alive(d)
  /\ faults < MaxFaults
  /\ faults' = faults + 1
  /\ Dies(d)
  /\ UNCHANGED <<files, client, shared>>

-----------------------------------------------------------------------------
Init ==
  /\ main = [d \in Daemons |-> "unborn"]
  /\ shutdown = [d \in Daemons |-> FALSE]
  /\ backlog = [d \in Daemons |-> <<>>]
  /\ queue = [d \in Daemons |-> <<>>]
  /\ worker = [d \in Daemons |-> "free"]
  /\ portFile = Missing
  /\ pidFile = Missing
  /\ client = [c \in Clients |-> Idle]
  /\ shared = {}
  /\ faults = 0

ClientStep(c) == ReadPort(c) \/ Connect(c) \/ Lost(c) \/ Spawn(c) \/ Signal(c)
MainStep(d) == StartUp(d) \/ Check(d) \/ Accept(d) \/ ShutDown(d)
WorkerStep(d) == Take(d) \/ Answer(d)

Next ==
  \/ \E c \in Clients :
       \/ \E cmd \in Commands : Begin(c, cmd)
       \/ ClientStep(c)
       \/ Deadline(c)
  \/ \E d \in Daemons : MainStep(d) \/ WorkerStep(d) \/ Panic(d) \/ Death(d)

Spec == Init /\ [][Next]_vars

(* Threads go on, and deadlines pass. *)
FairSpec ==
  /\ Spec
  /\ \A c \in Clients : WF_vars(ClientStep(c)) /\ WF_vars(Deadline(c))
  /\ \A d \in Daemons : WF_vars(MainStep(d)) /\ WF_vars(WorkerStep(d))

-----------------------------------------------------------------------------
(* Properties.                                                             *)

Pcs == {"unborn", "clear", "bound", "named", "load", "check", "accept",
        "drain", "rmpid", "gone"}

(* Every client is in at most one place of one daemon, the daemon it       *)
(* waits for.                                                              *)
TypeOK ==
  /\ main \in [Daemons -> Pcs]
  /\ shutdown \in [Daemons -> BOOLEAN]
  /\ worker \in [Daemons -> Clients \cup {"free", "dead"}]
  /\ portFile \in Daemons \cup {Missing}
  /\ pidFile \in Daemons \cup {Missing}
  /\ \A c \in Clients :
       /\ client[c].cmd \in Commands \cup {"none"}
       /\ client[c].to \in Daemons \cup {Missing}
  /\ \A d \in Daemons :
       LET waiting == backlog[d] \o queue[d] \o
                        (IF worker[d] \in Clients THEN <<worker[d]>> ELSE <<>>)
       IN /\ IsInjective(waiting)
          /\ \A i \in DOMAIN waiting :
               client[waiting[i]].pc = "wait" /\ client[waiting[i]].to = d

(* A daemon that has had the machine for itself is found while it serves,  *)
(* whatever files a killed one left: docs/regression-test-plan.md:720      *)
(* "stale `daemon.pid` or `daemon.port` files are recovered cleanly".      *)
FoundWhileAlone ==
  \A d \in Daemons :
    (Serving(d) /\ d \notin shared) => portFile = d /\ pidFile = d

(* No command waits for ever: for a daemon that shuts down, was killed, or *)
(* lost its worker, and the commands have no timeout of their own.         *)
EveryCallEnds == \A c \in Clients : client[c] # Idle ~> client[c] = Idle

(* A daemon that was told to stop ends, however busy its clients keep it.  *)
AskedDaemonStops == \A d \in Daemons : shutdown[d] ~> main[d] = "gone"
=============================================================================
