------------------------------- MODULE Workspace -------------------------------
(***************************************************************************)
(* hud/environment/workspace.py with its namespace host (namespace.py) and *)
(* its ways out (egress.py): SSH sessions and trusted commands that run in *)
(* one sandbox, started by the first that needs it and thrown away by      *)
(* stop().  Every await of start, stop, sandbox_pid, discard_sandbox,      *)
(* visiting and of the spawn in the namespace host ends a step.            *)
(*                                                                         *)
(* A sandbox is named by the number of the boot that made it; the egress   *)
(* servers, the bridge, the connection to the namespace host and the       *)
(* published ports of that boot carry its number, and 0 stands for None.   *)
(***************************************************************************)
EXTENDS Naturals, FiniteSets

CONSTANTS Clients,    \* SSH sessions and trusted commands
          Visitors,   \* the commands with a policy of their own
          Ports,      \* whether the task publishes ports
          MaxBoots, MaxDeaths,   \* bounds of the model
          Faults,     \* whether boots and starts may fail
          None

ASSUME WorkspaceAssumption ==
  /\ Visitors \subseteq Clients /\ None \notin Clients
  /\ Ports \in BOOLEAN /\ Faults \in BOOLEAN
  /\ MaxBoots \in Nat \ {0} /\ MaxDeaths \in Nat

VARIABLES
  accept,   \* start() and stop(): "down", "bound", "up", "stop1", "stop2"
  port,     \* how many sockets were bound, hence the current address
  box,      \* _sandbox, _sandbox_init, _namespace, _egress and _bridge
  boots,    \* how many boots have begun
  alive,    \* the sandboxes whose process runs
  listen,   \* the boot whose NamespaceHost holds the published ports
  gone,     \* the sandboxes whose session holder was terminated
  used,     \* the sandboxes with _NamespaceHost.session_used
  jobs,     \* the processes in the sandboxes: <<client, sandbox>>
  lock,     \* the holder of _sandbox_lock
  visit,    \* the holder of _visitor_lock
  route,    \* whose Egress answers on the visitor socket
  deaths,   \* how many sandboxes died by themselves
  pc, gen   \* where client c is, and the sandbox it boots or runs in

vars == <<accept, port, box, boots, alive, listen, gone, used, jobs,
          lock, visit, route, deaths, pc, gen>>
server == <<accept, port>>
sandbox == <<box, alive, listen, jobs>>
marks == <<boots, gone, used, deaths>>
clients == <<lock, visit, route, pc, gen>>

Boots == 1..MaxBoots
NoBox == [proc |-> 0, init |-> 0, host |-> 0, egress |-> 0, bridge |-> 0]
Accepting == accept \notin {"down", "bound"}
Running == {"joined", "running"}

Init ==
  /\ accept = "down" /\ port = 0
  /\ box = NoBox /\ boots = 0 /\ alive = {} /\ listen = 0
  /\ gone = {} /\ used = {} /\ jobs = {}
  /\ lock = None /\ visit = None /\ route = None /\ deaths = 0
  /\ pc = [c \in Clients |-> "idle"] /\ gen = [c \in Clients |-> 0]

-----------------------------------------------------------------------------
(* discard_sandbox: the bridge and the host with its ports, then the rest.   *)

\* Two awaits in the code; nothing but a discard reads the bridge.
DropHost ==
  /\ box' = [box EXCEPT !.bridge = 0, !.host = 0]
  /\ listen' = IF listen = box.host THEN 0 ELSE listen

\* SIGKILL to the namespace's first process takes everything in it along.
Kill(g) ==
  /\ alive' = alive \ {g}
  /\ jobs' = {j \in jobs : j[2] # g}

\* Mutant: the process object is forgotten before it is killed.
DropSandbox_Unkilled ==
  /\ box' = [NoBox EXCEPT !.bridge = box.bridge, !.host = box.host]
  /\ UNCHANGED <<alive, jobs>>
DropSandbox ==
  /\ box' = [NoBox EXCEPT !.bridge = box.bridge, !.host = box.host]
  /\ Kill(box.proc)

-----------------------------------------------------------------------------
(* start and stop.                                                          *)

Bind ==
  /\ accept = "down"
  /\ accept' = "bound" /\ port' = port + 1
  /\ UNCHANGED <<sandbox, marks, clients>>

\* The accept loop and, when files are tracked, the baseline and its server.
Listen ==
  /\ accept = "bound" /\ accept' = "up"
  /\ UNCHANGED <<port, sandbox, marks, clients>>

\* stop(), by the environment's hook or by a start that failed half-way.
StopBegin ==
  /\ accept \in {"bound", "up"} /\ accept' = "stop1"
  /\ DropHost
  /\ UNCHANGED <<port, alive, jobs, marks, clients>>

StopKill ==
  /\ accept = "stop1" /\ accept' = "stop2"
  /\ DropSandbox
  /\ UNCHANGED <<port, listen, marks, clients>>

\* The tracker's server and the acceptor close last: sessions come in until then.
StopClose ==
  /\ accept = "stop2" /\ accept' = "down"
  /\ UNCHANGED <<port, sandbox, marks, clients>>

-----------------------------------------------------------------------------
(* sandbox_pid: use the live sandbox, or boot one under the lock.           *)

Live == box.proc \in alive

\* A client ends: a visit it holds ends with it.
Leave(c, how) ==
  /\ pc' = [pc EXCEPT ![c] = how]
  /\ visit' = IF visit = c THEN None ELSE visit
  /\ route' = IF visit = c THEN None ELSE route

\* _live_sandbox_pid asserts that a running sandbox has its init pid.
Reuse(c) ==
  /\ Live
  /\ IF box.init = 0 THEN Leave(c, "refused")
     ELSE pc' = [pc EXCEPT ![c] = "ready"] /\ UNCHANGED <<visit, route>>
  /\ UNCHANGED <<server, sandbox, marks, lock, gen>>

\* Mutant: the lock is not there.
LockFree_Always == lock \in Clients \cup {None}
LockFree == lock = None

\* Mutant: an egress that is still there is kept.
Egress_Kept == IF box.egress # 0 THEN box.egress ELSE boots + 1
Egress == boots + 1

\* The boot's own egress is served before the sandbox process exists.
BootBegin(c) ==
  /\ ~Live /\ LockFree /\ boots < MaxBoots
  /\ boots' = boots + 1
  /\ box' = [box EXCEPT !.egress = Egress]
  /\ lock' = c
  /\ pc' = [pc EXCEPT ![c] = "exec"] /\ gen' = [gen EXCEPT ![c] = boots + 1]
  /\ UNCHANGED <<server, alive, listen, jobs, gone, used, deaths, visit, route>>

Wait(c) ==
  /\ ~Live /\ ~LockFree
  /\ pc' = [pc EXCEPT ![c] = "queued"]
  /\ UNCHANGED <<server, sandbox, marks, lock, visit, route, gen>>

Enter(c) ==
  /\ (pc[c] = "idle" /\ Accepting) \/ pc[c] = "enter"
  /\ Reuse(c) \/ BootBegin(c) \/ Wait(c)

Woken(c) == pc[c] = "queued" /\ LockFree /\ (Reuse(c) \/ BootBegin(c))

\* The namespace host is executed and its identities are mapped.
BootExec(c) ==
  /\ pc[c] = "exec"
  /\ box' = [box EXCEPT !.proc = gen[c]]
  /\ alive' = alive \cup {gen[c]}
  /\ pc' = [pc EXCEPT ![c] = "connect"]
  /\ UNCHANGED <<server, listen, jobs, marks, lock, visit, route, gen>>

\* Its holders are up, its sockets are bound and its ready line is out.
HostReady(g) == g \in alive

BootConnect(c) ==
  /\ pc[c] = "connect" /\ HostReady(gen[c])
  /\ box' = [box EXCEPT !.host = gen[c]]
  /\ pc' = [pc EXCEPT ![c] = "forward"]
  /\ UNCHANGED <<server, alive, listen, jobs, marks, lock, visit, route, gen>>

\* Forwarding needs the host a discard may have taken, and ports nobody holds.
ForwardFails(c) ==
  \/ gen[c] \notin alive
  \/ (Ports \/ box.egress # 0) /\ box.host = 0
  \/ Ports /\ listen # 0

BootForward(c) ==
  /\ pc[c] = "forward" /\ ~ForwardFails(c)
  /\ listen' = IF Ports THEN box.host ELSE 0
  /\ pc' = [pc EXCEPT ![c] = "bridge"]
  /\ UNCHANGED <<server, box, alive, jobs, marks, lock, visit, route, gen>>

\* One listener in the sandbox's network for every route the egress serves.
Bridge == box.egress

\* The bridge said it is ready; only now does the sandbox have its init pid.
BootDone(c) ==
  /\ pc[c] = "bridge"
  /\ gen[c] \in alive
  /\ box.egress # 0 => box.host # 0
  /\ box' = [box EXCEPT !.init = gen[c], !.bridge = Bridge]
  /\ lock' = None
  /\ pc' = [pc EXCEPT ![c] = "ready"]
  /\ UNCHANGED <<server, alive, listen, jobs, marks, visit, route, gen>>

\* What goes wrong by itself, or because the sandbox or its host went away.
BootFails(c) ==
  /\ \/ Faults /\ pc[c] \in {"exec", "connect", "forward", "bridge"}
     \/ pc[c] \in {"connect", "bridge"} /\ gen[c] \notin alive
     \/ pc[c] = "forward" /\ ForwardFails(c)
     \/ pc[c] = "bridge" /\ box.egress # 0 /\ box.host = 0
  /\ DropHost
  /\ pc' = [pc EXCEPT ![c] = "undo"]
  /\ UNCHANGED <<server, alive, jobs, marks, lock, visit, route, gen>>

AfterUndo == None

UndoKill(c) ==
  /\ pc[c] = "undo" /\ Leave(c, "failed")
  /\ DropSandbox
  /\ lock' = AfterUndo
  /\ UNCHANGED <<server, listen, marks, gen>>

-----------------------------------------------------------------------------
(* visiting: one way out at the visitor port, for one command at a time.     *)

VisitFree == visit = None

\* launch asks for the sandbox again, after visiting has.
Visit(c) ==
  /\ c \in Visitors /\ pc[c] = "ready" /\ visit # c /\ VisitFree
  /\ visit' = c /\ route' = c
  /\ pc' = [pc EXCEPT ![c] = "enter"]
  /\ UNCHANGED <<server, sandbox, marks, lock, gen>>

-----------------------------------------------------------------------------
(* A process in the sandbox: the client's request, _NamespaceHost._spawn.    *)

Spawn(c) ==
  /\ pc[c] = "ready" /\ (c \in Visitors => visit = c)
  /\ IF box.host = 0 THEN Leave(c, "failed") /\ UNCHANGED gen
     ELSE /\ pc' = [pc EXCEPT ![c] = "joining"] /\ gen' = [gen EXCEPT ![c] = box.host]
          /\ UNCHANGED <<visit, route>>
  /\ UNCHANGED <<server, sandbox, marks, lock>>

\* Sessions enter the session holder's namespace, commands the environment's.
HolderUp(c) == gen[c] \in alive /\ (c \in Visitors \/ gen[c] \notin gone)

Join(c) ==
  /\ pc[c] = "joining"
  /\ IF HolderUp(c)
       THEN /\ jobs' = jobs \cup {<<c, gen[c]>>}
            /\ pc' = [pc EXCEPT ![c] = "joined"] /\ UNCHANGED <<visit, route>>
       ELSE Leave(c, "failed") /\ UNCHANGED jobs
  /\ UNCHANGED <<server, box, alive, listen, marks, lock, gen>>

\* Its streams are connected: only now is the session scope marked as used.
Mark(c) ==
  /\ pc[c] = "joined" /\ <<c, gen[c]>> \in jobs
  /\ used' = IF c \in Visitors THEN used ELSE used \cup {gen[c]}
  /\ pc' = [pc EXCEPT ![c] = "running"]
  /\ UNCHANGED <<server, sandbox, boots, gone, deaths, lock, visit, route, gen>>

\* A command ends: what a session left in its group stays (persistent), what
\* a trusted command left is terminated with it.
Finish(c) ==
  /\ pc[c] = "running"
  /\ \/ jobs' = jobs \ {<<c, gen[c]>>}
     \/ c \notin Visitors /\ UNCHANGED jobs
  /\ Leave(c, "done")
  /\ UNCHANGED <<server, box, alive, listen, marks, lock, gen>>

\* The channel closes, or the wait is cancelled, before the command has ended.
Abandon(c) ==
  /\ pc[c] \in Running
  /\ jobs' = jobs \ {<<c, gen[c]>>}
  /\ Leave(c, "done")
  /\ UNCHANGED <<server, box, alive, listen, marks, lock, gen>>

\* terminate_sessions kills the session holder, if a session process was seen.
Ended(g) ==
  /\ gone' = gone \cup {g}
  /\ jobs' = {j \in jobs : j[1] \in Visitors \/ j[2] # g}

TerminateSessions ==
  LET g == box.host
  IN /\ g \in alive
     /\ IF g \in used THEN Ended(g) ELSE UNCHANGED <<gone, jobs>>
     /\ used' = used \ {g}
     /\ UNCHANGED <<server, box, alive, listen, boots, deaths, clients>>

\* The sandbox dies by itself.
Die(g) ==
  /\ g \in alive /\ Kill(g)
  /\ deaths < MaxDeaths /\ deaths' = deaths + 1
  /\ UNCHANGED <<server, box, listen, boots, gone, used, clients>>

-----------------------------------------------------------------------------
Boot(c) == BootExec(c) \/ BootConnect(c) \/ BootForward(c) \/ BootDone(c)
             \/ BootFails(c) \/ UndoKill(c)

Client(c) == Enter(c) \/ Woken(c) \/ Boot(c) \/ Visit(c) \/ Spawn(c) \/ Join(c)
               \/ Mark(c) \/ Finish(c) \/ Abandon(c)

Stopping == StopKill \/ StopClose

-----------------------------------------------------------------------------
TypeOK ==
  /\ accept \in {"down", "bound", "up", "stop1", "stop2"} /\ port \in Nat
  /\ box \in [{"proc", "init", "host", "egress", "bridge"} -> 0..boots]
  /\ boots \in 0..MaxBoots /\ deaths \in 0..MaxDeaths /\ alive \subseteq Boots /\ listen \in 0..boots
  /\ gone \subseteq Boots /\ used \subseteq Boots
  /\ jobs \subseteq Clients \X Boots
  /\ lock \in Clients \cup {None} /\ {visit, route} \subseteq Visitors \cup {None}
  /\ pc \in [Clients -> {"idle", "queued", "exec", "connect", "forward", "bridge", "undo",
                         "ready", "enter", "refused", "joining", "joined", "running",
                         "done", "failed"}]
  /\ gen \in [Clients -> 0..boots]

\* Whatever runs, runs in the one sandbox that discard_sandbox would kill: no
\* boot replaces a live sandbox (workspace.py:1222, "another session may have
\* started it while this one waited"), nothing outlives a kill, and a session that
\* was terminated for grading leaves no process.
OneSandbox ==
  /\ alive \subseteq {box.proc}
  /\ \A j \in jobs : j[2] = box.proc /\ (j[2] \in gone => j[1] \in Visitors)

\* A ready sandbox goes out through the egress and the bridge of its own boot,
\* or through none at all, never through another boot's policy; and the visitor
\* socket answers for the command that runs, and for nobody once that command is
\* over (workspace.py:586, "open only for as long as the visitor runs").
OwnRoutes ==
  /\ Live /\ box.init = box.proc => box.bridge \in {0, box.proc} /\ box.egress \in {0, box.proc}
  /\ route = visit
  /\ \A v \in Visitors : pc[v] \in Running \cup {"joining"} => route = v

\* Sessions that come together share a boot: none is turned away because
\* another one is still starting the sandbox (workspace.py:567).
SessionsShareBoot == \A c \in Clients : pc[c] # "refused"
=============================================================================
