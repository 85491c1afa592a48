---------------------------- MODULE ServingProofs ----------------------------
(* Why the environment of a local rollout has one sandbox with its own ways    *)
(* out, and is served at the address it names, for any clients, visitors and   *)
(* acquisitions and however often the sandbox is started, dies and is thrown   *)
(* away.  Why its SSH client keeps one connection, and why a batch of robots   *)
(* hands each its own actions.                                                 *)
EXTENDS EnvServing, WireClients, BatchedModel, FiniteSetTheorems, SequenceTheorems, TLAPS

Booting == {"exec", "connect", "forward", "bridge", "undo"}

Typed ==
  /\ box \in [proc : Nat, init : Nat, host : Nat, egress : Nat, bridge : Nat]
  /\ boots \in Nat
  /\ DOMAIN pc = Clients /\ pc = [c \in Clients |-> pc[c]]
  /\ gen \in [Clients -> Nat]
  /\ alive \subseteq Nat \ {0} /\ jobs \subseteq Clients \X Nat

\* Whoever boots has the lock and the newest number; no sandbox runs before its
\* own does, and none is initialised under that number before it is ready.
Booted ==
  /\ \A c \in Clients : pc[c] \in Booting <=> lock = c
  /\ \A c \in Clients : pc[c] \in Booting =>
       gen[c] = boots /\ gen[c] # 0 /\ box.init # gen[c] /\ box.egress \in {0, gen[c]}
  /\ \A c \in Clients : pc[c] = "exec" => alive = {}
  /\ box.init <= boots

\* A process runs in a sandbox that runs, and that is the one there is.
Jobs == OneSandbox /\ \A j \in jobs : j[2] \in alive

\* The steps of the workspace, one by one.
SandboxStep ==
  \/ UNCHANGED vars
  \/ Bind \/ Listen
  \/ StopBegin
  \/ StopKill
  \/ StopClose
  \/ \E c \in Clients :
       \/ pc[c] \notin Booting /\ (Reuse(c) \/ BootBegin(c) \/ Wait(c))
       \/ Boot(c)
       \/ Visit(c) \/ Spawn(c) \/ Join(c) \/ Mark(c) \/ Finish(c) \/ Abandon(c)
  \/ TerminateSessions
  \/ \E g \in Boots : Die(g)

\* Every step keeps the variables in their sets.
LEMMA TypedStep ==
  ASSUME Typed, Booted, SandboxStep
  PROVE  Typed'
<1> USE WorkspaceAssumption DEF Typed, Booted, Booting, server, sandbox, marks, clients
<1>1. CASE UNCHANGED vars
  BY <1>1 DEF vars
<1>2. CASE Bind \/ Listen
  BY <1>2 DEF Bind, Listen
<1>3. CASE StopBegin
  BY <1>3 DEF StopBegin, DropHost
<1>4. CASE StopKill
  BY <1>4 DEF StopKill, DropSandbox, Kill, NoBox
<1>5. CASE StopClose
  BY <1>5 DEF StopClose
<1>6. ASSUME NEW c \in Clients, pc[c] \notin Booting, Reuse(c) PROVE Typed'
  BY <1>6 DEF Reuse, Leave
<1>7. ASSUME NEW c \in Clients, pc[c] \notin Booting, BootBegin(c) PROVE Typed'
  BY <1>7 DEF BootBegin, Egress, LockFree, Live
<1>8. ASSUME NEW c \in Clients, pc[c] \notin Booting, Wait(c) PROVE Typed'
  BY <1>8 DEF Wait
<1>9. ASSUME NEW c \in Clients, BootExec(c) PROVE Typed'
  BY <1>9 DEF BootExec
<1>10. ASSUME NEW c \in Clients, BootConnect(c) PROVE Typed'
  BY <1>10 DEF BootConnect, HostReady
<1>11. ASSUME NEW c \in Clients, BootForward(c) PROVE Typed'
  BY <1>11 DEF BootForward
<1>12. ASSUME NEW c \in Clients, BootDone(c) PROVE Typed'
  BY <1>12 DEF BootDone, Bridge
<1>13. ASSUME NEW c \in Clients, BootFails(c) PROVE Typed'
  BY <1>13 DEF BootFails, DropHost
<1>14. ASSUME NEW c \in Clients, UndoKill(c) PROVE Typed'
  BY <1>14 DEF UndoKill, DropSandbox, Kill, NoBox, AfterUndo, Leave
<1>15. ASSUME NEW c \in Clients, Visit(c) PROVE Typed'
  BY <1>15 DEF Visit, VisitFree
<1>16. ASSUME NEW c \in Clients, Spawn(c) PROVE Typed'
  BY <1>16 DEF Spawn, Leave
<1>17. ASSUME NEW c \in Clients, Join(c) PROVE Typed'
  BY <1>17 DEF Join, HolderUp, Leave
<1>18. ASSUME NEW c \in Clients, Mark(c) PROVE Typed'
  BY <1>18 DEF Mark, Running
<1>19. ASSUME NEW c \in Clients, Finish(c) \/ Abandon(c) PROVE Typed'
  BY <1>19 DEF Finish, Abandon, Leave, Running
<1>20. CASE TerminateSessions
  BY <1>20 DEF TerminateSessions, Ended
<1>21. ASSUME NEW g \in Boots, Die(g) PROVE Typed'
  BY <1>21 DEF Die, Kill
<1> QED
  BY <1>1, <1>2, <1>3, <1>4, <1>5, <1>6, <1>7, <1>8, <1>9, <1>10, <1>11, <1>12, <1>13, <1>14, <1>15, <1>16, <1>17, <1>18, <1>19, <1>20, <1>21 DEF SandboxStep, Boot

\* Every step keeps one boot at a time.
LEMMA BootedStep ==
  ASSUME Typed, Jobs, Booted, SandboxStep
  PROVE  Booted'
<1> USE WorkspaceAssumption DEF Typed, Jobs, OneSandbox, Booted, Booting, server, sandbox, marks, clients
<1>1. CASE UNCHANGED vars
  BY <1>1 DEF vars
<1>2. CASE Bind \/ Listen
  BY <1>2 DEF Bind, Listen
<1>3. CASE StopBegin
  BY <1>3 DEF StopBegin, DropHost
<1>4. CASE StopKill
  BY <1>4 DEF StopKill, DropSandbox, Kill, NoBox
<1>5. CASE StopClose
  BY <1>5 DEF StopClose
<1>6. ASSUME NEW c \in Clients, pc[c] \notin Booting, Reuse(c) PROVE Booted'
  BY <1>6 DEF Reuse, Leave
<1>7. ASSUME NEW c \in Clients, pc[c] \notin Booting, BootBegin(c) PROVE Booted'
  BY <1>7 DEF BootBegin, Egress, LockFree, Live
<1>8. ASSUME NEW c \in Clients, pc[c] \notin Booting, Wait(c) PROVE Booted'
  BY <1>8 DEF Wait
<1>9. ASSUME NEW c \in Clients, BootExec(c) PROVE Booted'
  BY <1>9 DEF BootExec
<1>10. ASSUME NEW c \in Clients, BootConnect(c) PROVE Booted'
  BY <1>10 DEF BootConnect, HostReady
<1>11. ASSUME NEW c \in Clients, BootForward(c) PROVE Booted'
  BY <1>11 DEF BootForward
<1>12. ASSUME NEW c \in Clients, BootDone(c) PROVE Booted'
  BY <1>12 DEF BootDone, Bridge
<1>13. ASSUME NEW c \in Clients, BootFails(c) PROVE Booted'
  BY <1>13 DEF BootFails, DropHost
<1>14. ASSUME NEW c \in Clients, UndoKill(c) PROVE Booted'
  BY <1>14 DEF UndoKill, DropSandbox, Kill, NoBox, AfterUndo, Leave
<1>15. ASSUME NEW c \in Clients, Visit(c) PROVE Booted'
  BY <1>15 DEF Visit, VisitFree
<1>16. ASSUME NEW c \in Clients, Spawn(c) PROVE Booted'
  BY <1>16 DEF Spawn, Leave
<1>17. ASSUME NEW c \in Clients, Join(c) PROVE Booted'
  BY <1>17 DEF Join, HolderUp, Leave
<1>18. ASSUME NEW c \in Clients, Mark(c) PROVE Booted'
  BY <1>18 DEF Mark, Running
<1>19. ASSUME NEW c \in Clients, Finish(c) \/ Abandon(c) PROVE Booted'
  BY <1>19 DEF Finish, Abandon, Leave, Running
<1>20. CASE TerminateSessions
  BY <1>20 DEF TerminateSessions, Ended
<1>21. ASSUME NEW g \in Boots, Die(g) PROVE Booted'
  BY <1>21 DEF Die, Kill
<1> QED
  BY <1>1, <1>2, <1>3, <1>4, <1>5, <1>6, <1>7, <1>8, <1>9, <1>10, <1>11, <1>12, <1>13, <1>14, <1>15, <1>16, <1>17, <1>18, <1>19, <1>20, <1>21 DEF SandboxStep, Boot

\* Every step keeps one sandbox.
LEMMA JobsStep ==
  ASSUME Typed, Booted, Jobs, SandboxStep
  PROVE  Jobs'
<1> USE WorkspaceAssumption DEF Typed, Booted, Booting, Jobs, OneSandbox, server, sandbox, marks, clients
<1>1. CASE UNCHANGED vars
  BY <1>1 DEF vars
<1>2. CASE Bind \/ Listen
  BY <1>2 DEF Bind, Listen
<1>3. CASE StopBegin
  BY <1>3 DEF StopBegin, DropHost
<1>4. CASE StopKill
  BY <1>4 DEF StopKill, DropSandbox, Kill, NoBox
<1>5. CASE StopClose
  BY <1>5 DEF StopClose
<1>6. ASSUME NEW c \in Clients, pc[c] \notin Booting, Reuse(c) PROVE Jobs'
  BY <1>6 DEF Reuse, Leave
<1>7. ASSUME NEW c \in Clients, pc[c] \notin Booting, BootBegin(c) PROVE Jobs'
  BY <1>7 DEF BootBegin, Egress, LockFree, Live
<1>8. ASSUME NEW c \in Clients, pc[c] \notin Booting, Wait(c) PROVE Jobs'
  BY <1>8 DEF Wait
<1>9. ASSUME NEW c \in Clients, BootExec(c) PROVE Jobs'
  BY <1>9 DEF BootExec
<1>10. ASSUME NEW c \in Clients, BootConnect(c) PROVE Jobs'
  BY <1>10 DEF BootConnect, HostReady
<1>11. ASSUME NEW c \in Clients, BootForward(c) PROVE Jobs'
  BY <1>11 DEF BootForward
<1>12. ASSUME NEW c \in Clients, BootDone(c) PROVE Jobs'
  BY <1>12 DEF BootDone, Bridge
<1>13. ASSUME NEW c \in Clients, BootFails(c) PROVE Jobs'
  BY <1>13 DEF BootFails, DropHost
<1>14. ASSUME NEW c \in Clients, UndoKill(c) PROVE Jobs'
  BY <1>14 DEF UndoKill, DropSandbox, Kill, NoBox, AfterUndo, Leave
<1>15. ASSUME NEW c \in Clients, Visit(c) PROVE Jobs'
  BY <1>15 DEF Visit, VisitFree
<1>16. ASSUME NEW c \in Clients, Spawn(c) PROVE Jobs'
  BY <1>16 DEF Spawn, Leave
<1>17. ASSUME NEW c \in Clients, Join(c) PROVE Jobs'
  BY <1>17 DEF Join, HolderUp, Leave
<1>18. ASSUME NEW c \in Clients, Mark(c) PROVE Jobs'
  BY <1>18 DEF Mark, Running
<1>19. ASSUME NEW c \in Clients, Finish(c) \/ Abandon(c) PROVE Jobs'
  BY <1>19 DEF Finish, Abandon, Leave, Running
<1>20. CASE TerminateSessions
  BY <1>20 DEF TerminateSessions, Ended
<1>21. ASSUME NEW g \in Boots, Die(g) PROVE Jobs'
  BY <1>21 DEF Die, Kill
<1> QED
  BY <1>1, <1>2, <1>3, <1>4, <1>5, <1>6, <1>7, <1>8, <1>9, <1>10, <1>11, <1>12, <1>13, <1>14, <1>15, <1>16, <1>17, <1>18, <1>19, <1>20, <1>21 DEF SandboxStep, Boot

\* Every step keeps each sandbox and each visitor to its own routes.
LEMMA OwnRoutesStep ==
  ASSUME Typed, Booted, Jobs, OwnRoutes, SandboxStep
  PROVE  OwnRoutes'
<1> USE WorkspaceAssumption DEF Typed, Booted, Booting, Jobs, OneSandbox, OwnRoutes, Live, Running, server, sandbox, marks, clients
<1>1. CASE UNCHANGED vars
  BY <1>1 DEF vars
<1>2. CASE Bind \/ Listen
  BY <1>2 DEF Bind, Listen
<1>3. CASE StopBegin
  BY <1>3 DEF StopBegin, DropHost
<1>4. CASE StopKill
  BY <1>4 DEF StopKill, DropSandbox, Kill, NoBox
<1>5. CASE StopClose
  BY <1>5 DEF StopClose
<1>6. ASSUME NEW c \in Clients, pc[c] \notin Booting, Reuse(c) PROVE OwnRoutes'
  BY <1>6 DEF Reuse, Leave
<1>7. ASSUME NEW c \in Clients, pc[c] \notin Booting, BootBegin(c) PROVE OwnRoutes'
  BY <1>7 DEF BootBegin, Egress, LockFree, Live
<1>8. ASSUME NEW c \in Clients, pc[c] \notin Booting, Wait(c) PROVE OwnRoutes'
  BY <1>8 DEF Wait
<1>9. ASSUME NEW c \in Clients, BootExec(c) PROVE OwnRoutes'
  BY <1>9 DEF BootExec
<1>10. ASSUME NEW c \in Clients, BootConnect(c) PROVE OwnRoutes'
  BY <1>10 DEF BootConnect, HostReady
<1>11. ASSUME NEW c \in Clients, BootForward(c) PROVE OwnRoutes'
  BY <1>11 DEF BootForward
<1>12. ASSUME NEW c \in Clients, BootDone(c) PROVE OwnRoutes'
  BY <1>12 DEF BootDone, Bridge
<1>13. ASSUME NEW c \in Clients, BootFails(c) PROVE OwnRoutes'
  BY <1>13 DEF BootFails, DropHost
<1>14. ASSUME NEW c \in Clients, UndoKill(c) PROVE OwnRoutes'
  BY <1>14 DEF UndoKill, DropSandbox, Kill, NoBox, AfterUndo, Leave
<1>15. ASSUME NEW c \in Clients, Visit(c) PROVE OwnRoutes'
  BY <1>15 DEF Visit, VisitFree
<1>16. ASSUME NEW c \in Clients, Spawn(c) PROVE OwnRoutes'
  BY <1>16 DEF Spawn, Leave
<1>17. ASSUME NEW c \in Clients, Join(c) PROVE OwnRoutes'
  BY <1>17 DEF Join, HolderUp, Leave
<1>18. ASSUME NEW c \in Clients, Mark(c) PROVE OwnRoutes'
  BY <1>18 DEF Mark, Running
<1>19. ASSUME NEW c \in Clients, Finish(c) \/ Abandon(c) PROVE OwnRoutes'
  BY <1>19 DEF Finish, Abandon, Leave, Running
<1>20. CASE TerminateSessions
  BY <1>20 DEF TerminateSessions, Ended
<1>21. ASSUME NEW g \in Boots, Die(g) PROVE OwnRoutes'
  BY <1>21 DEF Die, Kill
<1> QED
  BY <1>1, <1>2, <1>3, <1>4, <1>5, <1>6, <1>7, <1>8, <1>9, <1>10, <1>11, <1>12, <1>13, <1>14, <1>15, <1>16, <1>17, <1>18, <1>19, <1>20, <1>21 DEF SandboxStep, Boot

-----------------------------------------------------------------------------
SandboxInv == Typed /\ Booted /\ Jobs /\ OwnRoutes

\* Every step of the workspace keeps the parts together.
LEMMA SandboxInvStep == SandboxInv /\ SandboxStep => SandboxInv'
BY TypedStep, BootedStep, JobsStep, OwnRoutesStep DEF SandboxInv

\* The acquisition that holds the environment is the one that starts, serves or
\* stops it, and the workspace is up while it is served.
Holding ==
  /\ \A a \in Acquisitions : acq[a] \in {"start", "serving", "stop"} <=> held = a
  /\ held \in Acquisitions \cup {None}
  /\ started <=> held # None
  /\ held = None => accept = "down"
  /\ \A a \in Acquisitions : acq[a] = "start" => accept \in {"bound", "up"}
  /\ DOMAIN acq = Acquisitions /\ acq = [a \in Acquisitions |-> acq[a]]
  /\ ServedIsCurrent

\* Every step of the environment is one of the workspace or leaves it alone.
LEMMA ServingSteps == [NextServing]_all => SandboxStep
<1>1. CASE UNCHANGED all
  BY <1>1 DEF all, SandboxStep
<1>2. ASSUME NEW a \in Acquisitions, Acquire(a) \/ StopEnv(a) \/ Serve(a) PROVE SandboxStep
  BY <1>2 DEF Acquire, StopEnv, Serve, HookListens, Published, Stopped, SandboxStep
<1>3. ASSUME NEW c \in Clients, Client(c) PROVE SandboxStep
  BY <1>3 DEF Client, Enter, Woken, SandboxStep, Booting
<1>4. CASE Stopping \/ TerminateSessions \/ \E g \in Boots : Die(g)
  BY <1>4 DEF Stopping, SandboxStep
<1> QED
  BY <1>1, <1>2, <1>3, <1>4 DEF NextServing, Workload

\* Every step keeps the environment in its holder's hands.
LEMMA HoldingStep ==
  ASSUME Holding, [NextServing]_all
  PROVE  Holding'
<1> USE ServingAssumption DEF Holding, ServedIsCurrent, Go, serving
<1>1. CASE UNCHANGED all
  BY <1>1 DEF all, vars
<1>2. ASSUME NEW a \in Acquisitions, Acquire(a) PROVE Holding'
  BY <1>2 DEF Acquire, MayServe, Bind
<1>3. ASSUME NEW a \in Acquisitions, HookListens(a) PROVE Holding'
  BY <1>3 DEF HookListens, Listen
<1>4. ASSUME NEW a \in Acquisitions, Published(a) PROVE Holding'
  BY <1>4 DEF Published, vars
<1>5. ASSUME NEW a \in Acquisitions, StopEnv(a) PROVE Holding'
  BY <1>5 DEF StopEnv, StopBegin, vars
<1>6. ASSUME NEW a \in Acquisitions, Stopped(a) PROVE Holding'
  BY <1>6 DEF Stopped, vars
<1>7. CASE Workload
  <2>1. UNCHANGED serving /\ port' = port
        /\ (accept' = accept \/ (accept = "stop1" /\ accept' = "stop2")
                             \/ (accept = "stop2" /\ accept' = "down"))
    BY <1>7 DEF Workload, Client, Enter, Woken, Reuse, BootBegin, Wait, Boot, BootExec, BootConnect,
       BootForward, BootDone, BootFails, UndoKill, Visit, Spawn, Join, Mark, Finish, Abandon,
       Stopping, StopKill, StopClose, TerminateSessions, Die, server
  <2> QED
    BY <2>1
<1> QED
  BY <1>1, <1>2, <1>3, <1>4, <1>5, <1>6, <1>7 DEF NextServing, Serve

-----------------------------------------------------------------------------
\* It all holds at first.
LEMMA ServingInit == InitServing => SandboxInv /\ Holding
<1> SUFFICES ASSUME InitServing PROVE SandboxInv /\ Holding
  OBVIOUS
<1> USE WorkspaceAssumption, ServingAssumption DEF InitServing, Init
<1>1. Typed /\ Jobs
  BY DEF Typed, Jobs, OneSandbox, NoBox
<1>2. Booted /\ OwnRoutes
  BY DEF Booted, Booting, OwnRoutes, Live, NoBox, Running
<1>3. Holding
  BY DEF Holding, ServedIsCurrent
<1> QED
  BY <1>1, <1>2, <1>3 DEF SandboxInv

\* Whatever runs, runs in the one sandbox that would be killed (workspace.py:1222).
THEOREM OneSandboxAlways == SpecServing => []OneSandbox
<1>1. SandboxInv => OneSandbox
  BY DEF SandboxInv, Jobs
<1> QED
  BY <1>1, ServingInit, ServingSteps, SandboxInvStep, PTL DEF SpecServing

\* A ready sandbox goes out through its own boot's egress and bridge, and the
\* visitor socket answers for the command that runs (workspace.py:586).
THEOREM OwnRoutesAlways == SpecServing => []OwnRoutes
<1>1. SandboxInv => OwnRoutes
  BY DEF SandboxInv
<1> QED
  BY <1>1, ServingInit, ServingSteps, SandboxInvStep, PTL DEF SpecServing

\* A rollout that is served finds the workspace at the address that its manifest
\* names (local.py, env.py).
THEOREM ServedIsCurrentAlways == SpecServing => []ServedIsCurrent
<1>1. Holding => ServedIsCurrent
  BY DEF Holding
<1> QED
  BY <1>1, ServingInit, HoldingStep, PTL DEF SpecServing

-----------------------------------------------------------------------------
(* The SSH client of that environment keeps one connection and leaves none     *)
(* behind: for any number of tools, of breakages and of attempts to reconnect. *)

LinkSpec == InitLink /\ [][NextLink]_linkVars

Pcs == {"out", "waits", "dials", "pauses", "opens", "runs", "ends", "closes", "done", "lost", "cut"}
Called == [pc : Pcs, on : Nat, tries : Nat, sent : Nat, channel : BOOLEAN, process : BOOLEAN, cuts : {0, 1, 2}]
Redialling == {"dials", "pauses"}

\* The types the argument needs.
LinkTyped ==
  /\ conn \in Nat /\ open \in SUBSET Nat /\ fresh \in Nat
  /\ closing \in BOOLEAN /\ relock \in SUBSET Tools /\ closer \in {"out", "lock", "done"}
  /\ call \in [Tools -> Called]

\* The lock is held by the one caller that dials, and while it dials nothing is open.
Locked ==
  /\ \A t \in Tools : call[t].pc \in Redialling <=> t \in relock
  /\ \A s, t \in relock : s = t
  /\ relock # {} => open = {}

\* What is open is the client's connection.
OneOpen == open \subseteq {conn}

\* A command is sent after its connection is there, and not again; its channel is
\* open while it runs, and open afterwards only for a call that was cut before it
\* had the process or once more while it waited.
SentIn(c) ==
  /\ c.sent <= 1
  /\ c.pc \in {"out", "waits", "dials", "pauses", "opens"} => c.sent = 0 /\ ~c.process /\ ~c.channel
  /\ c.channel => c.pc \in {"runs", "ends"} \/ (c.pc = "cut" /\ (c.process => c.cuts = 2))
SentOnce == \A t \in Tools : SentIn(call[t])

\* close() sets its flag first and drops the connection when nobody dials.
ClosedStays ==
  /\ closer # "out" => closing
  /\ closer = "done" => open = {} /\ relock = {}

LinkInv == LinkTyped /\ Locked /\ OneOpen /\ SentOnce /\ ClosedStays

\* The parts of the invariant are what the property asks for.
LEMMA LinkFollows == LinkInv => LinkSound
<1> SUFFICES ASSUME LinkInv PROVE LinkSound
  OBVIOUS
<1>1. \A t \in relock : relock = {t}
  BY DEF LinkInv, Locked
<1>2. Cardinality(relock) <= 1
  <2>1. CASE relock = {}
    <3>1. Cardinality(relock) = 0
      BY <2>1, FS_EmptySet, Zenon
    <3> QED
      BY <3>1
  <2>2. CASE relock # {}
    <3>1. PICK t \in relock : relock = {t}
      BY <2>2, <1>1
    <3>2. Cardinality({t}) = 1
      BY FS_Singleton, Zenon
    <3> QED
      BY <3>1, <3>2
  <2> QED
    BY <2>1, <2>2
<1>3. \A t \in Tools : call[t].pc \in {"dials", "pauses"} <=> relock = {t}
  BY <1>1 DEF LinkInv, Locked, Redialling
<1>4. closer = "done" => open = {} /\ \A t \in Tools : call[t].pc \notin {"dials", "pauses"}
  BY DEF LinkInv, Locked, ClosedStays, Redialling
<1> QED
  BY <1>2, <1>3, <1>4 DEF LinkInv, OneOpen, SentOnce, SentIn, LinkSound

\* The client starts with one open connection and a free lock.
LEMMA LinkInit == InitLink => LinkInv
<1> SUFFICES ASSUME InitLink PROVE LinkInv
  OBVIOUS
<1>1. LinkTyped
  <2>1. NoCall \in Called
    BY DEF NoCall, Pcs, Called
  <2>2. call \in [Tools -> Called]
    BY <2>1, Zenon DEF InitLink
  <2>3. conn \in Nat /\ open \in SUBSET Nat /\ fresh \in Nat
    BY DEF InitLink
  <2>4. closing \in BOOLEAN
    BY Zenon DEF InitLink
  <2>5. relock \in SUBSET Tools
    BY DEF InitLink
  <2>6. closer \in {"out", "lock", "done"}
    BY DEF InitLink
  <2> QED
    BY <2>2, <2>3, <2>4, <2>5, <2>6 DEF LinkTyped
<1>2. \A t \in Tools : call[t] = NoCall
  BY DEF InitLink
<1>3. Locked /\ SentOnce
  BY <1>2 DEF InitLink, Locked, SentOnce, SentIn, NoCall, Redialling
<1>4. OneOpen /\ ClosedStays
  BY DEF InitLink, OneOpen, ClosedStays
<1> QED
  BY <1>1, <1>3, <1>4 DEF LinkInv

\* A step of one caller that does not hold the lock afterwards and opens nothing.
LEMMA CallMoves ==
  ASSUME LinkInv, NEW t \in Tools, NEW c \in Called, SentIn(c), c.pc \notin Redialling,
         call' = [call EXCEPT ![t] = c], relock' = relock \ {t}, open' \subseteq open,
         UNCHANGED <<conn, fresh, closing, closer>>
  PROVE  LinkInv'
<1>1. \A s \in Tools : call'[s] = IF s = t THEN c ELSE call[s]
  BY DEF LinkInv, LinkTyped
<1>2. LinkTyped'
  BY DEF LinkInv, LinkTyped
<1>3. Locked' /\ OneOpen' /\ ClosedStays'
  BY <1>1 DEF LinkInv, LinkTyped, Locked, OneOpen, ClosedStays
<1>4. SentOnce'
  BY <1>1 DEF LinkInv, SentOnce
<1> QED
  BY <1>2, <1>3, <1>4 DEF LinkInv

\* Every step keeps the invariant.
LEMMA LinkStep == LinkInv /\ [NextLink]_linkVars => LinkInv'
<1> SUFFICES ASSUME LinkInv, [NextLink]_linkVars PROVE LinkInv'
  OBVIOUS
<1>0. \A t \in Tools : call[t] \in Called /\ SentIn(call[t]) /\ (call[t].pc \in Redialling <=> t \in relock)
  BY DEF LinkInv, LinkTyped, SentOnce, Locked
<1>1. ASSUME NEW t \in Tools, Looks(t) PROVE LinkInv'
  BY <1>1 DEF LinkInv, LinkTyped, Locked, OneOpen, SentOnce, SentIn, ClosedStays, Pcs, Called, Redialling,
     Looks, Goes, Quits
<1>2. ASSUME NEW t \in Tools, Enters(t) PROVE LinkInv'
  BY <1>2 DEF LinkInv, LinkTyped, Locked, OneOpen, SentOnce, SentIn, ClosedStays, Pcs, Called, Redialling,
     Enters, Quits
<1>3. ASSUME NEW t \in Tools, Dials(t) PROVE LinkInv'
  BY <1>3 DEF LinkInv, LinkTyped, Locked, OneOpen, SentOnce, SentIn, ClosedStays, Pcs, Called, Redialling,
     Dials, Dropped, Quits, Frees
<1>4. ASSUME NEW t \in Tools, DialFails(t) PROVE LinkInv'
  BY <1>4 DEF LinkInv, LinkTyped, Locked, OneOpen, SentOnce, SentIn, ClosedStays, Pcs, Called, Redialling,
     DialFails, Quits, Frees
<1>5. ASSUME NEW t \in Tools, Redials(t) PROVE LinkInv'
  BY <1>5 DEF LinkInv, LinkTyped, Locked, OneOpen, SentOnce, SentIn, ClosedStays, Pcs, Called, Redialling,
     Redials, Goes, Quits, Frees
<1>6. ASSUME NEW t \in Tools, Sends(t) PROVE LinkInv'
  <2> DEFINE c == IF call[t].on \in open
                  THEN [call[t] EXCEPT !.pc = "runs", !.sent = @ + 1, !.channel = TRUE, !.process = TRUE]
                  ELSE [call[t] EXCEPT !.pc = "lost", !.channel = FALSE]
  <2>0. call[t].pc = "opens" /\ call[t] \in Called /\ call[t].sent = 0
    BY <1>0, <1>6 DEF Sends, SentIn
  <2>1. c \in Called /\ SentIn(c) /\ c.pc \notin Redialling
    <3>1. CASE call[t].on \in open
      <4>1. c = [call[t] EXCEPT !.pc = "runs", !.sent = 1, !.channel = TRUE, !.process = TRUE]
        BY <3>1, <2>0
      <4> HIDE DEF c
      <4>2. c \in Called
        BY <2>0, <4>1 DEF Called, Pcs
      <4>3. c.pc = "runs" /\ c.sent = 1
        BY <2>0, <4>1 DEF Called
      <4> QED
        BY <4>2, <4>3 DEF SentIn, Redialling
    <3>2. CASE call[t].on \notin open
      <4>1. c = [call[t] EXCEPT !.pc = "lost", !.channel = FALSE]
        BY <3>2
      <4>2. c \in Called
        BY <2>0, <4>1 DEF Called, Pcs
      <4>3. c.pc = "lost" /\ c.sent = 0 /\ c.channel = FALSE
        BY <2>0, <4>1 DEF Called
      <4> QED
        BY <4>2, <4>3 DEF SentIn, Redialling
    <3> QED
      BY <3>1, <3>2
  <2>2. call' = [call EXCEPT ![t] = c]
    BY <1>0, <1>6 DEF Sends, Called, Quits
  <2>3. relock' = relock \ {t} /\ open' \subseteq open /\ UNCHANGED <<conn, fresh, closing, closer>>
    BY <1>0, <1>6 DEF Sends, Redialling, Frees
  <2> HIDE DEF c
  <2> QED
    BY <2>1, <2>2, <2>3, CallMoves
<1>7. ASSUME NEW t \in Tools, Rejected(t) PROVE LinkInv'
  <2> DEFINE c == [call[t] EXCEPT !.pc = "lost", !.channel = FALSE]
  <2>1. c \in Called /\ SentIn(c) /\ c.pc \notin Redialling
    BY <1>0, <1>7 DEF Rejected, Called, Pcs, SentIn, Redialling, Quits
  <2>2. call' = [call EXCEPT ![t] = c]
    BY <1>0, <1>7 DEF Rejected, Called, Quits
  <2>3. relock' = relock \ {t} /\ open' \subseteq open /\ UNCHANGED <<conn, fresh, closing, closer>>
    BY <1>0, <1>7 DEF Rejected, Redialling, Frees
  <2> HIDE DEF c
  <2> QED
    BY <2>1, <2>2, <2>3, CallMoves
<1>8. ASSUME NEW t \in Tools, Answers(t) PROVE LinkInv'
  <2> DEFINE c == [call[t] EXCEPT !.pc = "done", !.channel = FALSE]
  <2>1. c \in Called /\ SentIn(c) /\ c.pc \notin Redialling
    BY <1>0, <1>8 DEF Answers, Called, Pcs, SentIn, Redialling, Quits
  <2>2. call' = [call EXCEPT ![t] = c]
    BY <1>0, <1>8 DEF Answers, Called, Quits
  <2>3. relock' = relock \ {t} /\ open' \subseteq open /\ UNCHANGED <<conn, fresh, closing, closer>>
    BY <1>0, <1>8 DEF Answers, Redialling, Frees
  <2> HIDE DEF c
  <2> QED
    BY <2>1, <2>2, <2>3, CallMoves
<1>9. ASSUME NEW t \in Tools, Unanswered(t) PROVE LinkInv'
  <2> DEFINE c == [call[t] EXCEPT !.pc = "lost", !.channel = FALSE]
  <2>1. c \in Called /\ SentIn(c) /\ c.pc \notin Redialling
    BY <1>0, <1>9 DEF Unanswered, Called, Pcs, SentIn, Redialling, Quits
  <2>2. call' = [call EXCEPT ![t] = c]
    BY <1>0, <1>9 DEF Unanswered, Called, Quits
  <2>3. relock' = relock \ {t} /\ open' \subseteq open /\ UNCHANGED <<conn, fresh, closing, closer>>
    BY <1>0, <1>9 DEF Unanswered, Redialling, Frees
  <2> HIDE DEF c
  <2> QED
    BY <2>1, <2>2, <2>3, CallMoves
<1>10. ASSUME NEW t \in Tools, CutShort(t) PROVE LinkInv'
  <2> DEFINE c == [call[t] EXCEPT !.pc = "cut", !.cuts = 1]
  <2>4. c \in Called
    BY <1>0, <1>10 DEF CutShort, Called, Pcs
  <2>5. c.pc = "cut" /\ c.sent = call[t].sent /\ c.channel = call[t].channel /\ c.process = call[t].process
    BY <1>0, <1>10 DEF CutShort, Called
  <2>1. c \in Called /\ SentIn(c) /\ c.pc \notin Redialling
    BY <1>0, <1>10, <2>4, <2>5 DEF CutShort, SentIn, Redialling
  <2>2. call' = [call EXCEPT ![t] = c]
    BY <1>0, <1>10 DEF CutShort, Called
  <2>3. relock' = relock \ {t} /\ open' \subseteq open /\ UNCHANGED <<conn, fresh, closing, closer>>
    BY <1>0, <1>10 DEF CutShort, Redialling, Frees
  <2> HIDE DEF c
  <2> QED
    BY <2>1, <2>2, <2>3, CallMoves
<1>11. ASSUME NEW t \in Tools, CutOpening(t) PROVE LinkInv'
  <2>0. PICK got \in BOOLEAN :
          call' = [call EXCEPT ![t].pc = "cut", ![t].cuts = 1, ![t].channel = got, ![t].sent = IF got THEN 1 ELSE 0]
    BY <1>11 DEF CutOpening
  <2> DEFINE c == [call[t] EXCEPT !.pc = "cut", !.cuts = 1, !.channel = got, !.sent = IF got THEN 1 ELSE 0]
  <2>4. c \in Called
    BY <1>0, <1>11 DEF CutOpening, Called, Pcs
  <2>5. c.pc = "cut" /\ c.sent \in {0, 1} /\ c.process = call[t].process
    BY <1>0, <1>11 DEF CutOpening, Called
  <2>1. c \in Called /\ SentIn(c) /\ c.pc \notin Redialling
    BY <1>0, <1>11, <2>4, <2>5 DEF CutOpening, SentIn, Redialling
  <2>2. call' = [call EXCEPT ![t] = c]
    BY <2>0
  <2>3. relock' = relock \ {t} /\ open' \subseteq open /\ UNCHANGED <<conn, fresh, closing, closer>>
    BY <1>0, <1>11 DEF CutOpening, Redialling
  <2> HIDE DEF c
  <2> QED
    BY <2>1, <2>2, <2>3, CallMoves
<1>16. ASSUME NEW t \in Tools, CutRunning(t) PROVE LinkInv'
  <2> DEFINE c == [call[t] EXCEPT !.pc = "ends", !.cuts = 1]
  <2>4. c \in Called
    BY <1>0, <1>16 DEF CutRunning, Called, Pcs
  <2>5. c.pc = "ends" /\ c.sent = call[t].sent /\ c.channel = call[t].channel /\ c.process = call[t].process
    BY <1>0, <1>16 DEF CutRunning, Called
  <2>1. c \in Called /\ SentIn(c) /\ c.pc \notin Redialling
    BY <1>0, <1>16, <2>4, <2>5 DEF CutRunning, SentIn, Redialling
  <2>2. call' = [call EXCEPT ![t] = c]
    BY <1>0, <1>16 DEF CutRunning, Called
  <2>3. relock' = relock \ {t} /\ open' \subseteq open /\ UNCHANGED <<conn, fresh, closing, closer>>
    BY <1>0, <1>16 DEF CutRunning, Redialling, Frees
  <2> HIDE DEF c
  <2> QED
    BY <2>1, <2>2, <2>3, CallMoves
<1>17. ASSUME NEW t \in Tools, SessionCloses(t) PROVE LinkInv'
  <2> DEFINE c == [call[t] EXCEPT !.pc = "cut", !.channel = FALSE]
  <2>1. c \in Called /\ SentIn(c) /\ c.pc \notin Redialling
    BY <1>0, <1>17 DEF SessionCloses, Called, Pcs, SentIn, Redialling, Quits
  <2>2. call' = [call EXCEPT ![t] = c]
    BY <1>0, <1>17 DEF SessionCloses, Called, Quits
  <2>3. relock' = relock \ {t} /\ open' \subseteq open /\ UNCHANGED <<conn, fresh, closing, closer>>
    BY <1>0, <1>17 DEF SessionCloses, Redialling, Frees
  <2> HIDE DEF c
  <2> QED
    BY <2>1, <2>2, <2>3, CallMoves
<1>18. ASSUME NEW t \in Tools, Forces(t) PROVE LinkInv'
  <2> DEFINE c == [call[t] EXCEPT !.pc = "closes", !.channel = FALSE]
  <2>1. c \in Called /\ SentIn(c) /\ c.pc \notin Redialling
    BY <1>0, <1>18 DEF Forces, Called, Pcs, SentIn, Redialling, Overdue
  <2>2. call' = [call EXCEPT ![t] = c]
    BY <1>0, <1>18 DEF Forces, Called, Overdue
  <2>3. relock' = relock \ {t} /\ open' \subseteq open /\ UNCHANGED <<conn, fresh, closing, closer>>
    BY <1>0, <1>18 DEF Forces, Redialling, Frees
  <2> HIDE DEF c
  <2> QED
    BY <2>1, <2>2, <2>3, CallMoves
<1>19. ASSUME NEW t \in Tools, CutAgain(t) PROVE LinkInv'
  <2> DEFINE c == [call[t] EXCEPT !.pc = "cut", !.cuts = 2]
  <2>4. c \in Called
    BY <1>0, <1>19 DEF CutAgain, Called, Pcs
  <2>5. c.pc = "cut" /\ c.cuts = 2 /\ c.sent = call[t].sent /\ c.channel = call[t].channel /\ c.process = call[t].process
    BY <1>0, <1>19 DEF CutAgain, Called
  <2>1. c \in Called /\ SentIn(c) /\ c.pc \notin Redialling
    BY <1>0, <1>19, <2>4, <2>5 DEF CutAgain, SentIn, Redialling
  <2>2. call' = [call EXCEPT ![t] = c]
    BY <1>0, <1>19 DEF CutAgain, Called
  <2>3. relock' = relock \ {t} /\ open' \subseteq open /\ UNCHANGED <<conn, fresh, closing, closer>>
    BY <1>0, <1>19 DEF CutAgain, Redialling, Frees
  <2> HIDE DEF c
  <2> QED
    BY <2>1, <2>2, <2>3, CallMoves
<1>12. CASE Breaks
  BY <1>12 DEF Breaks, LinkInv, LinkTyped, Locked, OneOpen, SentOnce, ClosedStays
<1>13. CASE Closes
  BY <1>13 DEF Closes, LinkInv, LinkTyped, Locked, OneOpen, SentOnce, ClosedStays
<1>14. CASE Shut
  BY <1>14 DEF Shut, LinkInv, LinkTyped, Locked, OneOpen, SentOnce, ClosedStays
<1>15. CASE UNCHANGED linkVars
  BY <1>15 DEF linkVars, LinkInv, LinkTyped, Locked, OneOpen, SentOnce, ClosedStays
<1> QED
  BY <1>1, <1>2, <1>3, <1>4, <1>5, <1>6, <1>7, <1>8, <1>9, <1>10, <1>11, <1>12, <1>13, <1>14, <1>15,
     <1>16, <1>17, <1>18, <1>19
  DEF NextLink

\* Whatever the network breaks and whoever is cut short, one connection at most is
\* open, a command is sent once, and after close() nothing is open or comes back
\* (capabilities/ssh.py:94-169, 239-243).
THEOREM LinkSoundAlways == LinkSpec => []LinkSound
<1>1. LinkInv /\ [NextLink]_linkVars => LinkInv'
  BY LinkStep
<1> QED
  BY <1>1, LinkInit, LinkFollows, PTL DEF LinkSpec

-----------------------------------------------------------------------------
(* The clients of sockets: a command of a CDP session and its reply, and the *)
(* observations a robot's agent takes.                                       *)

Senders == [pc : {"out", "waits", "done", "raised", "cut"}, with : Int, late : BOOLEAN]

\* A future is settled with the reply that bears its number, and whoever waits can
\* still be found by a reader, unless it came after the reader's end.
CdpInv ==
  /\ DOMAIN future = Ids /\ caller \in [Ids -> Senders] /\ reader \in {"reads", "ended", "failed"}
  /\ \A i \in Ids :
       /\ caller[i].with # 0 => caller[i].with = i
       /\ future[i] = "result" => caller[i].with = i
       /\ caller[i].pc = "done" => caller[i].with = i
       /\ future[i] = "waits" /\ caller[i].pc = "waits" => reader = "reads" \/ caller[i].late
       /\ caller[i].pc = "waits" => i \in pending

\* What was taken, what is queued and what is on the wire: numbers that rise, and
\* an error at the very end, behind which nothing comes.
Rising(s) == \A k \in 1..Len(s), m \in 1..Len(s) : k < m => s[k] # 0 /\ (s[m] # 0 => s[k] < s[m])
Under(s, u) == \A k \in 1..Len(s), m \in 1..Len(u) : s[k] # 0 /\ (u[m] # 0 => s[k] < u[m])
Bounded(s, n, ends) == \A k \in 1..Len(s) : s[k] <= n /\ (s[k] = 0 => ends)
NewestOf(s, n) == s # <<>> /\ s[Len(s)] \in {n, 0}

RobotInv ==
  /\ taken \in Seq(Nat) /\ queue \in Seq(Nat) /\ wire \in Seq(Nat) /\ Len(queue) <= 1
  /\ env \in [sent : Nat, ends : BOOLEAN]
  /\ Rising(taken) /\ Rising(wire) /\ Under(taken, queue) /\ Under(taken, wire) /\ Under(queue, wire)
  /\ Bounded(taken, env.sent, env.ends) /\ Bounded(queue, env.sent, env.ends) /\ Bounded(wire, env.sent, env.ends)
  /\ \/ NewestOf(wire, env.sent)
     \/ wire = <<>> /\ NewestOf(queue, env.sent)
     \/ wire = <<>> /\ queue = <<>> /\ NewestOf(taken, env.sent)

\* No step of the CDP session breaks it.
LEMMA CdpStep == CdpInv /\ [NextCdp]_cdpVars => CdpInv'
<1> SUFFICES ASSUME CdpInv, [NextCdp]_cdpVars PROVE CdpInv'
  OBVIOUS
<1>0. /\ DOMAIN future = Ids /\ caller \in [Ids -> Senders] /\ reader \in {"reads", "ended", "failed"}
      /\ Ids \subseteq Int
  BY DEF CdpInv, Ids
<1>1. ASSUME NEW i \in Ids, Command(i) PROVE CdpInv'
  <2> DEFINE b == reader # "reads"
  <2>0. b \in BOOLEAN /\ (b <=> reader # "reads")
    OBVIOUS
  <2>1. PICK p \in {"waits", "raised"} :
          /\ caller' = [caller EXCEPT ![i].pc = p, ![i].late = b]
          /\ future' = [future EXCEPT ![i] = "waits"] /\ pending' = pending \cup {i} /\ reader' = reader
    BY <1>1 DEF Command
  <2> HIDE DEF b
  <2>2. caller' \in [Ids -> Senders]
    BY <1>0, <2>0, <2>1 DEF Senders
  <2>3. \A k \in Ids \ {i} : caller'[k] = caller[k] /\ future'[k] = future[k]
    BY <1>0, <2>1
  <2>4. caller'[i] = [caller[i] EXCEPT !.pc = p, !.late = b]
    BY <1>0, <2>1
  <2>5. /\ caller'[i].with = caller[i].with /\ (caller'[i].late <=> reader # "reads")
        /\ caller'[i].pc \in {"waits", "raised"}
    BY <1>0, <2>0, <2>4 DEF Senders
  <2>6. future'[i] = "waits" /\ DOMAIN future' = Ids
    BY <1>0, <2>1
  <2>7. ASSUME NEW k \in Ids
        PROVE  /\ caller'[k].with # 0 => caller'[k].with = k
               /\ future'[k] = "result" => caller'[k].with = k
               /\ caller'[k].pc = "done" => caller'[k].with = k
               /\ future'[k] = "waits" /\ caller'[k].pc = "waits" => reader' = "reads" \/ caller'[k].late
               /\ caller'[k].pc = "waits" => k \in pending'
    <3>1. CASE k = i
      BY <1>0, <2>1, <2>5, <2>6, <3>1 DEF CdpInv
    <3>2. CASE k # i
      BY <2>1, <2>3, <3>2 DEF CdpInv
    <3> QED
      BY <3>1, <3>2
  <2> QED
    BY <1>0, <2>1, <2>2, <2>6, <2>7 DEF CdpInv
<1>2. CASE Notifies \/ Hangs \/ \E i \in Ids : Responds(i)
  BY <1>2 DEF Responds, Notifies, Hangs, CdpInv
<1>3. ASSUME NEW i \in Ids, Resumes(i) \/ CutCommand(i) PROVE CdpInv'
  <2>1. /\ \E p \in {"done", "raised", "cut"} :
             /\ caller' = [caller EXCEPT ![i].pc = p]
             /\ p = "done" => future[i] = "result"
        /\ pending' = pending \ {i} /\ reader' = reader
        /\ future' = future \/ future' = [future EXCEPT ![i] = IF @ = "waits" THEN "cut" ELSE @]
    BY <1>3 DEF Resumes, CutCommand
  <2>2. caller' \in [Ids -> Senders]
    BY <1>0, <2>1 DEF Senders
  <2>3. \A k \in Ids \ {i} : caller'[k] = caller[k] /\ future'[k] = future[k]
    BY <1>0, <2>1
  <2>4. /\ caller'[i].with = caller[i].with /\ caller'[i].pc \in {"done", "raised", "cut"}
        /\ caller'[i].pc = "done" => future[i] = "result"
        /\ future'[i] = "result" => future[i] = "result"
        /\ DOMAIN future' = Ids
    BY <1>0, <2>1 DEF Senders
  <2> QED
    BY <2>1, <2>2, <2>3, <2>4 DEF CdpInv
<1>4. CASE Read
  <2> DEFINE f == Head(inbox)
             H(i) == i \in Asker(f) /\ future[i] = "waits"
  <2>1. /\ \A i \in Ids : H(i) => f.of = i
        /\ future' = [i \in Ids |-> IF H(i) THEN f.is ELSE future[i]]
        /\ caller' = [i \in Ids |-> IF H(i) THEN [caller[i] EXCEPT !.with = f.of] ELSE caller[i]]
        /\ pending' = pending /\ reader' = reader
    BY <1>4 DEF Read, Asker
  <2>2. /\ DOMAIN future' = Ids
        /\ \A i \in Ids : H(i) => future[i] = "waits"
    BY <2>1
  <2> HIDE DEF f, H
  <2>3. caller' \in [Ids -> Senders]
    BY <1>0, <2>1 DEF Senders
  <2>4. \A i \in Ids : /\ caller'[i].pc = caller[i].pc /\ caller'[i].late = caller[i].late
                       /\ H(i) => caller'[i].with = i
                       /\ ~H(i) => caller'[i].with = caller[i].with /\ future'[i] = future[i]
    BY <1>0, <2>1 DEF Senders
  <2> QED
    BY <2>1, <2>2, <2>3, <2>4 DEF CdpInv
<1>5. CASE ReaderEnds \/ (ReaderCut /\ reader = "reads")
  <2>1. /\ Wakes /\ UNCHANGED <<pending, caller>> /\ reader' \in {"ended", "failed"}
    BY <1>5 DEF ReaderEnds, ReaderCut
  <2>2. /\ DOMAIN future' = Ids
        /\ \A i \in Ids : future'[i] = IF i \in pending /\ future[i] = "waits" THEN "closed" ELSE future[i]
    BY <2>1 DEF Wakes, Roused
  <2>3. ASSUME NEW i \in Ids
        PROVE  /\ future'[i] = "result" => future[i] = "result"
               /\ ~(future'[i] = "waits" /\ caller[i].pc = "waits")
    BY <2>2 DEF CdpInv
  <2> QED
    BY <2>1, <2>2, <2>3 DEF CdpInv
<1>7. CASE CloseCdp \/ ClosesSocket \/ (ReaderCut /\ reader # "reads")
  BY <1>7 DEF CloseCdp, ClosesSocket, ReaderCut, CdpInv
<1>6. CASE UNCHANGED cdpVars
  BY <1>6 DEF cdpVars, CdpInv
<1> QED
  BY <1>1, <1>2, <1>3, <1>4, <1>5, <1>6, <1>7 DEF NextCdp

\* No step of the robot or of its client breaks it.
LEMMA RobotStep == RobotInv /\ [NextRobot]_robotVars => RobotInv'
<1> SUFFICES ASSUME RobotInv, [NextRobot]_robotVars PROVE RobotInv'
  OBVIOUS
<1>1. /\ taken \in Seq(Nat) /\ queue \in Seq(Nat) /\ wire \in Seq(Nat) /\ Len(queue) <= 1
      /\ Len(taken) \in Nat /\ Len(queue) \in Nat /\ Len(wire) \in Nat
      /\ env \in [sent : Nat, ends : BOOLEAN] /\ env.sent \in Nat
      /\ Rising(taken) /\ Rising(wire) /\ Under(taken, queue) /\ Under(taken, wire) /\ Under(queue, wire)
      /\ Bounded(taken, env.sent, env.ends) /\ Bounded(queue, env.sent, env.ends) /\ Bounded(wire, env.sent, env.ends)
      /\ \/ NewestOf(wire, env.sent)
         \/ wire = <<>> /\ NewestOf(queue, env.sent)
         \/ wire = <<>> /\ queue = <<>> /\ NewestOf(taken, env.sent)
  BY DEF RobotInv
<1>n. Len(taken) \in Nat /\ Len(queue) \in Nat /\ Len(wire) \in Nat /\ Len(queue) <= 1
  BY <1>1
<1>2. ASSUME NEW x \in Nat, wire' = Append(wire, x), ~env.ends, UNCHANGED <<queue, taken>>,
             x = 0 \/ x = env.sent + 1, env' \in [sent : Nat, ends : BOOLEAN],
             IF x = 0 THEN env'.ends /\ env'.sent = env.sent ELSE env'.sent = env.sent + 1
      PROVE  RobotInv'
  <2>1. /\ wire' \in Seq(Nat) /\ Len(wire') = Len(wire) + 1 /\ wire'[Len(wire) + 1] = x
        /\ \A k \in 1..Len(wire) : wire'[k] = wire[k]
    BY <1>1, <1>2
  <2>2. ASSUME NEW s \in Seq(Nat), Bounded(s, env.sent, env.ends)
        PROVE  \A k \in 1..Len(s) : s[k] \in Nat /\ s[k] # 0 /\ s[k] <= env.sent
    BY <1>2, <2>2 DEF Bounded
  <2>3. /\ \A k \in 1..Len(taken) : taken[k] \in Nat /\ taken[k] # 0 /\ taken[k] <= env.sent
        /\ \A k \in 1..Len(queue) : queue[k] \in Nat /\ queue[k] # 0 /\ queue[k] <= env.sent
        /\ \A k \in 1..Len(wire) : wire[k] \in Nat /\ wire[k] # 0 /\ wire[k] <= env.sent
    BY <1>1, <2>2
  <2>4. env'.sent \in Nat /\ env.sent <= env'.sent /\ x <= env'.sent /\ (x # 0 => env.sent < x)
    BY <1>1, <1>2
  <2>5. Rising(wire')
    <3>1. ASSUME NEW k \in 1..Len(wire'), NEW m \in 1..Len(wire'), k < m
          PROVE  wire'[k] # 0 /\ (wire'[m] # 0 => wire'[k] < wire'[m])
      <4>1. k \in 1..Len(wire) /\ (m \in 1..Len(wire) \/ m = Len(wire) + 1)
        <5> DEFINE n == Len(wire)
        <5>1. n \in Nat /\ k \in 1..n + 1 /\ m \in 1..n + 1 /\ k < m
          BY <1>n, <2>1, <3>1
        <5> HIDE DEF n
        <5>2. k \in 1..n /\ (m \in 1..n \/ m = n + 1)
          BY <5>1
        <5> QED
          BY <5>2 DEF n
      <4>2. CASE m = Len(wire) + 1
        <5>1. wire'[k] = wire[k] /\ wire'[m] = x /\ wire[k] \in Nat /\ wire[k] # 0 /\ wire[k] <= env.sent
          BY <2>1, <2>3, <4>1, <4>2
        <5> QED
          BY <1>1, <2>4, <5>1
      <4>3. CASE m \in 1..Len(wire)
        BY <1>1, <2>1, <3>1, <4>1, <4>3 DEF Rising
      <4> QED
        BY <4>1, <4>2, <4>3
    <3> QED
      BY <3>1 DEF Rising
  <2>6. Under(taken, wire') /\ Under(queue, wire')
    <3>1. ASSUME NEW s \in Seq(Nat), Under(s, wire), \A k \in 1..Len(s) : s[k] \in Nat /\ s[k] # 0 /\ s[k] <= env.sent
          PROVE  Under(s, wire')
      <4>1. ASSUME NEW k \in 1..Len(s), NEW m \in 1..Len(wire')
            PROVE  s[k] # 0 /\ (wire'[m] # 0 => s[k] < wire'[m])
        <5>1. m \in 1..Len(wire) \/ m = Len(wire) + 1
          BY <1>1, <2>1
        <5>2. CASE m = Len(wire) + 1
          BY <1>1, <1>2, <2>1, <2>4, <3>1, <5>2
        <5>3. CASE m \in 1..Len(wire)
          BY <2>1, <3>1, <5>3 DEF Under
        <5> QED
          BY <5>1, <5>2, <5>3
      <4> QED
        BY <4>1 DEF Under
    <3> QED
      BY <1>1, <2>3, <3>1
  <2>7. Bounded(taken, env'.sent, env'.ends) /\ Bounded(queue, env'.sent, env'.ends)
    BY <1>1, <2>3, <2>4 DEF Bounded
  <2>8. Bounded(wire', env'.sent, env'.ends)
    BY <1>1, <1>2, <2>1, <2>3, <2>4 DEF Bounded
  <2>9. NewestOf(wire', env'.sent)
    BY <1>1, <1>2, <2>1 DEF NewestOf
  <2> QED
    BY <1>1, <1>2, <2>1, <2>5, <2>6, <2>7, <2>8, <2>9 DEF RobotInv
<1>3. CASE EnvSends
  <2>1. CASE env' = [env EXCEPT !.sent = @ + 1] /\ wire' = Append(wire, env.sent + 1)
    BY <1>1, <1>2, <1>3, <2>1 DEF EnvSends
  <2>2. CASE env' = [env EXCEPT !.ends = TRUE] /\ wire' = Append(wire, 0)
    BY <1>1, <1>2, <1>3, <2>2 DEF EnvSends
  <2>3. CASE env' = [env EXCEPT !.ends = TRUE] /\ UNCHANGED wire
    <3>1. env' \in [sent : Nat, ends : BOOLEAN] /\ env'.sent = env.sent /\ env'.ends /\ UNCHANGED <<queue, taken, wire>>
      BY <1>1, <1>3, <2>3 DEF EnvSends
    <3>2. /\ Bounded(taken, env'.sent, env'.ends) /\ Bounded(queue, env'.sent, env'.ends)
          /\ Bounded(wire, env'.sent, env'.ends)
      BY <1>1, <3>1 DEF Bounded
    <3> QED
      BY <1>1, <3>1, <3>2 DEF RobotInv
  <2> QED
    BY <1>3, <2>1, <2>2, <2>3 DEF EnvSends
<1>4. CASE Delivers
  <2>1. wire # <<>> /\ queue' = <<Head(wire)>> /\ wire' = Tail(wire) /\ UNCHANGED <<env, taken>>
    BY <1>4 DEF Delivers
  <2>2. /\ queue' \in Seq(Nat) /\ Len(queue') = 1 /\ queue'[1] = wire[1] /\ wire[1] \in Nat
        /\ wire' \in Seq(Nat) /\ Len(wire') = Len(wire) - 1 /\ Len(wire) >= 1
        /\ \A k \in 1..(Len(wire) - 1) : wire'[k] = wire[k + 1]
    BY <1>1, <2>1
  <2>3. Rising(wire') /\ Under(queue', wire')
    <3>1. \A k \in 1..Len(wire') : wire'[k] = wire[k + 1] /\ k + 1 \in 1..Len(wire) /\ 1 < k + 1
      BY <1>1, <2>2
    <3>2. Rising(wire')
      <4>1. ASSUME NEW k \in 1..Len(wire'), NEW m \in 1..Len(wire'), k < m
            PROVE  wire'[k] # 0 /\ (wire'[m] # 0 => wire'[k] < wire'[m])
        <5>1. k + 1 \in 1..Len(wire) /\ m + 1 \in 1..Len(wire) /\ k + 1 < m + 1
          BY <3>1, <4>1
        <5> QED
          BY <1>1, <3>1, <5>1 DEF Rising
      <4> QED
        BY <4>1 DEF Rising
    <3>3. Under(queue', wire')
      <4>1. ASSUME NEW m \in 1..Len(wire')
            PROVE  wire[1] # 0 /\ (wire'[m] # 0 => wire[1] < wire'[m])
        <5>1. m + 1 \in 1..Len(wire) /\ 1 \in 1..Len(wire) /\ 1 < m + 1 /\ wire'[m] = wire[m + 1]
          BY <2>2, <3>1
        <5> QED
          BY <1>1, <5>1 DEF Rising
      <4> QED
        BY <2>2, <4>1 DEF Under
    <3> QED
      BY <3>2, <3>3
  <2>4. Under(taken, queue') /\ Under(taken, wire')
    <3>1. 1 \in 1..Len(wire) /\ 1..Len(queue') = {1}
      BY <1>1, <2>2
    <3>2. Under(taken, queue')
      BY <1>1, <2>2, <3>1 DEF Under
    <3>3. \A m \in 1..Len(wire') : m + 1 \in 1..Len(wire) /\ wire'[m] = wire[m + 1]
      BY <1>1, <2>2
    <3>4. Under(taken, wire')
      BY <1>1, <3>3 DEF Under
    <3> QED
      BY <3>2, <3>4
  <2>5. Bounded(queue', env.sent, env.ends) /\ Bounded(wire', env.sent, env.ends)
    BY <1>1, <2>2 DEF Bounded
  <2>6. NewestOf(wire', env.sent) \/ (wire' = <<>> /\ NewestOf(queue', env.sent))
    <3>1. NewestOf(wire, env.sent)
      BY <1>1, <2>1
    <3>2. CASE Len(wire) = 1
      BY <2>2, <3>1, <3>2 DEF NewestOf
    <3>3. CASE Len(wire) # 1
      <4>1. Len(wire') \in 1..(Len(wire) - 1) /\ Len(wire') + 1 = Len(wire) /\ wire' # <<>>
        BY <1>1, <2>2, <3>3
      <4>2. wire'[Len(wire')] = wire[Len(wire)]
        BY <2>2, <4>1
      <4> QED
        BY <3>1, <4>1, <4>2 DEF NewestOf
    <3> QED
      BY <3>2, <3>3
  <2> QED
    BY <1>1, <2>1, <2>2, <2>3, <2>4, <2>5, <2>6 DEF RobotInv
<1>5. CASE Observes
  <2>1. queue # <<>> /\ taken' = Append(taken, Head(queue)) /\ queue' = <<>> /\ UNCHANGED <<env, wire>>
    BY <1>5 DEF Observes
  <2>2. /\ Len(queue) = 1 /\ queue[1] \in Nat /\ Head(queue) = queue[1] /\ Len(queue') = 0 /\ queue' \in Seq(Nat)
    <3>1. Len(queue) # 0
      BY <1>1, <2>1
    <3>2. Len(queue) = 1
      <4> DEFINE n == Len(queue)
      <4>1. n \in Nat /\ n <= 1 /\ n # 0
        BY <1>n, <3>1
      <4> HIDE DEF n
      <4>2. n = 1
        BY <4>1
      <4> QED
        BY <4>2 DEF n
    <3>3. queue[1] \in Nat /\ Head(queue) = queue[1]
      BY <1>1, <2>1, <3>2
    <3>4. Len(queue') = 0 /\ queue' \in Seq(Nat)
      BY <2>1
    <3> QED
      BY <3>2, <3>3, <3>4
  <2>3. /\ taken' \in Seq(Nat) /\ Len(taken') = Len(taken) + 1 /\ taken'[Len(taken) + 1] = queue[1]
        /\ \A k \in 1..Len(taken) : taken'[k] = taken[k] /\ taken[k] \in Nat
    BY <1>1, <2>1, <2>2
  <2>4. Rising(taken')
    <3>1. ASSUME NEW k \in 1..Len(taken'), NEW m \in 1..Len(taken'), k < m
          PROVE  taken'[k] # 0 /\ (taken'[m] # 0 => taken'[k] < taken'[m])
      <4>1. k \in 1..Len(taken) /\ (m \in 1..Len(taken) \/ m = Len(taken) + 1) /\ 1 \in 1..Len(queue)
        <5> DEFINE n == Len(taken)
        <5>1. n \in Nat /\ k \in 1..n + 1 /\ m \in 1..n + 1 /\ k < m
          BY <1>n, <2>3, <3>1
        <5> HIDE DEF n
        <5>2. k \in 1..n /\ (m \in 1..n \/ m = n + 1)
          BY <5>1
        <5> QED
          BY <2>2, <5>2 DEF n
      <4>2. CASE m = Len(taken) + 1
        BY <1>1, <2>3, <4>1, <4>2 DEF Under
      <4>3. CASE m \in 1..Len(taken)
        BY <1>1, <2>3, <3>1, <4>1, <4>3 DEF Rising
      <4> QED
        BY <4>1, <4>2, <4>3
    <3> QED
      BY <3>1 DEF Rising
  <2>5. Under(taken', wire) /\ Under(taken', queue') /\ Under(queue', wire)
    <3>1. ASSUME NEW k \in 1..Len(taken'), NEW m \in 1..Len(wire)
          PROVE  taken'[k] # 0 /\ (wire[m] # 0 => taken'[k] < wire[m])
      <4>1. (k \in 1..Len(taken) \/ k = Len(taken) + 1) /\ 1 \in 1..Len(queue)
        BY <1>1, <2>2, <2>3
      <4> QED
        BY <1>1, <2>3, <4>1 DEF Under
    <3>2. 1..Len(queue') = {}
      BY <2>2
    <3> QED
      BY <3>1, <3>2 DEF Under
  <2>6. Bounded(taken', env.sent, env.ends) /\ Bounded(queue', env.sent, env.ends)
    <3>1. ASSUME NEW k \in 1..Len(taken') PROVE taken'[k] <= env.sent /\ (taken'[k] = 0 => env.ends)
      <4>1. (k \in 1..Len(taken) \/ k = Len(taken) + 1) /\ 1 \in 1..Len(queue)
        BY <1>1, <2>2, <2>3
      <4> QED
        BY <1>1, <2>3, <4>1 DEF Bounded
    <3>2. 1..Len(queue') = {}
      BY <2>2
    <3> QED
      BY <3>1, <3>2 DEF Bounded
  <2>7. NewestOf(wire, env.sent) \/ (wire = <<>> /\ queue' = <<>> /\ NewestOf(taken', env.sent))
    BY <1>1, <2>1, <2>2, <2>3 DEF NewestOf
  <2> QED
    BY <1>1, <2>1, <2>2, <2>3, <2>4, <2>5, <2>6, <2>7 DEF RobotInv
<1>6. CASE MailEnds \/ CloseRobot \/ UNCHANGED robotVars
  BY <1>6 DEF MailEnds, CloseRobot, robotVars, RobotInv
<1> QED
  BY <1>3, <1>4, <1>5, <1>6 DEF NextRobot

\* Nobody has sent a command, and the first observation lies in the queue.
LEMMA WireInit == InitCdp /\ InitRobot => CdpInv /\ RobotInv
<1> SUFFICES ASSUME InitCdp, InitRobot PROVE CdpInv /\ RobotInv
  OBVIOUS
<1>1. CdpInv
  BY DEF InitCdp, CdpInv, Senders
<1>2. /\ taken = <<>> /\ wire = <<>> /\ queue = <<1>> /\ env = [sent |-> 1, ends |-> FALSE]
      /\ Len(taken) = 0 /\ Len(wire) = 0 /\ Len(queue) = 1 /\ queue[1] = 1 /\ env.sent = 1
      /\ taken \in Seq(Nat) /\ wire \in Seq(Nat) /\ queue \in Seq(Nat)
  BY DEF InitRobot
<1> QED
  BY <1>1, <1>2 DEF RobotInv, Rising, Under, Bounded, NewestOf

\* A command of a CDP session ends with the reply to it or with the connection's end,
\* and nobody waits for a reader that is gone, unless it came later; the agent of a
\* robot takes observations as they rise, the newest that has come, and an error last
\* (capabilities/cdp.py:117-138, capabilities/robot.py).
THEOREM WireSoundAlways ==
  InitCdp /\ InitRobot /\ [][NextCdp \/ NextRobot]_<<cdpVars, robotVars>> => []WireSound
<1>1. CdpInv => CommandsAnswered
  BY DEF CdpInv, CommandsAnswered
<1>2. RobotInv => NewestTaken
  <2> SUFFICES ASSUME RobotInv PROVE NewestTaken
    OBVIOUS
  <2>1. /\ taken \in Seq(Nat) /\ queue \in Seq(Nat) /\ wire \in Seq(Nat)
        /\ Len(taken) \in Nat /\ Len(queue) \in Nat /\ Len(wire) \in Nat
        /\ Rising(taken) /\ Under(taken, queue) /\ Under(taken, wire)
    BY DEF RobotInv
  <2>2. \A k \in 1..Len(taken) - 1 : taken[k] # 0 /\ (taken[k + 1] # 0 => taken[k] < taken[k + 1])
    <3>1. ASSUME NEW k \in 1..Len(taken) - 1 PROVE k \in 1..Len(taken) /\ k + 1 \in 1..Len(taken) /\ k < k + 1
      BY <2>1
    <3> QED
      BY <2>1, <3>1 DEF Rising
  <2> DEFINE seen == {taken[k] : k \in 1..Len(taken)} \ {0}
             waiting == {queue[k] : k \in 1..Len(queue)} \cup {wire[k] : k \in 1..Len(wire)}
  <2>3. \A a \in seen, b \in waiting \ {0} : a < b
    BY <2>1 DEF Under
  <2>4. \E b \in {taken[k] : k \in 1..Len(taken)} \cup waiting : b = env.sent \/ b = 0
    <3>1. ASSUME NEW s \in Seq(Nat), NewestOf(s, env.sent)
          PROVE  \E b \in {s[k] : k \in 1..Len(s)} : b = env.sent \/ b = 0
      <4>1. Len(s) \in 1..Len(s)
        BY <3>1 DEF NewestOf
      <4> QED
        BY <3>1, <4>1 DEF NewestOf
    <3>2. NewestOf(wire, env.sent) \/ NewestOf(queue, env.sent) \/ NewestOf(taken, env.sent)
      BY DEF RobotInv
    <3> QED
      BY <2>1, <3>1, <3>2
  <2> QED
    BY <2>2, <2>3, <2>4 DEF NewestTaken
<1>3. ASSUME CdpInv, RobotInv, [NextCdp \/ NextRobot]_<<cdpVars, robotVars>>
      PROVE  CdpInv' /\ RobotInv'
  <2>1. CASE NextCdp
    <3>1. UNCHANGED robotVars
      BY <2>1 DEF NextCdp, Command, Responds, Resumes, CutCommand, Notifies, Hangs, Read, ReaderEnds, CloseCdp,
           ReaderCut, ClosesSocket
    <3> QED
      BY <1>3, <2>1, <3>1, CdpStep, RobotStep
  <2>2. CASE NextRobot
    <3>1. UNCHANGED cdpVars
      BY <2>2 DEF NextRobot, EnvSends, Delivers, MailEnds, Observes, CloseRobot
    <3> QED
      BY <1>3, <2>2, <3>1, CdpStep, RobotStep
  <2>3. CASE UNCHANGED <<cdpVars, robotVars>>
    BY <1>3, <2>3, CdpStep, RobotStep
  <2> QED
    BY <1>3, <2>1, <2>2, <2>3
<1> QED
  BY <1>1, <1>2, <1>3, WireInit, PTL DEF WireSound

\* The clients of SSH, of CDP and of a robot keep what their connections promise, each
\* on its own, whatever the network breaks, whoever gives up and in whatever order
\* replies come (capabilities/ssh.py, cdp.py, robot.py).
THEOREM ClientsSoundAlways ==
  /\ LinkSpec
  /\ InitCdp /\ InitRobot /\ [][NextCdp \/ NextRobot]_<<cdpVars, robotVars>>
  => []ClientsSound
BY LinkSoundAlways, WireSoundAlways, PTL DEF ClientsSound

-----------------------------------------------------------------------------
(* Batched inference.                                                        *)

BatchCalls == Robots \X Nat
PlannedRows == [of : Robots, at : Nat, row : Nat]
Episode == [pc : {"ticks", "waits", "done", "raised", "cut"}, step : Nat, chunk : Seq(PlannedRows), wire : BOOLEAN]

\* The calls of robot r that the worker has.
Gathered(r) == \E i \in 1..Len(batch) : batch[i][1] = r
Queueing(r) == \E i \in 1..Len(asked) : asked[i][1] = r

BatchType ==
  /\ episode \in [Robots -> Episode]
  /\ asked \in Seq(BatchCalls) /\ batch \in Seq(BatchCalls)
  /\ worker \in {"none", "idle", "gathers", "infers"}

\* A robot has one call at most with the worker, and it has none unless it waits
\* for it or has given it up.
OneCallEach ==
  /\ \A i, k \in 1..Len(batch) : batch[i][1] = batch[k][1] => i = k
  /\ \A i, k \in 1..Len(asked) : asked[i][1] = asked[k][1] => i = k
  /\ \A r \in Robots : ~(Gathered(r) /\ Queueing(r))
  /\ \A r \in Robots : episode[r].pc \in {"ticks", "done", "raised"} => ~Gathered(r) /\ ~Queueing(r)

\* Who waits has its call, for the tick it is at.
CallsKept ==
  \A r \in Robots : episode[r].pc = "waits" =>
    /\ worker # "none"
    /\ \/ \E i \in 1..Len(batch) : batch[i] = <<r, episode[r].step>>
       \/ \E i \in 1..Len(asked) : asked[i] = <<r, episode[r].step>>

\* What a robot executes was planned for it and for its tick.
Planned(r, e) ==
  /\ \A n \in 1..Len(e.chunk) : e.chunk[n].of = r /\ e.chunk[n].at + e.chunk[n].row = e.step + n
  /\ e.wire <=> e.pc \in {"ticks", "waits"}
  /\ e.step <= RobotSteps

BatchInv ==
  /\ BatchType /\ OneCallEach /\ CallsKept
  /\ \A r \in Robots : Planned(r, episode[r])
  /\ \A n \in BatchSize : Len(batch) <= n
  /\ batch # <<>> <=> worker \in {"gathers", "infers"}

\* A robot that ends, is cut short, or executes a row: only its own record changes,
\* and no call is its own unless it gives it up.
LEMMA EpisodeMoves ==
  ASSUME BatchInv, NEW r \in Robots, NEW e \in Episode, episode' = [episode EXCEPT ![r] = e],
         UNCHANGED <<asked, batch, worker>>, Planned(r, e), e.pc # "waits",
         episode[r].pc = "ticks" \/ e.pc = "cut"
  PROVE  BatchInv'
<1>1. /\ BatchType /\ OneCallEach /\ CallsKept /\ \A q \in Robots : Planned(q, episode[q])
      /\ \A n \in BatchSize : Len(batch) <= n
      /\ batch # <<>> <=> worker \in {"gathers", "infers"}
  BY DEF BatchInv
<1>2. \A q \in Robots : episode'[q] = IF q = r THEN e ELSE episode[q]
  BY <1>1 DEF BatchType
<1>3. BatchType'
  BY <1>1 DEF BatchType
<1>4. \A q \in Robots : (Gathered(q)' <=> Gathered(q)) /\ (Queueing(q)' <=> Queueing(q))
  BY DEF Gathered, Queueing
<1>5. OneCallEach'
  <2>1. \A q \in Robots : episode'[q].pc \in {"ticks", "done", "raised"} => ~Gathered(q) /\ ~Queueing(q)
    BY <1>1, <1>2 DEF OneCallEach
  <2> QED
    BY <1>1, <1>4, <2>1 DEF OneCallEach
<1>6. CallsKept'
  BY <1>1, <1>2 DEF CallsKept
<1>7. \A q \in Robots : Planned(q, episode'[q])
  BY <1>1, <1>2
<1>8. (\A q \in Robots : Planned(q, episode[q]))'
  BY <1>7 DEF Planned
<1> QED
  BY <1>1, <1>3, <1>5, <1>6, <1>8 DEF BatchInv

\* A loop that ends closes its connection and keeps the rest.
LEMMA LoopEnds ==
  ASSUME BatchInv, NEW r \in Robots, NEW how \in {"done", "raised", "cut"}, EndsLoop(r, how),
         UNCHANGED <<asked, batch, worker>>, episode[r].pc = "ticks" \/ how = "cut"
  PROVE  BatchInv'
<1> DEFINE e == [episode[r] EXCEPT !.pc = how, !.wire = FALSE]
<1>1. episode \in [Robots -> Episode] /\ episode[r] \in Episode /\ Planned(r, episode[r])
  BY DEF BatchInv, BatchType
<1>2. episode' = [episode EXCEPT ![r] = e]
  BY <1>1 DEF EndsLoop
<1>3. /\ e \in Episode /\ e.pc = how /\ e.wire = FALSE
      /\ e.chunk = episode[r].chunk /\ e.step = episode[r].step
  BY <1>1 DEF Episode
<1> HIDE DEF e
<1>4. Planned(r, e)
  BY <1>1, <1>3 DEF Planned
<1> QED
  BY <1>2, <1>3, <1>4, EpisodeMoves

\* A row is executed: the next one is for the next tick.
LEMMA RowExecuted ==
  ASSUME BatchInv, NEW r \in Robots, Executes(r)
  PROVE  BatchInv'
<1>1. /\ episode \in [Robots -> Episode] /\ episode[r] \in Episode /\ Planned(r, episode[r])
      /\ episode[r].pc = "ticks" /\ episode[r].step < RobotSteps /\ episode[r].chunk # <<>>
      /\ UNCHANGED <<asked, batch, worker>>
  BY DEF BatchInv, BatchType, Executes
<1>2. CASE EndsLoop(r, "raised")
  BY <1>1, <1>2, LoopEnds
<1>3. CASE episode' = [episode EXCEPT ![r].chunk = Tail(@), ![r].step = @ + 1]
  <2> DEFINE e == [episode[r] EXCEPT !.chunk = Tail(@), !.step = @ + 1]
             c == episode[r].chunk
  <2>1. episode' = [episode EXCEPT ![r] = e]
    BY <1>1, <1>3
  <2>2. /\ c \in Seq(PlannedRows) /\ c # <<>> /\ episode[r].step \in Nat
        /\ Tail(c) \in Seq(PlannedRows) /\ Len(Tail(c)) = Len(c) - 1 /\ Len(c) \in Nat
        /\ \A n \in 1..(Len(c) - 1) : Tail(c)[n] = c[n + 1]
    BY <1>1 DEF Episode
  <2>3. /\ e \in Episode /\ e.pc = "ticks" /\ e.wire = episode[r].wire
        /\ e.chunk = Tail(c) /\ e.step = episode[r].step + 1
    <3>1. e = [episode[r] EXCEPT !.chunk = Tail(c), !.step = episode[r].step + 1]
      OBVIOUS
    <3>2. episode[r].step + 1 \in Nat /\ Tail(c) \in Seq(PlannedRows)
      BY <2>2
    <3> HIDE DEF e, c
    <3> QED
      BY <1>1, <3>1, <3>2 DEF Episode
  <2>4. \A n \in 1..Len(c) : c[n].of = r /\ c[n].at + c[n].row = episode[r].step + n
    BY <1>1 DEF Planned
  <2> HIDE DEF e, c
  <2>5. ASSUME NEW n \in 1..Len(e.chunk)
        PROVE  e.chunk[n].of = r /\ e.chunk[n].at + e.chunk[n].row = e.step + n
    <3>1. n \in 1..(Len(c) - 1) /\ n + 1 \in 1..Len(c)
      BY <2>2, <2>3
    <3>2. e.chunk[n] = c[n + 1]
      BY <2>2, <2>3, <3>1
    <3>3. c[n + 1].of = r /\ c[n + 1].at + c[n + 1].row = episode[r].step + (n + 1)
      BY <2>4, <3>1
    <3>4. episode[r].step + (n + 1) = (episode[r].step + 1) + n
      BY <2>2, <3>1
    <3> QED
      BY <2>3, <3>2, <3>3, <3>4
  <2>6. e.step <= RobotSteps
    BY <1>1, <2>2, <2>3, BatchAssumption
  <2>7. e.wire <=> e.pc \in {"ticks", "waits"}
    BY <1>1, <2>3 DEF Planned
  <2>8. Planned(r, e)
    BY <2>5, <2>6, <2>7 DEF Planned
  <2> QED
    BY <1>1, <2>1, <2>3, <2>8, EpisodeMoves
<1> QED
  BY <1>2, <1>3 DEF Executes

\* A robot asks, and has no other call with the worker.
LEMMA RobotAsks ==
  ASSUME BatchInv, NEW r \in Robots, Ainfer(r)
  PROVE  BatchInv'
<1> DEFINE mine == <<r, episode[r].step>>
           e == [episode[r] EXCEPT !.pc = "waits"]
<1>1. /\ BatchType /\ OneCallEach /\ CallsKept /\ \A q \in Robots : Planned(q, episode[q])
      /\ \A n \in BatchSize : Len(batch) <= n
      /\ batch # <<>> <=> worker \in {"gathers", "infers"}
      /\ episode[r].pc = "ticks" /\ asked' = Append(asked, mine) /\ batch' = batch
      /\ worker' = (IF worker = "none" THEN "idle" ELSE worker)
      /\ episode' = [episode EXCEPT ![r].pc = "waits"]
  BY DEF BatchInv, Ainfer
<1>2. /\ episode \in [Robots -> Episode] /\ episode[r] \in Episode /\ episode[r].step \in Nat
      /\ asked \in Seq(BatchCalls) /\ mine \in BatchCalls /\ mine[1] = r
  BY <1>1 DEF BatchType, Episode, BatchCalls
<1>3. /\ e \in Episode /\ e.pc = "waits" /\ e.step = episode[r].step /\ e.wire = episode[r].wire
      /\ e.chunk = episode[r].chunk
  BY <1>2 DEF Episode
<1>4. \A q \in Robots : episode'[q] = IF q = r THEN e ELSE episode[q]
  BY <1>1, <1>2
<1>5. /\ asked' \in Seq(BatchCalls) /\ Len(asked') = Len(asked) + 1 /\ Len(asked) \in Nat
      /\ asked'[Len(asked) + 1] = mine /\ \A i \in 1..Len(asked) : asked'[i] = asked[i]
  BY <1>1, <1>2
<1>6. BatchType'
  BY <1>1, <1>2, <1>3, <1>4, <1>5 DEF BatchType
<1> HIDE DEF mine, e
<1>7. ~Gathered(r) /\ ~Queueing(r)
  BY <1>1 DEF OneCallEach
<1>8. OneCallEach'
  <2>1. \A q \in Robots : Gathered(q)' <=> Gathered(q)
    BY <1>1 DEF Gathered
  <2>2. ASSUME NEW q \in Robots, q # r PROVE Queueing(q)' <=> Queueing(q)
    BY <1>2, <1>5, <2>2 DEF Queueing
  <2>3. ASSUME NEW i \in 1..Len(asked'), NEW k \in 1..Len(asked'), asked'[i][1] = asked'[k][1]
        PROVE  i = k
    <3>1. CASE i \in 1..Len(asked) /\ k \in 1..Len(asked)
      BY <1>1, <1>5, <2>3, <3>1 DEF OneCallEach
    <3>2. CASE i = Len(asked) + 1 /\ k \in 1..Len(asked)
      BY <1>2, <1>5, <1>7, <2>3, <3>2 DEF Queueing
    <3>3. CASE k = Len(asked) + 1 /\ i \in 1..Len(asked)
      BY <1>2, <1>5, <1>7, <2>3, <3>3 DEF Queueing
    <3>4. CASE i = Len(asked) + 1 /\ k = Len(asked) + 1
      BY <3>4
    <3> QED
      BY <1>5, <3>1, <3>2, <3>3, <3>4
  <2>4. \A q \in Robots : ~(Gathered(q)' /\ Queueing(q)')
    BY <1>1, <1>7, <2>1, <2>2 DEF OneCallEach
  <2>5. \A q \in Robots : episode'[q].pc \in {"ticks", "done", "raised"} => ~Gathered(q)' /\ ~Queueing(q)'
    BY <1>1, <1>3, <1>4, <2>1, <2>2 DEF OneCallEach
  <2>6. \A i, k \in 1..Len(batch') : batch'[i][1] = batch'[k][1] => i = k
    BY <1>1 DEF OneCallEach
  <2> QED
    BY <2>3, <2>4, <2>5, <2>6 DEF OneCallEach
<1>9. CallsKept'
  <2>1. worker' # "none" /\ (worker # "none" => worker' = worker)
    BY <1>1
  <2>2. ASSUME NEW q \in Robots, episode'[q].pc = "waits"
        PROVE  \/ \E i \in 1..Len(batch') : batch'[i] = <<q, episode'[q].step>>
               \/ \E i \in 1..Len(asked') : asked'[i] = <<q, episode'[q].step>>
    <3>1. CASE q = r
      BY <1>3, <1>4, <1>5, <3>1 DEF mine
    <3>2. CASE q # r
      <4>1. episode'[q] = episode[q]
        BY <1>4, <3>2
      <4>2. \/ \E i \in 1..Len(batch) : batch[i] = <<q, episode[q].step>>
            \/ \E i \in 1..Len(asked) : asked[i] = <<q, episode[q].step>>
        BY <1>1, <2>2, <4>1 DEF CallsKept
      <4> QED
        BY <1>1, <1>5, <4>1, <4>2
    <3> QED
      BY <3>1, <3>2
  <2> QED
    BY <2>1, <2>2 DEF CallsKept
<1>10. (\A q \in Robots : Planned(q, episode[q]))'
  <2>1. \A q \in Robots : Planned(q, episode'[q])
    BY <1>1, <1>3, <1>4 DEF Planned
  <2> QED
    BY <2>1 DEF Planned
<1> QED
  BY <1>1, <1>6, <1>8, <1>9, <1>10 DEF BatchInv

\* The oldest call joins the batch.
LEMMA CallGathered ==
  ASSUME BatchInv, Gathers
  PROVE  BatchInv'
<1> DEFINE mine == Head(asked)
<1>1. /\ BatchType /\ OneCallEach /\ CallsKept /\ \A q \in Robots : Planned(q, episode[q])
      /\ \A n \in BatchSize : Len(batch) <= n
      /\ batch # <<>> <=> worker \in {"gathers", "infers"}
      /\ asked # <<>> /\ batch' = Append(batch, mine) /\ asked' = Tail(asked) /\ episode' = episode
      /\ worker' = "gathers" /\ (worker = "idle" \/ (worker = "gathers" /\ ~Full))
  <2>1. worker' = "gathers" /\ (worker = "idle" \/ (worker = "gathers" /\ ~Full))
    BY DEF Gathers, FirstCall, More
  <2> QED
    BY <2>1 DEF BatchInv, Gathers
<1>2. /\ asked \in Seq(BatchCalls) /\ batch \in Seq(BatchCalls) /\ Len(asked) \in Nat \ {0} /\ Len(batch) \in Nat
      /\ mine = asked[1] /\ mine \in BatchCalls
  BY <1>1 DEF BatchType
<1>3. /\ asked' \in Seq(BatchCalls) /\ Len(asked') = Len(asked) - 1
      /\ \A i \in 1..(Len(asked) - 1) : asked'[i] = asked[i + 1]
  BY <1>1, <1>2
<1>4. /\ batch' \in Seq(BatchCalls) /\ Len(batch') = Len(batch) + 1
      /\ batch'[Len(batch) + 1] = mine /\ \A i \in 1..Len(batch) : batch'[i] = batch[i]
  BY <1>1, <1>2
<1>5. BatchType'
  BY <1>1, <1>3, <1>4 DEF BatchType
<1> HIDE DEF mine
<1>6. mine[1] \in Robots /\ Queueing(mine[1]) /\ ~Gathered(mine[1])
  BY <1>1, <1>2 DEF BatchCalls, Queueing, OneCallEach
<1>7. OneCallEach'
  <2>1. ASSUME NEW i \in 1..Len(asked'), NEW k \in 1..Len(asked'), asked'[i][1] = asked'[k][1]
        PROVE  i = k
    <3>1. /\ i \in 1..(Len(asked) - 1) /\ k \in 1..(Len(asked) - 1)
          /\ i + 1 \in 1..Len(asked) /\ k + 1 \in 1..Len(asked)
      BY <1>2, <1>3
    <3>2. i + 1 = k + 1
      BY <1>1, <1>3, <2>1, <3>1 DEF OneCallEach
    <3> QED
      BY <3>1, <3>2
  <2>2. ASSUME NEW i \in 1..Len(batch'), NEW k \in 1..Len(batch'), batch'[i][1] = batch'[k][1]
        PROVE  i = k
    <3>1. CASE i \in 1..Len(batch) /\ k \in 1..Len(batch)
      BY <1>1, <1>4, <2>2, <3>1 DEF OneCallEach
    <3>2. CASE i = Len(batch) + 1 /\ k \in 1..Len(batch)
      BY <1>4, <1>6, <2>2, <3>2 DEF Gathered
    <3>3. CASE k = Len(batch) + 1 /\ i \in 1..Len(batch)
      BY <1>4, <1>6, <2>2, <3>3 DEF Gathered
    <3>4. CASE i = Len(batch) + 1 /\ k = Len(batch) + 1
      BY <3>4
    <3> QED
      BY <1>2, <1>4, <3>1, <3>2, <3>3, <3>4
  <2>3. ASSUME NEW q \in Robots, Queueing(q)' PROVE Queueing(q) /\ q # mine[1]
    <3>1. PICK i \in 1..(Len(asked) - 1) : asked[i + 1][1] = q
      BY <1>3, <2>3 DEF Queueing
    <3>2. i + 1 \in 1..Len(asked) /\ i + 1 # 1 /\ 1 \in 1..Len(asked)
      BY <1>2, <3>1
    <3>3. Queueing(q)
      BY <3>1, <3>2 DEF Queueing
    <3>4. asked[1][1] # asked[i + 1][1]
      BY <1>1, <3>2 DEF OneCallEach
    <3> QED
      BY <1>2, <3>1, <3>3, <3>4
  <2>4. ASSUME NEW q \in Robots, Gathered(q)' PROVE Gathered(q) \/ q = mine[1]
    BY <1>2, <1>4, <2>4 DEF Gathered
  <2>5. \A q \in Robots : ~(Gathered(q)' /\ Queueing(q)')
    BY <1>1, <2>3, <2>4 DEF OneCallEach
  <2>6. \A q \in Robots : episode'[q].pc \in {"ticks", "done", "raised"} => ~Gathered(q)' /\ ~Queueing(q)'
    BY <1>1, <1>6, <2>3, <2>4 DEF OneCallEach
  <2> QED
    BY <2>1, <2>2, <2>5, <2>6 DEF OneCallEach
<1>8. CallsKept'
  <2>1. ASSUME NEW q \in Robots, episode[q].pc = "waits"
        PROVE  \/ \E i \in 1..Len(batch') : batch'[i] = <<q, episode[q].step>>
               \/ \E i \in 1..Len(asked') : asked'[i] = <<q, episode[q].step>>
    <3>1. CASE \E i \in 1..Len(batch) : batch[i] = <<q, episode[q].step>>
      BY <1>2, <1>4, <3>1
    <3>2. CASE \E i \in 1..Len(asked) : asked[i] = <<q, episode[q].step>>
      <4>1. PICK i \in 1..Len(asked) : asked[i] = <<q, episode[q].step>>
        BY <3>2
      <4>2. CASE i = 1
        BY <1>2, <1>4, <4>1, <4>2
      <4>3. CASE i # 1
        <5>1. i - 1 \in 1..(Len(asked) - 1) /\ (i - 1) + 1 = i
          BY <1>2, <4>1, <4>3
        <5>2. asked'[i - 1] = asked[i] /\ i - 1 \in 1..Len(asked')
          BY <1>3, <5>1
        <5> QED
          BY <4>1, <5>2
      <4> QED
        BY <4>2, <4>3
    <3> QED
      BY <1>1, <2>1, <3>1, <3>2 DEF CallsKept
  <2> QED
    BY <1>1, <2>1 DEF CallsKept
<1>9. ASSUME NEW n \in BatchSize PROVE Len(batch') <= n
  <2>1. n \in Nat \ {0}
    BY BatchAssumption
  <2>2. CASE worker = "idle"
    <3>1. Len(batch) = 0
      BY <1>1, <1>2, <2>2
    <3> QED
      BY <1>4, <2>1, <3>1
  <2>3. CASE ~Full
    BY <1>2, <1>4, <2>1, <2>3 DEF Full
  <2> QED
    BY <1>1, <2>2, <2>3
<1>10. batch' # <<>>
  BY <1>2, <1>4
<1>11. (\A n \in BatchSize : Len(batch) <= n)' /\ (\A q \in Robots : Planned(q, episode[q]))'
  BY <1>1, <1>9 DEF Planned
<1> QED
  BY <1>1, <1>5, <1>7, <1>8, <1>10, <1>11 DEF BatchInv

\* The forward is over: each call that is still waited for gets its own row or an
\* error, and nobody else notices.
LEMMA RowsScattered ==
  ASSUME BatchInv, NEW rows \in Nat, Scatters(rows)
  PROVE  BatchInv'
<1>1. /\ BatchType /\ OneCallEach /\ CallsKept /\ \A q \in Robots : Planned(q, episode[q])
      /\ \A n \in BatchSize : Len(batch) <= n
      /\ batch' = <<>> /\ worker' = "idle" /\ asked' = asked
  BY DEF BatchInv, Scatters
<1>2. episode \in [Robots -> Episode] /\ batch \in Seq(BatchCalls) /\ asked \in Seq(BatchCalls)
  BY <1>1 DEF BatchType
<1>3. ASSUME NEW r \in Robots
      PROVE  /\ episode'[r] \in Episode /\ Planned(r, episode'[r]) /\ episode'[r].step = episode[r].step
             /\ \/ episode'[r] = episode[r] /\ ~(Gathered(r) /\ episode[r].pc = "waits")
                \/ Gathered(r) /\ episode[r].pc = "waits" /\ episode'[r].pc \in {"ticks", "raised"}
  <2>0. episode[r] \in Episode
    BY <1>2
  <2>1. CASE \E i \in 1..Len(batch) : batch[i][1] = r /\ Waits(i)
    <3> DEFINE i == CHOOSE k \in 1..Len(batch) : batch[k][1] = r /\ Waits(k)
    <3>1. i \in 1..Len(batch) /\ batch[i][1] = r /\ Waits(i)
      BY <2>1
    <3>2. episode'[r] = IF i <= rows THEN [episode[r] EXCEPT !.pc = "ticks", !.chunk = ChunkOf(i)]
                        ELSE [episode[r] EXCEPT !.pc = "raised", !.wire = FALSE]
      BY <2>1 DEF Scatters
    <3> HIDE DEF i
    <3>3. episode[r].pc = "waits" /\ Gathered(r)
      BY <3>1 DEF Waits, Gathered
    <3>4. batch[i] = <<r, episode[r].step>>
      <4>1. \E k \in 1..Len(batch) : batch[k] = <<r, episode[r].step>>
        <5>1. ~Queueing(r)
          BY <1>1, <3>3 DEF OneCallEach
        <5>2. ~(\E k \in 1..Len(asked) : asked[k] = <<r, episode[r].step>>)
          BY <5>1 DEF Queueing
        <5> QED
          BY <1>1, <3>3, <5>2 DEF CallsKept
      <4> QED
        BY <1>1, <3>1, <4>1 DEF OneCallEach
    <3>5. CASE i <= rows
      <4> DEFINE c == ChunkOf(i)
                 e == [episode[r] EXCEPT !.pc = "ticks", !.chunk = c]
      <4>1. episode[r].step \in Nat
        BY <2>0 DEF Episode
      <4>2. /\ c \in Seq(PlannedRows) /\ Len(c) = ChunkRows
            /\ \A n \in 1..ChunkRows : c[n] = [of |-> r, at |-> episode[r].step, row |-> n]
        BY <3>4, <4>1, BatchAssumption DEF ChunkOf, RowOf, PlannedRows
      <4> HIDE DEF c
      <4>3. /\ e \in Episode /\ e.pc = "ticks" /\ e.chunk = c /\ e.step = episode[r].step
            /\ e.wire = episode[r].wire
        BY <2>0, <4>2 DEF Episode
      <4> HIDE DEF e
      <4>4. Planned(r, e)
        BY <1>1, <3>3, <4>1, <4>2, <4>3 DEF Planned
      <4>5. episode'[r] = e
        BY <3>2, <3>5 DEF e, c
      <4> QED
        BY <3>3, <4>3, <4>4, <4>5
    <3>6. CASE ~(i <= rows)
      <4>1. episode'[r] = [episode[r] EXCEPT !.pc = "raised", !.wire = FALSE]
        BY <3>2, <3>6
      <4>2. /\ episode'[r] \in Episode /\ episode'[r].pc = "raised" /\ episode'[r].wire = FALSE
            /\ episode'[r].chunk = episode[r].chunk /\ episode'[r].step = episode[r].step
        BY <2>0, <4>1 DEF Episode
      <4> QED
        BY <1>1, <3>3, <4>2 DEF Planned
    <3> QED
      BY <3>5, <3>6
  <2>2. CASE ~(\E i \in 1..Len(batch) : batch[i][1] = r /\ Waits(i))
    <3>1. episode'[r] = episode[r]
      BY <2>2 DEF Scatters
    <3>2. ~(Gathered(r) /\ episode[r].pc = "waits")
      BY <2>2 DEF Gathered, Waits
    <3> QED
      BY <1>1, <2>0, <3>1, <3>2
  <2> QED
    BY <2>1, <2>2
<1>4. episode' = [r \in Robots |-> episode'[r]]
  BY DEF Scatters
<1>5. BatchType'
  <2>1. <<>> \in Seq(BatchCalls)
    OBVIOUS
  <2>2. episode' \in [Robots -> Episode]
    BY <1>3, <1>4
  <2> QED
    BY <1>1, <1>2, <2>1, <2>2 DEF BatchType
<1>6. OneCallEach'
  <2>1. \A q \in Robots : ~Gathered(q)' /\ (Queueing(q)' <=> Queueing(q))
    BY <1>1 DEF Gathered, Queueing
  <2>2. \A q \in Robots : episode'[q].pc \in {"ticks", "done", "raised"} => ~Queueing(q)
    BY <1>1, <1>3 DEF OneCallEach
  <2>3. 1..Len(batch') = {}
    BY <1>1
  <2> QED
    BY <1>1, <2>1, <2>2, <2>3 DEF OneCallEach
<1>7. CallsKept'
  <2>1. ASSUME NEW q \in Robots, episode'[q].pc = "waits"
        PROVE  \E i \in 1..Len(asked') : asked'[i] = <<q, episode'[q].step>>
    <3>1. episode'[q] = episode[q] /\ ~Gathered(q) /\ episode[q].pc = "waits"
      BY <1>3, <2>1
    <3>2. ~(\E i \in 1..Len(batch) : batch[i] = <<q, episode[q].step>>)
      BY <3>1 DEF Gathered
    <3> QED
      BY <1>1, <3>1, <3>2 DEF CallsKept
  <2> QED
    BY <1>1, <2>1 DEF CallsKept
<1>8. (\A n \in BatchSize : Len(batch) <= n)' /\ (\A q \in Robots : Planned(q, episode[q]))'
  <2>1. \A n \in BatchSize : 0 <= n
    BY BatchAssumption
  <2>2. Len(batch') = 0
    BY <1>1
  <2>3. \A q \in Robots : Planned(q, episode'[q])
    BY <1>3
  <2> QED
    BY <2>1, <2>2, <2>3 DEF Planned
<1> QED
  BY <1>1, <1>5, <1>6, <1>7, <1>8 DEF BatchInv

\* Nobody has asked at first.
LEMMA BatchInit == InitBatch => BatchInv
<1> SUFFICES ASSUME InitBatch PROVE BatchInv
  OBVIOUS
<1>1. <<>> \in Seq(BatchCalls) /\ <<>> \in Seq(PlannedRows)
  OBVIOUS
<1>2. BatchType
  BY <1>1 DEF InitBatch, BatchType, Episode
<1>3. asked = <<>> /\ batch = <<>> /\ worker = "none" /\ Len(batch) = 0 /\ 1..Len(batch) = {} /\ 1..Len(asked) = {}
  BY DEF InitBatch
<1>4. \A r \in Robots : /\ episode[r].pc = "ticks" /\ episode[r].step = 0 /\ episode[r].wire = TRUE
                        /\ 1..Len(episode[r].chunk) = {}
  BY DEF InitBatch
<1>5. \A r \in Robots : Planned(r, episode[r])
  BY <1>4, BatchAssumption DEF Planned
<1>6. \A n \in BatchSize : Len(batch) <= n
  BY <1>3, BatchAssumption
<1> QED
  BY <1>2, <1>3, <1>4, <1>5, <1>6 DEF BatchInv, OneCallEach, CallsKept, Gathered, Queueing

\* Only the worker goes on: it does not lose what it has.
LEMMA RestKeeps ==
  ASSUME BatchInv, UNCHANGED <<episode, asked, batch>>,
         worker' = worker \/ (worker = "gathers" /\ worker' = "infers")
  PROVE  BatchInv'
<1>1. \A q \in Robots : (Gathered(q)' <=> Gathered(q)) /\ (Queueing(q)' <=> Queueing(q))
  BY DEF Gathered, Queueing
<1>2. BatchType' /\ CallsKept'
  BY DEF BatchInv, BatchType, CallsKept
<1>3. OneCallEach'
  BY <1>1 DEF BatchInv, OneCallEach
<1>4. (\A q \in Robots : Planned(q, episode[q]))'
  BY DEF BatchInv, Planned
<1> QED
  BY <1>2, <1>3, <1>4 DEF BatchInv

\* No step of a robot or of the worker breaks it.
LEMMA BatchStep == BatchInv /\ [NextBatch]_batchVars => BatchInv'
<1> SUFFICES ASSUME BatchInv, [NextBatch]_batchVars PROVE BatchInv'
  OBVIOUS
<1>1. CASE UNCHANGED batchVars
  BY <1>1, RestKeeps DEF batchVars
<1>2. ASSUME NEW r \in Robots, Stops(r) PROVE BatchInv'
  BY <1>2, LoopEnds DEF Stops
<1>3. ASSUME NEW r \in Robots, CutEpisode(r) PROVE BatchInv'
  BY <1>3, LoopEnds DEF CutEpisode
<1>4. CASE Stacks
  BY <1>4, RestKeeps DEF Stacks
<1>5. ASSUME NEW rows \in 0..Cardinality(Robots), Scatters(rows) PROVE BatchInv'
  BY <1>5, RowsScattered
<1> QED
  BY <1>1, <1>2, <1>3, <1>4, <1>5, RobotAsks, RowExecuted, CallGathered DEF NextBatch

\* Whatever calls are stacked, fail or are given up: a rollout executes the rows that
\* were planned for its own observations, at their ticks, and its call is with the
\* worker while it waits (agents/robot/batching.py:52-95, agents/robot/agent.py:99-171).
THEOREM BatchSoundAlways == InitBatch /\ [][NextBatch]_batchVars => []BatchSound
<1>1. BatchInv => BatchSound
  <2> SUFFICES ASSUME BatchInv PROVE BatchSound
    OBVIOUS
  <2>1. ASSUME NEW r \in Robots, episode[r].pc = "waits"
        PROVE  /\ worker # "none"
               /\ Cardinality({i \in 1..Len(batch) : batch[i] = <<r, episode[r].step>>}) +
                  Cardinality({i \in 1..Len(asked) : asked[i] = <<r, episode[r].step>>}) = 1
    <3> DEFINE mine == <<r, episode[r].step>>
               B == {i \in 1..Len(batch) : batch[i] = mine}
               A == {i \in 1..Len(asked) : asked[i] = mine}
    <3>0. mine[1] = r
      OBVIOUS
    <3>1. worker # "none" /\ (B # {} \/ A # {})
      BY <2>1 DEF BatchInv, CallsKept
    <3> HIDE DEF mine
    <3>2. (\A i, k \in B : i = k) /\ (\A i, k \in A : i = k)
      BY DEF BatchInv, OneCallEach
    <3>3. B = {} \/ A = {}
      BY <3>0 DEF BatchInv, OneCallEach, Gathered, Queueing
    <3> HIDE DEF A, B
    <3>4. CASE B # {}
      <4>1. PICK i : B = {i}
        BY <3>2, <3>4
      <4>2. Cardinality(B) = 1 /\ Cardinality(A) = 0
        BY <3>3, <3>4, <4>1, FS_Singleton, FS_EmptySet
      <4> QED
        BY <3>1, <4>2 DEF A, B, mine
    <3>5. CASE B = {}
      <4>1. PICK i : A = {i}
        BY <3>1, <3>2, <3>5
      <4>2. Cardinality(A) = 1 /\ Cardinality(B) = 0
        BY <3>5, <4>1, FS_Singleton, FS_EmptySet
      <4> QED
        BY <3>1, <4>2 DEF A, B, mine
    <3> QED
      BY <3>4, <3>5
  <2>2. /\ \A r \in Robots : Planned(r, episode[r])
        /\ \A n \in BatchSize : Len(batch) <= n
        /\ batch # <<>> <=> worker \in {"gathers", "infers"}
    BY DEF BatchInv
  <2> QED
    BY <2>1, <2>2 DEF BatchSound, Planned
<1> QED
  BY <1>1, BatchInit, BatchStep, PTL

-----------------------------------------------------------------------------
(* What crosses the wall of a sandbox, and what a client sends to whom, each   *)
(* for every input.                                                          *)
Launch == INSTANCE SessionLaunch
ClientRule == INSTANCE ClientRules

\* Whatever is asked of the egress proxy and whatever hosts are allowed, it writes
\* at most one status, first; none at all only for a request that is malformed, where
\* an exception ends the handler (egress.py:369, 417, 438, 466); and 200 only to a
\* client that is authorized, for a host that the list permits and that has a public
\* address which accepts: no other request is relayed or tunnelled.
THEOREM ProxyAnswersOnce ==
  ASSUME NEW Label, NEW r, r.host \in Seq(Label), r.auth \in {"open", "ok", "wrong", "odd"},
         NEW allowed \in SUBSET Seq(Label)
  PROVE  Launch!AnsweredOnce(r, allowed)
<1> DEFINE a == Launch!Answer(r, allowed)
<1>1. /\ \A i \in DOMAIN a : a[i] # 0 <=> i = 1
      /\ a = <<>> => Launch!Malformed(r)
      /\ a # <<>> /\ a[1] = 200 =>
           /\ r.auth \in {"open", "ok"} /\ r.split /\ r.named /\ r.portOK
           /\ Launch!Permitted(r.host, allowed) /\ Launch!Connect(r.addresses) = "open"
  <2>1. CASE r.auth = "wrong"
    BY <2>1 DEF Launch!Answer
  <2>2. CASE r.auth # "wrong" /\ (r.auth = "odd" \/ ~r.split)
    BY <2>2 DEF Launch!Answer, Launch!Raised, Launch!Malformed
  <2>3. CASE r.auth \in {"open", "ok"} /\ r.split /\ ~Launch!Permitted(r.host, allowed)
    BY <2>3 DEF Launch!Answer
  <2>4. CASE r.auth \in {"open", "ok"} /\ r.split /\ Launch!Permitted(r.host, allowed)
    <3>1. CASE r.method = "CONNECT"
      <4>1. a = Launch!Tunnelled(r)
        BY <2>4, <3>1 DEF Launch!Answer
      <4> QED
        BY <2>4, <3>1, <4>1 DEF Launch!Tunnelled, Launch!Refused
    <3>2. CASE r.method # "CONNECT"
      <4>1. a = Launch!Forwarded(r)
        BY <2>4, <3>2 DEF Launch!Answer
      <4> QED
        BY <2>4, <3>2, <4>1 DEF Launch!Forwarded, Launch!Refused, Launch!Raised, Launch!Malformed, Launch!Cut
    <3> QED
      BY <3>1, <3>2
  <2> QED
    BY <2>1, <2>2, <2>3, <2>4
<1>2. Launch!Connect(r.addresses) = "open" => \E i \in DOMAIN r.addresses : r.addresses[i].public /\ r.addresses[i].up
  BY DEF Launch!Connect, Launch!Dialled
<1>3. \A e \in Seq(Label) : Launch!Suffix(e, e)
  BY DEF Launch!Suffix
<1>4. Launch!Permitted(r.host, allowed) => r.host # <<>> /\ \E e \in allowed : e = <<"*">> \/ Launch!Suffix(e, r.host)
  BY <1>3 DEF Launch!Permitted
<1> HIDE DEF a
<1> QED
  BY <1>1, <1>2, <1>4, Zenon DEF Launch!AnsweredOnce, Launch!Cut, a

\* Whatever keys are set, the client made for a model talks to the model's own
\* provider or to the gateway, each with the key of that service, only to the
\* gateway where that was asked for, and for a Bedrock profile only to Bedrock
\* (gateway.py:64).
THEOREM KeysStayHome ==
  ASSUME NEW provider \in {"anthropic", "openai", "gemini"}, NEW arn \in BOOLEAN, NEW gateway \in BOOLEAN, NEW keys
  PROVE  ClientRule!KeysAtHome(provider, arn, gateway, keys)
  BY DEF ClientRule!KeysAtHome, ClientRule!BuildModelClient, ClientRule!BuildGatewayClient

\* A tool's answer under the other spelling of its fields loses none of them, of
\* any message (mcp.py:82).
THEOREM FieldsStay ==
  ASSUME NEW data
  PROVE  ClientRule!FieldsKept(data)
<1> DEFINE c == ClientRule!Canonical(data)
<1>1. DOMAIN ClientRule!Alternate = {"isError", "structuredContent"}
  BY DEF ClientRule!Alternate
<1> QED
  BY DEF ClientRule!FieldsKept, ClientRule!Canonical, ClientRule!Alternate
=============================================================================
