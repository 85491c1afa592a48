-------------------------------- MODULE Rollout --------------------------------
(***************************************************************************)
(* One rollout (hud/eval/run.py): the coroutine that bounds it in time and  *)
(* the `_drive` task it waits for, which places the actor's environment,    *)
(* connects, runs the agent, grades, and - when the task has a verifier of  *)
(* its own - snapshots the actor, places the verifier and verifies.         *)
(*                                                                          *)
(* A step is what either coroutine does between two awaits.  The driver's   *)
(* `pos` is the await it sits in; an await ends normally, with an           *)
(* exception, or with the CancelledError of a pending task.cancel().        *)
(* Leaving the nested `async with` blocks is itself a series of awaits.     *)
(***************************************************************************)
EXTENDS Naturals

CONSTANTS
  Verifiers,  \* the verifiers a task may have: "none", "shared", "separate"
  Timeouts,   \* is there a rollout_timeout?  a set of BOOLEANs
  MayStall    \* may a peer stop answering without closing its connection?

ASSUME VerifiersAssumption == Verifiers \subseteq {"none", "shared", "separate"}
ASSUME TimeoutsAssumption == Timeouts \subseteq BOOLEAN
ASSUME MayStallAssumption == MayStall \in BOOLEAN

Role == {"actor", "verifier"}

VARIABLES
  verifier, \* task.verifier / task.shares_verifier_runtime
  timed,    \* rollout_timeout is not None
  pos,      \* the await `_drive` sits in
  exit,     \* how `_drive` is ending: "ok" until something was raised
  pending,  \* a driver.cancel() not yet delivered
  beat,     \* connect()'s heartbeat_error is set
  phase,    \* _phase
  run,      \* the nonlocal `run`: unbound, the live one, or Run.failed
  status,   \* run.trace.status
  stop,     \* run.trace.stop_reason
  grade,    \* who run.grade comes from
  client,   \* the nonlocal `client`
  link,     \* each client's transport and its `async with connect`
  sub,      \* each provider context
  outer,    \* where rollout() is
  expired,  \* rollout_expired
  seen,     \* the `phase` captured when the timeout fired
  asked,    \* rollout() itself was cancelled (bound: once)
  peer,     \* does the connected environment answer?
  task,     \* the actor environment's task
  lostStart, \* a tasks.start was sent and its answer not taken
  unsent    \* the last grade for the actor's environment never left the client

config == <<verifier, timed>>
driver == <<pos, exit, pending, beat>>
result == <<run, status, stop, grade>>
placed == <<link, sub>>
caller == <<outer, expired, seen, asked>>
environment == <<peer, task, lostStart, unsent>>
vars == <<config, driver, phase, result, client, placed, caller, environment>>

Plain == {"acquire", "connect", "start", "snapshot", "place", "connectV",
          "restore", "vstart", "vgrade"}
Positions == Plain \cup {"agent", "grade", "uncancel", "close", "release",
                         "shield", "done"}
InCall == {"start", "grade", "uncancel", "vstart", "vgrade"}
Phases == {"provisioning", "starting_task", "agent_loop", "grading", "verifying",
           "snapshotting_actor", "actor_cleanup", "provisioning_verifier", "cleanup"}
Over == {"returned", "raised", "crashed"}

Entered(c) == link[c] \in {"open", "aborted"}
Reachable(c) == link[c] = "open" /\ peer = "up"
Stuck(c) == link[c] = "open" /\ peer = "silent"
\* A grade whose frame is too large, or no JSON, raises before it is sent.
Unsendable == unsent /\ (pos = "grade" \/ (pos = "vgrade" /\ verifier = "shared"))
Hanging ==
  \/ pos \in InCall /\ ~Unsendable /\ \E c \in Role : Stuck(c)
  \/ pos \in {"connect", "connectV"} /\ peer = "silent"
Grader == IF verifier = "separate" THEN "verifier" ELSE "actor"

Init ==
  /\ verifier \in Verifiers /\ timed \in Timeouts
  /\ pos = "acquire" /\ exit = "ok" /\ pending = FALSE /\ beat = FALSE
  /\ phase = "provisioning"
  /\ run = "none" /\ status = "none" /\ stop = "none" /\ grade = "default"
  /\ client = "none"
  /\ link = [c \in Role |-> "none"] /\ sub = [c \in Role |-> "none"]
  /\ outer = "wait" /\ expired = FALSE /\ seen = "provisioning" /\ asked = FALSE
  /\ peer = "up" /\ task = "none" /\ lostStart = FALSE /\ unsent = FALSE

-----------------------------------------------------------------------------
(* Leaving the `async with` blocks                                           *)

\* The outer stack unwinds: the verifier's provider is exited in line, the
\* actor's by close_actor, in a task of its own that a cancellation spares.
LeaveScope(o) ==
  /\ exit' = o
  /\ IF sub["verifier"] = "up"
       THEN pos' = "release" /\ sub' = [sub EXCEPT !["verifier"] = "releasing"]
       ELSE /\ pos' = "shield"
            /\ sub' = [sub EXCEPT !["actor"] = IF @ = "up" THEN "releasing" ELSE @]

\* Whatever ends the body, an open client is closed first.
Leave(o) ==
  IF \E c \in Role : Entered(c)
    THEN /\ pos' = "close" /\ exit' = o /\ UNCHANGED sub
         /\ link' = [c \in Role |-> IF Entered(c) THEN "aborted" ELSE link[c]]
    ELSE LeaveScope(o) /\ UNCHANGED link

\* A tasks.start given up - in flight, or for its answer - may yet be carried out.
Abandon ==
  IF pos = "start" \/ (pos = "vstart" /\ verifier = "shared")
    THEN lostStart' = TRUE /\ task' \in {task, "live"}
    ELSE UNCHANGED <<lostStart, task>>

Fails ==
  /\ pos \in Plain /\ ~pending
  /\ ~Hanging
  /\ Leave("exc")
  /\ Abandon
  /\ UNCHANGED <<config, pending, beat, phase, result, client, caller, peer, unsent>>

Interrupted ==
  /\ pos \in Plain \cup {"grade", "uncancel"} /\ pending /\ pending' = FALSE
  /\ Leave("cancelled")
  /\ Abandon
  /\ UNCHANGED <<config, beat, phase, result, client, caller, peer, unsent>>

\* connect() turns the cancellation its heartbeat requested into that error.
Translated(o) == IF o = "cancelled" /\ beat THEN "exc" ELSE o

\* Closing ends - or is cut by a cancellation - and the driver goes on to the
\* actor's cleanup, or to its snapshot, or out.
Close ==
  /\ pos = "close"
  /\ pending' = FALSE /\ beat' = FALSE
  /\ link' = [c \in Role |-> IF Entered(c) THEN "closed" ELSE link[c]]
  /\ LET o == Translated(IF pending THEN "cancelled" ELSE exit) IN
     IF o = "ok" /\ Entered("actor") /\ verifier # "shared" /\ ~expired
       THEN /\ IF verifier = "none"
                 THEN /\ pos' = "release" /\ phase' = "actor_cleanup"
                      /\ sub' = [sub EXCEPT !["actor"] = "releasing"]
                 ELSE pos' = "snapshot" /\ phase' = "snapshotting_actor" /\ UNCHANGED sub
            /\ exit' = o
       ELSE LeaveScope(o) /\ UNCHANGED phase
  /\ UNCHANGED <<config, result, client, caller, environment>>

-----------------------------------------------------------------------------
(* The body of _drive                                                        *)

Acquire ==
  /\ pos = "acquire" /\ ~pending
  /\ pos' = "connect" /\ phase' = "starting_task"
  /\ sub' = [sub EXCEPT !["actor"] = "up"]
  /\ UNCHANGED <<config, exit, pending, beat, result, client, link, caller, environment>>

Connect ==
  /\ pos = "connect" /\ ~pending /\ ~Hanging
  /\ pos' = "start" /\ client' = "actor"
  /\ link' = [link EXCEPT !["actor"] = "open"]
  /\ UNCHANGED <<config, exit, pending, beat, phase, result, sub, caller, environment>>

\* The run is bound only once the task has started.
Start ==
  /\ pos = "start" /\ ~pending /\ Reachable("actor")
  /\ pos' = "agent" /\ phase' = "agent_loop"
  /\ run' = "live" /\ task' = "live"
  /\ UNCHANGED <<config, exit, pending, beat, status, stop, grade, client, placed, caller,
                 peer, lostStart, unsent>>

\* A request that reaches the environment is carried out even if the
\* connection drops before the answer.
Send(outcome) == task' = IF task = "live" /\ Reachable("actor") THEN outcome ELSE task

\* tasks.grade carries the answer: client.py encodes it before it writes.
AskForGrade ==
  \/ Send("graded") /\ UNCHANGED unsent
  \/ unsent' = TRUE /\ UNCHANGED task

\* The agent returns, runs into its own deadline, or raises; Run.__aexit__
\* grades in every case.
AgentEnds ==
  /\ pos = "agent" /\ ~pending
  /\ pos' = "grade" /\ AskForGrade
  /\ \/ phase' = "grading" /\ UNCHANGED <<exit, status, stop>>
     \/ phase' = "grading" /\ status' = "error" /\ stop' = "timeout" /\ UNCHANGED exit
     \/ /\ status' = "error" /\ UNCHANGED stop
        /\ IF verifier = "none" THEN exit' = "exc" /\ UNCHANGED phase
                                ELSE phase' = "grading" /\ UNCHANGED exit
  /\ UNCHANGED <<config, pending, beat, run, grade, client, placed, caller, peer, lostStart>>

Interruption_Cancelled == "cancelled"

Interruption == IF stop = "timeout" THEN "error" ELSE "cancelled"

AgentInterrupted ==
  /\ pos = "agent" /\ pending /\ pending' = FALSE
  /\ pos' = "uncancel" /\ exit' = "cancelled" /\ Send("cancelled")
  /\ status' = Interruption
  /\ UNCHANGED <<config, beat, phase, run, stop, grade, client, placed, caller, peer,
                 lostStart, unsent>>

Uncancelled ==
  /\ pos = "uncancel" /\ ~pending /\ ~Hanging
  /\ Leave("cancelled")
  /\ UNCHANGED <<config, pending, beat, phase, result, client, caller, environment>>

LeaveRun_KeepsGrade(g) ==
  /\ grade' = g
  /\ IF exit = "ok" /\ verifier = "shared"
       THEN pos' = "vstart" /\ phase' = "verifying" /\ UNCHANGED <<exit, placed>>
       ELSE Leave(exit) /\ UNCHANGED phase

\* What follows `async with live`: the verifier, once there is one, is the
\* only authority on the grade.
LeaveRun(g) ==
  /\ grade' = IF verifier = "none" THEN g ELSE "default"
  /\ IF exit = "ok" /\ verifier = "shared"
       THEN pos' = "vstart" /\ phase' = "verifying" /\ UNCHANGED <<exit, placed>>
       ELSE Leave(exit) /\ UNCHANGED phase

\* An earlier error - the agent's timeout, say - is not covered up.
Completed == IF status = "none" THEN "completed" ELSE status

Graded ==
  /\ pos = "grade" /\ ~pending /\ Reachable("actor") /\ task = "graded" /\ ~unsent
  /\ status' = Completed
  /\ LeaveRun("actor")
  /\ UNCHANGED <<config, pending, beat, run, stop, client, caller, environment>>

BestEffort == exit = "exc" \/ verifier # "none"

GradeFails ==
  /\ pos = "grade" /\ ~pending /\ ~Hanging
  /\ IF BestEffort THEN status' = "error" /\ LeaveRun("error")
                   ELSE Leave("exc") /\ UNCHANGED <<status, grade, phase>>
  /\ UNCHANGED <<config, pending, beat, run, stop, client, caller, environment>>

\* _verify, on the actor's connection or on the verifier's own: the start's
\* answer is taken and the grade sent, or too large to send.
VerifyStarts ==
  /\ pos = "vstart" /\ ~pending /\ Reachable(Grader)
  /\ pos' = "vgrade"
  /\ IF verifier = "separate"
       THEN UNCHANGED <<task, unsent>>
       ELSE /\ unsent' \in BOOLEAN
            /\ task' = (IF unsent' THEN "live" ELSE "graded") \/ (outer # "wait" /\ task' = "cancelled")
  /\ UNCHANGED <<config, exit, pending, beat, phase, result, client, placed, caller,
                 peer, lostStart>>

Verified ==
  /\ pos = "vgrade" /\ ~pending /\ Reachable(Grader)
  /\ verifier = "shared" => task = "graded" /\ ~unsent
  /\ grade' = "verifier" /\ phase' = "cleanup"
  /\ Leave("ok")
  /\ UNCHANGED <<config, pending, beat, run, status, stop, client, caller, environment>>

Snapshot ==
  /\ pos = "snapshot" /\ ~pending
  /\ pos' = "release" /\ phase' = "actor_cleanup"
  /\ sub' = [sub EXCEPT !["actor"] = "releasing"]
  /\ UNCHANGED <<config, exit, pending, beat, result, client, link, caller, environment>>

\* `if rollout_expired: return` after the actor's cleanup, or place the verifier.
PlaceVerifier ==
  IF expired THEN pos' = "shield" /\ UNCHANGED phase
             ELSE pos' = "place" /\ phase' = "provisioning_verifier"

ReleasedBy(c) == sub' = [sub EXCEPT ![c] = "released"]

ActorCleanup ==
  /\ pos = "release" /\ ~pending /\ sub["actor"] = "releasing"
  /\ ReleasedBy("actor")
  /\ IF verifier = "none" THEN pos' = "shield" /\ phase' = "cleanup" /\ UNCHANGED client
                          ELSE client' = "none" /\ PlaceVerifier
  /\ UNCHANGED <<config, exit, pending, beat, result, link, caller, environment>>

VerifierCleanup ==
  /\ pos = "release" /\ ~pending /\ sub["verifier"] = "releasing"
  /\ ReleasedBy("verifier") /\ pos' = "shield"
  /\ UNCHANGED <<config, exit, pending, beat, phase, result, client, link, caller, environment>>

\* A provider's own teardown may raise ...
CleanupFails ==
  /\ pos = "release" /\ ~pending
  /\ pos' = "shield" /\ exit' = "exc"
  /\ \E c \in Role : sub[c] = "releasing" /\ ReleasedBy(c)
  /\ UNCHANGED <<config, pending, beat, phase, result, client, link, caller, environment>>

\* ... and, awaited in line, it is cut by a cancellation.
CleanupCut ==
  /\ pos = "release" /\ pending /\ pending' = FALSE
  /\ pos' = "shield" /\ exit' = "cancelled"
  /\ sub' = [c \in Role |-> IF sub[c] = "releasing" THEN "cut" ELSE sub[c]]
  /\ UNCHANGED <<config, beat, phase, result, client, link, caller, environment>>

Place ==
  /\ pos = "place" /\ ~pending
  /\ pos' = "connectV" /\ sub' = [sub EXCEPT !["verifier"] = "up"]
  /\ UNCHANGED <<config, exit, pending, beat, phase, result, client, link, caller, environment>>

BeginVerifying == pos' = "vstart" /\ client' = "verifier" /\ phase' = "verifying"

ConnectVerifier ==
  /\ pos = "connectV" /\ ~pending /\ ~Hanging
  /\ link' = [link EXCEPT !["verifier"] = "open"]
  /\ \/ BeginVerifying
     \/ pos' = "restore" /\ UNCHANGED <<client, phase>>
  /\ UNCHANGED <<config, exit, pending, beat, result, sub, caller, environment>>

Restore ==
  /\ pos = "restore" /\ ~pending
  /\ BeginVerifying
  /\ UNCHANGED <<config, exit, pending, beat, result, placed, caller, environment>>

\* close_actor's task, which runs whether or not the driver still waits for it.
ShieldedCleanup ==
  /\ pos \in {"shield", "done"} /\ sub["actor"] = "releasing"
  /\ ReleasedBy("actor")
  /\ IF pos = "shield" THEN exit' \in {exit, "exc"} ELSE UNCHANGED exit
  /\ UNCHANGED <<config, pos, pending, beat, phase, result, client, link, caller, environment>>

DriverEnds ==
  /\ pos = "shield" /\ (pending \/ sub["actor"] # "releasing")
  /\ pos' = "done" /\ pending' = FALSE
  /\ exit' = IF pending THEN "cancelled" ELSE exit
  /\ UNCHANGED <<config, beat, phase, result, client, placed, caller, environment>>

-----------------------------------------------------------------------------
(* The heartbeat of connect(), and its peer                                  *)

PeerStalls ==
  /\ MayStall /\ peer = "up" /\ peer' = "silent"
  /\ UNCHANGED <<config, driver, phase, result, client, placed, caller, task, lostStart,
                 unsent>>

\* The heartbeat shares the call lock: it can only notice a silent peer while
\* no other call is waiting for an answer.
HeartbeatFails(at) ==
  /\ pos \in at /\ ~beat
  /\ \E c \in Role : Stuck(c) /\ link' = [link EXCEPT ![c] = "aborted"]
  /\ beat' = TRUE /\ pending' = TRUE
  /\ UNCHANGED <<config, pos, exit, phase, result, client, sub, caller, environment>>

Heartbeat == HeartbeatFails({"agent", "restore"})
\* In "uncancel" whichever of the two calls was first holds the lock.
HeartbeatFirst == HeartbeatFails({"uncancel"})

-----------------------------------------------------------------------------
(* rollout()                                                                 *)

\* driver.cancel(): nothing happens to a task that has ended.
CancelDriver == pending' = (pos # "done")

BindFailed == run' = IF run = "none" THEN "failed" ELSE run

Await ==
  /\ outer = "wait" /\ pos = "done" /\ exit # "cancelled"
  /\ outer' = "reporting"
  /\ IF exit = "exc" THEN status' = "error" /\ BindFailed ELSE UNCHANGED <<status, run>>
  /\ UNCHANGED <<config, driver, phase, stop, grade, client, placed, expired, seen, asked,
                 environment>>

\* `except asyncio.CancelledError`: cancel the task first if there is a client.
Bail ==
  /\ UNCHANGED <<config, pos, exit, beat, phase, result, client, placed, expired, seen,
                 environment>>
  /\ IF client = "none" THEN outer' = "raised" /\ CancelDriver
                        ELSE outer' = "bailing" /\ UNCHANGED pending

AwaitCancelled ==
  /\ outer = "wait" /\ pos = "done" /\ exit = "cancelled"
  /\ Bail /\ UNCHANGED asked

TimedOut_CancelsAlways(during) ==
  /\ outer' = "reporting" /\ CancelDriver
  /\ status' = "error" /\ stop' = "timeout" /\ BindFailed

TimedOut(during) ==
  /\ outer' = "reporting"
  /\ IF during \in {"actor_cleanup", "cleanup"} THEN UNCHANGED pending ELSE CancelDriver
  /\ status' = "error" /\ stop' = "timeout" /\ BindFailed

Deadline ==
  /\ timed /\ outer = "wait" /\ pos # "done"
  /\ expired' = TRUE /\ seen' = phase
  /\ IF client = "none"
       THEN TimedOut(phase)
       ELSE /\ outer' = "cancelling"
            /\ stop' = IF run = "live" THEN "timeout" ELSE stop
            /\ UNCHANGED <<pending, status, run>>
  /\ UNCHANGED <<config, pos, exit, beat, phase, grade, client, placed, asked, environment>>

CancelTask_Skipped == UNCHANGED task

CancelTask_Unbounded ==
  /\ client # "none" => ~Stuck(client) /\ pos \notin InCall
  /\ UNCHANGED task

\* wait_for(client.cancel(), 2.0): the request goes out, or the call lock, the
\* peer or the transport makes it fail.
CancelTask ==
  IF client # "none" /\ Reachable(client) /\ pos \notin InCall
    THEN IF client = "actor" THEN Send("cancelled") ELSE UNCHANGED task
    ELSE UNCHANGED task

Abort == link' = [c \in Role |-> IF c = client /\ link[c] = "open" THEN "aborted" ELSE link[c]]

\* `client` is read again after the wait, `phase` is not.
TimeoutCancelled ==
  /\ outer = "cancelling" /\ CancelTask
  /\ IF client = "none"
       THEN outer' = "reporting" /\ status' = "error" /\ UNCHANGED <<pending, stop, run, link>>
       ELSE Abort /\ TimedOut(seen)
  /\ UNCHANGED <<config, pos, exit, beat, phase, grade, client, sub, expired, seen, asked,
                 peer, lostStart, unsent>>

BailCancelled ==
  /\ outer = "bailing" /\ CancelTask
  /\ IF client = "none"
       THEN outer' = "crashed" /\ UNCHANGED <<pending, link>>
       ELSE outer' = "raised" /\ Abort /\ CancelDriver
  /\ UNCHANGED <<config, pos, exit, beat, phase, result, client, sub, expired, seen, asked,
                 peer, lostStart, unsent>>

\* rollout() is cancelled.  Awaiting the driver itself, that cancels the
\* driver; in asyncio.wait() it does not.
Cancelled ==
  /\ ~asked /\ asked' = TRUE
  /\ \/ outer = "wait" /\ ~timed /\ pos # "done" /\ CancelDriver
        /\ UNCHANGED <<config, pos, exit, beat, phase, result, client, placed, outer, expired,
                       seen, environment>>
     \/ outer = "wait" /\ (timed \/ pos = "done") /\ Bail
     \/ outer = "cancelling" /\ Bail
     \/ outer = "reporting" /\ outer' = "raised"
        /\ UNCHANGED <<config, driver, phase, result, client, placed, expired, seen,
                       environment>>

Report ==
  /\ outer = "reporting" /\ outer' = "returned"
  /\ UNCHANGED <<config, driver, phase, result, client, placed, expired, seen, asked,
                 environment>>

-----------------------------------------------------------------------------
Drive ==
  \/ Acquire \/ Connect \/ Start \/ AgentEnds \/ AgentInterrupted \/ Uncancelled
  \/ Graded \/ GradeFails \/ VerifyStarts \/ Verified \/ Snapshot
  \/ ActorCleanup \/ VerifierCleanup \/ CleanupFails \/ CleanupCut
  \/ Place \/ ConnectVerifier \/ Restore \/ Fails \/ Interrupted \/ Close
  \/ DriverEnds

Settle == Await \/ AwaitCancelled \/ TimeoutCancelled \/ BailCancelled \/ Report

Next ==
  \/ Drive \/ ShieldedCleanup \/ PeerStalls \/ Heartbeat \/ HeartbeatFirst
  \/ Settle \/ Deadline \/ Cancelled

Spec == Init /\ [][Next]_vars

\* Providers, the agent and answering peers come to an end; timers fire; the
\* heartbeat notices a silent peer when nothing else holds the call lock.
Fairness ==
  /\ WF_vars(Drive) /\ WF_vars(ShieldedCleanup) /\ WF_vars(Heartbeat)
  /\ WF_vars(Settle) /\ WF_vars(Deadline)
FairSpec == Spec /\ Fairness
-----------------------------------------------------------------------------
(* Properties                                                                *)

\* What rollout() is about to return, or has returned.
Settled == outer \in {"reporting", "returned"}

\* A run is handed back as completed with the grade of whoever has the last
\* word on it, the verifier when there is one and the actor's environment
\* otherwise (run.py:580); an actor's grade never survives into a run with a
\* verifier; and whoever ran into a timeout is handed back as an error, also
\* when it was graded - however timeouts, cancellations and failures fell.
OutcomeHonest ==
  /\ Settled /\ status = "completed" =>
       grade = IF verifier = "none" THEN "actor" ELSE "verifier"
  /\ verifier # "none" => grade \in {"default", "verifier"}
  /\ Settled /\ stop = "timeout" => status = "error"

\* From the moment a run is reported it is final: the driver may still be
\* unwinding, but no longer writes its outcome (run.py:627), and once the rollout
\* has returned it places no verifier any more (run.py:604).
ReturnedIsFinal ==
  [][/\ Settled => UNCHANGED <<run, status, stop, grade>>
     /\ outer = "returned" /\ sub["verifier"] = "none" => sub'["verifier"] = "none"]_vars

\* Once the driver has ended, an answering environment holds no live task of
\* the rollout - a robot slot, say - unless the answer to its tasks.start was
\* never taken (run.py:634) or the grade was too large a frame to be sent
\* (client.py:343), and then no run of it is handed back as completed: nothing but
\* the grade or a cancellation ends a task, a closing client says no goodbye.
NoTaskLeft ==
  pos = "done" /\ peer = "up" /\ task = "live" =>
    \/ lostStart
    \/ unsent /\ (Settled => status # "completed")

\* A provider's teardown is only cut by cancelling the rollout itself or, on a
\* timeout, in the part of the driver that follows the actor's session
\* of a separately placed verifier.
TeardownCutOnlyLate ==
  (\E c \in Role : sub[c] = "cut") => asked \/ (expired /\ verifier = "separate")

\* What a rollout leaves behind: no live task with an environment that answers, and
\* no provider whose teardown was cut by a deadline that could have waited.
CleanedUp == NoTaskLeft /\ TeardownCutOnlyLate

\* A rollout with a timeout ends, whatever its peers do.
TimedRolloutEnds == timed ~> outer \in Over
=============================================================================
