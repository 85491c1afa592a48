---------------------------- MODULE RolloutProofs ----------------------------
(* Why a rollout's outcome is honest and final, why its teardown is only cut   *)
(* late and why it leaves no task behind: where the driver may be, what its    *)
(* connections and providers are then, and who may have cancelled it.  Why a   *)
(* Harbor session finds the box and the services of its own task.  Why the     *)
(* rules that go through a sequence hold for one of any length.                *)
EXTENDS Rollout, HarborServing, FiniteSetTheorems, SequenceTheorems, WellFoundedInduction, TLAPS

Typed ==
  /\ verifier \in {"none", "shared", "separate"}
  /\ pos \in Positions /\ exit \in {"ok", "exc", "cancelled"}
  /\ pending \in BOOLEAN /\ beat \in BOOLEAN /\ expired \in BOOLEAN /\ asked \in BOOLEAN
  /\ client \in {"none"} \cup Role
  /\ link \in [Role -> {"none", "open", "aborted", "closed"}]
  /\ sub \in [Role -> {"none", "up", "releasing", "released", "cut"}]
  /\ outer \in {"wait", "reporting", "cancelling", "bailing"} \cup Over

\* The positions on the way out, which write no result any more.
Out == {"close", "release", "shield", "done"}
\* Those that come before a verifier has been placed.
Before == {"acquire", "connect", "start", "agent", "grade", "uncancel", "snapshot", "place"}

\* A verifier is placed after the actor has been released and its connection
\* closed, and only where the task asks for one of its own.
Scoped ==
  /\ pos \in {"start", "agent", "grade", "uncancel"} => Entered("actor")
  /\ pos \in {"snapshot", "place", "connectV", "restore"} => verifier = "separate"
  /\ pos \in {"vstart", "vgrade"} => verifier # "none"
  /\ pos = "release" => verifier # "shared"
  /\ pos \in {"snapshot", "release", "place", "connectV", "restore"} => ~Entered("actor")
  /\ pos \in {"vstart", "vgrade"} /\ verifier = "separate" => ~Entered("actor")
  /\ sub["verifier"] # "none" =>
       verifier = "separate" /\ sub["actor"] = "released" /\ ~Entered("actor")
  /\ pos \in Before => sub["verifier"] = "none"
  /\ pos = "place" => sub["actor"] = "released"

\* With a verifier, a driver that ends well has its grade, or is still to place
\* it; without one, a completed run has the actor's.
Honest ==
  /\ verifier # "none" => grade \in {"default", "verifier"}
  /\ verifier = "none" /\ status = "completed" => grade = "actor"
  /\ exit = "ok" /\ ~expired /\ verifier # "none" /\ pos \in Out =>
       \/ grade = "verifier"
       \/ pos = "close" /\ verifier = "separate" /\ Entered("actor")
       \/ pos = "release" /\ verifier = "separate" /\ sub["actor"] = "releasing"
  /\ Settled /\ status = "completed" /\ verifier # "none" => grade = "verifier"

\* After a deadline the driver is on its way out, or has been told to be, before
\* anything is reported; until then only the agent's own timeout is an error.
Quiet == pos \in Out \cup {"uncancel"} \/ pending
Cleaning == {"actor_cleanup", "cleanup"}

Leaving ==
  /\ outer = "wait" => ~expired
  /\ outer = "cancelling" => expired
  /\ phase \in Cleaning => pos \in Out
  /\ expired /\ seen \in Cleaning => pos \in Out
  /\ outer = "cancelling" /\ client = "none" => pos \in {"shield", "done"}

Final ==
  /\ Settled => pos = "done" \/ (expired /\ Quiet)
  /\ Settled /\ expired => status = "error"
  /\ Settled /\ pos = "agent" => stop = "timeout"
  /\ ~expired /\ stop = "timeout" => status = "error"

\* A cancellation that is met while a provider is released is the caller's, or
\* the deadline's in the release that a verifier of its own is placed by.
CutLate ==
  /\ TeardownCutOnlyLate
  /\ pos = "release" /\ verifier # "separate" =>
       phase = "actor_cleanup" /\ (expired => seen = "actor_cleanup")
  /\ pending /\ pos \notin {"agent", "restore", "uncancel", "close", "done"} => asked \/ expired
  /\ pending /\ pos = "release" /\ verifier # "separate" => asked
  /\ outer = "bailing" => asked \/ pos = "done"

\* A live task is the one its agent works on over an open connection, but for
\* the starts nobody took the answer of and the grades that could not be sent.
Held ==
  peer = "up" /\ task = "live" /\ ~lostStart /\ ~unsent => pos = "agent" /\ link["actor"] = "open"

\* A grade that could not be sent fails the run it belongs to.
Failed ==
  /\ pos \in {"acquire", "connect", "start", "agent"} => ~unsent
  /\ unsent =>
       \/ pos = "grade"
       \/ pos = "vgrade" /\ verifier = "shared"
       \/ status = "error"
       \/ exit # "ok" /\ pos \in Out \cup {"uncancel"}
  /\ Settled /\ unsent => status = "error"
  /\ pos = "snapshot" \/ (pos = "release" /\ sub["actor"] = "releasing") => exit = "ok"

\* What leaving the blocks comes to.
LEMMA Leaves ==
  ASSUME Typed, Scoped, NEW o \in {"ok", "exc", "cancelled"}, Leave(o)
  PROVE  /\ exit' = o /\ pos' \in {"close", "release", "shield"}
         /\ \/ /\ pos' = "close" /\ sub' = sub /\ \E c \in Role : Entered(c)
               /\ link' = [c \in Role |-> IF Entered(c) THEN "aborted" ELSE link[c]]
            \/ /\ pos' # "close" /\ link' = link /\ \A c \in Role : ~Entered(c)
               /\ pos' = "release" => sub["verifier"] = "up"
         /\ sub' \in [Role -> {"none", "up", "releasing", "released", "cut"}]
         /\ sub'["verifier"] = (IF pos' = "release" THEN "releasing" ELSE sub["verifier"])
         /\ sub["actor"] = "released" => sub'["actor"] = "released"
         /\ \A c \in Role : sub'[c] = "cut" => sub[c] = "cut"
<1>1. CASE \E c \in Role : Entered(c)
  BY <1>1 DEF Leave, Typed
<1>2. CASE ~\E c \in Role : Entered(c)
  BY <1>2 DEF Leave, LeaveScope, Typed, Role
<1> QED
  BY <1>1, <1>2

\* The same of the outer blocks alone.
LEMMA LeavesScope ==
  ASSUME Typed, NEW o \in {"ok", "exc", "cancelled"}, LeaveScope(o)
  PROVE  /\ exit' = o /\ pos' \in {"release", "shield"}
         /\ pos' = "release" => sub["verifier"] = "up"
         /\ sub' \in [Role -> {"none", "up", "releasing", "released", "cut"}]
         /\ sub'["verifier"] = (IF pos' = "release" THEN "releasing" ELSE sub["verifier"])
         /\ sub["actor"] = "released" => sub'["actor"] = "released"
         /\ \A c \in Role : sub'[c] = "cut" => sub[c] = "cut"
BY DEF LeaveScope, Typed, Role

\* Every step keeps the variables in their sets.
LEMMA TypedStep == Typed /\ Scoped /\ [Next]_vars => Typed'
<1> SUFFICES ASSUME Typed, Scoped, [Next]_vars PROVE Typed'
  OBVIOUS
<1> DEFINE exits == {"ok", "exc", "cancelled"}
<1>1. CASE UNCHANGED vars
  BY <1>1 DEF vars, config, driver, result, placed, caller, environment, Typed
<1>2. CASE Acquire \/ Connect \/ Start \/ AgentEnds \/ AgentInterrupted \/ VerifyStarts \/ Snapshot
  BY <1>2 DEF Acquire, Connect, Start, AgentEnds, AgentInterrupted, VerifyStarts, Snapshot,
              config, result, placed, caller, environment, Typed, Positions, Plain, Role
<1>3. CASE ActorCleanup \/ VerifierCleanup \/ CleanupFails \/ CleanupCut
  BY <1>3 DEF ActorCleanup, PlaceVerifier, ReleasedBy, VerifierCleanup, CleanupFails,
     CleanupCut, config, result, placed, caller, environment, Typed, Positions, Plain, Role
<1>4. CASE Place \/ ConnectVerifier \/ Restore \/ ShieldedCleanup \/ DriverEnds \/ PeerStalls
  BY <1>4 DEF Place, ConnectVerifier, Restore, BeginVerifying, ReleasedBy, ShieldedCleanup,
     DriverEnds, PeerStalls, config, driver, result, placed, caller, environment, Typed,
     Positions, Plain, Role
<1>5. CASE Heartbeat \/ HeartbeatFirst
  BY <1>5 DEF Heartbeat, HeartbeatFirst, HeartbeatFails, config, result, caller,
     environment, Typed
<1>6. CASE Await \/ AwaitCancelled \/ Report \/ Cancelled \/ Deadline
  BY <1>6 DEF Await, AwaitCancelled, Report, Cancelled, Bail, CancelDriver, Deadline, TimedOut,
              config, driver, result, placed, caller, environment, Typed, Over
<1>7. CASE TimeoutCancelled \/ BailCancelled
  BY <1>7 DEF TimeoutCancelled, BailCancelled, TimedOut, CancelDriver, Abort,
              config, driver, result, placed, caller, environment, Typed, Over
<1>8. CASE Fails \/ Interrupted \/ Uncancelled \/ Verified
  BY <1>8, Leaves DEF Fails, Interrupted, Uncancelled, Verified,
              config, driver, result, placed, caller, environment, Typed, Positions
<1>9. CASE Graded \/ GradeFails
  BY <1>9, Leaves DEF Graded, GradeFails, LeaveRun,
              config, driver, result, placed, caller, environment, Typed, Positions, Plain
<1>10. CASE Close
  BY <1>10, LeavesScope DEF Close, Translated, config, driver, result, placed, caller,
     environment, Typed, Positions, Plain, Role
<1> QED
  BY <1>1, <1>2, <1>3, <1>4, <1>5, <1>6, <1>7, <1>8, <1>9, <1>10 DEF Next, Drive, Settle

\* Every step keeps the scopes.
LEMMA ScopedStep == Typed /\ Scoped /\ [Next]_vars => Scoped'
<1> SUFFICES ASSUME Typed, Scoped, [Next]_vars PROVE Scoped'
  OBVIOUS
<1>1. CASE UNCHANGED vars
  BY <1>1 DEF vars, Scoped, Before, Entered, config, driver, result, placed, caller,
     environment, Typed, Role, Positions, Plain, InCall, Over
<1>2. CASE Acquire \/ Connect \/ Start \/ AgentEnds \/ AgentInterrupted
  BY <1>2 DEF Acquire, Connect, Start, AgentEnds, AgentInterrupted, Send, Reachable,
     Interruption, Scoped, Before, Entered, config, driver, result, placed, caller,
     environment, Typed, Role, Positions, Plain, InCall, Over
<1>3. CASE VerifyStarts \/ Snapshot \/ Place \/ ConnectVerifier \/ Restore
  BY <1>3 DEF VerifyStarts, Snapshot, Place, ConnectVerifier, Restore, BeginVerifying,
     Reachable, Grader, Scoped, Before, Entered, config, driver, result, placed, caller,
     environment, Typed, Role, Positions, Plain, InCall, Over
<1>4. CASE ActorCleanup \/ VerifierCleanup \/ CleanupFails \/ CleanupCut
  BY <1>4 DEF ActorCleanup, PlaceVerifier, ReleasedBy, VerifierCleanup, CleanupFails,
     CleanupCut, Scoped, Before, Entered, config, driver, result, placed, caller,
     environment, Typed, Role, Positions, Plain, InCall, Over
<1>5. CASE ShieldedCleanup \/ DriverEnds \/ PeerStalls
  BY <1>5 DEF ReleasedBy, ShieldedCleanup, DriverEnds, PeerStalls, Scoped, Before, Entered,
     config, driver, result, placed, caller, environment, Typed, Role, Positions, Plain,
     InCall, Over
<1>6. CASE Heartbeat \/ HeartbeatFirst
  BY <1>6 DEF Heartbeat, HeartbeatFirst, HeartbeatFails, Stuck, Scoped, Before, Entered,
     config, driver, result, placed, caller, environment, Typed, Role, Positions, Plain,
     InCall, Over
<1>7. CASE Await \/ AwaitCancelled \/ Report \/ Cancelled
  BY <1>7 DEF Await, AwaitCancelled, Report, Cancelled, Bail, CancelDriver, BindFailed,
     Scoped, Before, Entered, config, driver, result, placed, caller, environment, Typed,
     Role, Positions, Plain, InCall, Over
<1>8. CASE Deadline
  BY <1>8 DEF Deadline, TimedOut, CancelDriver, BindFailed, Scoped, Before, Entered, config,
     driver, result, placed, caller, environment, Typed, Role, Positions, Plain, InCall,
     Over
<1>9. CASE TimeoutCancelled \/ BailCancelled
  BY <1>9 DEF TimeoutCancelled, BailCancelled, TimedOut, CancelDriver, BindFailed, Abort,
     CancelTask, Send, Reachable, Scoped, Before, Entered, config, driver, result, placed,
     caller, environment, Typed, Role, Positions, Plain, InCall, Over
<1>10. CASE Fails \/ Interrupted \/ Uncancelled \/ Verified
  BY <1>10, Leaves DEF Fails, Interrupted, Uncancelled, Verified, Abandon, Reachable,
     Scoped, Before, Entered, config, driver, result, placed, caller, environment, Typed,
     Role, Positions, Plain, InCall, Over
<1>11. CASE Graded \/ GradeFails
  BY <1>11, Leaves DEF Graded, GradeFails, LeaveRun, BestEffort, Completed, Reachable,
     Scoped, Before, Entered, config, driver, result, placed, caller, environment, Typed,
     Role, Positions, Plain, InCall, Over
<1>12. CASE Close
  BY <1>12, LeavesScope DEF Close, Translated, Scoped, Before, Entered, config, driver,
     result, placed, caller, environment, Typed, Role, Positions, Plain, InCall, Over
<1> QED
  BY <1>1, <1>2, <1>3, <1>4, <1>5, <1>6, <1>7, <1>8, <1>9, <1>10, <1>11, <1>12 DEF Next,
     Drive, Settle


\* Every step keeps the driver on its way out.
LEMMA LeavingStep == Typed /\ Scoped /\ Leaving /\ [Next]_vars => Leaving'
<1> SUFFICES ASSUME Typed, Scoped, Leaving, [Next]_vars PROVE Leaving'
  OBVIOUS
<1>1. CASE UNCHANGED vars
  BY <1>1 DEF vars, Leaving, Out, Cleaning, config, driver, result, placed, caller,
     environment, Typed, Role, Positions, Plain, InCall, Over, Scoped
<1>2. CASE Acquire \/ Connect \/ Start \/ AgentEnds \/ AgentInterrupted
  BY <1>2 DEF Acquire, Connect, Start, AgentEnds, AgentInterrupted, Send, Reachable,
     Interruption, Leaving, Out, Cleaning, config, driver, result, placed, caller,
     environment, Typed, Role, Positions, Plain, InCall, Over, Scoped
<1>3. CASE VerifyStarts \/ Snapshot \/ Place \/ ConnectVerifier \/ Restore
  BY <1>3 DEF VerifyStarts, Snapshot, Place, ConnectVerifier, Restore, BeginVerifying,
     Reachable, Grader, Leaving, Out, Cleaning, config, driver, result, placed, caller,
     environment, Typed, Role, Positions, Plain, InCall, Over, Scoped
<1>4. CASE ActorCleanup \/ VerifierCleanup \/ CleanupFails \/ CleanupCut
  BY <1>4 DEF ActorCleanup, PlaceVerifier, ReleasedBy, VerifierCleanup, CleanupFails,
     CleanupCut, Leaving, Out, Cleaning, config, driver, result, placed, caller,
     environment, Typed, Role, Positions, Plain, InCall, Over, Scoped
<1>5. CASE ShieldedCleanup \/ DriverEnds \/ PeerStalls
  BY <1>5 DEF ReleasedBy, ShieldedCleanup, DriverEnds, PeerStalls, Leaving, Out, Cleaning,
     config, driver, result, placed, caller, environment, Typed, Role, Positions, Plain,
     InCall, Over, Scoped
<1>6. CASE Heartbeat \/ HeartbeatFirst
  BY <1>6 DEF Heartbeat, HeartbeatFirst, HeartbeatFails, Stuck, Leaving, Out, Cleaning,
     config, driver, result, placed, caller, environment, Typed, Role, Positions, Plain,
     InCall, Over, Scoped
<1>7. CASE Await \/ AwaitCancelled \/ Report \/ Cancelled
  BY <1>7 DEF Await, AwaitCancelled, Report, Cancelled, Bail, CancelDriver, BindFailed,
     Leaving, Out, Cleaning, config, driver, result, placed, caller, environment, Typed,
     Role, Positions, Plain, InCall, Over, Scoped
<1>8. CASE Deadline
  BY <1>8 DEF Deadline, TimedOut, CancelDriver, BindFailed, Leaving, Out, Cleaning, config,
     driver, result, placed, caller, environment, Typed, Role, Positions, Plain, InCall,
     Over, Scoped
<1>9. CASE TimeoutCancelled \/ BailCancelled
  BY <1>9 DEF TimeoutCancelled, BailCancelled, TimedOut, CancelDriver, BindFailed, Abort,
     CancelTask, Send, Reachable, Leaving, Out, Cleaning, config, driver, result, placed,
     caller, environment, Typed, Role, Positions, Plain, InCall, Over, Scoped
<1>10. CASE Fails \/ Interrupted \/ Uncancelled \/ Verified
  BY <1>10, Leaves DEF Fails, Interrupted, Uncancelled, Verified, Abandon, Reachable,
     Leaving, Out, Cleaning, config, driver, result, placed, caller, environment, Typed,
     Role, Positions, Plain, InCall, Over, Scoped
<1>11. CASE Graded \/ GradeFails
  BY <1>11, Leaves DEF Graded, GradeFails, LeaveRun, BestEffort, Completed, Reachable,
     Leaving, Out, Cleaning, config, driver, result, placed, caller, environment, Typed,
     Role, Positions, Plain, InCall, Over, Scoped
<1>12. CASE Close
  BY <1>12, LeavesScope DEF Close, Translated, Leaving, Out, Cleaning, config, driver,
     result, placed, caller, environment, Typed, Role, Positions, Plain, InCall, Over,
     Scoped
<1> QED
  BY <1>1, <1>2, <1>3, <1>4, <1>5, <1>6, <1>7, <1>8, <1>9, <1>10, <1>11, <1>12 DEF Next,
     Drive, Settle


\* Every step keeps a reported run final.
LEMMA FinalStep == Typed /\ Scoped /\ Leaving /\ Final /\ [Next]_vars => Final'
<1> SUFFICES ASSUME Typed, Scoped, Leaving, Final, [Next]_vars PROVE Final'
  OBVIOUS
<1>1. CASE UNCHANGED vars
  BY <1>1 DEF vars, Final, Out, Quiet, Cleaning, Settled, config, driver, result, placed,
     caller, environment, Typed, Role, Positions, Plain, InCall, Over, Scoped, Leaving
<1>2. CASE Acquire \/ Connect \/ Start \/ AgentEnds \/ AgentInterrupted
  BY <1>2 DEF Acquire, Connect, Start, AgentEnds, AgentInterrupted, Send, Reachable,
     Interruption, Final, Out, Quiet, Cleaning, Settled, config, driver, result, placed,
     caller, environment, Typed, Role, Positions, Plain, InCall, Over, Scoped, Leaving
<1>3. CASE VerifyStarts \/ Snapshot \/ Place \/ ConnectVerifier \/ Restore
  BY <1>3 DEF VerifyStarts, Snapshot, Place, ConnectVerifier, Restore, BeginVerifying,
     Reachable, Grader, Final, Out, Quiet, Cleaning, Settled, config, driver, result,
     placed, caller, environment, Typed, Role, Positions, Plain, InCall, Over, Scoped,
     Leaving
<1>4. CASE ActorCleanup \/ VerifierCleanup \/ CleanupFails \/ CleanupCut
  BY <1>4 DEF ActorCleanup, PlaceVerifier, ReleasedBy, VerifierCleanup, CleanupFails,
     CleanupCut, Final, Out, Quiet, Cleaning, Settled, config, driver, result, placed,
     caller, environment, Typed, Role, Positions, Plain, InCall, Over, Scoped, Leaving
<1>5. CASE ShieldedCleanup \/ DriverEnds \/ PeerStalls
  BY <1>5 DEF ReleasedBy, ShieldedCleanup, DriverEnds, PeerStalls, Final, Out, Quiet,
     Cleaning, Settled, config, driver, result, placed, caller, environment, Typed, Role,
     Positions, Plain, InCall, Over, Scoped, Leaving
<1>6. CASE Heartbeat \/ HeartbeatFirst
  BY <1>6 DEF Heartbeat, HeartbeatFirst, HeartbeatFails, Stuck, Final, Out, Quiet, Cleaning,
     Settled, config, driver, result, placed, caller, environment, Typed, Role, Positions,
     Plain, InCall, Over, Scoped, Leaving
<1>7. CASE Await \/ AwaitCancelled \/ Report \/ Cancelled
  BY <1>7 DEF Await, AwaitCancelled, Report, Cancelled, Bail, CancelDriver, BindFailed,
     Final, Out, Quiet, Cleaning, Settled, config, driver, result, placed, caller,
     environment, Typed, Role, Positions, Plain, InCall, Over, Scoped, Leaving
<1>8. CASE Deadline
  BY <1>8 DEF Deadline, TimedOut, CancelDriver, BindFailed, Final, Out, Quiet, Cleaning,
     Settled, config, driver, result, placed, caller, environment, Typed, Role, Positions,
     Plain, InCall, Over, Scoped, Leaving
<1>9. CASE TimeoutCancelled \/ BailCancelled
  BY <1>9 DEF TimeoutCancelled, BailCancelled, TimedOut, CancelDriver, BindFailed, Abort,
     CancelTask, Send, Reachable, Final, Out, Quiet, Cleaning, Settled, config, driver,
     result, placed, caller, environment, Typed, Role, Positions, Plain, InCall, Over,
     Scoped, Leaving
<1>10. CASE Fails \/ Interrupted \/ Uncancelled \/ Verified
  BY <1>10, Leaves DEF Fails, Interrupted, Uncancelled, Verified, Abandon, Reachable, Final,
     Out, Quiet, Cleaning, Settled, config, driver, result, placed, caller, environment,
     Typed, Role, Positions, Plain, InCall, Over, Scoped, Leaving
<1>11. CASE Graded \/ GradeFails
  BY <1>11, Leaves DEF Graded, GradeFails, LeaveRun, BestEffort, Completed, Reachable,
     Final, Out, Quiet, Cleaning, Settled, config, driver, result, placed, caller,
     environment, Typed, Role, Positions, Plain, InCall, Over, Scoped, Leaving
<1>12. CASE Close
  BY <1>12, LeavesScope DEF Close, Translated, Final, Out, Quiet, Cleaning, Settled, config,
     driver, result, placed, caller, environment, Typed, Role, Positions, Plain, InCall,
     Over, Scoped, Leaving
<1> QED
  BY <1>1, <1>2, <1>3, <1>4, <1>5, <1>6, <1>7, <1>8, <1>9, <1>10, <1>11, <1>12 DEF Next,
     Drive, Settle


\* Every step keeps the grade honest.
LEMMA HonestStep == Typed /\ Scoped /\ Leaving /\ Final /\ Honest /\ [Next]_vars => Honest'
<1> SUFFICES ASSUME Typed, Scoped, Leaving, Final, Honest, [Next]_vars PROVE Honest'
  OBVIOUS
<1>1. CASE UNCHANGED vars
  BY <1>1 DEF vars, Honest, Out, Entered, Settled, config, driver, result, placed, caller,
     environment, Typed, Role, Positions, Plain, InCall, Over, Scoped, Leaving, Final
<1>2. CASE Acquire \/ Connect \/ Start \/ AgentEnds \/ AgentInterrupted
  BY <1>2 DEF Acquire, Connect, Start, AgentEnds, AgentInterrupted, Send, Reachable,
     Interruption, Honest, Out, Entered, Settled, config, driver, result, placed, caller,
     environment, Typed, Role, Positions, Plain, InCall, Over, Scoped, Leaving, Final
<1>3. CASE VerifyStarts \/ Snapshot \/ Place \/ ConnectVerifier \/ Restore
  BY <1>3 DEF VerifyStarts, Snapshot, Place, ConnectVerifier, Restore, BeginVerifying,
     Reachable, Grader, Honest, Out, Entered, Settled, config, driver, result, placed,
     caller, environment, Typed, Role, Positions, Plain, InCall, Over, Scoped, Leaving,
     Final
<1>4. CASE ActorCleanup \/ VerifierCleanup \/ CleanupFails \/ CleanupCut
  BY <1>4 DEF ActorCleanup, PlaceVerifier, ReleasedBy, VerifierCleanup, CleanupFails,
     CleanupCut, Honest, Out, Entered, Settled, config, driver, result, placed, caller,
     environment, Typed, Role, Positions, Plain, InCall, Over, Scoped, Leaving, Final
<1>5. CASE ShieldedCleanup \/ DriverEnds \/ PeerStalls
  BY <1>5 DEF ReleasedBy, ShieldedCleanup, DriverEnds, PeerStalls, Honest, Out, Entered,
     Settled, config, driver, result, placed, caller, environment, Typed, Role, Positions,
     Plain, InCall, Over, Scoped, Leaving, Final
<1>6. CASE Heartbeat \/ HeartbeatFirst
  BY <1>6 DEF Heartbeat, HeartbeatFirst, HeartbeatFails, Stuck, Honest, Out, Entered,
     Settled, config, driver, result, placed, caller, environment, Typed, Role, Positions,
     Plain, InCall, Over, Scoped, Leaving, Final
<1>7. CASE Await \/ AwaitCancelled \/ Report \/ Cancelled
  BY <1>7 DEF Await, AwaitCancelled, Report, Cancelled, Bail, CancelDriver, BindFailed,
     Honest, Out, Entered, Settled, config, driver, result, placed, caller, environment,
     Typed, Role, Positions, Plain, InCall, Over, Scoped, Leaving, Final
<1>8. CASE Deadline
  BY <1>8 DEF Deadline, TimedOut, CancelDriver, BindFailed, Honest, Out, Entered, Settled,
     config, driver, result, placed, caller, environment, Typed, Role, Positions, Plain,
     InCall, Over, Scoped, Leaving, Final
<1>9. CASE TimeoutCancelled \/ BailCancelled
  BY <1>9 DEF TimeoutCancelled, BailCancelled, TimedOut, CancelDriver, BindFailed, Abort,
     CancelTask, Send, Reachable, Honest, Out, Entered, Settled, config, driver, result,
     placed, caller, environment, Typed, Role, Positions, Plain, InCall, Over, Scoped,
     Leaving, Final
<1>10. CASE Fails \/ Interrupted \/ Uncancelled \/ Verified
  BY <1>10, Leaves DEF Fails, Interrupted, Uncancelled, Verified, Abandon, Reachable,
     Honest, Out, Entered, Settled, config, driver, result, placed, caller, environment,
     Typed, Role, Positions, Plain, InCall, Over, Scoped, Leaving, Final
<1>11. CASE Graded \/ GradeFails
  BY <1>11, Leaves DEF Graded, GradeFails, LeaveRun, BestEffort, Completed, Reachable,
     Honest, Out, Entered, Settled, config, driver, result, placed, caller, environment,
     Typed, Role, Positions, Plain, InCall, Over, Scoped, Leaving, Final
<1>12. CASE Close
  BY <1>12, LeavesScope DEF Close, Translated, Honest, Out, Entered, Settled, config,
     driver, result, placed, caller, environment, Typed, Role, Positions, Plain, InCall,
     Over, Scoped, Leaving, Final
<1> QED
  BY <1>1, <1>2, <1>3, <1>4, <1>5, <1>6, <1>7, <1>8, <1>9, <1>10, <1>11, <1>12 DEF Next,
     Drive, Settle


\* Every step keeps cancellations away from the other teardowns.
LEMMA CutLateStep == Typed /\ Scoped /\ Leaving /\ CutLate /\ [Next]_vars => CutLate'
<1> SUFFICES ASSUME Typed, Scoped, Leaving, CutLate, [Next]_vars PROVE CutLate'
  OBVIOUS
<1>1. CASE UNCHANGED vars
  BY <1>1 DEF vars, CutLate, TeardownCutOnlyLate, config, driver, result, placed, caller,
     environment, Typed, Role, Positions, Plain, InCall, Over, Scoped, Leaving
<1>2. CASE Acquire \/ Connect \/ Start \/ AgentEnds \/ AgentInterrupted
  BY <1>2 DEF Acquire, Connect, Start, AgentEnds, AgentInterrupted, Send, Reachable,
     Interruption, CutLate, TeardownCutOnlyLate, config, driver, result, placed, caller,
     environment, Typed, Role, Positions, Plain, InCall, Over, Scoped, Leaving
<1>3. CASE VerifyStarts \/ Snapshot \/ Place \/ ConnectVerifier \/ Restore
  BY <1>3 DEF VerifyStarts, Snapshot, Place, ConnectVerifier, Restore, BeginVerifying,
     Reachable, Grader, CutLate, TeardownCutOnlyLate, config, driver, result, placed,
     caller, environment, Typed, Role, Positions, Plain, InCall, Over, Scoped, Leaving
<1>4. CASE ActorCleanup \/ VerifierCleanup \/ CleanupFails \/ CleanupCut
  BY <1>4 DEF ActorCleanup, PlaceVerifier, ReleasedBy, VerifierCleanup, CleanupFails,
     CleanupCut, CutLate, TeardownCutOnlyLate, config, driver, result, placed, caller,
     environment, Typed, Role, Positions, Plain, InCall, Over, Scoped, Leaving
<1>5. CASE ShieldedCleanup \/ DriverEnds \/ PeerStalls
  BY <1>5 DEF ReleasedBy, ShieldedCleanup, DriverEnds, PeerStalls, CutLate,
     TeardownCutOnlyLate, config, driver, result, placed, caller, environment, Typed, Role,
     Positions, Plain, InCall, Over, Scoped, Leaving
<1>6. CASE Heartbeat \/ HeartbeatFirst
  BY <1>6 DEF Heartbeat, HeartbeatFirst, HeartbeatFails, Stuck, CutLate,
     TeardownCutOnlyLate, config, driver, result, placed, caller, environment, Typed, Role,
     Positions, Plain, InCall, Over, Scoped, Leaving
<1>7. CASE Await \/ AwaitCancelled \/ Report \/ Cancelled
  BY <1>7 DEF Await, AwaitCancelled, Report, Cancelled, Bail, CancelDriver, BindFailed,
     CutLate, TeardownCutOnlyLate, config, driver, result, placed, caller, environment,
     Typed, Role, Positions, Plain, InCall, Over, Scoped, Leaving
<1>8. CASE Deadline
  BY <1>8 DEF Deadline, TimedOut, CancelDriver, BindFailed, CutLate, TeardownCutOnlyLate,
     config, driver, result, placed, caller, environment, Typed, Role, Positions, Plain,
     InCall, Over, Scoped, Leaving
<1>9. CASE TimeoutCancelled \/ BailCancelled
  BY <1>9 DEF TimeoutCancelled, BailCancelled, TimedOut, CancelDriver, BindFailed, Abort,
     CancelTask, Send, Reachable, CutLate, TeardownCutOnlyLate, config, driver, result,
     placed, caller, environment, Typed, Role, Positions, Plain, InCall, Over, Scoped,
     Leaving
<1>10. CASE Fails \/ Interrupted \/ Uncancelled \/ Verified
  BY <1>10, Leaves DEF Fails, Interrupted, Uncancelled, Verified, Abandon, Reachable,
     CutLate, TeardownCutOnlyLate, config, driver, result, placed, caller, environment,
     Typed, Role, Positions, Plain, InCall, Over, Scoped, Leaving
<1>11. CASE Graded \/ GradeFails
  BY <1>11, Leaves DEF Graded, GradeFails, LeaveRun, BestEffort, Completed, Reachable,
     CutLate, TeardownCutOnlyLate, config, driver, result, placed, caller, environment,
     Typed, Role, Positions, Plain, InCall, Over, Scoped, Leaving
<1>12. CASE Close
  BY <1>12, LeavesScope DEF Close, Translated, CutLate, TeardownCutOnlyLate, config, driver,
     result, placed, caller, environment, Typed, Role, Positions, Plain, InCall, Over,
     Scoped, Leaving
<1> QED
  BY <1>1, <1>2, <1>3, <1>4, <1>5, <1>6, <1>7, <1>8, <1>9, <1>10, <1>11, <1>12 DEF Next,
     Drive, Settle


\* Every step keeps a task in the hands of its agent.
LEMMA HeldStep == Typed /\ Scoped /\ Held /\ [Next]_vars => Held'
<1> SUFFICES ASSUME Typed, Scoped, Held, [Next]_vars PROVE Held'
  OBVIOUS
<1>1. CASE UNCHANGED vars
  BY <1>1 DEF vars, Held, config, driver, result, placed, caller, environment, Typed, Role,
     Positions, Plain, InCall, Over, Scoped
<1>2. CASE Acquire \/ Connect \/ Start \/ AgentEnds \/ AgentInterrupted
  BY <1>2 DEF Acquire, Connect, Start, AgentEnds, AskForGrade, AgentInterrupted, Send, Reachable,
     Interruption, Held, config, driver, result, placed, caller, environment, Typed, Role,
     Positions, Plain, InCall, Over, Scoped
<1>3. CASE VerifyStarts \/ Snapshot \/ Place \/ ConnectVerifier \/ Restore
  BY <1>3 DEF VerifyStarts, Snapshot, Place, ConnectVerifier, Restore, BeginVerifying,
     Reachable, Grader, Held, config, driver, result, placed, caller, environment, Typed,
     Role, Positions, Plain, InCall, Over, Scoped
<1>4. CASE ActorCleanup \/ VerifierCleanup \/ CleanupFails \/ CleanupCut
  BY <1>4 DEF ActorCleanup, PlaceVerifier, ReleasedBy, VerifierCleanup, CleanupFails,
     CleanupCut, Held, config, driver, result, placed, caller, environment, Typed, Role,
     Positions, Plain, InCall, Over, Scoped
<1>5. CASE ShieldedCleanup \/ DriverEnds \/ PeerStalls
  BY <1>5 DEF ReleasedBy, ShieldedCleanup, DriverEnds, PeerStalls, Held, config, driver,
     result, placed, caller, environment, Typed, Role, Positions, Plain, InCall, Over,
     Scoped
<1>6. CASE Heartbeat \/ HeartbeatFirst
  BY <1>6 DEF Heartbeat, HeartbeatFirst, HeartbeatFails, Stuck, Held, config, driver,
     result, placed, caller, environment, Typed, Role, Positions, Plain, InCall, Over,
     Scoped
<1>7. CASE Await \/ AwaitCancelled \/ Report \/ Cancelled
  BY <1>7 DEF Await, AwaitCancelled, Report, Cancelled, Bail, CancelDriver, BindFailed,
     Held, config, driver, result, placed, caller, environment, Typed, Role, Positions,
     Plain, InCall, Over, Scoped
<1>8. CASE Deadline
  BY <1>8 DEF Deadline, TimedOut, CancelDriver, BindFailed, Held, config, driver, result,
     placed, caller, environment, Typed, Role, Positions, Plain, InCall, Over, Scoped
<1>9. CASE TimeoutCancelled \/ BailCancelled
  BY <1>9 DEF TimeoutCancelled, BailCancelled, TimedOut, CancelDriver, BindFailed, Abort,
     CancelTask, Send, Reachable, Held, config, driver, result, placed, caller, environment,
     Typed, Role, Positions, Plain, InCall, Over, Scoped
<1>10. CASE Fails \/ Interrupted \/ Uncancelled \/ Verified
  BY <1>10, Leaves DEF Fails, Interrupted, Uncancelled, Verified, Abandon, Reachable, Held,
     config, driver, result, placed, caller, environment, Typed, Role, Positions, Plain,
     InCall, Over, Scoped
<1>11. CASE Graded \/ GradeFails
  BY <1>11, Leaves DEF Graded, GradeFails, LeaveRun, BestEffort, Completed, Reachable, Held,
     config, driver, result, placed, caller, environment, Typed, Role, Positions, Plain,
     InCall, Over, Scoped
<1>12. CASE Close
  BY <1>12, LeavesScope DEF Close, Translated, Held, config, driver, result, placed, caller,
     environment, Typed, Role, Positions, Plain, InCall, Over, Scoped
<1> QED
  BY <1>1, <1>2, <1>3, <1>4, <1>5, <1>6, <1>7, <1>8, <1>9, <1>10, <1>11, <1>12 DEF Next,
     Drive, Settle

\* Every step keeps a run failed whose grade could not be sent.
LEMMA FailedStep == Typed /\ Scoped /\ Leaving /\ Final /\ Failed /\ [Next]_vars => Failed'
<1> SUFFICES ASSUME Typed, Scoped, Leaving, Final, Failed, [Next]_vars PROVE Failed'
  OBVIOUS
<1>1. CASE UNCHANGED vars
  BY <1>1 DEF vars, Failed, Settled, Out, Leaving, Final, config, driver, result, placed, caller, environment, Typed, Role,
     Positions, Plain, InCall, Over, Scoped
<1>2. CASE Acquire \/ Connect \/ Start \/ AgentEnds \/ AgentInterrupted
  BY <1>2 DEF Acquire, Connect, Start, AgentEnds, AskForGrade, AgentInterrupted, Send, Reachable,
     Interruption, Failed, Settled, Out, Leaving, Final, config, driver, result, placed, caller, environment, Typed, Role,
     Positions, Plain, InCall, Over, Scoped
<1>3. CASE VerifyStarts \/ Snapshot \/ Place \/ ConnectVerifier \/ Restore
  BY <1>3 DEF VerifyStarts, Snapshot, Place, ConnectVerifier, Restore, BeginVerifying,
     Reachable, Grader, Failed, Settled, Out, Leaving, Final, config, driver, result, placed, caller, environment, Typed,
     Role, Positions, Plain, InCall, Over, Scoped
<1>4. CASE ActorCleanup \/ VerifierCleanup \/ CleanupFails \/ CleanupCut
  BY <1>4 DEF ActorCleanup, PlaceVerifier, ReleasedBy, VerifierCleanup, CleanupFails,
     CleanupCut, Failed, Settled, Out, Leaving, Final, config, driver, result, placed, caller, environment, Typed, Role,
     Positions, Plain, InCall, Over, Scoped
<1>5. CASE ShieldedCleanup \/ DriverEnds \/ PeerStalls
  BY <1>5 DEF ReleasedBy, ShieldedCleanup, DriverEnds, PeerStalls, Failed, Settled, Out, Leaving, Final, config, driver,
     result, placed, caller, environment, Typed, Role, Positions, Plain, InCall, Over,
     Scoped
<1>6. CASE Heartbeat \/ HeartbeatFirst
  BY <1>6 DEF Heartbeat, HeartbeatFirst, HeartbeatFails, Stuck, Failed, Settled, Out, Leaving, Final, config, driver,
     result, placed, caller, environment, Typed, Role, Positions, Plain, InCall, Over,
     Scoped
<1>7. CASE Await \/ AwaitCancelled \/ Report \/ Cancelled
  BY <1>7 DEF Await, AwaitCancelled, Report, Cancelled, Bail, CancelDriver, BindFailed,
     Failed, Settled, Out, Leaving, Final, config, driver, result, placed, caller, environment, Typed, Role, Positions,
     Plain, InCall, Over, Scoped
<1>8. CASE Deadline
  BY <1>8 DEF Deadline, TimedOut, CancelDriver, BindFailed, Failed, Settled, Out, Leaving, Final, config, driver, result,
     placed, caller, environment, Typed, Role, Positions, Plain, InCall, Over, Scoped
<1>9. CASE TimeoutCancelled \/ BailCancelled
  BY <1>9 DEF TimeoutCancelled, BailCancelled, TimedOut, CancelDriver, BindFailed, Abort,
     CancelTask, Send, Reachable, Failed, Settled, Out, Leaving, Final, config, driver, result, placed, caller, environment,
     Typed, Role, Positions, Plain, InCall, Over, Scoped
<1>10. CASE Fails \/ Interrupted \/ Uncancelled \/ Verified
  BY <1>10, Leaves DEF Fails, Interrupted, Uncancelled, Verified, Abandon, Reachable, Failed, Settled, Out, Leaving, Final,
     config, driver, result, placed, caller, environment, Typed, Role, Positions, Plain,
     InCall, Over, Scoped
<1>11. CASE Graded \/ GradeFails
  BY <1>11, Leaves DEF Graded, GradeFails, LeaveRun, BestEffort, Completed, Reachable, Failed, Settled, Out, Leaving, Final,
     config, driver, result, placed, caller, environment, Typed, Role, Positions, Plain,
     InCall, Over, Scoped
<1>12. CASE Close
  BY <1>12, LeavesScope DEF Close, Translated, Failed, Settled, Out, Leaving, Final, config, driver, result, placed, caller,
     environment, Typed, Role, Positions, Plain, InCall, Over, Scoped
<1> QED
  BY <1>1, <1>2, <1>3, <1>4, <1>5, <1>6, <1>7, <1>8, <1>9, <1>10, <1>11, <1>12 DEF Next,
     Drive, Settle

-----------------------------------------------------------------------------
RolloutInv == Typed /\ Scoped /\ Leaving /\ Final /\ Honest /\ CutLate /\ Held /\ Failed

\* The invariant holds of every rollout, whatever times out, stalls, fails or is
\* cancelled.
LEMMA RolloutAlways == Spec => []RolloutInv
<1>1. Init => RolloutInv
  <2> USE VerifiersAssumption DEF Init
  <2>5. Init => Failed
    BY DEF Failed, Settled
  <2>1. Init => Typed
    BY DEF Typed, Role, Positions, Plain, Over
  <2>2. Init => Scoped /\ Leaving /\ Held
    BY DEF Scoped, Leaving, Held, Entered, Role, Before, Cleaning, Out
  <2>3. Init => Final /\ Honest
    BY DEF Final, Honest, Settled, Out, Quiet
  <2>4. Init => CutLate
    BY DEF CutLate, TeardownCutOnlyLate, Role
  <2> QED
    BY <2>1, <2>2, <2>3, <2>4, <2>5 DEF RolloutInv
<1>2. RolloutInv /\ [Next]_vars => RolloutInv'
  BY TypedStep, ScopedStep, LeavingStep, FinalStep, HonestStep, CutLateStep, HeldStep,
     FailedStep DEF RolloutInv
<1> QED
  BY <1>1, <1>2, PTL DEF Spec

\* A run is handed back as completed with the grade of whoever has the last word
\* on it, and as an error where it ran into a timeout (run.py:580).
THEOREM OutcomeHonestAlways == Spec => []OutcomeHonest
<1>1. RolloutInv => OutcomeHonest
  BY DEF RolloutInv, OutcomeHonest, Typed, Leaving, Final, Honest, Settled
<1> QED
  BY <1>1, RolloutAlways, PTL

\* A driver that has ended leaves no live task with an answering environment, but
\* for the one whose tasks.start was never answered (run.py:634) and the one whose
\* grade could not be sent, which is handed back as failed; and only the
\* caller's cancellation, or a deadline after the actor's session of a separately
\* verified task, cuts a provider's teardown.
THEOREM CleanedUpAlways == Spec => []CleanedUp
<1>1. RolloutInv => CleanedUp
  BY DEF RolloutInv, CleanedUp, NoTaskLeft, Held, Failed, CutLate
<1> QED
  BY <1>1, RolloutAlways, PTL

\* What a step may never do: the driver that is still unwinding writes nothing of
\* a run that is reported, and places no verifier (run.py:604, 627).
LEMMA FinalSteps ==
  ASSUME RolloutInv, [Next]_vars
  PROVE  /\ Settled => UNCHANGED <<run, status, stop, grade>>
         /\ outer = "returned" /\ sub["verifier"] = "none" => sub'["verifier"] = "none"
<1>1. CASE UNCHANGED vars
  BY <1>1 DEF vars, RolloutInv, Leaving, Final, Scoped, Settled, Out, Quiet, Before, config,
     driver, result, placed, caller, environment, Typed, Role, Positions, Plain, InCall,
     Over
<1>2. CASE Acquire \/ Connect \/ Start \/ AgentEnds \/ AgentInterrupted
  BY <1>2 DEF Acquire, Connect, Start, AgentEnds, AgentInterrupted, Send, Reachable,
     Interruption, RolloutInv, Leaving, Final, Scoped, Settled, Out, Quiet, Before, config,
     driver, result, placed, caller, environment, Typed, Role, Positions, Plain, InCall,
     Over
<1>3. CASE VerifyStarts \/ Snapshot \/ Place \/ ConnectVerifier \/ Restore
  BY <1>3 DEF VerifyStarts, Snapshot, Place, ConnectVerifier, Restore, BeginVerifying,
     Reachable, Grader, RolloutInv, Leaving, Final, Scoped, Settled, Out, Quiet, Before,
     config, driver, result, placed, caller, environment, Typed, Role, Positions, Plain,
     InCall, Over
<1>4. CASE ActorCleanup \/ VerifierCleanup \/ CleanupFails \/ CleanupCut
  BY <1>4 DEF ActorCleanup, PlaceVerifier, ReleasedBy, VerifierCleanup, CleanupFails,
     CleanupCut, RolloutInv, Leaving, Final, Scoped, Settled, Out, Quiet, Before, config,
     driver, result, placed, caller, environment, Typed, Role, Positions, Plain, InCall,
     Over
<1>5. CASE ShieldedCleanup \/ DriverEnds \/ PeerStalls
  BY <1>5 DEF ReleasedBy, ShieldedCleanup, DriverEnds, PeerStalls, RolloutInv, Leaving,
     Final, Scoped, Settled, Out, Quiet, Before, config, driver, result, placed, caller,
     environment, Typed, Role, Positions, Plain, InCall, Over
<1>6. CASE Heartbeat \/ HeartbeatFirst
  BY <1>6 DEF Heartbeat, HeartbeatFirst, HeartbeatFails, Stuck, RolloutInv, Leaving, Final,
     Scoped, Settled, Out, Quiet, Before, config, driver, result, placed, caller,
     environment, Typed, Role, Positions, Plain, InCall, Over
<1>7. CASE Await \/ AwaitCancelled \/ Report \/ Cancelled
  BY <1>7 DEF Await, AwaitCancelled, Report, Cancelled, Bail, CancelDriver, BindFailed,
     RolloutInv, Leaving, Final, Scoped, Settled, Out, Quiet, Before, config, driver,
     result, placed, caller, environment, Typed, Role, Positions, Plain, InCall, Over
<1>8. CASE Deadline
  BY <1>8 DEF Deadline, TimedOut, CancelDriver, BindFailed, RolloutInv, Leaving, Final,
     Scoped, Settled, Out, Quiet, Before, config, driver, result, placed, caller,
     environment, Typed, Role, Positions, Plain, InCall, Over
<1>9. CASE TimeoutCancelled \/ BailCancelled
  BY <1>9 DEF TimeoutCancelled, BailCancelled, TimedOut, CancelDriver, BindFailed, Abort,
     CancelTask, Send, Reachable, RolloutInv, Leaving, Final, Scoped, Settled, Out, Quiet,
     Before, config, driver, result, placed, caller, environment, Typed, Role, Positions,
     Plain, InCall, Over
<1>10. CASE Fails \/ Interrupted \/ Uncancelled \/ Verified
  BY <1>10, Leaves DEF Fails, Interrupted, Uncancelled, Verified, Abandon, Reachable,
     RolloutInv, Leaving, Final, Scoped, Settled, Out, Quiet, Before, config, driver,
     result, placed, caller, environment, Typed, Role, Positions, Plain, InCall, Over
<1>11. CASE Graded \/ GradeFails
  BY <1>11, Leaves DEF Graded, GradeFails, LeaveRun, BestEffort, Completed, Reachable,
     RolloutInv, Leaving, Final, Scoped, Settled, Out, Quiet, Before, config, driver,
     result, placed, caller, environment, Typed, Role, Positions, Plain, InCall, Over
<1>12. CASE Close
  BY <1>12, LeavesScope DEF Close, Translated, RolloutInv, Leaving, Final, Scoped, Settled,
     Out, Quiet, Before, config, driver, result, placed, caller, environment, Typed, Role,
     Positions, Plain, InCall, Over
<1> QED
  BY <1>1, <1>2, <1>3, <1>4, <1>5, <1>6, <1>7, <1>8, <1>9, <1>10, <1>11, <1>12 DEF Next,
     Drive, Settle

\* From the moment a run is reported it is final (run.py:604, 627).
THEOREM ReturnedIsFinalAlways == Spec => ReturnedIsFinal
<1>1. RolloutInv /\ [Next]_vars
        => [/\ Settled => UNCHANGED <<run, status, stop, grade>>
            /\ outer = "returned" /\ sub["verifier"] = "none" => sub'["verifier"] = "none"]_vars
  BY FinalSteps
<1> QED
  BY <1>1, RolloutAlways, PTL DEF Spec, ReturnedIsFinal

-----------------------------------------------------------------------------
(* Harbor's templates.                                                       *)

Busy(s) == hphase[s] \notin {"idle", "ran", "done"}
\* What is there to be graded: collecting never began where the sessions were not ended.
Bundle(s) == IF hloose[s] THEN {"answer"} ELSE {"answer", "artifacts"}

\* What is left behind for the verifier, and the verdict so far, by phase.
Kept(s) ==
  LET p == hphase[s]  f == hfiles[s]  v == hverdict[s] IN
  /\ p \in {"idle", "entering", "probing", "waiting", "prompted", "grading", "ending", "collecting",
            "leaving", "ran", "queued", "bringing", "verifying", "unlocking", "closing", "done"}
  /\ v.is = "reward" => v = Seen("reward", s, s, IF hsep /\ ~hloose[s] THEN s ELSE None)
  /\ p \in {"idle", "entering", "probing", "waiting", "prompted"} => v.is = None /\ f = Missing
  /\ p = "grading" => ~hsep /\ f = Missing
  /\ p \in {"ending", "collecting"} => hsep /\ f = {"answer"}
  /\ hloose[s] => p \notin {"idle", "entering", "probing", "waiting", "prompted", "grading", "ending", "collecting"}
  /\ p = "leaving" => /\ ~hsep \/ v.is = None => f = Missing
                      /\ hsep => f \in {Missing, Bundle(s), {"answer", "error"}}
  /\ p = "ran" => hsep /\ f \in {Missing, Bundle(s), {"answer", "error"}}
  /\ p \in {"queued", "bringing", "verifying"} => hsep /\ f = Bundle(s)
  /\ p \in {"unlocking", "closing"} => hsep
  /\ p = "done" => f = Missing
  /\ p \in {"idle", "ran", "queued", "bringing", "verifying", "unlocking", "closing", "done"} => hentry[s] = None

\* What the container holds while a session is served.
Box(s) ==
  LET p == hphase[s] IN
  /\ root = IF p = "verifying" /\ ~hloose[s] THEN s ELSE None
  /\ lock = IF p \in {"bringing", "verifying", "unlocking"} THEN s ELSE None
  /\ p \in {"grading", "bringing", "verifying"} => answer = s
  /\ p = "grading" => tests = s

\* One session at a time is served, and what it holds is its own.
HarborInv ==
  /\ DOMAIN hphase = Sessions /\ DOMAIN hentry = Sessions /\ DOMAIN hverdict = Sessions /\ DOMAIN hfiles = Sessions /\ hloose \in [Sessions -> BOOLEAN]
  /\ \A s, u \in Sessions : Busy(s) /\ Busy(u) => s = u
  /\ \A s \in Sessions : Kept(s) /\ (Busy(s) => Box(s))
  /\ (\A s \in Sessions : ~Busy(s)) => tests = None /\ logs = None /\ answer = None /\ root = None /\ lock = None

\* A step of s leaves the record of the other sessions alone.
Framed(s) ==
  /\ hsep' = hsep
  /\ DOMAIN hphase' = Sessions /\ DOMAIN hentry' = Sessions /\ DOMAIN hverdict' = Sessions /\ DOMAIN hfiles' = Sessions /\ hloose' \in [Sessions -> BOOLEAN]
  /\ \A u \in Sessions \ {s} :
       /\ hphase'[u] = hphase[u] /\ hentry'[u] = hentry[u]
       /\ hverdict'[u] = hverdict[u] /\ hfiles'[u] = hfiles[u] /\ hloose'[u] = hloose[u]

\* Whoever takes a step is alone, so its own record and the container decide.
LEMMA AloneKeeps ==
  ASSUME HarborInv, NEW s \in Sessions, \A u \in Sessions \ {s} : ~Busy(u), Framed(s),
         Kept(s)', Busy(s)' => Box(s)',
         ~Busy(s)' => (tests = None /\ logs = None /\ answer = None /\ root = None /\ lock = None)'
  PROVE  HarborInv'
<1>1. \A u \in Sessions \ {s} : ~Busy(u)' /\ Kept(u)'
  BY DEF HarborInv, Framed, Busy, Kept, Bundle
<1> QED
  BY <1>1 DEF HarborInv, Framed

\* Nobody else is served while a session takes a step.
LEMMA StepsAlone ==
  ASSUME HarborInv, ~Overlapping, NEW s \in Sessions, HarborStep(s)
  PROVE  \A u \in Sessions \ {s} : ~Busy(u)
<1>1. CASE Busy(s)
  BY <1>1 DEF HarborInv
<1>2. CASE RunStart(s) \/ VerifyStart(s)
  BY <1>2 DEF RunStart, VerifyStart, Sits, Busy
<1>3. CASE EntrypointEnds(s)
  <2>1. hentry[s] # None /\ Kept(s)
    BY <1>3 DEF EntrypointEnds, HarborInv, None
  <2> QED
    BY <1>1, <2>1 DEF Kept, Busy
<1>4. CASE ~Busy(s) /\ ~RunStart(s) /\ ~VerifyStart(s) /\ ~EntrypointEnds(s)
  BY <1>4 DEF HarborStep, StartEntrypoint, Probe, Inspect, Answered, Closed, Terminated, Collect, Grade,
              RunLeave, LayOut, Materialize, Verify, Unlock, VerifyLeave, Busy
<1> QED
  BY <1>1, <1>2, <1>3, <1>4

\* The steps of `run`.
LEMMA RunKeeps ==
  ASSUME HarborInv, ~Overlapping, NEW s \in Sessions, HarborStep(s),
         \/ RunStart(s) \/ StartEntrypoint(s) \/ EntrypointEnds(s) \/ Probe(s) \/ Inspect(s) \/ Answered(s)
         \/ Closed(s) \/ Terminated(s) \/ Collect(s) \/ Grade(s) \/ RunLeave(s)
  PROVE  HarborInv'
<1>1. \A u \in Sessions \ {s} : ~Busy(u)
  BY StepsAlone
<1>2. /\ DOMAIN hphase = Sessions /\ DOMAIN hentry = Sessions /\ DOMAIN hverdict = Sessions /\ DOMAIN hfiles = Sessions /\ hloose \in [Sessions -> BOOLEAN]
      /\ Kept(s) /\ (Busy(s) => Box(s))
      /\ ~Busy(s) => tests = None /\ logs = None /\ answer = None /\ root = None /\ lock = None
  BY <1>1 DEF HarborInv
<1>3. CASE RunStart(s)
  <2>1. Framed(s)
    BY <1>2, <1>3 DEF RunStart, Go, Yield, Framed
  <2>2. Kept(s)' /\ (Busy(s)' => Box(s)')
        /\ (~Busy(s)' => (tests = None /\ logs = None /\ answer = None /\ root = None /\ lock = None)')
    BY <1>2, <1>3 DEF RunStart, Go, Yield, Kept, Busy, Box, Word, Seen, Missing, Bundle, None, boxVars
  <2> QED
    BY <1>1, <2>1, <2>2, AloneKeeps
<1>4. CASE StartEntrypoint(s)
  <2>1. Framed(s)
    BY <1>2, <1>4 DEF StartEntrypoint, Fail, Go, Yield, Framed
  <2>2. Kept(s)' /\ (Busy(s)' => Box(s)')
        /\ (~Busy(s)' => (tests = None /\ logs = None /\ answer = None /\ root = None /\ lock = None)')
    BY <1>2, <1>4 DEF StartEntrypoint, Fail, Go, Yield, Kept, Busy, Box, Word, Seen, Missing, Bundle, None, boxVars
  <2> QED
    BY <1>1, <2>1, <2>2, AloneKeeps
<1>5. CASE EntrypointEnds(s)
  <2>1. Framed(s)
    BY <1>2, <1>5 DEF EntrypointEnds, Go, Yield, Framed
  <2>2. Kept(s)' /\ (Busy(s)' => Box(s)')
        /\ (~Busy(s)' => (tests = None /\ logs = None /\ answer = None /\ root = None /\ lock = None)')
    BY <1>2, <1>5 DEF EntrypointEnds, Go, Yield, Kept, Busy, Box, Word, Seen, Missing, Bundle, None, boxVars
  <2> QED
    BY <1>1, <2>1, <2>2, AloneKeeps
<1>6. CASE Probe(s)
  <2>1. Framed(s)
    BY <1>2, <1>6 DEF Probe, Fail, Go, Yield, Framed
  <2>2. Kept(s)' /\ (Busy(s)' => Box(s)')
        /\ (~Busy(s)' => (tests = None /\ logs = None /\ answer = None /\ root = None /\ lock = None)')
    BY <1>2, <1>6 DEF Probe, Fail, Go, Yield, Kept, Busy, Box, Word, Seen, Missing, Bundle, None, boxVars
  <2> QED
    BY <1>1, <2>1, <2>2, AloneKeeps
<1>7. CASE Inspect(s)
  <2>1. Framed(s)
    BY <1>2, <1>7 DEF Inspect, Fail, Go, Yield, Framed
  <2>2. Kept(s)' /\ (Busy(s)' => Box(s)')
        /\ (~Busy(s)' => (tests = None /\ logs = None /\ answer = None /\ root = None /\ lock = None)')
    BY <1>2, <1>7 DEF Inspect, Fail, Go, Yield, Kept, Busy, Box, Word, Seen, Missing, Bundle, None, boxVars
  <2> QED
    BY <1>1, <2>1, <2>2, AloneKeeps
<1>8. CASE Answered(s)
  <2>1. Framed(s)
    BY <1>2, <1>8 DEF Answered, Raise, Go, Yield, Framed
  <2>2. Kept(s)' /\ (Busy(s)' => Box(s)')
        /\ (~Busy(s)' => (tests = None /\ logs = None /\ answer = None /\ root = None /\ lock = None)')
    BY <1>2, <1>8 DEF Answered, Raise, Go, Yield, Kept, Busy, Box, Word, Seen, Missing, Bundle, None, boxVars
  <2> QED
    BY <1>1, <2>1, <2>2, AloneKeeps
<1>9. CASE Closed(s)
  <2>1. Framed(s)
    BY <1>2, <1>9 DEF Closed, Fail, Go, Yield, Framed
  <2>2. Kept(s)' /\ (Busy(s)' => Box(s)')
        /\ (~Busy(s)' => (tests = None /\ logs = None /\ answer = None /\ root = None /\ lock = None)')
    BY <1>2, <1>9 DEF Closed, Fail, Go, Yield, Kept, Busy, Box, Word, Seen, Missing, Bundle, None, boxVars
  <2> QED
    BY <1>1, <2>1, <2>2, AloneKeeps
<1>10. CASE Terminated(s)
  <2>1. Framed(s)
    BY <1>2, <1>10 DEF Terminated, Raise, Go, Yield, Framed
  <2>2. Kept(s)' /\ (Busy(s)' => Box(s)')
        /\ (~Busy(s)' => (tests = None /\ logs = None /\ answer = None /\ root = None /\ lock = None)')
    BY <1>2, <1>10 DEF Terminated, Raise, Go, Yield, Kept, Busy, Box, Word, Seen, Missing, Bundle, None, boxVars
  <2> QED
    BY <1>1, <2>1, <2>2, AloneKeeps
<1>11. CASE Collect(s)
  <2>1. Framed(s)
    BY <1>2, <1>11 DEF Collect, Go, Yield, Framed
  <2>2. Kept(s)' /\ (Busy(s)' => Box(s)')
        /\ (~Busy(s)' => (tests = None /\ logs = None /\ answer = None /\ root = None /\ lock = None)')
    BY <1>2, <1>11 DEF Collect, Go, Yield, Kept, Busy, Box, Word, Seen, Missing, Bundle, None, boxVars
  <2> QED
    BY <1>1, <2>1, <2>2, AloneKeeps
<1>12. CASE Grade(s)
  <2>1. Framed(s)
    BY <1>2, <1>12 DEF Grade, Evaluate, Go, Yield, Framed
  <2>2. Kept(s)' /\ (Busy(s)' => Box(s)')
        /\ (~Busy(s)' => (tests = None /\ logs = None /\ answer = None /\ root = None /\ lock = None)')
    BY <1>2, <1>12 DEF Grade, Evaluate, Go, Yield, Kept, Busy, Box, Word, Seen, Missing, Bundle, None, boxVars
  <2> QED
    BY <1>1, <2>1, <2>2, AloneKeeps
<1>13. CASE RunLeave(s)
  <2>1. Framed(s)
    BY <1>2, <1>13 DEF RunLeave, ClearGradingFiles, Go, Yield, Framed
  <2>2. Kept(s)' /\ (Busy(s)' => Box(s)')
        /\ (~Busy(s)' => (tests = None /\ logs = None /\ answer = None /\ root = None /\ lock = None)')
    BY <1>2, <1>13 DEF RunLeave, ClearGradingFiles, Go, Yield, Kept, Busy, Box, Word, Seen, Missing, Bundle, None, boxVars
  <2> QED
    BY <1>1, <2>1, <2>2, AloneKeeps
<1> QED
  BY <1>3, <1>4, <1>5, <1>6, <1>7, <1>8, <1>9, <1>10, <1>11, <1>12, <1>13

\* The steps of `verify`.
LEMMA VerifyKeeps ==
  ASSUME HarborInv, ~Overlapping, NEW s \in Sessions, HarborStep(s),
         VerifyStart(s) \/ LayOut(s) \/ Materialize(s) \/ Verify(s) \/ Unlock(s) \/ VerifyLeave(s)
  PROVE  HarborInv'
<1>1. \A u \in Sessions \ {s} : ~Busy(u)
  BY StepsAlone
<1>2. /\ DOMAIN hphase = Sessions /\ DOMAIN hentry = Sessions /\ DOMAIN hverdict = Sessions /\ DOMAIN hfiles = Sessions /\ hloose \in [Sessions -> BOOLEAN]
      /\ Kept(s) /\ (Busy(s) => Box(s))
      /\ ~Busy(s) => tests = None /\ logs = None /\ answer = None /\ root = None /\ lock = None
  BY <1>1 DEF HarborInv
<1>3. CASE VerifyStart(s)
  <2>1. Framed(s)
    BY <1>2, <1>3 DEF VerifyStart, Go, Yield, Framed
  <2>2. Kept(s)' /\ (Busy(s)' => Box(s)')
        /\ (~Busy(s)' => (tests = None /\ logs = None /\ answer = None /\ root = None /\ lock = None)')
    BY <1>2, <1>3 DEF VerifyStart, Go, Yield, Kept, Busy, Box, Word, Seen, Missing, Bundle, None, boxVars
  <2> QED
    BY <1>1, <2>1, <2>2, AloneKeeps
<1>4. CASE LayOut(s)
  <2>1. Framed(s)
    BY <1>2, <1>4 DEF LayOut, Go, Yield, Framed
  <2>2. Kept(s)' /\ (Busy(s)' => Box(s)')
        /\ (~Busy(s)' => (tests = None /\ logs = None /\ answer = None /\ root = None /\ lock = None)')
    BY <1>2, <1>4 DEF LayOut, Go, Yield, Kept, Busy, Box, Word, Seen, Missing, Bundle, None, boxVars
  <2> QED
    BY <1>1, <2>1, <2>2, AloneKeeps
<1>5. CASE Materialize(s)
  <2>1. Framed(s)
    BY <1>2, <1>5 DEF Materialize, Go, Yield, Framed
  <2>2. Kept(s)' /\ (Busy(s)' => Box(s)')
        /\ (~Busy(s)' => (tests = None /\ logs = None /\ answer = None /\ root = None /\ lock = None)')
    BY <1>2, <1>5 DEF Materialize, Go, Yield, Kept, Busy, Box, Word, Seen, Missing, Bundle, None, boxVars
  <2> QED
    BY <1>1, <2>1, <2>2, AloneKeeps
<1>6. CASE Verify(s)
  <2>1. Framed(s)
    BY <1>2, <1>6 DEF Verify, Evaluate, Go, Yield, Framed
  <2>2. Kept(s)' /\ (Busy(s)' => Box(s)')
        /\ (~Busy(s)' => (tests = None /\ logs = None /\ answer = None /\ root = None /\ lock = None)')
    BY <1>2, <1>6 DEF Verify, Evaluate, Go, Yield, Kept, Busy, Box, Word, Seen, Missing, Bundle, None, boxVars
  <2> QED
    BY <1>1, <2>1, <2>2, AloneKeeps
<1>7. CASE Unlock(s)
  <2>1. Framed(s)
    BY <1>2, <1>7 DEF Unlock, Go, Yield, Framed
  <2>2. Kept(s)' /\ (Busy(s)' => Box(s)')
        /\ (~Busy(s)' => (tests = None /\ logs = None /\ answer = None /\ root = None /\ lock = None)')
    BY <1>2, <1>7 DEF Unlock, Go, Yield, Kept, Busy, Box, Word, Seen, Missing, Bundle, None, boxVars
  <2> QED
    BY <1>1, <2>1, <2>2, AloneKeeps
<1>8. CASE VerifyLeave(s)
  <2>1. Framed(s)
    BY <1>2, <1>8 DEF VerifyLeave, ClearGradingFiles, Go, Yield, Framed
  <2>2. Kept(s)' /\ (Busy(s)' => Box(s)')
        /\ (~Busy(s)' => (tests = None /\ logs = None /\ answer = None /\ root = None /\ lock = None)')
    BY <1>2, <1>8 DEF VerifyLeave, ClearGradingFiles, Go, Yield, Kept, Busy, Box, Word, Seen, Missing, Bundle, None, boxVars
  <2> QED
    BY <1>1, <2>1, <2>2, AloneKeeps
<1> QED
  BY <1>3, <1>4, <1>5, <1>6, <1>7, <1>8

\* Before the first session the container is clean.
LEMMA HarborInit == InitHarbor => HarborInv
BY DEF InitHarbor, HarborInv, Kept, Busy, Box, Word, Seen, Missing, None

\* However the sessions of a served Harbor image fail, one after the other: a reward
\* is what a session's own tests made of its own answer and artifacts, what was not
\* collected whole is not graded - unless the actor's sessions could not be ended,
\* where the answer is graded alone - and nothing of a session is left to the next
\* (hud/integrations/harbor/env.py).
THEOREM HarborHonestAlways ==
  ASSUME ~Overlapping
  PROVE  InitHarbor /\ [][NextHarbor]_harborVars => []HarborHonest
<1>1. ASSUME HarborInv, [NextHarbor]_harborVars PROVE HarborInv'
  <2>1. CASE UNCHANGED harborVars
    BY <1>1, <2>1 DEF harborVars, HarborInv, Kept, Busy, Box, Bundle
  <2>2. ASSUME NEW s \in Sessions, HarborStep(s) PROVE HarborInv'
    BY <1>1, <2>2, RunKeeps, VerifyKeeps DEF HarborStep
  <2> QED
    BY <1>1, <2>1, <2>2 DEF NextHarbor
<1>2. HarborInv => HarborHonest
  <2> SUFFICES ASSUME HarborInv PROVE HarborHonest
    OBVIOUS
  <2>1. VerdictOwn
    BY DEF HarborInv, Kept, VerdictOwn
  <2>2. CollectedWhole
    BY DEF HarborInv, Kept, CollectedWhole, Bundle
  <2>3. NothingLeft
    BY DEF HarborInv, Kept, Busy, NothingLeft
  <2> QED
    BY <2>1, <2>2, <2>3 DEF HarborHonest
<1> QED
  BY <1>1, <1>2, HarborInit, PTL

-----------------------------------------------------------------------------
(* The rules of the Harbor integration, each for every task.                  *)
Rules == INSTANCE HarborRules

\* What a phase reaches is what one level declares, the phase's own where it
\* declares one (harbor/env.py:140): whatever hosts are listed at each level, no
\* phase gets the hosts of one under the mode of another.
THEOREM LevelsHold ==
  ASSUME NEW Host,
         NEW own \in [mode : {"none", "public", "no-network", "allowlist"}, hosts : SUBSET Host],
         NEW declared \in [mode : {"none", "public", "no-network", "allowlist"}, hosts : SUBSET Host],
         NEW baseline \in [mode : {"public", "no-network", "allowlist"}, hosts : SUBSET Host]
  PROVE  Rules!OneLevel(own, declared, baseline)
  BY DEF Rules!OneLevel, Rules!Network, Rules!VerifierPolicy, Rules!None

\* Whatever ports a task declares and its image exposes (harbor/env.py:72), what
\* is served keeps off HUD's own ports and holds every declared one, and a peer
\* is left without a port only where nothing declares one over TCP.
THEOREM PortsKeptApart ==
  ASSUME NEW declared, NEW image, NEW reserved
  PROVE  Rules!PortsApart(declared, image, reserved)
  BY DEF Rules!PortsApart, Rules!ServedPorts, Rules!PeerPorts, Rules!Exposed

\* For any accounts and groups of an image, a phase that gets no identity, and so
\* stays root, asked for root, for nobody or for somebody unknown, and one that
\* names an account gets that account's uid (harbor/env.py:154).
THEOREM RootWhenAsked ==
  ASSUME NEW accounts, NEW groups, NEW declared, NEW image,
         \A u \in {declared, image} : u.form \in {"none", "uid", "name"}
  PROVE  Rules!RootOnlyAsked(declared, image, accounts, groups)
<1> DEFINE user == IF declared.form # "none" THEN declared ELSE image
           who == <<Rules!Uid(user, accounts), Rules!Group(user, accounts, groups)>>
           got == Rules!Identity(declared, image, accounts, groups)
<1>1. got = IF user.form = "none" \/ Rules!Unknown(user, accounts, groups) \/ who = <<0, 0>> THEN {} ELSE {who}
  BY Zenon DEF Rules!Identity, Rules!None
<1>2. user.form = "name" /\ ~Rules!Unknown(user, accounts, groups) => Rules!Uid(user, accounts) = accounts[user.name].uid
  <2>1. user.form = "name" => Rules!Account(user, accounts) = {accounts[n] : n \in {m \in DOMAIN accounts : m = user.name}}
    BY DEF Rules!Account
  <2>2. user.form = "name" /\ ~Rules!Unknown(user, accounts, groups) => Rules!Account(user, accounts) = {accounts[user.name]}
    BY <2>1 DEF Rules!Unknown
  <2>3. user.form = "name" => Rules!Uid(user, accounts) = (CHOOSE a \in Rules!Account(user, accounts) : TRUE).uid
    BY DEF Rules!Uid
  <2> QED
    BY <2>2, <2>3
<1>3. \/ user.form = "none" \/ Rules!Unknown(user, accounts, groups)
      \/ Rules!Uid(user, accounts) = 0 /\ Rules!Group(user, accounts, groups) = 0
      \/ got = {who}
  <2>1. \A x, y : <<x, y>> = <<0, 0>> => x = 0 /\ y = 0
    OBVIOUS
  <2> HIDE DEF got, user
  <2>2. who = <<0, 0>> => Rules!Uid(user, accounts) = 0 /\ Rules!Group(user, accounts, groups) = 0
    BY <2>1, Zenon
  <2> HIDE DEF who
  <2> QED
    BY <1>1, <2>2
<1> HIDE DEF got, user, who
<1>4. (got = {} /\ user.form # "none" /\ ~Rules!Unknown(user, accounts, groups)) => Rules!Uid(user,
        accounts) = 0 /\ Rules!Group(user, accounts, groups) = 0
  BY <1>3
<1>5. ASSUME NEW w \in got, user.form = "name" PROVE w[1] = accounts[user.name].uid
  BY <1>1, <1>2, <1>5 DEF who
<1> QED
  BY <1>4, <1>5, Zenon DEF Rules!RootOnlyAsked, Rules!None, got, user

\* However many tasks a directory has, those that share an environment agree on
\* its manifest, a task that needs one of its own has it to itself, and the row
\* that needs Docker access gets it (harbor/adapt.py:554).
THEOREM GroupsServe ==
  ASSUME NEW tasks, \A t, u \in tasks : t.name = u.name => t = u,
         \A t \in tasks : t.separate \in BOOLEAN
  PROVE  Rules!GroupServes(tasks)
<1> SUFFICES ASSUME NEW g \in Rules!Grouped(tasks)
             PROVE /\ \A t, u \in g : Rules!Manifest(t) = Rules!Manifest(u) /\ (t.separate => t = u)
                   /\ \A t \in g : (Rules!Healthy(t) # {} \/ (t.separate /\
                        Rules!Access(t.hooks))) => Rules!HasDockerClient(t, g) /\ Rules!RowAccess(t)
  BY DEF Rules!GroupServes
<1>1. PICK w \in tasks : g = {u \in tasks : Rules!GroupKey(u) = Rules!GroupKey(w)}
  BY DEF Rules!Grouped
<1>2. \A t, u \in g : Rules!GroupKey(t) = Rules!GroupKey(u) /\ t \in tasks /\ u \in tasks
  BY <1>1
<1>3. ASSUME NEW t \in g, NEW u \in g PROVE Rules!Manifest(t) = Rules!Manifest(u) /\ (t.separate => t = u)
  BY <1>2 DEF Rules!GroupKey, Rules!Manifest
<1>4. ASSUME NEW t \in g, Rules!Healthy(t) # {} \/ (t.separate /\ Rules!Access(t.hooks))
      PROVE Rules!HasDockerClient(t, g) /\ Rules!RowAccess(t)
  <2>1. Rules!Healthy(t) # {} => Rules!Composed(t)
    BY DEF Rules!Healthy, Rules!Peers
  <2> QED
    BY <1>4, <2>1 DEF Rules!HasDockerClient, Rules!RowAccess, Rules!GroupAccess
<1> QED
  BY <1>3, <1>4

-----------------------------------------------------------------------------
(* The rules that go through a sequence, for one of any length.  The value of  *)
(* a left fold is the last of a sequence of values, each the step from the one *)
(* before, so what the base has and each step keeps, it has.                   *)
ClientRule == INSTANCE ClientRules
CliRule == INSTANCE CliRules
FileRule == INSTANCE FileRules
EvalRule == INSTANCE EvalRules

\* A set of numbers has a least one.
LEMMA LeastOf == ASSUME NEW S \in SUBSET Nat, S # {} PROVE \E m \in S : \A n \in S : m <= n
<1>1. PICK m \in S : \A n \in S : ~(<<n, m>> \in OpToRel(<, Nat))
  BY NatLessThanWellFounded, WFMin
<1>2. \A n \in S : ~(n < m)
  BY <1>1 DEF OpToRel
<1> QED
  BY <1>2

\* A set of numbers that holds 0, and with a number the next one, holds them all.
LEMMA StepByStep ==
  ASSUME NEW n \in Nat, NEW S, 0 \in S, \A k \in 1..n : k - 1 \in S => k \in S
  PROVE  \A k \in 0..n : k \in S
<1> SUFFICES ASSUME NEW j \in 0..n, j \notin S PROVE FALSE
  OBVIOUS
<1> DEFINE missing == {k \in 0..n : k \notin S}
<1>1. missing \in SUBSET Nat /\ missing # {}
  OBVIOUS
<1>2. PICK m \in missing : \A k \in missing : m <= k
  <2> HIDE DEF missing
  <2> QED
    BY <1>1, LeastOf
<1>3. m \in 1..n /\ m \notin S
  BY <1>2
<1>4. m - 1 \in 0..n /\ m - 1 \notin missing
  BY <1>2, <1>3
<1> QED
  BY <1>3, <1>4

Greatest(t) == CHOOSE x \in t : \A y \in t : x >= y

\* The greatest of some of the first numbers that hold the last.
LEMMA GreatestOf ==
  ASSUME NEW n \in Nat, NEW t \in SUBSET (1..n), n \in t
  PROVE  Greatest(t) = n
<1>1. \A y \in t : n >= y
  OBVIOUS
<1>2. \A x \in t : (\A y \in t : x >= y) => x = n
  OBVIOUS
<1> QED
  BY <1>1, <1>2, Zenon DEF Greatest

\* The numbers to k, but for the last.
LEMMA LastOfFirst ==
  ASSUME NEW k \in Nat \ {0}
  PROVE  (1..k) \ {k} = 1..(k - 1)
<1>1. ASSUME NEW x PROVE x \in (1..k) \ {k} <=> x \in 1..(k - 1)
  OBVIOUS
<1> QED
  BY <1>1

LEMMA GreatestIn ==
  ASSUME NEW n \in Nat, NEW t \in SUBSET (1..n), t # {}
  PROVE  Greatest(t) \in t
<1> DEFINE above == {n - x : x \in t}
<1>1. above \in SUBSET Nat /\ above # {}
  <2>1. \A x \in t : n - x \in Nat
    OBVIOUS
  <2> QED
    BY <2>1
<1>2. PICK m \in above : \A a \in above : m <= a
  <2> HIDE DEF above
  <2> QED
    BY <1>1, LeastOf
<1>3. \E x \in t : \A y \in t : x >= y
  <2>1. PICK x \in t : m = n - x
    BY <1>2
  <2>2. \A y \in t : n - x <= n - y
    BY <1>2, <2>1
  <2>3. \A y \in t : x >= y
    BY <2>2
  <2> QED
    BY <2>3
<1> QED
  BY <1>3, Zenon DEF Greatest

\* g holds what the steps lead to over the parts of the numbers to n.
Recurses(g, n, base, step) ==
  \A t \in SUBSET (1..n) : g[t] = IF t = {} THEN base ELSE step[Greatest(t)][g[t \ {Greatest(t)}]]

\* So does g wherever the values before are in A.
RecursesIn(A, g, n, base, step) ==
  /\ g[{}] = base
  /\ \A t \in SUBSET (1..n) : t # {} /\ g[t \ {Greatest(t)}] \in A => g[t] = step[Greatest(t)][g[t \ {Greatest(t)}]]

\* h leads from the base to the end, a step at a time.
Leads(h, n, base, step, end) == h[0] = base /\ h[n] = end /\ \A k \in 1..n : h[k] = step[k][h[k - 1]]

\* What a left fold recurses over exists: the values that the steps lead to over
\* the parts of the first numbers, for any steps that stay in a set.
LEMMA FoldExists ==
  ASSUME NEW n \in Nat, NEW A, NEW base \in A, NEW step \in [1..n -> [A -> A]]
  PROVE  \E g \in [SUBSET (1..n) -> A] : Recurses(g, n, base, step)
<1> DEFINE Solves(m, g) == Recurses(g, m, base, step)
           S == {m \in 0..n : \E g \in [SUBSET (1..m) -> A] : Solves(m, g)}
<1>1. 0 \in S
  <2> DEFINE g == [t \in SUBSET (1..0) |-> base]
  <2>1. \A t \in SUBSET (1..0) : t = {}
    OBVIOUS
  <2>2. g \in [SUBSET (1..0) -> A]
    OBVIOUS
  <2>3. Solves(0, g)
    BY <2>1 DEF Recurses
  <2> HIDE DEF Solves, g
  <2>4. 0 \in 0..n
    OBVIOUS
  <2> QED
    BY <2>2, <2>3, <2>4, Zenon
<1>2. ASSUME NEW m \in 1..n, m - 1 \in S PROVE m \in S
  <2>1. PICK f \in [SUBSET (1..(m - 1)) -> A] : Solves(m - 1, f)
    BY <1>2
  <2> DEFINE g == [t \in SUBSET (1..m) |-> IF m \in t THEN step[m][f[t \ {m}]] ELSE f[t]]
  <2>2. ASSUME NEW t \in SUBSET (1..m)
        PROVE  t \ {m} \in SUBSET (1..(m - 1)) /\ f[t \ {m}] \in A /\ (m \notin t => t \in SUBSET (1..(m - 1)) /\ f[t] \in A)
    <3>1. t \ {m} \in SUBSET (1..(m - 1)) /\ (m \notin t => t \ {m} = t)
      OBVIOUS
    <3> QED
      BY <3>1, <2>1
  <2>3. step[m] \in [A -> A]
    OBVIOUS
  <2>4. g \in [SUBSET (1..m) -> A]
    <3> SUFFICES ASSUME NEW t \in SUBSET (1..m) PROVE (IF m \in t THEN step[m][f[t \ {m}]] ELSE f[t]) \in A
      OBVIOUS
    <3> QED
      BY <2>2, <2>3
  <2>5. ASSUME NEW t \in SUBSET (1..m)
        PROVE  g[t] = IF t = {} THEN base ELSE step[Greatest(t)][g[t \ {Greatest(t)}]]
    <3>1. CASE m \in t
      <4>1. Greatest(t) = m
        BY <3>1, GreatestOf
      <4>2. g[t] = step[m][f[t \ {m}]] /\ g[t \ {m}] = f[t \ {m}]
        BY <3>1, <2>2
      <4> HIDE DEF g
      <4> QED
        BY <3>1, <4>1, <4>2
    <3>2. CASE m \notin t
      <4>1. g[t] = f[t] /\ t \in SUBSET (1..(m - 1))
        BY <3>2, <2>2
      <4>2. f[t] = IF t = {} THEN base ELSE step[Greatest(t)][f[t \ {Greatest(t)}]]
        BY <2>1, <4>1 DEF Recurses
      <4>3. g[t \ {Greatest(t)}] = f[t \ {Greatest(t)}]
        BY <3>2
      <4> HIDE DEF g
      <4> QED
        BY <4>1, <4>2, <4>3
    <3> QED
      BY <3>1, <3>2
  <2>6. Solves(m, g)
    BY <2>5 DEF Recurses
  <2> HIDE DEF Solves, g
  <2> QED
    BY <2>4, <2>6
<1>3. n \in S
  <2> HIDE DEF S
  <2>1. \A m \in 1..n : m - 1 \in S => m \in S
    BY <1>2
  <2>2. \A m \in 0..n : m \in S
    BY <1>1, <2>1, StepByStep
  <2> QED
    BY <2>2
<1> QED
  BY <1>3

\* So does every fold that stays there: it is the last of a sequence of values,
\* each the step from the one before.
LEMMA FoldStays ==
  ASSUME NEW n \in Nat, NEW A, NEW base \in A, NEW step \in [1..n -> [A -> A]], NEW g, RecursesIn(A, g, n, base, step)
  PROVE  \E h \in [0..n -> A] : Leads(h, n, base, step, g[1..n])
<1> DEFINE S == {k \in 0..n : g[1..k] \in A}
<1>1. 0 \in S
  <2>1. 1..0 = {}
    OBVIOUS
  <2> QED
    BY <2>1 DEF RecursesIn
<1>2. ASSUME NEW k \in 1..n, g[1..(k - 1)] \in A
      PROVE  g[1..k] = step[k][g[1..(k - 1)]] /\ g[1..k] \in A
  <2>1. 1..k \in SUBSET (1..n) /\ 1..k \in SUBSET (1..k) /\ k \in 1..k /\ k \in Nat \ {0}
    OBVIOUS
  <2>2. Greatest(1..k) = k /\ (1..k) \ {k} = 1..(k - 1)
    BY <2>1, GreatestOf, LastOfFirst
  <2>3. g[1..k] = step[k][g[1..(k - 1)]]
    BY <1>2, <2>1, <2>2 DEF RecursesIn
  <2> QED
    BY <1>2, <2>3
<1>3. \A k \in 0..n : g[1..k] \in A
  <2>1. \A k \in 1..n : k - 1 \in S => k \in S
    BY <1>2
  <2> HIDE DEF S
  <2>2. \A k \in 0..n : k \in S
    BY <1>1, <2>1, StepByStep
  <2> QED
    BY <2>2 DEF S
<1> DEFINE h == [k \in 0..n |-> g[1..k]]
<1>4. h \in [0..n -> A]
  BY <1>3
<1>5. h[0] = base /\ h[n] = g[1..n]
  <2>1. 1..0 = {}
    OBVIOUS
  <2> QED
    BY <2>1 DEF RecursesIn
<1>6. ASSUME NEW k \in 1..n PROVE h[k] = step[k][h[k - 1]]
  <2>1. k \in 0..n /\ k - 1 \in 0..n
    OBVIOUS
  <2> QED
    BY <1>2, <1>3, <2>1
<1> HIDE DEF h
<1> QED
  BY <1>4, <1>5, <1>6 DEF Leads

-----------------------------------------------------------------------------
(* What a client is told, and in which order.                               *)
\* What comes of an attempt to post a request, and what a caller can be told.
Attempt == [how : {"ok", "retryable", "fatal", "cancelled"}, took : Nat]
Words == {"server", "JSONRPCError", "exception"}
\* How far a request has come.
Tried == [at : Nat, backoff : Nat, starts : Seq(Nat), done : BOOLEAN, cut : BOOLEAN, answers : Seq(Words)]

LEMMA LesserOf ==
  ASSUME NEW a \in Nat, NEW b \in Nat
  PROVE  ClientRule!Min({a, b}) \in Nat /\ ClientRule!Min({a, b}) <= a /\ ClientRule!Min({a, b}) <= b
<1>1. \E x \in {a, b} : \A y \in {a, b} : x <= y
  OBVIOUS
<1> DEFINE m == CHOOSE x \in {a, b} : \A y \in {a, b} : x <= y
<1>2. m \in {a, b} /\ \A y \in {a, b} : m <= y
  BY <1>1
<1>3. ClientRule!Min({a, b}) = m
  BY Zenon DEF ClientRule!Min
<1> QED
  BY <1>2, <1>3

\* What one attempt makes of a request, case by case.
Tries(kind, timeout, acc, attempt, c) ==
  LET now == acc.at + attempt.took
      late == attempt.how = "fatal" \/ (attempt.how = "retryable" /\ now >= timeout)
  IN /\ acc.done => c = acc
     /\ ~acc.done => c.starts = Append(acc.starts, acc.at)
     /\ ~acc.done /\ attempt.how = "ok" =>
          c.done /\ c.cut = acc.cut /\ c.answers = IF kind = "request" THEN Append(acc.answers, "server") ELSE acc.answers
     /\ ~acc.done /\ attempt.how = "cancelled" => c.done /\ c.cut /\ c.answers = acc.answers
     /\ ~acc.done /\ late => c.done /\ c.cut = acc.cut /\ c.answers = Append(acc.answers, ClientRule!SendErrorResponse(kind))
     /\ ~acc.done /\ attempt.how = "retryable" /\ now < timeout =>
          ~c.done /\ c.cut = acc.cut /\ c.answers = acc.answers /\ c.at = now + acc.backoff /\ c.backoff <= 2 * acc.backoff

LEMMA TryCases ==
  ASSUME NEW kind, NEW timeout \in Nat, NEW acc \in Tried, NEW attempt \in Attempt
  PROVE  ClientRule!Try(kind, timeout, acc, attempt) \in Tried /\ Tries(kind, timeout, acc,
           attempt, ClientRule!Try(kind, timeout, acc, attempt))
<1> DEFINE now == acc.at + attempt.took
           c == ClientRule!Try(kind, timeout, acc, attempt)
           late == attempt.how = "fatal" \/ (attempt.how = "retryable" /\ now >= timeout)
           word == ClientRule!SendErrorResponse(kind)
<1>1. /\ acc.at \in Nat /\ acc.backoff \in Nat /\ acc.starts \in Seq(Nat) /\ acc.done \in BOOLEAN /\ acc.cut \in BOOLEAN
      /\ acc.answers \in Seq(Words)
      /\ acc = [at |-> acc.at, backoff |-> acc.backoff, starts |-> acc.starts, done |-> acc.done, cut |-> acc.cut, answers |-> acc.answers]
  BY DEF Tried
<1>2. now \in Nat /\ attempt.how \in {"ok", "retryable", "fatal", "cancelled"} /\ word \in Words
  <2>1. attempt.took \in Nat /\ attempt.how \in {"ok", "retryable", "fatal", "cancelled"}
    BY DEF Attempt
  <2>2. word \in Words
    BY DEF ClientRule!SendErrorResponse, Words
  <2> QED
    BY <1>1, <2>1, <2>2
<1> SUFFICES c \in Tried /\ Tries(kind, timeout, acc, attempt, c)
  OBVIOUS
<1>3. CASE acc.done
  <2>1. c = acc
    BY <1>3 DEF ClientRule!Try
  <2> HIDE DEF c
  <2> QED
    BY <1>1, <1>2, <1>3, <2>1 DEF Tries
<1>4. CASE ~acc.done /\ attempt.how = "ok"
  <2> DEFINE said == IF kind = "request" THEN Append(acc.answers, "server") ELSE acc.answers
  <2>1. c = [at |-> now, backoff |-> acc.backoff, starts |-> Append(acc.starts, acc.at), done |-> TRUE, cut |-> acc.cut, answers |-> said]
    BY <1>1, <1>4 DEF ClientRule!Try
  <2>2. said \in Seq(Words)
    BY <1>1 DEF Words
  <2> HIDE DEF c
  <2> QED
    BY <1>1, <1>2, <1>4, <2>1, <2>2 DEF Tried, Tries
<1>5. CASE ~acc.done /\ attempt.how = "cancelled"
  <2>1. c = [at |-> now, backoff |-> acc.backoff, starts |-> Append(acc.starts, acc.at),
          done |-> TRUE, cut |-> TRUE, answers |-> acc.answers]
    BY <1>1, <1>5 DEF ClientRule!Try
  <2> HIDE DEF c
  <2> QED
    BY <1>1, <1>2, <1>5, <2>1 DEF Tried, Tries
<1>6. CASE ~acc.done /\ late
  <2>1. c = [at |-> now, backoff |-> acc.backoff, starts |-> Append(acc.starts, acc.at),
          done |-> TRUE, cut |-> acc.cut, answers |-> Append(acc.answers, word)]
    BY <1>1, <1>6 DEF ClientRule!Try
  <2>2. Append(acc.answers, word) \in Seq(Words)
    BY <1>1, <1>2
  <2> HIDE DEF c
  <2> QED
    BY <1>1, <1>2, <1>6, <2>1, <2>2 DEF Tried, Tries
<1>7. CASE ~acc.done /\ attempt.how = "retryable" /\ now < timeout
  <2> DEFINE less == ClientRule!Min({2 * acc.backoff, ClientRule!MaxBackoff})
  <2>1. c = [at |-> now + acc.backoff, backoff |-> less, starts |-> Append(acc.starts, acc.at),
          done |-> FALSE, cut |-> acc.cut, answers |-> acc.answers]
    <3>1. ~(acc.at + attempt.took >= timeout) /\ attempt.how # "ok" /\ attempt.how # "cancelled" /\ attempt.how # "fatal"
      BY <1>1, <1>2, <1>7
    <3> HIDE DEF less
    <3>2. c = [[acc EXCEPT !.starts = Append(@, acc.at), !.at = now] EXCEPT !.at = now + acc.backoff, !.backoff = less]
      BY <1>7, <3>1 DEF ClientRule!Try, less
    <3> QED
      BY <1>1, <1>7, <3>2
  <2>2. less \in Nat /\ less <= 2 * acc.backoff
    <3>1. 2 * acc.backoff \in Nat /\ ClientRule!MaxBackoff \in Nat
      BY <1>1 DEF ClientRule!MaxBackoff
    <3> QED
      BY <3>1, LesserOf
  <2> HIDE DEF less, c
  <2> QED
    BY <1>1, <1>2, <1>7, <2>1, <2>2 DEF Tried, Tries
<1>8. acc.done \/ (~acc.done /\ attempt.how = "ok") \/ (~acc.done /\ attempt.how = "cancelled") \/ (~acc.done /\ late)
      \/ (~acc.done /\ attempt.how = "retryable" /\ now < timeout)
  BY <1>2
<1> QED
  BY <1>3, <1>4, <1>5, <1>6, <1>7, <1>8

\* h is where a request stands before, between and after the attempts.
Handles(h, kind, timeout, attempts) ==
  /\ h[0] = ClientRule!Untried /\ h[Len(attempts)] = ClientRule!HandleRequest(kind, timeout, attempts)
  /\ \A k \in 1..Len(attempts) : h[k] = ClientRule!Try(kind, timeout, h[k - 1], attempts[k])

LEMMA RequestFolds ==
  ASSUME NEW kind, NEW timeout \in Nat, NEW attempts \in Seq(Attempt)
  PROVE  \E h \in [0..Len(attempts) -> Tried] : Handles(h, kind, timeout, attempts)
<1> DEFINE n == Len(attempts)
           base == ClientRule!Untried
           next(acc, k) == ClientRule!Try(kind, timeout, acc, attempts[k])
           step == [k \in 1..n |-> [acc \in Tried |-> next(acc, k)]]
           Folds(f) == f = [t \in SUBSET (1..n) |-> IF t = {} THEN base ELSE next(f[t \ {Greatest(t)}], Greatest(t))]
           iter == CHOOSE f : Folds(f)
<1>1. n \in Nat /\ DOMAIN attempts = 1..n /\ \A k \in 1..n : attempts[k] \in Attempt
  OBVIOUS
<1>2. ClientRule!HandleRequest(kind, timeout, attempts) = iter[1..n]
  <2>1. ClientRule!HandleRequest(kind, timeout, attempts) =
          (CHOOSE f : f = [t \in SUBSET (DOMAIN attempts) |-> IF t = {} THEN base ELSE
            next(f[t \ {Greatest(t)}], Greatest(t))])[DOMAIN attempts]
    BY Zenon DEF ClientRule!HandleRequest, ClientRule!FoldLeft, ClientRule!MapThenFoldSet, ClientRule!Max, Greatest
  <2> HIDE DEF base, next, n
  <2> QED
    BY <1>1, <2>1
<1>3. base \in Tried
  BY DEF ClientRule!Untried, Tried
<1>4. \A k \in 1..n, acc \in Tried : next(acc, k) \in Tried
  <2> SUFFICES ASSUME NEW k \in 1..n, NEW acc \in Tried PROVE ClientRule!Try(kind, timeout, acc, attempts[k]) \in Tried
    OBVIOUS
  <2>1. attempts[k] \in Attempt
    BY <1>1
  <2> QED
    BY <2>1, TryCases
<1> HIDE DEF base, next, n
<1>5. step \in [1..n -> [Tried -> Tried]]
  BY <1>4
<1>6. \A k \in 1..n, acc \in Tried : step[k][acc] = next(acc, k)
  OBVIOUS
<1> HIDE DEF step
<1>7. PICK g \in [SUBSET (1..n) -> Tried] : Recurses(g, n, base, step)
  BY <1>1, <1>3, <1>5, FoldExists
<1>8. Folds(g)
  <2>1. \A t \in SUBSET (1..n) : t # {} => step[Greatest(t)][g[t \ {Greatest(t)}]] = next(g[t \ {Greatest(t)}], Greatest(t))
    BY <1>1, <1>6, <1>7, GreatestIn
  <2> QED
    BY <1>7, <2>1 DEF Recurses
<1>9. Folds(iter)
  BY <1>8
<1>10. RecursesIn(Tried, iter, n, base, step)
  <2>1. iter[{}] = base
    BY <1>9
  <2>2. ASSUME NEW t \in SUBSET (1..n), t # {}, iter[t \ {Greatest(t)}] \in Tried
        PROVE  iter[t] = step[Greatest(t)][iter[t \ {Greatest(t)}]]
    <3>1. Greatest(t) \in 1..n
      BY <1>1, <2>2, GreatestIn
    <3> QED
      BY <1>6, <1>9, <2>2, <3>1
  <2> HIDE DEF iter
  <2> QED
    BY <2>1, <2>2 DEF RecursesIn
<1> HIDE DEF iter
<1>11. PICK h \in [0..n -> Tried] : Leads(h, n, base, step, iter[1..n])
  BY <1>1, <1>3, <1>5, <1>10, FoldStays
<1>12. \A k \in 1..n : h[k] = next(h[k - 1], k)
  <2> SUFFICES ASSUME NEW k \in 1..n PROVE h[k] = next(h[k - 1], k)
    OBVIOUS
  <2>1. h[k] = step[k][h[k - 1]]
    BY <1>11 DEF Leads
  <2>2. k - 1 \in 0..n
    BY <1>1
  <2>3. h[k - 1] \in Tried
    BY <1>11, <2>2
  <2> QED
    BY <1>6, <2>1, <2>3
<1> QED
  BY <1>2, <1>11, <1>12 DEF base, next, n, Leads, Handles

\* Where a request stands after k attempts.
Standing(kind, timeout, attempts, k, x) ==
  /\ ~x.done => Len(x.starts) = k /\ x.answers = <<>> /\ ~x.cut /\ x.backoff <= x.at + 1 /\ x.at < 2 * timeout
  /\ \A i \in 1..Len(x.starts) : x.starts[i] < 2 * timeout
  /\ x.done => Len(x.starts) \in 1..k /\ Len(x.answers) <= 1 /\ (x.cut => x.answers = <<>>)
  /\ x.done /\ ~x.cut =>
       /\ kind = "request" => Len(x.answers) = 1
       /\ x.answers = <<"server">> <=> attempts[Len(x.starts)].how = "ok" /\ kind = "request"

\* The waits double, and so no wait is longer than the time gone by and one more.
LEMMA BackoffFits ==
  ASSUME NEW timeout \in Nat, NEW at \in Nat, NEW backoff \in Nat, NEW took \in Nat, NEW then \in Nat, NEW wait \in Nat,
         backoff <= at + 1, at + took < timeout, then = at + took + backoff, wait <= 2 * backoff
  PROVE  wait <= then + 1 /\ then < 2 * timeout
  OBVIOUS

\* Another attempt leaves it standing.
LEMMA StillStanding ==
  ASSUME NEW kind, NEW timeout \in Nat \ {0}, NEW attempts \in Seq(Attempt), NEW k \in 1..Len(attempts),
         NEW x \in Tried, Standing(kind, timeout, attempts, k - 1, x),
         NEW c \in Tried, Tries(kind, timeout, x, attempts[k], c)
  PROVE  Standing(kind, timeout, attempts, k, c)
<1> DEFINE a == attempts[k]
           now == x.at + a.took
           late == a.how = "fatal" \/ (a.how = "retryable" /\ now >= timeout)
<1>1. /\ k \in Nat /\ a \in Attempt /\ a.took \in Nat /\ a.how \in {"ok", "retryable", "fatal", "cancelled"}
      /\ x.at \in Nat /\ x.backoff \in Nat /\ x.starts \in Seq(Nat) /\ x.done \in BOOLEAN /\ x.cut \in BOOLEAN /\ x.answers \in Seq(Words)
      /\ c.at \in Nat /\ c.backoff \in Nat /\ c.starts \in Seq(Nat) /\ c.done \in BOOLEAN /\ c.cut \in BOOLEAN /\ c.answers \in Seq(Words)
  <2>1. k \in Nat /\ attempts[k] \in Attempt
    OBVIOUS
  <2> QED
    BY <2>1 DEF Attempt, Tried
<1> HIDE DEF a
<1>2. CASE x.done
  <2>1. c = x
    BY <1>2 DEF Tries
  <2> QED
    BY <1>1, <1>2, <2>1 DEF Standing
<1>3. CASE ~x.done
  <2>1. /\ Len(x.starts) = k - 1 /\ x.answers = <<>> /\ ~x.cut /\ x.backoff <= x.at + 1 /\ x.at < 2 * timeout
        /\ \A i \in 1..Len(x.starts) : x.starts[i] < 2 * timeout
    BY <1>3 DEF Standing
  <2>2. /\ c.starts = Append(x.starts, x.at) /\ Len(c.starts) = k
        /\ \A i \in 1..Len(c.starts) : c.starts[i] < 2 * timeout
    <3>1. c.starts = Append(x.starts, x.at)
      BY <1>3 DEF Tries
    <3> QED
      BY <1>1, <2>1, <3>1
  <2>3. CASE a.how = "ok"
    <3>1. c.done /\ c.cut = x.cut /\ c.answers = IF kind = "request" THEN Append(x.answers, "server") ELSE x.answers
      BY <1>3, <2>3 DEF Tries, a
    <3>2. kind = "request" => c.answers = <<"server">>
      BY <2>1, <3>1
    <3>3. kind # "request" => c.answers = <<>>
      BY <2>1, <3>1
    <3>4. attempts[Len(c.starts)].how = "ok"
      BY <2>2, <2>3 DEF a
    <3> QED
      BY <1>1, <2>1, <2>2, <3>1, <3>2, <3>3, <3>4 DEF Standing
  <2>4. CASE a.how = "cancelled"
    <3>1. c.done /\ c.cut /\ c.answers = <<>>
      BY <1>3, <2>1, <2>4 DEF Tries, a
    <3> QED
      BY <1>1, <2>2, <3>1 DEF Standing
  <2>5. CASE late
    <3> DEFINE word == ClientRule!SendErrorResponse(kind)
    <3>1. c.done /\ c.cut = x.cut /\ c.answers = Append(x.answers, word)
      BY <1>3, <2>5 DEF Tries, a
    <3>2. word # "server"
      BY DEF ClientRule!SendErrorResponse
    <3> HIDE DEF word
    <3>3. c.answers = <<word>>
      BY <2>1, <3>1
    <3>4. attempts[Len(c.starts)].how # "ok"
      BY <2>2, <2>5 DEF a
    <3>5. c.answers # <<"server">> /\ Len(c.answers) = 1
      BY <3>2, <3>3
    <3> QED
      BY <1>1, <2>1, <2>2, <3>1, <3>4, <3>5 DEF Standing
  <2>6. CASE a.how = "retryable" /\ now < timeout
    <3>1. ~c.done /\ c.cut = x.cut /\ c.answers = x.answers /\ c.at = now + x.backoff /\ c.backoff <= 2 * x.backoff
      BY <1>3, <2>6 DEF Tries, a
    <3>2. c.backoff <= c.at + 1 /\ c.at < 2 * timeout
      BY <1>1, <2>1, <2>6, <3>1, BackoffFits
    <3> QED
      BY <1>1, <2>1, <2>2, <3>1, <3>2 DEF Standing
  <2> QED
    BY <1>1, <2>3, <2>4, <2>5, <2>6
<1> QED
  BY <1>1, <1>2, <1>3

\* A request the transport gave up is answered, once, by an error its caller can
\* read, whatever comes of however many attempts; nothing is sent after the end,
\* and none begins later than twice the limit (mcp_patches.py:146).
THEOREM RequestsAnswered ==
  ASSUME NEW kind, NEW timeout \in Nat \ {0}, NEW attempts \in Seq(Attempt)
  PROVE  ClientRule!PostAnswered(kind, timeout, attempts)
<1> DEFINE n == Len(attempts)
           end == ClientRule!HandleRequest(kind, timeout, attempts)
<1>1. n \in Nat /\ \A k \in 1..n : attempts[k] \in Attempt
  OBVIOUS
<1>2. PICK h \in [0..n -> Tried] : Handles(h, kind, timeout, attempts)
  BY RequestFolds
<1> DEFINE S == {k \in 0..n : Standing(kind, timeout, attempts, k, h[k])}
<1>3. 0 \in S
  BY <1>1, <1>2 DEF Standing, ClientRule!Untried, Handles
<1>4. ASSUME NEW k \in 1..n, k - 1 \in S PROVE k \in S
  <2>1. h[k - 1] \in Tried /\ h[k] \in Tried /\ k \in 0..n
    BY <1>1, <1>2
  <2>2. Tries(kind, timeout, h[k - 1], attempts[k], h[k])
    <3>1. h[k] = ClientRule!Try(kind, timeout, h[k - 1], attempts[k])
      BY <1>2 DEF Handles
    <3> QED
      BY <1>1, <2>1, <3>1, TryCases
  <2>3. Standing(kind, timeout, attempts, k - 1, h[k - 1])
    BY <1>4
  <2>4. Standing(kind, timeout, attempts, k, h[k])
    BY <2>1, <2>2, <2>3, StillStanding
  <2> QED
    BY <2>1, <2>4
<1>5. Standing(kind, timeout, attempts, n, end) /\ end \in Tried
  <2>1. \A k \in 1..n : k - 1 \in S => k \in S
    BY <1>4
  <2> HIDE DEF S
  <2>2. \A k \in 0..n : k \in S
    BY <1>1, <1>3, <2>1, StepByStep
  <2>3. n \in 0..n
    BY <1>1
  <2> QED
    BY <1>2, <2>2, <2>3 DEF S, Handles
<1> HIDE DEF end
<1>6. /\ Len(end.answers) <= 1
      /\ end.done /\ ~end.cut /\ kind = "request" => Len(end.answers) = 1
      /\ end.done /\ ~end.cut => (end.answers = <<"server">> <=> attempts[Len(end.starts)].how = "ok" /\ kind = "request")
      /\ end.cut => end.answers = <<>>
      /\ \A i \in 1..Len(end.starts) : end.starts[i] < 2 * timeout
      /\ ~end.done => Len(end.starts) = n
  BY <1>1, <1>5 DEF Standing, Tried
<1> QED
  BY <1>6, Zenon DEF ClientRule!PostAnswered, end

Message == [kind : {"request", "notification"}, comes : Nat, takes : Nat]
\* How far the writer has come: from when it is free, and when it was with what.
Written == [free : Nat, spans : Seq(Nat \X Nat)]

LEMMA LaterOf ==
  ASSUME NEW a \in Nat, NEW b \in Nat
  PROVE  ClientRule!Max({a, b}) \in Nat /\ ClientRule!Max({a, b}) = IF a >= b THEN a ELSE b
<1> DEFINE m == CHOOSE x \in {a, b} : \A y \in {a, b} : x >= y
<1>1. \E x \in {a, b} : \A y \in {a, b} : x >= y
  OBVIOUS
<1>2. m \in {a, b} /\ \A y \in {a, b} : m >= y
  BY <1>1
<1>3. ClientRule!Max({a, b}) = m
  BY Zenon DEF ClientRule!Max
<1> HIDE DEF m
<1> QED
  BY <1>2, <1>3

\* What one message makes of the writer.
Writes(acc, m, c) ==
  \E start \in Nat :
    /\ start = IF acc.free >= m.comes THEN acc.free ELSE m.comes
    /\ c.free = IF m.kind = "request" THEN start ELSE start + m.takes
    /\ c.spans = Append(acc.spans, <<start, start + m.takes>>)

LEMMA WriteCase ==
  ASSUME NEW acc \in Written, NEW m \in Message
  PROVE  ClientRule!WriteOne(acc, m) \in Written /\ Writes(acc, m, ClientRule!WriteOne(acc, m))
<1> DEFINE start == ClientRule!Max({acc.free, m.comes})
           c == ClientRule!WriteOne(acc, m)
<1>1. acc.free \in Nat /\ acc.spans \in Seq(Nat \X Nat) /\ m.comes \in Nat /\ m.takes \in Nat
  BY DEF Written, Message
<1>2. start \in Nat /\ start = IF acc.free >= m.comes THEN acc.free ELSE m.comes
  BY <1>1, LaterOf
<1>3. c = [free |-> IF m.kind = "request" THEN start ELSE start + m.takes, spans |-> Append(acc.spans, <<start, start + m.takes>>)]
  BY Zenon DEF ClientRule!WriteOne
<1> HIDE DEF start, c
<1>4. <<start, start + m.takes>> \in Nat \X Nat
  BY <1>1, <1>2
<1>5. Append(acc.spans, <<start, start + m.takes>>) \in Seq(Nat \X Nat)
  BY <1>1, <1>4
<1>6. c \in Written
  BY <1>1, <1>2, <1>3, <1>5 DEF Written
<1>7. Writes(acc, m, c)
  BY <1>2, <1>3 DEF Writes
<1> QED
  BY <1>6, <1>7 DEF c

\* h is how far the writer is before, between and after the messages.
WritesAll(h, messages) ==
  /\ h[0] = ClientRule!Unwritten /\ h[Len(messages)].spans = ClientRule!PostWriter(messages)
  /\ \A k \in 1..Len(messages) : h[k] = ClientRule!WriteOne(h[k - 1], messages[k])

LEMMA WriterFolds ==
  ASSUME NEW messages \in Seq(Message)
  PROVE  \E h \in [0..Len(messages) -> Written] : WritesAll(h, messages)
<1> DEFINE n == Len(messages)
           base == ClientRule!Unwritten
           next(acc, k) == ClientRule!WriteOne(acc, messages[k])
           step == [k \in 1..n |-> [acc \in Written |-> next(acc, k)]]
           Folds(f) == f = [t \in SUBSET (1..n) |-> IF t = {} THEN base ELSE next(f[t \ {Greatest(t)}], Greatest(t))]
           iter == CHOOSE f : Folds(f)
<1>1. n \in Nat /\ DOMAIN messages = 1..n /\ \A k \in 1..n : messages[k] \in Message
  OBVIOUS
<1>2. ClientRule!PostWriter(messages) = iter[1..n].spans
  <2>1. ClientRule!PostWriter(messages) =
          (CHOOSE f : f = [t \in SUBSET (DOMAIN messages) |-> IF t = {} THEN base ELSE
            next(f[t \ {Greatest(t)}], Greatest(t))])[DOMAIN messages].spans
    BY Zenon DEF ClientRule!PostWriter, ClientRule!FoldLeft, ClientRule!MapThenFoldSet, ClientRule!Max, Greatest
  <2> HIDE DEF base, next, n
  <2> QED
    BY <1>1, <2>1
<1>3. base \in Written
  BY DEF ClientRule!Unwritten, Written
<1>4. \A k \in 1..n, acc \in Written : next(acc, k) \in Written
  BY <1>1, WriteCase
<1> HIDE DEF base, next, n
<1>5. step \in [1..n -> [Written -> Written]]
  BY <1>4
<1>6. \A k \in 1..n, acc \in Written : step[k][acc] = next(acc, k)
  OBVIOUS
<1> HIDE DEF step
<1>7. PICK g \in [SUBSET (1..n) -> Written] : Recurses(g, n, base, step)
  BY <1>1, <1>3, <1>5, FoldExists
<1>8. Folds(g)
  <2>1. \A t \in SUBSET (1..n) : t # {} => step[Greatest(t)][g[t \ {Greatest(t)}]] = next(g[t \ {Greatest(t)}], Greatest(t))
    BY <1>1, <1>6, <1>7, GreatestIn
  <2> QED
    BY <1>7, <2>1 DEF Recurses
<1>9. Folds(iter)
  BY <1>8
<1>10. RecursesIn(Written, iter, n, base, step)
  <2>1. iter[{}] = base
    BY <1>9
  <2>2. ASSUME NEW t \in SUBSET (1..n), t # {}, iter[t \ {Greatest(t)}] \in Written
        PROVE  iter[t] = step[Greatest(t)][iter[t \ {Greatest(t)}]]
    <3>1. Greatest(t) \in 1..n
      BY <1>1, <2>2, GreatestIn
    <3> QED
      BY <1>6, <1>9, <2>2, <3>1
  <2> HIDE DEF iter
  <2> QED
    BY <2>1, <2>2 DEF RecursesIn
<1> HIDE DEF iter
<1>11. PICK h \in [0..n -> Written] : Leads(h, n, base, step, iter[1..n])
  BY <1>1, <1>3, <1>5, <1>10, FoldStays
<1>12. \A k \in 1..n : h[k] = next(h[k - 1], k)
  <2> SUFFICES ASSUME NEW k \in 1..n PROVE h[k] = next(h[k - 1], k)
    OBVIOUS
  <2>1. h[k] = step[k][h[k - 1]]
    BY <1>11 DEF Leads
  <2>2. k - 1 \in 0..n
    BY <1>1
  <2>3. h[k - 1] \in Written
    BY <1>11, <2>2
  <2> QED
    BY <1>6, <2>1, <2>3
<1> QED
  BY <1>2, <1>11, <1>12 DEF base, next, n, Leads, WritesAll


\* Where the writer is after k messages.
InOrder(messages, k, x) ==
  /\ Len(x.spans) = k
  /\ \A i \in 1..k : messages[i].kind # "request" => x.spans[i][2] <= x.free
  /\ \A i, j \in 1..k : i < j /\ messages[i].kind # "request" => x.spans[i][2] <= x.spans[j][1]
  /\ (\A i \in 1..Len(messages) : messages[i].kind = "request") /\ (\A i,
       j \in 1..Len(messages) : i <= j => messages[i].comes <= messages[j].comes) =>
       /\ k = 0 => x.free = 0
       /\ k > 0 => x.free = messages[k].comes
       /\ \A i \in 1..k : x.spans[i][1] = messages[i].comes

LEMMA StillInOrder ==
  ASSUME NEW messages \in Seq(Message), NEW k \in 1..Len(messages), NEW x \in Written, InOrder(messages, k - 1, x),
         NEW c \in Written, Writes(x, messages[k], c)
  PROVE  InOrder(messages, k, c)
<1> DEFINE m == messages[k]
           calm == (\A i \in 1..Len(messages) : messages[i].kind = "request") /\ (\A i,
                     j \in 1..Len(messages) : i <= j => messages[i].comes <= messages[j].comes)
<1>1. PICK start \in Nat :
        /\ start = IF x.free >= m.comes THEN x.free ELSE m.comes
        /\ c.free = IF m.kind = "request" THEN start ELSE start + m.takes
        /\ c.spans = Append(x.spans, <<start, start + m.takes>>)
  BY DEF Writes
<1>2. k \in Nat /\ m \in Message /\ m.comes \in Nat /\ m.takes \in Nat /\ x.free \in Nat /\
        x.spans \in Seq(Nat \X Nat) /\ Len(x.spans) = k - 1
  <2>1. k \in Nat /\ m \in Message
    OBVIOUS
  <2> HIDE DEF m
  <2> QED
    BY <2>1 DEF Message, Written, InOrder
<1> HIDE DEF m
<1>3. /\ Len(c.spans) = k /\ c.spans[k] = <<start, start + m.takes>>
      /\ \A i \in 1..k - 1 : c.spans[i] = x.spans[i] /\ x.spans[i] \in Nat \X Nat
  BY <1>1, <1>2
<1>4. x.free <= start /\ start <= c.free
  BY <1>1, <1>2
<1>5. ASSUME NEW i \in 1..k - 1, messages[i].kind # "request"
      PROVE  c.spans[i][2] <= start /\ c.spans[i][2] <= c.free
  <2>1. x.spans[i][2] <= x.free /\ x.spans[i][2] \in Nat /\ c.free \in Nat
    BY <1>3, <1>5 DEF InOrder, Written
  <2>2. c.spans[i] = x.spans[i]
    BY <1>3
  <2>3. c.spans[i][2] <= x.free /\ c.spans[i][2] \in Nat
    BY <2>1, <2>2
  <2> DEFINE v == c.spans[i][2]
             was == x.free
             is == c.free
  <2>4. v \in Nat /\ was \in Nat /\ is \in Nat /\ start \in Nat /\ v <= was /\ was <= start /\ start <= is
    BY <1>2, <1>4, <2>1, <2>3
  <2> HIDE DEF v, was, is
  <2>5. v <= start /\ v <= is
    BY <2>4
  <2> QED
    BY <2>5 DEF v, is
<1>6. \A i \in 1..k : messages[i].kind # "request" => c.spans[i][2] <= c.free
  <2>1. m.kind # "request" => c.spans[k][2] <= c.free
    BY <1>1, <1>2, <1>3
  <2> QED
    BY <1>2, <1>5, <2>1 DEF m
<1>7. ASSUME NEW i \in 1..k, NEW j \in 1..k, i < j, messages[i].kind # "request"
      PROVE  c.spans[i][2] <= c.spans[j][1]
  <2>1. CASE j = k
    <3>1. i \in 1..k - 1
      BY <1>2, <1>7, <2>1
    <3>2. c.spans[i][2] <= start
      BY <1>5, <1>7, <3>1
    <3>3. c.spans[j][1] = start
      BY <1>3, <2>1
    <3> QED
      BY <3>2, <3>3
  <2>2. CASE j # k
    <3>1. i \in 1..k - 1 /\ j \in 1..k - 1
      BY <1>2, <1>7, <2>2
    <3> QED
      BY <1>3, <1>7, <3>1 DEF InOrder
  <2> QED
    BY <2>1, <2>2
<1>8. ASSUME calm
      PROVE  c.free = messages[k].comes /\ \A i \in 1..k : c.spans[i][1] = messages[i].comes
  <2>1. /\ m.kind = "request" /\ x.free <= m.comes
    <3>1. k - 1 = 0 => x.free = 0
      BY <1>8 DEF InOrder
    <3>2. k - 1 > 0 => x.free = messages[k - 1].comes /\ messages[k - 1].comes <= messages[k].comes
      BY <1>2, <1>8 DEF InOrder
    <3> QED
      BY <1>2, <1>8, <3>1, <3>2 DEF m
  <2>2. start = m.comes /\ c.free = m.comes
    BY <1>1, <1>2, <2>1
  <2>3. \A i \in 1..k - 1 : c.spans[i][1] = messages[i].comes
    BY <1>3, <1>8 DEF InOrder
  <2>4. c.spans[k][1] = messages[k].comes
    BY <1>3, <2>2 DEF m
  <2> QED
    BY <1>2, <2>2, <2>3, <2>4 DEF m
<1> QED
  BY <1>2, <1>3, <1>6, <1>7, <1>8 DEF InOrder

\* However many messages come, and whenever, what is not a request is out before
\* the next is begun, and requests wait for one another not at all (mcp_patches.py:219).
THEOREM WriterKeepsOrder ==
  ASSUME NEW messages \in Seq(Message)
  PROVE  ClientRule!WriterOrdered(messages)
<1> DEFINE n == Len(messages)
<1>1. n \in Nat /\ \A k \in 1..n : messages[k] \in Message
  OBVIOUS
<1>2. PICK h \in [0..n -> Written] : WritesAll(h, messages)
  BY WriterFolds
<1> DEFINE S == {k \in 0..n : InOrder(messages, k, h[k])}
<1>3. 0 \in S
  BY <1>1, <1>2 DEF InOrder, ClientRule!Unwritten, WritesAll
<1>4. ASSUME NEW k \in 1..n, k - 1 \in S PROVE k \in S
  <2>1. h[k - 1] \in Written /\ h[k] \in Written /\ k \in 0..n /\ h[k] = ClientRule!WriteOne(h[k - 1], messages[k])
    BY <1>1, <1>2 DEF WritesAll
  <2>2. Writes(h[k - 1], messages[k], h[k])
    BY <1>1, <2>1, WriteCase
  <2>3. InOrder(messages, k - 1, h[k - 1])
    BY <1>4
  <2>4. InOrder(messages, k, h[k])
    BY <2>1, <2>2, <2>3, StillInOrder
  <2> QED
    BY <2>1, <2>4
<1>5. InOrder(messages, n, h[n])
  <2>1. \A k \in 1..n : k - 1 \in S => k \in S
    BY <1>4
  <2> HIDE DEF S
  <2>2. \A k \in 0..n : k \in S
    BY <1>1, <1>3, <2>1, StepByStep
  <2>3. n \in 0..n
    BY <1>1
  <2> QED
    BY <2>2, <2>3 DEF S
<1>6. h[n].spans = ClientRule!PostWriter(messages)
  BY <1>2 DEF WritesAll
<1>7. /\ \A i, j \in 1..n : i < j /\ messages[i].kind # "request" => h[n].spans[i][2] <= h[n].spans[j][1]
      /\ (\A i \in 1..n : messages[i].kind = "request") /\ (\A i, j \in 1..n : i <= j => messages[i].comes <= messages[j].comes)
           => \A i \in 1..n : h[n].spans[i][1] = messages[i].comes
  BY <1>5, Zenon DEF InOrder
<1> QED
  BY <1>6, <1>7, Zenon DEF ClientRule!WriterOrdered

-----------------------------------------------------------------------------
(* What is kept of a project, and of what an agent changed.                 *)
Names == {"venv", ".git", ".env", ".env.*", "*.env"}

\* A pattern of one name is at home at any depth.
LEMMA AtHome ==
  ASSUME NEW name \in Names, NEW Segment, NEW path \in Seq(Segment)
  PROVE  CliRule!MatchesFrom(<<"**", name>>, path) <=> path # <<>> /\ CliRule!SegmentMatches(name, path[Len(path)])
<1> DEFINE L == Len(path)
           pattern == <<"**", name>>
           at == CliRule!SegmentMatches(name, path[L])
           value(f, i) ==
             IF i = 0 THEN {0}
             ELSE IF pattern[Len(pattern) - i + 1] = "**" THEN IF i = 1 THEN 1..L ELSE {j \in 0..L : \E k \in f[i - 1] : k <= j}
             ELSE {j \in 1..L : j - 1 \in f[i - 1] /\ CliRule!SegmentMatches(pattern[Len(pattern) - i + 1], path[L - j + 1])}
           Solves(f) == f = [i \in 0..Len(pattern) |-> value(f, i)]
           ends == CHOOSE f : Solves(f)
<1>1. CliRule!MatchesFrom(pattern, path) <=> L \in ends[Len(pattern)]
  BY SMT DEF CliRule!MatchesFrom
<1>2. L \in Nat /\ Len(pattern) = 2 /\ pattern[1] = "**" /\ pattern[2] = name /\ name # "**"
  BY DEF Names
<1>3. ASSUME NEW f
      PROVE  /\ value(f, 0) = {0}
             /\ value(f, 1) = {j \in 1..L : j - 1 \in f[0] /\ CliRule!SegmentMatches(name, path[L - j + 1])}
             /\ value(f, 2) = {j \in 0..L : \E k \in f[1] : k <= j}
  <2>1. Len(pattern) - 1 + 1 = 2 /\ Len(pattern) - 2 + 1 = 1 /\ 1 - 1 = 0 /\ 2 - 1 = 1
    BY <1>2
  <2> HIDE DEF pattern
  <2> QED
    BY <1>2, <2>1
<1> HIDE DEF value
<1> DEFINE one == {j \in 1..L : j - 1 \in {0} /\ CliRule!SegmentMatches(name, path[L - j + 1])}
           shape == [i \in 0..2 |-> IF i = 0 THEN {0} ELSE IF i = 1 THEN one ELSE {j \in 0..L : \E k \in one : k <= j}]
<1>4. Solves(shape)
  <2>1. shape[0] = {0} /\ shape[1] = one /\ shape[2] = {j \in 0..L : \E k \in one : k <= j}
    OBVIOUS
  <2>2. shape[0] = value(shape, 0) /\ shape[1] = value(shape, 1) /\ shape[2] = value(shape, 2)
    <3> HIDE DEF shape
    <3>1. value(shape, 1) = one
      BY <1>3, <2>1
    <3> HIDE DEF one
    <3> QED
      BY <1>3, <2>1, <3>1
  <2>3. \A i \in 0..2 : shape[i] = value(shape, i)
    <3> HIDE DEF shape
    <3> QED
      BY <2>2
  <2>4. shape = [i \in 0..2 |-> shape[i]]
    OBVIOUS
  <2> HIDE DEF shape
  <2> QED
    BY <1>2, <2>3, <2>4
<1>5. Solves(ends)
  BY <1>4
<1> HIDE DEF ends, shape, pattern, L
<1>6. ends[0] = value(ends, 0) /\ ends[1] = value(ends, 1) /\ ends[2] = value(ends, 2)
  BY <1>2, <1>5
<1>7. ends[0] = {0} /\ ends[1] = one /\ ends[2] = {j \in 0..L : \E k \in one : k <= j}
  <2>1. ends[0] = {0}
    BY <1>3, <1>6
  <2>2. ends[1] = one
    BY <1>3, <1>6, <2>1
  <2> HIDE DEF one
  <2> QED
    BY <1>3, <1>6, <2>1, <2>2
<1>8. L \in ends[2] <=> L > 0 /\ CliRule!SegmentMatches(name, path[L])
  <2>1. L - 1 + 1 = L
    BY <1>2
  <2> QED
    BY <1>2, <1>7, <2>1
<1>9. path # <<>> <=> L > 0
  BY DEF L
<1> QED
  BY <1>1, <1>2, <1>8, <1>9 DEF pattern, L

HeldBy(name, path) == \E k \in 1..Len(path) : CliRule!SegmentMatches(name, path[k])

\* A rule of one name hits what bears it and what is below.
LEMMA HitsBelow ==
  ASSUME NEW name \in Names, NEW Segment, NEW path \in Seq(Segment), NEW isdir \in BOOLEAN
  PROVE  CliRule!Hits(CliRule!Rule(name), path, isdir) <=> HeldBy(name, path)
<1> DEFINE rule == CliRule!Rule(name)
           L == Len(path)
<1>1. CliRule!Full(rule) = <<"**", name>> /\ rule.dirOnly = FALSE
  <2>1. rule.body = <<name>> /\ rule.rooted = FALSE /\ rule.dirOnly = FALSE
    BY DEF CliRule!Rule
  <2>2. <<name>> # <<>> /\ <<name>> # <<"**">> /\ Len(<<name>>) = 1 /\ <<"**">> \o <<name>> = <<"**", name>>
    <3>1. name # "**" /\ Len(<<name>>) = 1
      BY DEF Names
    <3>2. <<name>> # <<>> /\ <<name>> # <<"**">>
      BY <3>1
    <3> DEFINE S == {"**", name}
    <3>3. <<"**">> \o <<name>> = <<"**", name>>
      <4>1. <<"**">> \in Seq(S) /\ <<name>> \in Seq(S) /\ <<"**", name>> \in Seq(S)
            /\ Len(<<"**">>) = 1 /\ Len(<<name>>) = 1 /\ Len(<<"**", name>>) = 2
        OBVIOUS
      <4> HIDE DEF S
      <4>2. <<"**">> \o <<name>> \in Seq(S) /\ Len(<<"**">> \o <<name>>) = 2
            /\ \A i \in 1..2 : (<<"**">> \o <<name>>)[i] = IF i <= 1 THEN <<"**">>[i] ELSE <<name>>[i - 1]
        BY <4>1, ConcatProperties
      <4>3. \A i \in 1..2 : (<<"**">> \o <<name>>)[i] = <<"**", name>>[i]
        BY <4>2
      <4> QED
        BY <4>1, <4>2, <4>3, SeqEqual
    <3> QED
      BY <3>1, <3>2, <3>3
  <2> HIDE DEF rule
  <2> QED
    BY <2>1, <2>2 DEF CliRule!Full
<1>2. CliRule!MatchesFrom(<<"**", name>>, path) <=> path # <<>> /\ CliRule!SegmentMatches(name, path[L])
  BY AtHome
<1>3. ASSUME NEW n \in 1..L - 1
      PROVE  CliRule!MatchesFrom(<<"**", name>>, SubSeq(path, 1, n)) <=> CliRule!SegmentMatches(name, path[n])
  <2>1. SubSeq(path, 1, n) \in Seq(Segment) /\ Len(SubSeq(path, 1, n)) = n /\ SubSeq(path, 1, n)[n] = path[n] /\ n > 0
    OBVIOUS
  <2>2. SubSeq(path, 1, n) # <<>>
    BY <2>1
  <2> QED
    BY <2>1, <2>2, AtHome
<1>4. path # <<>> <=> L \in 1..L
  OBVIOUS
<1>5. \A k \in 1..L : k = L \/ k \in 1..L - 1
  OBVIOUS
<1>6. 1..L - 1 \subseteq 1..L
  OBVIOUS
<1> HIDE DEF rule, L
<1>7. CliRule!Hits(rule, path, isdir) <=> CliRule!MatchesFrom(<<"**", name>>, path) \/
        \E n \in 1..L - 1 : CliRule!MatchesFrom(<<"**", name>>, SubSeq(path, 1, n))
  BY <1>1, Zenon DEF CliRule!Hits, L
<1> QED
  BY <1>2, <1>3, <1>4, <1>5, <1>6, <1>7, Zenon DEF HeldBy, L, rule

Line(Segment) == [negate : BOOLEAN, rooted : BOOLEAN, dirOnly : BOOLEAN, body : Seq(Segment)]

\* h is whether the path is left out before, between and after the rules.
Decides(h, rules, path, isdir) ==
  /\ h[0] = FALSE
  /\ \A k \in 1..Len(rules) : h[k] = IF CliRule!Hits(rules[k], path, isdir) THEN ~rules[k].negate ELSE h[k - 1]

LEMMA RulesFold ==
  ASSUME NEW Segment, NEW lines, NEW path, NEW isdir, CliRule!Rules(lines) \in Seq(Line(Segment))
  PROVE  \E h \in [0..Len(CliRule!Rules(lines)) -> BOOLEAN] :
           /\ CliRule!Keep(lines, path, isdir) <=> ~h[Len(CliRule!Rules(lines))]
           /\ Decides(h, CliRule!Rules(lines), path, isdir)
<1> DEFINE rules == CliRule!Rules(lines)
           n == Len(rules)
           next(acc, k) == IF CliRule!Hits(rules[k], path, isdir) THEN ~rules[k].negate ELSE acc
           step == [k \in 1..n |-> [acc \in BOOLEAN |-> next(acc, k)]]
           Folds(f) == f = [t \in SUBSET (1..n) |-> IF t = {} THEN FALSE ELSE next(f[t \ {Greatest(t)}], Greatest(t))]
           iter == CHOOSE f : Folds(f)
<1>1. n \in Nat /\ DOMAIN rules = 1..n /\ \A k \in 1..n : rules[k] \in Line(Segment) /\ rules[k].negate \in BOOLEAN
  <2> HIDE DEF rules
  <2>1. rules \in Seq(Line(Segment))
    BY DEF rules
  <2>2. n \in Nat /\ DOMAIN rules = 1..n /\ \A k \in 1..n : rules[k] \in Line(Segment)
    BY <2>1
  <2> QED
    BY <2>2 DEF Line
<1>2. CliRule!Keep(lines, path, isdir) <=> ~iter[1..n]
  <2>1. CliRule!Keep(lines, path, isdir) <=>
          ~(CHOOSE f : f = [t \in SUBSET (DOMAIN rules) |-> IF t = {} THEN FALSE ELSE
            next(f[t \ {Greatest(t)}], Greatest(t))])[DOMAIN rules]
    BY Zenon DEF CliRule!Keep, CliRule!FoldLeft, CliRule!MapThenFoldSet, CliRule!Max, Greatest
  <2> HIDE DEF next, n, rules
  <2> QED
    BY <1>1, <2>1
<1>3. \A k \in 1..n, acc \in BOOLEAN : next(acc, k) \in BOOLEAN
  BY <1>1
<1> HIDE DEF next, n
<1>4. step \in [1..n -> [BOOLEAN -> BOOLEAN]]
  BY <1>3
<1>5. \A k \in 1..n, acc \in BOOLEAN : step[k][acc] = next(acc, k)
  OBVIOUS
<1> HIDE DEF step
<1>6. PICK g \in [SUBSET (1..n) -> BOOLEAN] : Recurses(g, n, FALSE, step)
  BY <1>1, <1>4, FoldExists
<1>7. Folds(g)
  <2>1. \A t \in SUBSET (1..n) : t # {} => step[Greatest(t)][g[t \ {Greatest(t)}]] = next(g[t \ {Greatest(t)}], Greatest(t))
    BY <1>1, <1>5, <1>6, GreatestIn
  <2> QED
    BY <1>6, <2>1 DEF Recurses
<1>8. Folds(iter)
  BY <1>7
<1>9. RecursesIn(BOOLEAN, iter, n, FALSE, step)
  <2>1. iter[{}] = FALSE
    BY <1>8
  <2>2. ASSUME NEW t \in SUBSET (1..n), t # {}, iter[t \ {Greatest(t)}] \in BOOLEAN
        PROVE  iter[t] = step[Greatest(t)][iter[t \ {Greatest(t)}]]
    <3>1. Greatest(t) \in 1..n
      BY <1>1, <2>2, GreatestIn
    <3> QED
      BY <1>5, <1>8, <2>2, <3>1
  <2> HIDE DEF iter
  <2> QED
    BY <2>1, <2>2 DEF RecursesIn
<1> HIDE DEF iter
<1>10. PICK h \in [0..n -> BOOLEAN] : Leads(h, n, FALSE, step, iter[1..n])
  BY <1>1, <1>4, <1>9, FoldStays
<1>11. \A k \in 1..n : h[k] = next(h[k - 1], k)
  <2> SUFFICES ASSUME NEW k \in 1..n PROVE h[k] = next(h[k - 1], k)
    OBVIOUS
  <2>1. h[k] = step[k][h[k - 1]]
    BY <1>10 DEF Leads
  <2>2. k - 1 \in 0..n
    BY <1>1
  <2>3. h[k - 1] \in BOOLEAN
    BY <1>10, <2>2
  <2> QED
    BY <1>5, <2>1, <2>3
<1> QED
  BY <1>2, <1>10, <1>11 DEF next, n, Leads, Decides

\* What the names match.
LEMMA NamesMatch ==
  ASSUME NEW s
  PROVE  /\ CliRule!SegmentMatches("venv", s) <=> s = "venv"
         /\ CliRule!SegmentMatches(".git", s) <=> s = ".git"
         /\ CliRule!SegmentMatches(".env", s) <=> s = ".env"
         /\ CliRule!SegmentMatches(".env.*", s) <=> s = ".env.local"
         /\ CliRule!SegmentMatches("*.env", s) <=> s \in {".env", "prod.env"}
  BY DEF CliRule!SegmentMatches, CliRule!Glob

Secrets == {".git", ".env", ".env.local", "prod.env"}

\* The rules that stand behind a project's own leave out what holds a secret, and
\* nothing else.
LEMMA SecretHit ==
  ASSUME NEW Segment, NEW path \in Seq(Segment), NEW isdir \in BOOLEAN
  PROVE  (\E i \in 1..Len(path) : path[i] \in Secrets) <=> \E k \in 1..4 : CliRule!Hits(CliRule!Sensitive[k], path, isdir)
<1>1. /\ CliRule!Sensitive[1] = CliRule!Rule(".git") /\ CliRule!Sensitive[2] = CliRule!Rule(".env")
      /\ CliRule!Sensitive[3] = CliRule!Rule(".env.*") /\ CliRule!Sensitive[4] = CliRule!Rule("*.env")
  BY DEF CliRule!Sensitive
<1>2. (\E k \in 1..4 : CliRule!Hits(CliRule!Sensitive[k], path, isdir)) <=>
        \/ CliRule!Hits(CliRule!Sensitive[1], path, isdir) \/ CliRule!Hits(CliRule!Sensitive[2], path, isdir)
        \/ CliRule!Hits(CliRule!Sensitive[3], path, isdir) \/ CliRule!Hits(CliRule!Sensitive[4], path, isdir)
  <2>1. 1..4 = {1, 2, 3, 4}
    OBVIOUS
  <2> QED
    BY <2>1, Zenon
<1>3. /\ CliRule!Hits(CliRule!Sensitive[1], path, isdir) <=> HeldBy(".git", path)
      /\ CliRule!Hits(CliRule!Sensitive[2], path, isdir) <=> HeldBy(".env", path)
      /\ CliRule!Hits(CliRule!Sensitive[3], path, isdir) <=> HeldBy(".env.*", path)
      /\ CliRule!Hits(CliRule!Sensitive[4], path, isdir) <=> HeldBy("*.env", path)
  <2>1. {".git", ".env", ".env.*", "*.env"} \subseteq Names
    BY DEF Names
  <2> QED
    BY <1>1, <2>1, HitsBelow
<1>4. (\E i \in 1..Len(path) : path[i] \in Secrets) <=>
        HeldBy(".git", path) \/ HeldBy(".env", path) \/ HeldBy(".env.*", path) \/ HeldBy("*.env", path)
  BY NamesMatch DEF HeldBy, Secrets
<1> QED
  BY <1>2, <1>3, <1>4

\* r is t behind s: each keeps its order.
Behind(s, t, r) ==
  /\ Len(r) = Len(s) + Len(t)
  /\ \A i \in 1..Len(s) : r[i] = s[i]
  /\ \A i \in 1..Len(t) : r[Len(s) + i] = t[i]

LEMMA OneBehind ==
  ASSUME NEW S, NEW s \in Seq(S), NEW t \in Seq(S)
  PROVE  s \o t \in Seq(S) /\ Behind(s, t, s \o t)
<1>1. Len(s) \in Nat /\ Len(t) \in Nat
  OBVIOUS
<1>2. /\ s \o t \in Seq(S) /\ Len(s \o t) = Len(s) + Len(t)
      /\ \A i \in 1..Len(s) + Len(t) : (s \o t)[i] = IF i <= Len(s) THEN s[i] ELSE t[i - Len(s)]
  BY ConcatProperties
<1>3. ASSUME NEW i \in 1..Len(t) PROVE (s \o t)[Len(s) + i] = t[i]
  <2>1. Len(s) + i \in 1..Len(s) + Len(t) /\ ~(Len(s) + i <= Len(s)) /\ Len(s) + i - Len(s) = i
    BY <1>1
  <2> QED
    BY <1>2, <2>1
<1> QED
  BY <1>1, <1>2, <1>3 DEF Behind

\* Where the rules stand.
LEMMA RulesStand ==
  ASSUME NEW Segment, Names \subseteq Segment, NEW lines \in Seq(Line(Segment))
  PROVE  /\ CliRule!Rules(lines) \in Seq(Line(Segment)) /\ Len(CliRule!Rules(lines)) = Len(lines) + 5
         /\ CliRule!Rules(lines)[1] = CliRule!Rule("venv")
         /\ \A k \in 1..4 : CliRule!Rules(lines)[Len(lines) + 1 + k] = CliRule!Sensitive[k] /\ CliRule!Sensitive[k].negate = FALSE
<1> DEFINE first == CliRule!Default
           last == CliRule!Sensitive
           L == Line(Segment)
<1>1. \A name \in Names : CliRule!Rule(name) \in Line(Segment) /\ CliRule!Rule(name).negate = FALSE
  <2> SUFFICES ASSUME NEW name \in Names PROVE CliRule!Rule(name) \in Line(Segment) /\ CliRule!Rule(name).negate = FALSE
    OBVIOUS
  <2>1. <<name>> \in Seq(Segment)
    OBVIOUS
  <2> QED
    BY <2>1 DEF CliRule!Rule, Line
<1>2. first \in Seq(Line(Segment)) /\ Len(first) = 1 /\ first[1] = CliRule!Rule("venv")
  <2>1. CliRule!Rule("venv") \in Line(Segment)
    BY <1>1 DEF Names
  <2>2. first = <<CliRule!Rule("venv")>>
    BY DEF CliRule!Default
  <2> HIDE DEF first
  <2> QED
    BY <2>1, <2>2
<1>3. last \in Seq(Line(Segment)) /\ Len(last) = 4 /\ \A k \in 1..4 : last[k].negate = FALSE
  <2>1. last = <<CliRule!Rule(".git"), CliRule!Rule(".env"), CliRule!Rule(".env.*"), CliRule!Rule("*.env")>>
    BY DEF CliRule!Sensitive
  <2>2. \A name \in {".git", ".env", ".env.*", "*.env"} : CliRule!Rule(name) \in Line(Segment) /\ CliRule!Rule(name).negate = FALSE
    BY <1>1 DEF Names
  <2> HIDE DEF last
  <2>3. last \in Seq(Line(Segment)) /\ Len(last) = 4
    BY <2>1, <2>2
  <2>4. last[1].negate = FALSE /\ last[2].negate = FALSE /\ last[3].negate = FALSE /\ last[4].negate = FALSE
    BY <2>1, <2>2
  <2>5. \A k \in 1..4 : k \in {1, 2, 3, 4}
    OBVIOUS
  <2> QED
    BY <2>3, <2>4, <2>5
<1>4. CliRule!Rules(lines) = first \o lines \o last
  BY DEF CliRule!Rules
<1>a. first \in Seq(L) /\ last \in Seq(L) /\ lines \in Seq(L)
  BY <1>2, <1>3
<1> HIDE DEF first, last, L
<1>5. first \o lines \in Seq(L) /\ Len(first \o lines) = Len(lines) + 1 /\ (first \o lines)[1] = first[1]
  <2>1. Len(lines) \in Nat
    OBVIOUS
  <2>2. first \o lines \in Seq(L) /\ Behind(first, lines, first \o lines)
    BY <1>a, OneBehind, Zenon
  <2> QED
    BY <1>2, <2>1, <2>2 DEF Behind
<1> DEFINE head == first \o lines
<1> HIDE DEF head
<1>6. head \in Seq(L) /\ Len(head) = Len(lines) + 1 /\ head[1] = first[1] /\ CliRule!Rules(lines) = head \o last
  BY <1>4, <1>5 DEF head
<1>7. Len(lines) \in Nat
  OBVIOUS
<1>b. head \o last \in Seq(L) /\ Behind(head, last, head \o last)
  BY <1>a, <1>6, OneBehind, Zenon
<1>8. head \o last \in Seq(L) /\ Len(head \o last) = Len(lines) + 5 /\ (head \o last)[1] = head[1]
  BY <1>2, <1>3, <1>b, <1>6, <1>7 DEF Behind
<1>9. \A k \in 1..4 : (head \o last)[Len(lines) + 1 + k] = last[k]
  BY <1>2, <1>3, <1>b, <1>6, <1>7 DEF Behind
<1> QED
  BY <1>2, <1>3, <1>6, <1>8, <1>9 DEF last, L

\* A path that holds a secret is never kept, whatever the project's own lines are;
\* without any, one that holds none is kept unless it holds the local junk.
LEMMA KeptPaths ==
  ASSUME NEW Segment, Names \subseteq Segment, NEW lines \in Seq(Line(Segment)), NEW path \in Seq(Segment), NEW isdir \in BOOLEAN
  PROVE  LET secret == \E i \in 1..Len(path) : path[i] \in Secrets IN
         /\ secret => ~CliRule!Keep(lines, path, isdir)
         /\ lines = <<>> /\ ~secret => (CliRule!Keep(lines, path, isdir) <=> ~HeldBy("venv", path))
<1> DEFINE secret == \E i \in 1..Len(path) : path[i] \in Secrets
           rules == CliRule!Rules(lines)
           b == Len(lines) + 1
           hit(k) == CliRule!Hits(CliRule!Sensitive[k], path, isdir)
<1>1. /\ rules \in Seq(Line(Segment)) /\ Len(rules) = b + 4 /\ b \in Nat /\ rules[1] = CliRule!Rule("venv")
      /\ \A k \in 1..4 : rules[b + k] = CliRule!Sensitive[k] /\ CliRule!Sensitive[k].negate = FALSE
  <2>1. Len(lines) \in Nat
    OBVIOUS
  <2>2. rules \in Seq(Line(Segment)) /\ Len(rules) = Len(lines) + 5 /\ rules[1] = CliRule!Rule("venv")
        /\ \A k \in 1..4 : rules[b + k] = CliRule!Sensitive[k] /\ CliRule!Sensitive[k].negate = FALSE
    BY RulesStand, Zenon
  <2> HIDE DEF rules
  <2> QED
    BY <2>1, <2>2
<1>2. secret <=> \E k \in 1..4 : hit(k)
  BY SecretHit
<1>3. PICK h \in [0..Len(rules) -> BOOLEAN] : (CliRule!Keep(lines, path, isdir) <=> ~h[Len(rules)]) /\ Decides(h, rules, path, isdir)
  BY <1>1, RulesFold
<1>4. \A k \in 1..4 : b + k \in 1..Len(rules) /\ (b + k) - 1 = b + (k - 1)
  BY <1>1
<1>5. ASSUME NEW k \in 1..4
      PROVE  h[b + k] <=> hit(k) \/ h[b + (k - 1)]
  <2>1. h[b + k] = IF hit(k) THEN ~FALSE ELSE h[b + (k - 1)]
    BY <1>1, <1>3, <1>4 DEF Decides
  <2> HIDE DEF hit
  <2> QED
    BY <2>1
<1> HIDE DEF hit, b, rules
<1>6. h[b + 4] <=> hit(1) \/ hit(2) \/ hit(3) \/ hit(4) \/ h[b + 0]
  <2>1. 1 \in 1..4 /\ 2 \in 1..4 /\ 3 \in 1..4 /\ 4 \in 1..4 /\ 1 - 1 = 0 /\ 2 - 1 = 1 /\ 3 - 1 = 2 /\ 4 - 1 = 3
    OBVIOUS
  <2>2. /\ (h[b + 1] <=> hit(1) \/ h[b + 0]) /\ (h[b + 2] <=> hit(2) \/ h[b + 1])
        /\ (h[b + 3] <=> hit(3) \/ h[b + 2]) /\ (h[b + 4] <=> hit(4) \/ h[b + 3])
    <3>1. h[b + 1] <=> hit(1) \/ h[b + (1 - 1)]
      BY <1>5, <2>1
    <3>2. h[b + 2] <=> hit(2) \/ h[b + (2 - 1)]
      BY <1>5, <2>1
    <3>3. h[b + 3] <=> hit(3) \/ h[b + (3 - 1)]
      BY <1>5, <2>1
    <3>4. h[b + 4] <=> hit(4) \/ h[b + (4 - 1)]
      BY <1>5, <2>1
    <3> QED
      BY <2>1, <3>1, <3>2, <3>3, <3>4
  <2> QED
    BY <2>2, Zenon
<1>7. secret <=> hit(1) \/ hit(2) \/ hit(3) \/ hit(4)
  <2>1. (\E k \in 1..4 : hit(k)) <=> hit(1) \/ hit(2) \/ hit(3) \/ hit(4)
    <3>1. 1..4 = {1, 2, 3, 4}
      OBVIOUS
    <3> QED
      BY <3>1, Zenon
  <2> QED
    BY <1>2, <2>1
<1>8. lines = <<>> => (h[b + 0] <=> HeldBy("venv", path))
  <2>1. 1 \in 1..Len(rules) /\ 1 - 1 = 0
    BY <1>1
  <2>2. h[1] = IF CliRule!Hits(rules[1], path, isdir) THEN ~rules[1].negate ELSE h[0]
    BY <1>3, <2>1 DEF Decides
  <2>3. rules[1].negate = FALSE /\ h[0] = FALSE
    BY <1>1, <1>3 DEF Decides, CliRule!Rule
  <2>4. CliRule!Hits(rules[1], path, isdir) <=> HeldBy("venv", path)
    BY <1>1, HitsBelow DEF Names
  <2>5. h[1] <=> HeldBy("venv", path)
    BY <2>2, <2>3, <2>4, Zenon
  <2>6. lines = <<>> => b + 0 = 1
    BY DEF b
  <2> QED
    BY <2>5, <2>6
<1>9. CliRule!Keep(lines, path, isdir) <=> ~h[b + 4]
  BY <1>1, <1>3
<1> QED
  BY <1>6, <1>7, <1>8, <1>9, Zenon

\* No line of a .dockerignore, and no number of them, brings a secret or what lies
\* beneath one into the build context, at any depth; without lines of its own a
\* project is uploaded but for the local junk (deploy.py:392).
THEOREM SecretsStayHome ==
  ASSUME NEW Segment, Names \subseteq Segment, NEW lines \in Seq(Line(Segment)), NEW path \in Seq(Segment)
  PROVE  CliRule!NoSecretUploaded(lines, path)
<1> DEFINE secret == \E i \in 1..Len(path) : path[i] \in Secrets
           above(n) == SubSeq(path, 1, n)
           secretAbove(n) == \E i \in 1..Len(above(n)) : above(n)[i] \in Secrets
<1>1. /\ secret => ~CliRule!Keep(lines, path, FALSE)
      /\ lines = <<>> /\ ~secret => (CliRule!Keep(lines, path, FALSE) <=> ~HeldBy("venv", path))
  BY KeptPaths
<1>2. ASSUME NEW n \in 1..Len(path) - 1, lines = <<>>, ~secret, ~HeldBy("venv", path)
      PROVE  CliRule!Keep(lines, above(n), TRUE)
  <2>1. above(n) \in Seq(Segment) /\ Len(above(n)) = n /\ n \in 1..Len(path) /\ \A i \in 1..n : above(n)[i] = path[i] /\ i \in 1..Len(path)
    OBVIOUS
  <2> HIDE DEF above
  <2>2. ~secretAbove(n)
    BY <1>2, <2>1
  <2>3. ~HeldBy("venv", above(n))
    BY <1>2, <2>1 DEF HeldBy
  <2>4. lines = <<>> /\ ~secretAbove(n) => (CliRule!Keep(lines, above(n), TRUE) <=> ~HeldBy("venv", above(n)))
    BY <2>1, KeptPaths
  <2> QED
    BY <1>2, <2>2, <2>3, <2>4
<1>3. HeldBy("venv", path) <=> "venv" \in {path[i] : i \in 1..Len(path)}
  BY NamesMatch DEF HeldBy
<1>4. secret => ~CliRule!Uploaded(lines, path)
  BY <1>1 DEF CliRule!Uploaded
<1>5. lines = <<>> /\ ~secret => (CliRule!Uploaded(lines, path) <=> "venv" \notin {path[i] : i \in 1..Len(path)})
  BY <1>1, <1>2, <1>3 DEF CliRule!Uploaded
<1> QED
  BY <1>4, <1>5, Zenon DEF CliRule!NoSecretUploaded, Secrets

\* What a changed file is, to the capture of artifacts.
Changed == [size : Nat, redacted : BOOLEAN, kept : BOOLEAN, same : BOOLEAN]
\* What has been captured of them so far.
Captured ==
  {c \in [files : Seq({e \in Changed : ~e.redacted /\ e.same}), bytes : Nat, eligible : Nat, skipped : Nat, truncated : BOOLEAN] :
     /\ Len(c.files) <= FileRule!CaptureFiles /\ c.bytes <= FileRule!CaptureTotal
     /\ Len(c.files) + c.skipped = c.eligible
     /\ c.truncated => c.skipped > 0}

\* One more file leaves what is captured within its bounds.
LEMMA CapturesOne ==
  ASSUME NEW acc \in Captured, NEW e \in Changed
  PROVE  FileRule!CaptureOne(acc, e) \in Captured
<1> DEFINE c == FileRule!CaptureOne(acc, e)
           over == Len(acc.files) >= FileRule!CaptureFiles \/ e.size > FileRule!CaptureSize \/ acc.bytes + e.size > FileRule!CaptureTotal
           Fit == {x \in Changed : ~x.redacted /\ x.same}
<1>1. /\ acc \in [files : Seq(Fit), bytes : Nat, eligible : Nat, skipped : Nat, truncated : BOOLEAN]
      /\ Len(acc.files) <= 2 /\ acc.bytes <= 3 /\ Len(acc.files) + acc.skipped = acc.eligible
      /\ acc.truncated => acc.skipped > 0
  BY DEF Captured, FileRule!CaptureFiles, FileRule!CaptureTotal
<1>2. e.size \in Nat /\ e.redacted \in BOOLEAN /\ e.kept \in BOOLEAN /\ e.same \in BOOLEAN
  BY DEF Changed
<1>3. Len(acc.files) \in Nat
  BY <1>1
<1>0. acc = [files |-> acc.files, bytes |-> acc.bytes, eligible |-> acc.eligible, skipped |-> acc.skipped, truncated |-> acc.truncated]
  BY <1>1
<1>4. c \in [files : Seq(Fit), bytes : Nat, eligible : Nat, skipped : Nat, truncated : BOOLEAN]
      /\ Len(c.files) <= 2 /\ c.bytes <= 3 /\ Len(c.files) + c.skipped = c.eligible
      /\ (c.truncated => c.skipped > 0)
  <2>1. CASE e.redacted \/ ~e.kept
    BY <1>1, <2>1 DEF FileRule!CaptureOne
  <2>2. CASE ~(e.redacted \/ ~e.kept) /\ over
    <3>1. c = [files |-> acc.files, bytes |-> acc.bytes, eligible |-> acc.eligible + 1, skipped |-> acc.skipped + 1, truncated |-> TRUE]
      BY <1>0, <2>2 DEF FileRule!CaptureOne
    <3> HIDE DEF c, Fit
    <3> QED
      BY <1>1, <1>3, <3>1
  <2>3. CASE ~(e.redacted \/ ~e.kept) /\ ~over /\ ~e.same
    <3>1. c = [files |-> acc.files, bytes |-> acc.bytes, eligible |-> acc.eligible + 1,
            skipped |-> acc.skipped + 1, truncated |-> acc.truncated]
      BY <1>0, <2>3 DEF FileRule!CaptureOne
    <3> HIDE DEF c, Fit
    <3> QED
      BY <1>1, <1>3, <3>1
  <2>4. CASE ~(e.redacted \/ ~e.kept) /\ ~over /\ e.same
    <3>1. c = [files |-> Append(acc.files, e), bytes |-> acc.bytes + e.size,
            eligible |-> acc.eligible + 1, skipped |-> acc.skipped, truncated |-> acc.truncated]
      BY <1>0, <2>4 DEF FileRule!CaptureOne
    <3>2. e \in Fit /\ Len(acc.files) < 2 /\ acc.bytes + e.size <= 3
      BY <1>1, <1>2, <1>3, <2>4 DEF FileRule!CaptureFiles, FileRule!CaptureTotal
    <3>3. Append(acc.files, e) \in Seq(Fit) /\ Len(Append(acc.files, e)) = Len(acc.files) + 1
      <4> HIDE DEF Fit
      <4> QED
        BY <1>1, <3>2
    <3> HIDE DEF c, Fit
    <3> QED
      BY <1>1, <1>2, <1>3, <3>1, <3>2, <3>3
  <2> QED
    BY <2>1, <2>2, <2>3, <2>4
<1> HIDE DEF c
<1>5. c \in Captured
  BY <1>4 DEF Captured, FileRule!CaptureFiles, FileRule!CaptureTotal
<1> QED
  BY <1>5 DEF c

\* What is captured stays within its bounds, of however many files.
LEMMA CaptureFolds ==
  ASSUME NEW entries \in Seq(Changed)
  PROVE  FileRule!Capture(entries) \in Captured
<1> DEFINE n == Len(entries)
           base == FileRule!NoArtifacts
           next(acc, k) == FileRule!CaptureOne(acc, entries[k])
           step == [k \in 1..n |-> [acc \in Captured |-> next(acc, k)]]
           Folds(f) == f = [t \in SUBSET (1..n) |-> IF t = {} THEN base ELSE next(f[t \ {Greatest(t)}], Greatest(t))]
           iter == CHOOSE f : Folds(f)
<1>1. n \in Nat /\ DOMAIN entries = 1..n /\ \A k \in 1..n : entries[k] \in Changed
  OBVIOUS
<1>2. FileRule!Capture(entries) = iter[1..n]
  <2>1. FileRule!Capture(entries) =
          (CHOOSE f : f = [t \in SUBSET (DOMAIN entries) |-> IF t = {} THEN base ELSE
            next(f[t \ {Greatest(t)}], Greatest(t))])[DOMAIN entries]
    BY Zenon DEF FileRule!Capture, FileRule!FoldLeft, FileRule!MapThenFoldSet, FileRule!Max, Greatest
  <2> HIDE DEF base, next, n
  <2> QED
    BY <1>1, <2>1
<1>3. base \in Captured
  BY DEF FileRule!NoArtifacts, Captured, FileRule!CaptureFiles, FileRule!CaptureTotal
<1>4. \A k \in 1..n, acc \in Captured : next(acc, k) \in Captured
  <2> SUFFICES ASSUME NEW k \in 1..n, NEW acc \in Captured PROVE FileRule!CaptureOne(acc, entries[k]) \in Captured
    OBVIOUS
  <2>1. entries[k] \in Changed
    BY <1>1
  <2> QED
    BY <2>1, CapturesOne
<1> HIDE DEF base, next, n
<1>5. step \in [1..n -> [Captured -> Captured]]
  BY <1>4
<1>6. \A k \in 1..n, acc \in Captured : step[k][acc] = next(acc, k)
  OBVIOUS
<1> HIDE DEF step
<1>7. PICK g \in [SUBSET (1..n) -> Captured] : Recurses(g, n, base, step)
  BY <1>1, <1>3, <1>5, FoldExists
<1>8. Folds(g)
  <2>1. \A t \in SUBSET (1..n) : t # {} => step[Greatest(t)][g[t \ {Greatest(t)}]] = next(g[t \ {Greatest(t)}], Greatest(t))
    BY <1>1, <1>6, <1>7, GreatestIn
  <2> QED
    BY <1>7, <2>1 DEF Recurses
<1>9. Folds(iter)
  BY <1>8
<1>10. RecursesIn(Captured, iter, n, base, step)
  <2>1. iter[{}] = base
    BY <1>9
  <2>2. ASSUME NEW t \in SUBSET (1..n), t # {}, iter[t \ {Greatest(t)}] \in Captured
        PROVE  iter[t] = step[Greatest(t)][iter[t \ {Greatest(t)}]]
    <3>1. Greatest(t) \in 1..n
      BY <1>1, <2>2, GreatestIn
    <3> QED
      BY <1>6, <1>9, <2>2, <3>1
  <2> HIDE DEF iter
  <2> QED
    BY <2>1, <2>2 DEF RecursesIn
<1> HIDE DEF iter
<1>11. PICK h \in [0..n -> Captured] : Leads(h, n, base, step, iter[1..n])
  BY <1>1, <1>3, <1>5, <1>10, FoldStays
<1>12. n \in 0..n /\ h[n] = iter[1..n]
  BY <1>1, <1>11 DEF Leads
<1> QED
  BY <1>2, <1>12

\* Whatever changed, as much of it as there is: what is captured stays within the
\* number of files and of bytes, none of it is a secret's or has changed since,
\* and what was eligible is captured or counted as skipped (file_tracker.py:401).
THEOREM CapturesFit ==
  ASSUME NEW entries \in Seq(Changed)
  PROVE  FileRule!CaptureFits(entries)
<1> DEFINE c == FileRule!Capture(entries)
<1>1. c \in Captured
  BY CaptureFolds
<1> HIDE DEF c
<1>2. \A e \in FileRule!ToSet(c.files) : ~e.redacted /\ e.same
  BY <1>1 DEF FileRule!ToSet, Captured
<1>3. /\ Len(c.files) <= FileRule!CaptureFiles /\ c.bytes <= FileRule!CaptureTotal
      /\ Len(c.files) + c.skipped = c.eligible /\ (c.truncated => c.skipped > 0)
  BY <1>1 DEF Captured
<1> QED
  BY <1>2, <1>3, Zenon DEF FileRule!CaptureFits, c

-----------------------------------------------------------------------------
(* What a grade is made of, how tasks are grouped and placed, and what a chat*)
(* remembers.                                                               *)
\* How far the names have been told apart.
Naming(Part) ==
  [used : {u \in SUBSET Seq(Part) : IsFiniteSet(u)}, names : Seq(Seq(Part)),
   usage : UNION {[D -> Nat] : D \in SUBSET Seq(Part)}]

LEMMA SameCount == ASSUME NEW S PROVE EvalRule!Cardinality(S) = Cardinality(S)
  BY Zenon DEF EvalRule!Cardinality, Cardinality

\* There is a free number among the first ones behind the last: fewer names are
\* taken than there are numbers.
LEMMA SuffixFree ==
  ASSUME NEW Part, Nat \subseteq Part, NEW reserved \in SUBSET Seq(Part), IsFiniteSet(reserved),
         NEW acc \in Naming(Part), NEW name \in Seq(Part)
  PROVE  LET k == EvalRule!Suffix(reserved, acc, name) IN k \in Nat /\ Append(name, k) \notin acc.used \cup reserved
<1> DEFINE last == IF name \in DOMAIN acc.usage THEN acc.usage[name] ELSE 0
           taken == acc.used \cup reserved
           c == Cardinality(taken)
           I == last + 1..last + c + 1
           free == {k \in I : Append(name, k) \notin taken}
<1>1. last \in Nat
  <2>1. PICK D \in SUBSET Seq(Part) : acc.usage \in [D -> Nat]
    BY DEF Naming
  <2> QED
    BY <2>1
<1>2. IsFiniteSet(taken) /\ c \in Nat
  <2>1. IsFiniteSet(acc.used)
    BY DEF Naming
  <2> QED
    BY <2>1, FS_Union, FS_CardinalityType
<1> HIDE DEF last, taken
<1>3. free # {}
  <2> SUFFICES ASSUME \A k \in I : Append(name, k) \in taken PROVE FALSE
    OBVIOUS
  <2> DEFINE f == [k \in I |-> Append(name, k)]
  <2>1. f \in [I -> taken]
    OBVIOUS
  <2>2. IsFiniteSet(I) /\ Cardinality(I) = c + 1
    <3> DEFINE a == last + 1
               b == last + c + 1
    <3>1. a \in Int /\ b \in Int /\ ~(a > b) /\ b - a + 1 = c + 1
      BY <1>1, <1>2
    <3>2. I = a..b
      OBVIOUS
    <3> HIDE DEF a, b, I
    <3> QED
      BY <3>1, <3>2, FS_Interval
  <2>3. \E x, y \in I : x # y /\ f[x] = f[y]
    <3> HIDE DEF f, I
    <3> QED
      BY <1>2, <2>1, <2>2, FS_PigeonHole
  <2>4. PICK x, y \in I : x # y /\ Append(name, x) = Append(name, y)
    BY <2>3
  <2>5. Append(name, x)[Len(name) + 1] = x /\ Append(name, y)[Len(name) + 1] = y
    BY <1>1, <1>2
  <2> QED
    BY <2>4, <2>5
<1>4. free \in SUBSET Nat
  BY <1>1, <1>2
<1>5. PICK m \in free : \A k \in free : m <= k
  <2> HIDE DEF free
  <2> QED
    BY <1>3, <1>4, LeastOf
<1>6. m \in I /\ Append(name, m) \notin taken /\ \A j \in last + 1..m - 1 : Append(name, j) \in taken
  <2>1. \A j \in last + 1..m - 1 : j \in I /\ ~(m <= j)
    BY <1>1, <1>2, <1>5
  <2> QED
    BY <1>5, <2>1
<1> DEFINE s == CHOOSE k \in I : Append(name, k) \notin taken /\ \A j \in last + 1..k - 1 : Append(name, j) \in taken
<1>7. s \in I /\ Append(name, s) \notin taken
  BY <1>6
<1>8. EvalRule!Suffix(reserved, acc, name) = s
  <2>1. EvalRule!Cardinality(taken) = c
    BY SameCount
  <2>2. EvalRule!Suffix(reserved, acc, name) =
          CHOOSE k \in last + 1..last + EvalRule!Cardinality(taken) + 1 :
            Append(name, k) \notin taken /\ \A j \in last + 1..k - 1 : Append(name, j) \in taken
    BY Zenon DEF EvalRule!Suffix, last, taken
  <2> QED
    BY <2>1, <2>2
<1>9. s \in Nat
  BY <1>1, <1>2, <1>7
<1> HIDE DEF s
<1> QED
  BY <1>7, <1>8, <1>9 DEF taken

Lone(names, name) == Cardinality({i \in 1..Len(names) : names[i] = name}) = 1

\* What the next name makes of the names given: another one, which is the name
\* itself or one that nobody brought.
Names1(names, x, name, c) ==
  \E given : /\ c.names = Append(x.names, given) /\ c.used = x.used \cup {given} /\ given \notin x.used
             /\ given = name \/ given \notin EvalRule!Range(names)
             /\ Lone(names, name) /\ name \notin x.used => given = name

LEMMA NamesOne ==
  ASSUME NEW Part, Nat \subseteq Part, NEW names \in Seq(Seq(Part)), NEW x \in Naming(Part), NEW k \in 1..Len(names)
  PROVE  EvalRule!NameOne(names, x, names[k]) \in Naming(Part) /\ Names1(names, x, names[k], EvalRule!NameOne(names, x, names[k]))
<1> DEFINE name == names[k]
           c == EvalRule!NameOne(names, x, name)
           reserved == EvalRule!Range(names)
           n == EvalRule!Suffix(reserved, x, name)
<1>1. name \in Seq(Part)
  OBVIOUS
<1>2. reserved \in SUBSET Seq(Part) /\ IsFiniteSet(reserved)
  <2>1. reserved = {names[i] : i \in 1..Len(names)}
    <3>1. DOMAIN names = 1..Len(names)
      OBVIOUS
    <3> QED
      BY <3>1, Zenon DEF EvalRule!Range
  <2>2. IsFiniteSet(1..Len(names))
    BY FS_Interval
  <2> DEFINE f == [i \in 1..Len(names) |-> names[i]]
  <2>3. f \in Surjection(1..Len(names), reserved)
    BY <2>1 DEF Surjection
  <2> QED
    BY <2>1, <2>2, <2>3, FS_Surjection
<1>3. n \in Nat /\ Append(name, n) \notin x.used \cup reserved
  BY <1>1, <1>2, SuffixFree
<1>4. /\ x.used \in SUBSET Seq(Part) /\ IsFiniteSet(x.used) /\ x.names \in Seq(Seq(Part))
      /\ x.usage \in UNION {[D -> Nat] : D \in SUBSET Seq(Part)}
      /\ x = [used |-> x.used, names |-> x.names, usage |-> x.usage]
  BY DEF Naming
<1>5. \A given \in Seq(Part) : IsFiniteSet(x.used \cup {given}) /\ Append(x.names, given) \in Seq(Seq(Part))
  <2> SUFFICES ASSUME NEW given \in Seq(Part) PROVE IsFiniteSet(x.used \cup {given}) /\ Append(x.names, given) \in Seq(Seq(Part))
    OBVIOUS
  <2>1. IsFiniteSet(x.used \cup {given})
    BY <1>4, FS_AddElement
  <2> QED
    BY <1>4, <2>1
<1>b. Lone(names, name) <=> EvalRule!Cardinality({i \in 1..Len(names) : names[i] = name}) = 1
  BY SameCount, Zenon DEF Lone
<1> HIDE DEF name, n, reserved
<1>6. CASE Lone(names, name) /\ name \notin x.used
  <2>1. c = [used |-> x.used \cup {name}, names |-> Append(x.names, name), usage |-> x.usage]
    BY <1>4, <1>6, <1>b DEF EvalRule!NameOne
  <2> HIDE DEF c
  <2>2. c \in Naming(Part)
    BY <1>1, <1>4, <1>5, <2>1 DEF Naming
  <2>3. Names1(names, x, name, c)
    BY <1>6, <2>1 DEF Names1
  <2> QED
    BY <2>2, <2>3 DEF c, name
<1>7. CASE ~(Lone(names, name) /\ name \notin x.used)
  <2> DEFINE given == Append(name, n)
             usage == [m \in DOMAIN x.usage \cup {name} |-> IF m = name THEN n ELSE x.usage[m]]
  <2>1. c = [used |-> x.used \cup {given}, names |-> Append(x.names, given), usage |-> usage]
    BY <1>7, <1>b, Zenon DEF EvalRule!NameOne, n, reserved
  <2>2. given \in Seq(Part)
    BY <1>1, <1>3
  <2>3. usage \in UNION {[D -> Nat] : D \in SUBSET Seq(Part)}
    <3>1. PICK D \in SUBSET Seq(Part) : x.usage \in [D -> Nat]
      BY <1>4
    <3>2. usage \in [D \cup {name} -> Nat] /\ D \cup {name} \in SUBSET Seq(Part)
      BY <1>1, <1>3, <3>1
    <3> HIDE DEF usage
    <3> QED
      BY <3>2
  <2> HIDE DEF c, usage, given
  <2>4. c \in Naming(Part)
    BY <1>4, <1>5, <2>1, <2>2, <2>3 DEF Naming
  <2>5. given \notin x.used /\ given \notin reserved
    BY <1>3 DEF given
  <2>6. Names1(names, x, name, c)
    BY <1>7, <2>1, <2>5 DEF Names1, reserved
  <2> QED
    BY <2>4, <2>6 DEF c, name
<1> QED
  BY <1>6, <1>7

\* h is where the names stand before, between and after them.
Gives(h, names) ==
  /\ h[0] = EvalRule!Unnamed /\ h[Len(names)].names = EvalRule!DedupeSubscoreNames(names)
  /\ \A k \in 1..Len(names) : h[k] = EvalRule!NameOne(names, h[k - 1], names[k])

LEMMA NameFolds ==
  ASSUME NEW Part, Nat \subseteq Part, NEW names \in Seq(Seq(Part))
  PROVE  \E h \in [0..Len(names) -> Naming(Part)] : Gives(h, names)
<1> DEFINE n == Len(names)
           base == EvalRule!Unnamed
           next(acc, k) == EvalRule!NameOne(names, acc, names[k])
           step == [k \in 1..n |-> [acc \in Naming(Part) |-> next(acc, k)]]
           Folds(f) == f = [t \in SUBSET (1..n) |-> IF t = {} THEN base ELSE next(f[t \ {Greatest(t)}], Greatest(t))]
           iter == CHOOSE f : Folds(f)
<1>1. n \in Nat /\ DOMAIN names = 1..n /\ \A k \in 1..n : names[k] \in Seq(Part)
  OBVIOUS
<1>2. EvalRule!DedupeSubscoreNames(names) = iter[1..n].names
  <2>1. EvalRule!DedupeSubscoreNames(names) =
          (CHOOSE f : f = [t \in SUBSET (DOMAIN names) |-> IF t = {} THEN base ELSE
            next(f[t \ {Greatest(t)}], Greatest(t))])[DOMAIN names].names
    BY Zenon DEF EvalRule!DedupeSubscoreNames, EvalRule!FoldLeft, EvalRule!MapThenFoldSet, EvalRule!Max, Greatest
  <2> HIDE DEF base, next, n
  <2> QED
    BY <1>1, <2>1
<1>3. base \in Naming(Part)
  <2>1. IsFiniteSet({}) /\ {} \in SUBSET Seq(Part) /\ <<>> \in Seq(Seq(Part))
    BY FS_EmptySet
  <2>2. [m \in {} |-> 0] \in UNION {[D -> Nat] : D \in SUBSET Seq(Part)}
    <3>1. [m \in {} |-> 0] \in [{} -> Nat]
      OBVIOUS
    <3> QED
      BY <3>1
  <2> QED
    BY <2>1, <2>2 DEF EvalRule!Unnamed, Naming
<1>4. \A k \in 1..n, acc \in Naming(Part) : next(acc, k) \in Naming(Part)
  <2> SUFFICES ASSUME NEW k \in 1..n, NEW acc \in Naming(Part) PROVE EvalRule!NameOne(names, acc, names[k]) \in Naming(Part)
    OBVIOUS
  <2> QED
    BY NamesOne
<1> HIDE DEF base, next, n
<1>5. step \in [1..n -> [Naming(Part) -> Naming(Part)]]
  BY <1>4
<1>6. \A k \in 1..n, acc \in Naming(Part) : step[k][acc] = next(acc, k)
  OBVIOUS
<1> HIDE DEF step
<1>7. PICK g \in [SUBSET (1..n) -> Naming(Part)] : Recurses(g, n, base, step)
  BY <1>1, <1>3, <1>5, FoldExists
<1>8. Folds(g)
  <2>1. \A t \in SUBSET (1..n) : t # {} => step[Greatest(t)][g[t \ {Greatest(t)}]] = next(g[t \ {Greatest(t)}], Greatest(t))
    BY <1>1, <1>6, <1>7, GreatestIn
  <2> QED
    BY <1>7, <2>1 DEF Recurses
<1>9. Folds(iter)
  BY <1>8
<1>10. RecursesIn(Naming(Part), iter, n, base, step)
  <2>1. iter[{}] = base
    BY <1>9
  <2>2. ASSUME NEW t \in SUBSET (1..n), t # {}, iter[t \ {Greatest(t)}] \in Naming(Part)
        PROVE  iter[t] = step[Greatest(t)][iter[t \ {Greatest(t)}]]
    <3>1. Greatest(t) \in 1..n
      BY <1>1, <2>2, GreatestIn
    <3> QED
      BY <1>6, <1>9, <2>2, <3>1
  <2> HIDE DEF iter
  <2> QED
    BY <2>1, <2>2 DEF RecursesIn
<1> HIDE DEF iter
<1>11. PICK h \in [0..n -> Naming(Part)] : Leads(h, n, base, step, iter[1..n])
  BY <1>1, <1>3, <1>5, <1>10, FoldStays
<1>12. \A k \in 1..n : h[k] = next(h[k - 1], k)
  <2> SUFFICES ASSUME NEW k \in 1..n PROVE h[k] = next(h[k - 1], k)
    OBVIOUS
  <2>1. h[k] = step[k][h[k - 1]]
    BY <1>11 DEF Leads
  <2>2. k - 1 \in 0..n
    BY <1>1
  <2>3. h[k - 1] \in Naming(Part)
    BY <1>11, <2>2
  <2> QED
    BY <1>6, <2>1, <2>3
<1> QED
  BY <1>2, <1>11, <1>12 DEF base, next, n, Leads, Gives

\* Where they stand after k of them.
Apart(names, k, x) ==
  /\ Len(x.names) = k /\ x.used = {x.names[i] : i \in 1..k}
  /\ \A i, j \in 1..k : x.names[i] = x.names[j] => i = j
  /\ \A i \in 1..k : x.names[i] = names[i] \/ x.names[i] \notin EvalRule!Range(names)
  /\ \A i \in 1..k : Lone(names, names[i]) => x.names[i] = names[i]

LEMMA LoneOnce ==
  ASSUME NEW Part, NEW names \in Seq(Part), NEW i \in 1..Len(names)
  PROVE  Lone(names, names[i]) <=> \A j \in 1..Len(names) : names[j] = names[i] => i = j
<1> DEFINE all == {j \in 1..Len(names) : names[j] = names[i]}
<1>1. i \in all /\ IsFiniteSet(all)
  BY FS_Interval, FS_Subset
<1>2. Cardinality(all) = 1 <=> \E e : all = {e}
  <2> HIDE DEF all
  <2> QED
    BY <1>1, FS_Singleton
<1>3. (\E e : all = {e}) <=> all = {i}
  BY <1>1
<1>4. all = {i} <=> \A j \in 1..Len(names) : names[j] = names[i] => i = j
  OBVIOUS
<1> QED
  BY <1>2, <1>3, <1>4 DEF Lone

\* One more name leaves them apart.
LEMMA StillApart ==
  ASSUME NEW Part, NEW names \in Seq(Seq(Part)), NEW k \in 1..Len(names),
         NEW x \in Naming(Part), Apart(names, k - 1, x), NEW c \in Naming(Part), Names1(names, x, names[k], c)
  PROVE  Apart(names, k, c)
<1> DEFINE name == names[k]
<1>1. PICK given : /\ c.names = Append(x.names, given) /\ c.used = x.used \cup {given} /\ given \notin x.used
                   /\ given = name \/ given \notin EvalRule!Range(names)
                   /\ Lone(names, name) /\ name \notin x.used => given = name
  BY DEF Names1
<1>2. /\ k \in Nat /\ x.names \in Seq(Seq(Part)) /\ Len(x.names) = k - 1 /\ x.used = {x.names[i] : i \in 1..k - 1}
      /\ \A i, j \in 1..k - 1 : x.names[i] = x.names[j] => i = j
      /\ \A i \in 1..k - 1 : x.names[i] = names[i] \/ x.names[i] \notin EvalRule!Range(names)
      /\ \A i \in 1..k - 1 : Lone(names, names[i]) => x.names[i] = names[i]
  BY DEF Apart, Naming
<1>3. /\ Len(c.names) = k /\ c.names[k] = given /\ \A i \in 1..k - 1 : c.names[i] = x.names[i]
      /\ \A i \in 1..k : i = k \/ i \in 1..k - 1
  <2>1. c.names \in Seq(Seq(Part)) /\ c.names = Append(x.names, given)
    BY <1>1 DEF Naming
  <2> QED
    BY <1>2, <2>1
<1>4. c.used = {c.names[i] : i \in 1..k}
  <2>1. 1..k = (1..k - 1) \cup {k}
    BY <1>2
  <2> QED
    BY <1>1, <1>2, <1>3, <2>1
<1>5. \A i \in 1..k - 1 : c.names[i] # given
  BY <1>1, <1>2, <1>3
<1>6. ASSUME Lone(names, name) PROVE given = name
  <2>1. ASSUME name \in x.used PROVE FALSE
    <3>1. PICK i \in 1..k - 1 : x.names[i] = name
      BY <1>2, <2>1
    <3>2. name \in EvalRule!Range(names)
      BY DEF EvalRule!Range
    <3>3. names[i] = name /\ i \in 1..Len(names) /\ i # k
      BY <1>2, <3>1, <3>2
    <3>4. \A j \in 1..Len(names) : names[j] = names[k] => k = j
      BY <1>6, LoneOnce
    <3> QED
      BY <3>3, <3>4
  <2> QED
    BY <1>1, <1>6, <2>1
<1> QED
  BY <1>1, <1>2, <1>3, <1>4, <1>5, <1>6 DEF Apart

\* However many subscores there are and whatever they are called, names with a
\* number behind them included, no two leave with one name, and one that was alone
\* in its name keeps it; there always is a free number (combine.py:15).
THEOREM SubscoresTold ==
  ASSUME NEW Part, Nat \subseteq Part, NEW names \in Seq(Seq(Part))
  PROVE  EvalRule!NamesApart(names, EvalRule!DedupeSubscoreNames(names))
<1> DEFINE n == Len(names)
           given == EvalRule!DedupeSubscoreNames(names)
<1>1. n \in Nat /\ \A k \in 1..n : names[k] \in Seq(Part)
  OBVIOUS
<1>2. PICK h \in [0..n -> Naming(Part)] : Gives(h, names)
  BY NameFolds
<1> DEFINE S == {k \in 0..n : Apart(names, k, h[k])}
<1>3. 0 \in S
  <2>1. h[0] = EvalRule!Unnamed /\ 0 \in 0..n /\ 1..0 = {}
    BY <1>1, <1>2 DEF Gives
  <2> QED
    BY <2>1 DEF Apart, EvalRule!Unnamed
<1>4. ASSUME NEW k \in 1..n, k - 1 \in S PROVE k \in S
  <2>1. h[k - 1] \in Naming(Part) /\ h[k] \in Naming(Part) /\ k \in 0..n
    <3>1. n \in Nat /\ k \in 0..n /\ k - 1 \in 0..n
      BY <1>1
    <3> HIDE DEF n, S
    <3> QED
      BY <1>2, <3>1
  <2>2. Names1(names, h[k - 1], names[k], h[k])
    <3>1. h[k] = EvalRule!NameOne(names, h[k - 1], names[k])
      BY <1>2 DEF Gives
    <3> QED
      BY <1>1, <2>1, <3>1, NamesOne
  <2>3. Apart(names, k - 1, h[k - 1])
    BY <1>4
  <2>4. Apart(names, k, h[k])
    BY <2>1, <2>2, <2>3, StillApart
  <2> QED
    BY <2>1, <2>4
<1>5. Apart(names, n, h[n]) /\ h[n].names = given
  <2>1. \A k \in 1..n : k - 1 \in S => k \in S
    BY <1>4
  <2> HIDE DEF S
  <2>2. \A k \in 0..n : k \in S
    BY <1>1, <1>3, <2>1, StepByStep
  <2>3. n \in 0..n
    BY <1>1
  <2> QED
    BY <1>2, <2>2, <2>3 DEF S, Gives
<1> HIDE DEF given
<1>6. \A i \in 1..n : (\A j \in 1..n : names[j] = names[i] => i = j) => Lone(names, names[i])
  BY LoneOnce
<1>7. /\ Len(given) = n /\ \A i, j \in 1..Len(given) : given[i] = given[j] => i = j
      /\ \A i \in 1..n : Lone(names, names[i]) => given[i] = names[i]
  BY <1>5 DEF Apart
<1> QED
  BY <1>6, <1>7, Zenon DEF EvalRule!NamesApart, given

\* f holds the first of the sequences, then each put behind the ones before it.
Strings(f, seqs) == f[1] = seqs[1] /\ \A i \in 2..Len(seqs) : f[i] = f[i - 1] \o seqs[i]

\* What a sequence of sequences is flattened by exists, a step at a time.
LEMMA FlattenLeads ==
  ASSUME NEW S, NEW seqs \in Seq(Seq(S)), seqs # <<>>
  PROVE  \E f \in [1..Len(seqs) -> Seq(S)] : Strings(f, seqs) /\ EvalRule!FlattenSeq(seqs) = f[Len(seqs)]
<1> DEFINE n == Len(seqs)
           next(f, i) == IF i = 1 THEN seqs[i] ELSE f[i - 1] \o seqs[i]
           Solves(m, f) == f = [i \in 1..m |-> next(f, i)]
           Has == {m \in 0..n : \E f \in [1..m -> Seq(S)] : Solves(m, f)}
           iter == CHOOSE f : Solves(n, f)
<1>1. n \in Nat \ {0} /\ \A i \in 1..n : seqs[i] \in Seq(S)
  OBVIOUS
<1>2. EvalRule!FlattenSeq(seqs) = iter[n]
  <2>1. ~(Len(seqs) = 0)
    BY <1>1
  <2> QED
    BY <2>1, Zenon DEF EvalRule!FlattenSeq
<1>3. 0 \in Has
  <2> DEFINE f == [i \in 1..0 |-> seqs[1]]
  <2>1. f \in [1..0 -> Seq(S)] /\ Solves(0, f)
    <3>1. 1..0 = {}
      OBVIOUS
    <3> QED
      BY <3>1
  <2>2. 0 \in 0..n
    BY <1>1
  <2> HIDE DEF Solves, f, n
  <2> QED
    BY <2>1, <2>2
<1> HIDE DEF n
<1>4. ASSUME NEW m \in 1..n, m - 1 \in Has PROVE m \in Has
  <2>1. PICK f \in [1..m - 1 -> Seq(S)] : Solves(m - 1, f)
    BY <1>4
  <2> DEFINE last == IF m = 1 THEN seqs[m] ELSE f[m - 1] \o seqs[m]
             g == [i \in 1..m |-> IF i = m THEN last ELSE f[i]]
  <2>2. m \in Nat /\ m # 0 /\ (m # 1 => m - 1 \in 1..m - 1) /\ \A i \in 1..m : i = m \/ i \in 1..m - 1
    BY <1>1
  <2>3. last \in Seq(S)
    BY <1>1, <2>1, <2>2
  <2>4. g \in [1..m -> Seq(S)]
    <3> HIDE DEF last
    <3> QED
      BY <2>1, <2>2, <2>3
  <2>5. ASSUME NEW i \in 1..m PROVE g[i] = next(g, i)
    <3>1. CASE i = m
      <4>1. m # 1 => g[m - 1] = f[m - 1]
        BY <2>2
      <4> QED
        BY <3>1, <4>1
    <3>2. CASE i # m
      <4>1. i \in 1..m - 1 /\ g[i] = f[i]
        BY <2>2, <3>2
      <4>2. i # 1 => i - 1 \in 1..m /\ i - 1 # m /\ g[i - 1] = f[i - 1]
        BY <2>2, <3>2
      <4>3. f[i] = next(f, i)
        BY <2>1, <4>1
      <4> HIDE DEF g
      <4> QED
        BY <4>1, <4>2, <4>3
    <3> QED
      BY <3>1, <3>2
  <2>6. g = [i \in 1..m |-> g[i]]
    OBVIOUS
  <2>7. Solves(m, g)
    <3> HIDE DEF g, next
    <3> QED
      BY <2>5, <2>6
  <2>8. m \in 0..n
    BY <1>1
  <2> HIDE DEF g, Solves
  <2> QED
    BY <2>4, <2>7, <2>8
<1>5. PICK g \in [1..n -> Seq(S)] : Solves(n, g)
  <2>1. \A m \in 1..n : m - 1 \in Has => m \in Has
    BY <1>4
  <2> HIDE DEF Has
  <2>2. \A m \in 0..n : m \in Has
    BY <1>1, <1>3, <2>1, StepByStep
  <2>3. n \in Has
    BY <1>1, <2>2
  <2> QED
    BY <2>3 DEF Has
<1>6. Solves(n, iter)
  BY <1>5
<1>7. \A i \in 1..n : iter[i] = next(iter, i)
  BY <1>6
<1>8. iter = [i \in 1..n |-> iter[i]]
  <2>1. DOMAIN iter = 1..n
    BY <1>6
  <2> HIDE DEF iter
  <2> QED
    BY <1>6
<1> HIDE DEF iter
<1> DEFINE Fits == {k \in 0..n : k = 0 \/ iter[k] \in Seq(S)}
<1>9. \A k \in 1..n : iter[k] \in Seq(S)
  <2>1. 0 \in Fits
    BY <1>1
  <2>2. ASSUME NEW k \in 1..n, k - 1 \in Fits PROVE k \in Fits
    <3>1. iter[k] = next(iter, k) /\ seqs[k] \in Seq(S) /\ k \in 0..n /\ (k # 1 => k - 1 # 0)
      BY <1>1, <1>7
    <3>2. CASE k = 1
      BY <3>1, <3>2
    <3>3. CASE k # 1
      <4>1. iter[k - 1] \in Seq(S) /\ iter[k] = iter[k - 1] \o seqs[k]
        BY <2>2, <3>1, <3>3
      <4>2. iter[k - 1] \o seqs[k] \in Seq(S)
        BY <3>1, <4>1
      <4> QED
        BY <3>1, <4>1, <4>2
    <3> QED
      BY <3>2, <3>3
  <2>3. \A k \in 1..n : k - 1 \in Fits => k \in Fits
    BY <2>2
  <2> HIDE DEF Fits
  <2>4. \A k \in 0..n : k \in Fits
    BY <1>1, <2>1, <2>3, StepByStep
  <2>5. \A k \in 1..n : k \in Fits /\ k # 0
    BY <1>1, <2>4
  <2> QED
    BY <2>5 DEF Fits
<1>11. iter \in [1..n -> Seq(S)]
  BY <1>8, <1>9
<1>12. iter[1] = seqs[1] /\ \A i \in 2..n : iter[i] = iter[i - 1] \o seqs[i]
  <2>1. 1 \in 1..n /\ \A i \in 2..n : i \in 1..n /\ i # 1
    BY <1>1
  <2> QED
    BY <1>7, <2>1
<1> QED
  BY <1>2, <1>11, <1>12 DEF n, Strings


\* s holds all that the first k sequences hold.
HoldsAll(seqs, k, s) == \A i \in 1..k : \A j \in 1..Len(seqs[i]) : \E p \in 1..Len(s) : s[p] = seqs[i][j]

\* Flattening loses nothing.
LEMMA FlattenHolds ==
  ASSUME NEW S, NEW seqs \in Seq(Seq(S))
  PROVE  EvalRule!FlattenSeq(seqs) \in Seq(S) /\ HoldsAll(seqs, Len(seqs), EvalRule!FlattenSeq(seqs))
<1>1. CASE seqs = <<>>
  <2>1. EvalRule!FlattenSeq(seqs) = <<>> /\ Len(seqs) = 0
    BY <1>1 DEF EvalRule!FlattenSeq
  <2> QED
    BY <2>1 DEF HoldsAll
<1>2. CASE seqs # <<>>
  <2> DEFINE n == Len(seqs)
  <2>1. PICK f \in [1..n -> Seq(S)] : Strings(f, seqs) /\ EvalRule!FlattenSeq(seqs) = f[n]
    BY <1>2, FlattenLeads
  <2>2. n \in Nat \ {0} /\ \A i \in 1..n : seqs[i] \in Seq(S)
    BY <1>2
  <2> HIDE DEF n
  <2>3. f[1] = seqs[1] /\ \A i \in 2..n : f[i] = f[i - 1] \o seqs[i]
    BY <2>1 DEF Strings, n
  <2> DEFINE Ends == {k \in 0..n : k = 0 \/ HoldsAll(seqs, k, f[k])}
  <2>4. ASSUME NEW k \in 1..n, k - 1 \in Ends PROVE k \in Ends
    <3>1. k \in Nat \ {0} /\ k \in 0..n /\ (k # 1 => k - 1 \in 1..n /\ k \in 2..n /\ k - 1 # 0)
      BY <2>2
    <3>2. CASE k = 1
      <4>1. \A i \in 1..1 : i = 1
        OBVIOUS
      <4>2. HoldsAll(seqs, 1, f[1])
        BY <2>3, <4>1 DEF HoldsAll
      <4> QED
        BY <3>1, <3>2, <4>2
    <3>3. CASE k # 1
      <4> DEFINE s == f[k - 1]
                 t == seqs[k]
      <4>1. s \in Seq(S) /\ t \in Seq(S) /\ f[k] = s \o t /\ HoldsAll(seqs, k - 1, s)
        BY <2>1, <2>2, <2>3, <2>4, <3>1, <3>3
      <4> HIDE DEF s, t
      <4>2. /\ Len(s) \in Nat /\ Len(t) \in Nat /\ Len(s \o t) = Len(s) + Len(t)
            /\ \A p \in 1..Len(s) : p \in 1..Len(s \o t) /\ (s \o t)[p] = s[p]
            /\ \A p \in 1..Len(t) : Len(s) + p \in 1..Len(s \o t) /\ (s \o t)[Len(s) + p] = t[p]
        BY <4>1
      <4>3. ASSUME NEW i \in 1..k, NEW j \in 1..Len(seqs[i])
            PROVE  \E p \in 1..Len(s \o t) : (s \o t)[p] = seqs[i][j]
        <5>1. CASE i = k
          BY <4>2, <5>1 DEF t
        <5>2. CASE i # k
          <6>1. i \in 1..k - 1
            BY <3>1, <5>2
          <6>2. PICK p \in 1..Len(s) : s[p] = seqs[i][j]
            BY <4>1, <6>1 DEF HoldsAll
          <6> QED
            BY <4>2, <6>2
        <5> QED
          BY <5>1, <5>2
      <4>4. HoldsAll(seqs, k, f[k])
        BY <4>1, <4>3 DEF HoldsAll
      <4> QED
        BY <3>1, <4>4
    <3> QED
      BY <3>2, <3>3
  <2>5. n \in Ends
    <3>1. 0 \in Ends /\ \A k \in 1..n : k - 1 \in Ends => k \in Ends
      BY <2>2, <2>4
    <3> HIDE DEF Ends
    <3>2. \A k \in 0..n : k \in Ends
      BY <2>2, <3>1, StepByStep
    <3> QED
      BY <2>2, <3>2
  <2>6. n # 0 /\ f[n] \in Seq(S)
    BY <2>1, <2>2
  <2>7. HoldsAll(seqs, n, f[n])
    BY <2>5, <2>6
  <2> QED
    BY <2>1, <2>6, <2>7 DEF n
<1> QED
  BY <1>1, <1>2


\* One more sequence is put behind what the others come to.
LEMMA FlattenMore ==
  ASSUME NEW S, NEW seqs \in Seq(Seq(S)), NEW more \in Seq(Seq(S)), Len(more) = Len(seqs) + 1,
         \A i \in 1..Len(seqs) : more[i] = seqs[i]
  PROVE  EvalRule!FlattenSeq(more) = EvalRule!FlattenSeq(seqs) \o more[Len(more)]
<1> DEFINE n == Len(seqs)
<1>1. n \in Nat /\ more # <<>> /\ \A i \in 1..n + 1 : more[i] \in Seq(S)
  OBVIOUS
<1>2. PICK g \in [1..Len(more) -> Seq(S)] : Strings(g, more) /\ EvalRule!FlattenSeq(more) = g[Len(more)]
  BY <1>1, FlattenLeads
<1>3. CASE seqs = <<>>
  <2>1. EvalRule!FlattenSeq(seqs) = <<>> /\ Len(more) = 1
    BY <1>3 DEF EvalRule!FlattenSeq
  <2>2. g[1] = more[1] /\ more[1] \in Seq(S)
    BY <1>1, <1>2, <1>3 DEF Strings
  <2>3. <<>> \o more[1] = more[1]
    BY <2>2
  <2> QED
    BY <1>2, <2>1, <2>2, <2>3
<1>4. CASE seqs # <<>>
  <2>1. PICK f \in [1..n -> Seq(S)] : Strings(f, seqs) /\ EvalRule!FlattenSeq(seqs) = f[n]
    BY <1>4, FlattenLeads
  <2>2. n # 0 /\ Len(more) = n + 1 /\ \A i \in 1..n : more[i] = seqs[i]
    BY <1>4
  <2> HIDE DEF n
  <2>3. f[1] = seqs[1] /\ \A i \in 2..n : f[i] = f[i - 1] \o seqs[i]
    BY <2>1 DEF Strings, n
  <2>4. g[1] = more[1] /\ \A i \in 2..n + 1 : g[i] = g[i - 1] \o more[i]
    BY <1>2, <2>2 DEF Strings
  <2> DEFINE Same == {k \in 0..n : k = 0 \/ g[k] = f[k]}
  <2>5. ASSUME NEW k \in 1..n, k - 1 \in Same PROVE k \in Same
    <3>1. k \in 0..n /\ (k # 1 => k - 1 # 0 /\ k \in 2..n /\ k \in 2..n + 1) /\ 1 \in 1..n
      BY <1>1
    <3>2. more[k] = seqs[k] /\ more[1] = seqs[1]
      BY <2>2, <3>1
    <3>3. CASE k = 1
      BY <2>3, <2>4, <3>1, <3>2, <3>3
    <3>4. CASE k # 1
      <4>1. g[k - 1] = f[k - 1]
        BY <2>5, <3>1, <3>4
      <4>2. g[k] = g[k - 1] \o more[k] /\ f[k] = f[k - 1] \o seqs[k]
        BY <2>3, <2>4, <3>1, <3>4
      <4>3. g[k] = f[k]
        BY <3>2, <4>1, <4>2
      <4> QED
        BY <3>1, <4>3
    <3> QED
      BY <3>3, <3>4
  <2>6. g[n] = f[n]
    <3>1. 0 \in Same /\ \A k \in 1..n : k - 1 \in Same => k \in Same
      BY <1>1, <2>5
    <3> HIDE DEF Same
    <3>2. \A k \in 0..n : k \in Same
      BY <1>1, <3>1, StepByStep
    <3>3. n \in Same
      BY <1>1, <3>2
    <3> QED
      BY <2>2, <3>3 DEF Same
  <2>7. n + 1 \in 2..n + 1 /\ (n + 1) - 1 = n
    BY <1>1, <2>2
  <2>8. g[n + 1] = g[n] \o more[n + 1]
    BY <2>4, <2>7
  <2> QED
    BY <1>2, <2>1, <2>2, <2>6, <2>8
<1> QED
  BY <1>3, <1>4


LEMMA QuotientOf ==
  ASSUME NEW g \in Nat \ {0}, NEW q \in Nat, NEW r \in Nat, r < g
  PROVE  (q * g + r) \div g = q
  OBVIOUS

\* The first k parts, of one length and told apart by their number.
Grouped(tasks, group, k, s) ==
  Len(s) = k * group /\ \A p \in 1..k * group : s[p] = [task |-> tasks[(p - 1) \div group + 1], group |-> (p - 1) \div group + 1]

LEMMA GroupFollows ==
  ASSUME NEW T, NEW tasks, NEW group \in Nat \ {0}, NEW k \in Nat \ {0}, NEW s \in Seq(T), NEW more \in Seq(T),
         Grouped(tasks, group, k - 1, s), more = [j \in 1..group |-> [task |-> tasks[k], group |-> k]]
  PROVE  Grouped(tasks, group, k, s \o more)
<1>1. Len(more) = group /\ Len(s) = (k - 1) * group /\ k * group = (k - 1) * group + group /\ (k - 1) * group \in Nat
  BY DEF Grouped
<1> DEFINE m == (k - 1) * group
<1>2. Len(s \o more) = k * group
  BY <1>1
<1>3. ASSUME NEW p \in 1..k * group
      PROVE  (s \o more)[p] = [task |-> tasks[(p - 1) \div group + 1], group |-> (p - 1) \div group + 1]
  <2>1. CASE p <= m
    <3>1. p \in 1..Len(s) /\ (s \o more)[p] = s[p]
      BY <1>1, <2>1
    <3> QED
      BY <1>1, <2>1, <3>1 DEF Grouped
  <2>2. CASE p > m
    <3> DEFINE r == p - m - 1
    <3>1. r \in Nat /\ r < group /\ p - 1 = (k - 1) * group + r /\ k - 1 \in Nat
      <4> HIDE DEF m
      <4>1. p \in 1..m + group /\ m \in Nat
        BY <1>1 DEF m
      <4> QED
        BY <2>2, <4>1 DEF m
    <3>2. (p - 1) \div group = k - 1
      <4> HIDE DEF r, m
      <4> QED
        BY <3>1, QuotientOf
    <3>3. (s \o more)[p] = more[p - m] /\ p - m \in 1..group
      <4> HIDE DEF m
      <4>1. p \in 1..m + group /\ m \in Nat /\ Len(s) = m
        BY <1>1 DEF m
      <4> QED
        BY <1>1, <2>2, <4>1
    <3>4. (p - 1) \div group + 1 = k
      BY <3>2
    <3> HIDE DEF m, r
    <3> QED
      BY <3>3, <3>4
  <2> QED
    BY <1>1, <2>1, <2>2
<1> QED
  BY <1>2, <1>3 DEF Grouped

\* Whatever tasks there are and however often each is repeated, the repeats of a
\* task, and only they, are one group, side by side and in the order of the tasks:
\* no reward is compared with another task's (taskset.py:316).
THEOREM RepeatsAreOneGroup ==
  ASSUME NEW Task, NEW tasks \in Seq(Task), NEW group \in Nat \ {0}
  PROVE  EvalRule!GroupsInOrder(tasks, group)
<1> DEFINE n == Len(tasks)
           part(i) == [k \in 1..group |-> [task |-> tasks[i], group |-> i]]
           seqs == [i \in 1..n |-> part(i)]
           all == EvalRule!Expanded(tasks, group)
           Row == [task : Task, group : 1..n]
<1>1. n \in Nat /\ (\A i \in 1..n : tasks[i] \in Task) /\ Len(seqs) = n
  OBVIOUS
<1>2. \A i \in 1..n : part(i) \in Seq(Row)
  BY <1>1
<1>3. seqs \in Seq(Seq(Row))
  <2> HIDE DEF part, Row
  <2> QED
    BY <1>1, <1>2
<1>4. all = EvalRule!FlattenSeq(seqs)
  BY Zenon DEF EvalRule!Expanded
<1> HIDE DEF part, Row, all
<1>5. Grouped(tasks, group, n, all)
  <2>1. CASE n = 0
    <3>1. seqs = <<>> /\ Len(seqs) = 0
      BY <1>1, <2>1
    <3>2. all = <<>>
      BY <1>4, <3>1 DEF EvalRule!FlattenSeq
    <3> QED
      BY <2>1, <3>2 DEF Grouped
  <2>2. CASE n # 0
    <3>1. seqs # <<>>
      BY <1>1, <2>2
    <3>2. PICK f \in [1..Len(seqs) -> Seq(Row)] : Strings(f, seqs) /\ EvalRule!FlattenSeq(seqs) = f[Len(seqs)]
      BY <1>3, <3>1, FlattenLeads
    <3>3. f \in [1..n -> Seq(Row)] /\ f[1] = part(1) /\ (\A i \in 2..n : f[i] = f[i - 1] \o part(i)) /\ all = f[n]
      <4>1. f[1] = seqs[1] /\ (\A i \in 2..n : f[i] = f[i - 1] \o seqs[i]) /\ all = f[n]
        BY <1>1, <1>4, <3>2 DEF Strings
      <4>2. f \in [1..n -> Seq(Row)]
        BY <1>1, <3>2
      <4>3. 1 \in 1..n /\ \A i \in 2..n : i \in 1..n
        BY <1>1, <2>2
      <4>4. \A i \in 1..n : seqs[i] = part(i)
        OBVIOUS
      <4> HIDE DEF n, seqs
      <4> QED
        BY <4>1, <4>2, <4>3, <4>4
    <3> HIDE DEF n, seqs
    <3> DEFINE Done == {k \in 0..n : k = 0 \/ Grouped(tasks, group, k, f[k])}
    <3>4. Grouped(tasks, group, 0, <<>>)
      BY DEF Grouped
    <3>5. <<>> \in Seq(Row) /\ \A i \in 1..n : part(i) \in Seq(Row) /\ <<>> \o part(i) = part(i)
      BY <1>2
    <3>6. ASSUME NEW k \in 1..n, k - 1 \in Done PROVE k \in Done
      <4>1. k \in Nat \ {0} /\ k \in 0..n /\ (k # 1 => k - 1 \in 1..n /\ k \in 2..n /\ k - 1 # 0)
        BY <1>1
      <4>2. part(k) = [j \in 1..group |-> [task |-> tasks[k], group |-> k]]
        BY DEF part
      <4>3. CASE k = 1
        <5>1. Grouped(tasks, group, k - 1, <<>>)
          BY <3>4, <4>3
        <5>2. Grouped(tasks, group, k, <<>> \o part(k))
          BY <3>5, <4>1, <4>2, <5>1, GroupFollows
        <5>3. f[k] = <<>> \o part(k)
          BY <3>3, <3>5, <4>3
        <5> QED
          BY <4>1, <5>2, <5>3
      <4>4. CASE k # 1
        <5>1. f[k - 1] \in Seq(Row) /\ Grouped(tasks, group, k - 1, f[k - 1]) /\ f[k] = f[k - 1] \o part(k)
          BY <3>3, <3>6, <4>1, <4>4
        <5>2. Grouped(tasks, group, k, f[k - 1] \o part(k))
          BY <3>5, <4>1, <4>2, <5>1, GroupFollows
        <5> QED
          BY <4>1, <5>1, <5>2
      <4> QED
        BY <4>3, <4>4
    <3>7. 0 \in Done /\ \A k \in 1..n : k - 1 \in Done => k \in Done
      BY <1>1, <3>6
    <3>8. n \in Done
      <4> HIDE DEF Done
      <4>1. \A k \in 0..n : k \in Done
        BY <1>1, <3>7, StepByStep
      <4> QED
        BY <1>1, <4>1
    <3> QED
      BY <2>2, <3>3, <3>8
  <2> QED
    BY <2>1, <2>2
<1> HIDE DEF n, seqs
<1>6. /\ Len(all) = n * group /\ n * group \in Nat
      /\ \A p \in 1..n * group : all[p].task = tasks[(p - 1) \div group + 1] /\
           all[p].group = (p - 1) \div group + 1 /\ (p - 1) \div group \in Int
  <2>1. n * group \in Nat /\ \A p \in 1..n * group : (p - 1) \div group \in Int
    BY <1>1
  <2> QED
    BY <1>5, <2>1 DEF Grouped
<1>7. /\ Len(all) = n * group
      /\ \A i \in 1..Len(all) : all[i].task = tasks[(i - 1) \div group + 1]
      /\ \A i, j \in 1..Len(all) : all[i].group = all[j].group <=> (i - 1) \div group = (j - 1) \div group
  <2>1. \A i \in 1..Len(all) : i \in 1..n * group
    BY <1>6
  <2>2. ASSUME NEW i \in 1..Len(all), NEW j \in 1..Len(all)
        PROVE  all[i].group = all[j].group <=> (i - 1) \div group = (j - 1) \div group
    <3> DEFINE x == (i - 1) \div group
               y == (j - 1) \div group
    <3>1. all[i].group = x + 1 /\ all[j].group = y + 1 /\ x \in Int /\ y \in Int
      BY <1>6, <2>1
    <3> HIDE DEF x, y
    <3>2. all[i].group = all[j].group <=> x = y
      BY <3>1
    <3> QED
      BY <3>2 DEF x, y
  <2> QED
    BY <1>6, <2>1, <2>2, Zenon
<1> QED
  BY <1>7, Zenon DEF EvalRule!GroupsInOrder, all, n

\* What rows say of themselves.
Rows(Row) == \A t \in Row : t.container \in BOOLEAN /\ t.verifier \in Seq(Row)

\* Whatever rows there are, a batch whose placement is not refused runs each in its
\* own environment, in a container where it declares one and never for lack of a
\* live one elsewhere; and a verifier that shares nothing has a place of its own
\* (taskset.py:212).
THEOREM RowsAtHome ==
  ASSUME NEW Row, Rows(Row), NEW tasks \in Seq(Row), NEW platform \in BOOLEAN
  PROVE  EvalRule!PlacedAtHome(platform, tasks)
<1> DEFINE n == Len(tasks)
           part(i) == IF tasks[i].verifier # <<>> /\ ~EvalRule!SharesVerifier(tasks[i]) THEN tasks[i].verifier ELSE <<>>
           seqs == [i \in 1..n |-> part(i)]
           all == EvalRule!FlattenSeq(seqs)
           rows == tasks \o all
           r == EvalRule!ResolvePlacement(platform, tasks)
<1>1. n \in Nat /\ (\A i \in 1..n : tasks[i] \in Row) /\ Len(seqs) = n
  OBVIOUS
<1>2. \A i \in 1..n : part(i) \in Seq(Row)
  BY <1>1 DEF Rows
<1>3. seqs \in Seq(Seq(Row)) /\ \A i \in 1..n : seqs[i] = part(i)
  <2>1. \A i \in 1..n : seqs[i] = part(i)
    OBVIOUS
  <2> HIDE DEF part
  <2> QED
    BY <1>1, <1>2, <2>1
<1>4. EvalRule!PlacedRows(tasks) = rows
  BY Zenon DEF EvalRule!PlacedRows
<1> HIDE DEF part, seqs
<1>5. all \in Seq(Row) /\ HoldsAll(seqs, n, all)
  BY <1>1, <1>3, FlattenHolds
<1> HIDE DEF all
<1>6. /\ rows \in Seq(Row) /\ Len(rows) \in Nat
      /\ \A i \in 1..n : i \in 1..Len(rows) /\ rows[i] = tasks[i]
      /\ \A p \in 1..Len(all) : \E q \in 1..Len(rows) : rows[q] = all[p]
  <2>1. Len(all) \in Nat /\ rows \in Seq(Row) /\ Len(rows) = n + Len(all)
    BY <1>5
  <2>2. \A p \in 1..Len(all) : n + p \in 1..Len(rows) /\ rows[n + p] = all[p]
    BY <1>5, <2>1
  <2>3. \A i \in 1..n : i \in 1..Len(rows) /\ rows[i] = tasks[i]
    BY <1>1, <1>5, <2>1
  <2> HIDE DEF rows
  <2> QED
    BY <2>1, <2>2, <2>3
<1> HIDE DEF rows, n
<1>7. EvalRule!Range(rows) = {rows[p] : p \in 1..Len(rows)}
  <2>1. DOMAIN rows = 1..Len(rows)
    BY <1>6
  <2> QED
    BY <2>1, Zenon DEF EvalRule!Range
<1> SUFFICES ASSUME r.ok, ~platform, NEW i \in 1..n
             PROVE  /\ r.place[tasks[i]] = (IF tasks[i].container THEN <<"docker">> ELSE <<"local", tasks[i].live>>)
                    /\ ~tasks[i].container => r.place[tasks[i]][2] # "none"
                    /\ tasks[i].verifier # <<>> /\ ~EvalRule!SharesVerifier(tasks[i]) => tasks[i].verifier[1] \in DOMAIN r.place
  BY Zenon DEF EvalRule!PlacedAtHome, r, n
<1> DEFINE place == [row \in EvalRule!Range(rows) |-> IF row.container THEN <<"docker">> ELSE <<"local", row.live>>]
           refused == rows = <<>> \/ \E p \in 1..Len(rows) : ~rows[p].container /\ rows[p].live = "none"
<1>8. ~refused /\ r.place = place
  <2>1. r = IF refused THEN [ok |-> FALSE] ELSE [ok |-> TRUE, place |-> place]
    BY <1>4, Zenon DEF EvalRule!ResolvePlacement
  <2> HIDE DEF place, refused
  <2>2. refused => ~r.ok
    BY <2>1
  <2>3. ~refused => r.place = place
    BY <2>1
  <2> QED
    BY <2>2, <2>3
<1> HIDE DEF r
<1>9. tasks[i] \in EvalRule!Range(rows) /\ (~tasks[i].container => tasks[i].live # "none")
  <2>1. i \in 1..Len(rows) /\ rows[i] = tasks[i]
    BY <1>6
  <2> QED
    BY <1>7, <1>8, <2>1
<1>10. ASSUME tasks[i].verifier # <<>>, ~EvalRule!SharesVerifier(tasks[i])
       PROVE  tasks[i].verifier[1] \in EvalRule!Range(rows)
  <2>1. tasks[i].verifier \in Seq(Row) /\ part(i) = tasks[i].verifier
    BY <1>1, <1>10 DEF Rows, part
  <2>2. 1 \in 1..Len(seqs[i]) /\ seqs[i][1] = tasks[i].verifier[1]
    BY <1>3, <1>10, <2>1
  <2>3. PICK p \in 1..Len(all) : all[p] = tasks[i].verifier[1]
    BY <1>5, <2>2 DEF HoldsAll
  <2>4. PICK q \in 1..Len(rows) : rows[q] = all[p]
    BY <1>6
  <2> QED
    BY <1>7, <2>3, <2>4
<1>11. place[tasks[i]] = (IF tasks[i].container THEN <<"docker">> ELSE <<"local", tasks[i].live>>)
  BY <1>9
<1>12. ~tasks[i].container => place[tasks[i]][2] # "none"
  BY <1>9, <1>11
<1>13. DOMAIN place = EvalRule!Range(rows)
  OBVIOUS
<1> HIDE DEF place
<1> QED
  BY <1>8, <1>10, <1>11, <1>12, <1>13

Turn == [runtime : BOOLEAN, error : BOOLEAN]
Said == [role : {"user", "assistant"}, of : Nat]
Replied(turns, i) == turns[i].runtime /\ ~turns[i].error
\* What a turn leaves in the history.
Heard(turns, i) ==
  <<EvalRule!Message("user", i)>> \o (IF Replied(turns, i) THEN <<EvalRule!Message("assistant", i)>> ELSE <<>>)
\* What the model is shown in it.
Shown(turns, k) ==
  EvalRule!FlattenSeq([i \in 1..k |->
    <<EvalRule!Message("user", i)>> \o (IF Replied(turns, i) /\ i < k THEN <<EvalRule!Message("assistant", i)>> ELSE <<>>)])
History(turns, k) == EvalRule!FlattenSeq([i \in 1..k |-> Heard(turns, i)])

LEMMA HistoryGrows ==
  ASSUME NEW turns \in Seq(Turn), NEW k \in 1..Len(turns)
  PROVE  /\ History(turns, k - 1) \in Seq(Said) /\ History(turns, 0) = <<>>
         /\ Shown(turns, k) = Append(History(turns, k - 1), EvalRule!Message("user", k))
         /\ Replied(turns, k) => History(turns, k) = Append(Shown(turns, k), EvalRule!Message("assistant", k))
         /\ ~Replied(turns, k) => History(turns, k) = Shown(turns, k)
<1> DEFINE user(i) == EvalRule!Message("user", i)
           assistant(i) == EvalRule!Message("assistant", i)
           shown(i) == <<user(i)>> \o (IF Replied(turns, i) /\ i < k THEN <<assistant(i)>> ELSE <<>>)
           old == [i \in 1..k - 1 |-> Heard(turns, i)]
           new == [i \in 1..k |-> Heard(turns, i)]
           now == [i \in 1..k |-> shown(i)]
           h == History(turns, k - 1)
<1>1. k \in Nat \ {0} /\ k - 1 \in Nat /\ 1..k - 1 \subseteq 1..k /\ \A i \in 1..k : i \in Nat /\
        (i < k <=> i \in 1..k - 1) /\ (i < k \/ i = k)
  OBVIOUS
<1>2. \A i \in Nat : user(i) \in Said /\ assistant(i) \in Said
  BY DEF EvalRule!Message, Said
<1> HIDE DEF user, assistant
<1>3. \A i \in 1..k : <<user(i)>> \in Seq(Said) /\ <<assistant(i)>> \in Seq(Said) /\ <<>> \in Seq(Said)
  BY <1>1, <1>2
<1>4. \A i \in 1..k : Heard(turns, i) \in Seq(Said) /\ shown(i) \in Seq(Said)
  BY <1>3 DEF Heard, user, assistant
<1>5. (\A i \in 1..k - 1 : shown(i) = Heard(turns, i)) /\ shown(k) = <<user(k)>>
  <2>1. \A i \in 1..k - 1 : shown(i) = Heard(turns, i)
    BY <1>1 DEF Heard, user, assistant
  <2>2. shown(k) = <<user(k)>> \o <<>>
    <3>1. ~(k < k)
      BY <1>1
    <3> QED
      BY <3>1, Zenon
  <2>3. <<user(k)>> \o <<>> = <<user(k)>>
    BY <1>3
  <2> QED
    BY <2>1, <2>2, <2>3
<1>6. /\ Replied(turns, k) => Heard(turns, k) = <<user(k)>> \o <<assistant(k)>>
      /\ ~Replied(turns, k) => Heard(turns, k) = <<user(k)>>
  <2>1. <<user(k)>> \o <<>> = <<user(k)>>
    BY <1>3
  <2> QED
    BY <2>1 DEF Heard, user, assistant
<1> HIDE DEF shown
<1>7. /\ old \in Seq(Seq(Said)) /\ new \in Seq(Seq(Said)) /\ now \in Seq(Seq(Said))
      /\ Len(old) = k - 1 /\ Len(new) = k /\ Len(now) = k /\ new[k] = Heard(turns, k) /\ now[k] = shown(k)
      /\ \A i \in 1..k - 1 : new[i] = old[i] /\ now[i] = old[i]
  <2>1. old \in [1..k - 1 -> Seq(Said)] /\ new \in [1..k -> Seq(Said)] /\ now \in [1..k -> Seq(Said)]
    BY <1>1, <1>4
  <2>2. k \in 1..k /\ \A i \in 1..k - 1 : i \in 1..k
    BY <1>1
  <2> QED
    BY <1>1, <1>5, <2>1, <2>2
<1>8. h = EvalRule!FlattenSeq(old) /\ History(turns, k) = EvalRule!FlattenSeq(new)
  BY DEF History
<1>9. Shown(turns, k) = EvalRule!FlattenSeq(now)
  BY Zenon DEF Shown, shown, user, assistant
<1> HIDE DEF old, new, now
<1>10. k = (k - 1) + 1
  BY <1>1
<1>11. EvalRule!FlattenSeq(new) = EvalRule!FlattenSeq(old) \o new[k] /\ EvalRule!FlattenSeq(now) = EvalRule!FlattenSeq(old) \o now[k]
  <2>1. EvalRule!FlattenSeq(new) = EvalRule!FlattenSeq(old) \o new[Len(new)]
    BY <1>7, <1>10, FlattenMore
  <2>2. EvalRule!FlattenSeq(now) = EvalRule!FlattenSeq(old) \o now[Len(now)]
    BY <1>7, <1>10, FlattenMore
  <2> QED
    BY <1>7, <2>1, <2>2
<1>12. h \in Seq(Said)
  BY <1>7, <1>8, FlattenHolds
<1>13. History(turns, 0) = <<>>
  <2>1. [i \in 1..0 |-> Heard(turns, i)] = <<>>
    OBVIOUS
  <2>2. EvalRule!FlattenSeq(<<>>) = <<>>
    BY DEF EvalRule!FlattenSeq
  <2> QED
    BY <2>1, <2>2 DEF History
<1> DEFINE u == user(k)
           a == assistant(k)
<1>14. u \in Said /\ a \in Said
  BY <1>1, <1>2
<1> HIDE DEF u, a, h
<1>15. h \o <<u>> = Append(h, u) /\ h \o (<<u>> \o <<a>>) = Append(Append(h, u), a)
  <2>1. h \o (<<u>> \o <<a>>) = (h \o <<u>>) \o <<a>>
    <3>1. <<u>> \in Seq(Said) /\ <<a>> \in Seq(Said)
      BY <1>14
    <3> QED
      BY <1>12, <3>1, ConcatAssociative
  <2>2. h \o <<u>> = Append(h, u) /\ Append(h, u) \o <<a>> = Append(Append(h, u), a)
    BY <1>12, <1>14
  <2> QED
    BY <2>1, <2>2
<1>16. Shown(turns, k) = Append(h, u)
  BY <1>5, <1>7, <1>8, <1>9, <1>11, <1>15 DEF u
<1>17. Replied(turns, k) => History(turns, k) = Append(Append(h, u), a)
  BY <1>6, <1>7, <1>8, <1>11, <1>15 DEF u, a
<1>18. ~Replied(turns, k) => History(turns, k) = Append(h, u)
  BY <1>6, <1>7, <1>8, <1>11, <1>15 DEF u
<1> QED
  BY <1>12, <1>13, <1>16, <1>17, <1>18 DEF u, a, h, user, assistant

\* How far a conversation has come.
Chats == [messages : Seq(Said), turns : Nat, jobs : Nat, runs : Nat, prompts : Seq(Seq(Said))]

\* What one turn makes of it, case by case.
Sends(x, turn, c) ==
  LET put == Append(x.messages, EvalRule!Message("user", x.turns + 1)) IN
  /\ c.turns = x.turns + 1
  /\ ~turn.runtime => c.prompts = x.prompts /\ c.jobs = x.jobs
  /\ turn.runtime => c.prompts = Append(x.prompts, put) /\ c.jobs = IF x.jobs = 0 THEN 1 ELSE x.jobs
  /\ c.messages = IF turn.runtime /\ ~turn.error THEN Append(put, EvalRule!Message("assistant", x.turns + 1)) ELSE put

LEMMA SendCases ==
  ASSUME NEW x \in Chats, NEW turn \in Turn
  PROVE  EvalRule!Send(x, turn) \in Chats /\ Sends(x, turn, EvalRule!Send(x, turn))
<1> DEFINE c == EvalRule!Send(x, turn)
           user == EvalRule!Message("user", x.turns + 1)
           assistant == EvalRule!Message("assistant", x.turns + 1)
           put == Append(x.messages, user)
           job == IF x.jobs = 0 THEN 1 ELSE x.jobs
<1>1. /\ x.messages \in Seq(Said) /\ x.turns \in Nat /\ x.jobs \in Nat /\ x.runs \in Nat /\ x.prompts \in Seq(Seq(Said))
      /\ x = [messages |-> x.messages, turns |-> x.turns, jobs |-> x.jobs, runs |-> x.runs, prompts |-> x.prompts]
      /\ turn.runtime \in BOOLEAN /\ turn.error \in BOOLEAN
  BY DEF Chats, Turn
<1>2. user \in Said /\ assistant \in Said
  BY <1>1 DEF EvalRule!Message, Said
<1>3. put \in Seq(Said) /\ Append(put, assistant) \in Seq(Said) /\ Append(x.prompts, put) \in Seq(Seq(Said)) /\ job \in Nat
  <2> HIDE DEF user, assistant
  <2>1. put \in Seq(Said) /\ job \in Nat
    BY <1>1, <1>2
  <2> HIDE DEF put
  <2> QED
    BY <1>1, <1>2, <2>1
<1>4. CASE ~turn.runtime
  <2>1. c = [x EXCEPT !.messages = Append(@, user), !.turns = @ + 1]
    BY <1>4 DEF EvalRule!Send
  <2>2. c = [messages |-> put, turns |-> x.turns + 1, jobs |-> x.jobs, runs |-> x.runs, prompts |-> x.prompts]
    <3> HIDE DEF c, user
    <3> QED
      BY <1>1, <2>1
  <2> HIDE DEF c, user, assistant, put
  <2> QED
    BY <1>1, <1>3, <1>4, <2>2 DEF Chats, Sends, c, user, assistant, put
<1>5. CASE turn.runtime
  <2> DEFINE first == [x EXCEPT !.messages = Append(@, user), !.turns = @ + 1]
             opened == [first EXCEPT !.jobs = IF @ = 0 THEN 1 ELSE @]
             ran == [opened EXCEPT !.prompts = Append(@, opened.messages), !.runs = @ + 1]
             tail == [ran EXCEPT !.messages = Append(@, EvalRule!Message("assistant", ran.turns))]
  <2>1. (turn.error => c = ran) /\ (~turn.error => c = tail)
    BY <1>1, <1>5 DEF EvalRule!Send
  <2>2. first = [messages |-> put, turns |-> x.turns + 1, jobs |-> x.jobs, runs |-> x.runs, prompts |-> x.prompts]
    <3>1. first = [x EXCEPT !.messages = Append(@, user), !.turns = @ + 1]
      OBVIOUS
    <3> HIDE DEF first, user
    <3> QED
      BY <1>1, <3>1
  <2>3. opened = [messages |-> put, turns |-> x.turns + 1, jobs |-> job, runs |-> x.runs, prompts |-> x.prompts]
    <3>1. opened = [first EXCEPT !.jobs = IF @ = 0 THEN 1 ELSE @]
      OBVIOUS
    <3> HIDE DEF opened, first, put
    <3> QED
      BY <2>2, <3>1
  <2>4. ran = [messages |-> put, turns |-> x.turns + 1, jobs |-> job, runs |-> x.runs + 1, prompts |-> Append(x.prompts, put)]
    <3>1. ran = [opened EXCEPT !.prompts = Append(@, opened.messages), !.runs = @ + 1]
      OBVIOUS
    <3> HIDE DEF opened, ran, put, job
    <3> QED
      BY <2>3, <3>1
  <2>5. tail = [messages |-> Append(put, assistant), turns |-> x.turns + 1, jobs |-> job,
          runs |-> x.runs + 1, prompts |-> Append(x.prompts, put)]
    <3>1. tail = [ran EXCEPT !.messages = Append(@, EvalRule!Message("assistant", ran.turns))] /\
            ran.turns = x.turns + 1 /\ ran.messages = put
      BY <2>4
    <3> HIDE DEF ran, tail, put, job
    <3> QED
      BY <2>4, <3>1
  <2> HIDE DEF first, opened, ran, tail
  <2>6. /\ c.messages = (IF turn.error THEN put ELSE Append(put, assistant)) /\ c.turns = x.turns + 1
        /\ c.jobs = job /\ c.prompts = Append(x.prompts, put) /\ c \in Chats
    <3>1. x.turns + 1 \in Nat /\ x.runs + 1 \in Nat /\ turn.error \in BOOLEAN
      BY <1>1
    <3> HIDE DEF c, put, assistant, job, user
    <3>2. CASE turn.error
      <4>1. c = [messages |-> put, turns |-> x.turns + 1, jobs |-> job, runs |-> x.runs + 1, prompts |-> Append(x.prompts, put)]
        BY <2>1, <2>4, <3>2
      <4>2. c \in Chats
        BY <1>3, <3>1, <4>1 DEF Chats
      <4>3. c.messages = put /\ c.turns = x.turns + 1 /\ c.jobs = job /\ c.prompts = Append(x.prompts, put)
        BY <4>1
      <4> QED
        BY <3>2, <4>2, <4>3
    <3>3. CASE ~turn.error
      <4>1. c = [messages |-> Append(put, assistant), turns |-> x.turns + 1, jobs |-> job,
              runs |-> x.runs + 1, prompts |-> Append(x.prompts, put)]
        BY <2>1, <2>5, <3>3
      <4>2. c \in Chats
        BY <1>3, <3>1, <4>1 DEF Chats
      <4>3. c.messages = Append(put, assistant) /\ c.turns = x.turns + 1 /\ c.jobs = job /\ c.prompts = Append(x.prompts, put)
        BY <4>1
      <4> QED
        BY <3>3, <4>2, <4>3
    <3> QED
      BY <3>1, <3>2, <3>3
  <2> HIDE DEF c
  <2> QED
    BY <1>1, <1>5, <2>6 DEF Sends, c
<1> QED
  BY <1>1, <1>4, <1>5

\* h is where a conversation stands before, between and after its turns.
Talks(h, turns) ==
  /\ h[0] = [messages |-> <<>>, turns |-> 0, jobs |-> 0, runs |-> 0, prompts |-> <<>>]
  /\ h[Len(turns)] = EvalRule!Conversation(turns)
  /\ \A k \in 1..Len(turns) : h[k] = EvalRule!Send(h[k - 1], turns[k])

LEMMA ConversationFolds ==
  ASSUME NEW turns \in Seq(Turn)
  PROVE  \E h \in [0..Len(turns) -> Chats] : Talks(h, turns)
<1> DEFINE n == Len(turns)
           base == [messages |-> <<>>, turns |-> 0, jobs |-> 0, runs |-> 0, prompts |-> <<>>]
           next(acc, k) == EvalRule!Send(acc, turns[k])
           step == [k \in 1..n |-> [acc \in Chats |-> next(acc, k)]]
           Folds(f) == f = [t \in SUBSET (1..n) |-> IF t = {} THEN base ELSE next(f[t \ {Greatest(t)}], Greatest(t))]
           iter == CHOOSE f : Folds(f)
<1>1. n \in Nat /\ DOMAIN turns = 1..n /\ \A k \in 1..n : turns[k] \in Turn
  OBVIOUS
<1>2. EvalRule!Conversation(turns) = iter[1..n]
  <2>1. EvalRule!Conversation(turns) =
          (CHOOSE f : f = [t \in SUBSET (DOMAIN turns) |-> IF t = {} THEN base ELSE next(f[t \ {Greatest(t)}], Greatest(t))])[DOMAIN turns]
    BY Zenon DEF EvalRule!Conversation, EvalRule!FoldLeft, EvalRule!MapThenFoldSet, EvalRule!Max, Greatest
  <2> HIDE DEF base, next, n
  <2> QED
    BY <1>1, <2>1
<1>3. base \in Chats
  BY DEF Chats
<1>4. \A k \in 1..n, acc \in Chats : next(acc, k) \in Chats
  <2> SUFFICES ASSUME NEW k \in 1..n, NEW acc \in Chats PROVE EvalRule!Send(acc, turns[k]) \in Chats
    OBVIOUS
  <2>1. turns[k] \in Turn
    BY <1>1
  <2> QED
    BY <2>1, SendCases
<1> HIDE DEF base, next, n
<1>5. step \in [1..n -> [Chats -> Chats]]
  BY <1>4
<1>6. \A k \in 1..n, acc \in Chats : step[k][acc] = next(acc, k)
  OBVIOUS
<1> HIDE DEF step
<1>7. PICK g \in [SUBSET (1..n) -> Chats] : Recurses(g, n, base, step)
  BY <1>1, <1>3, <1>5, FoldExists
<1>8. Folds(g)
  <2>1. \A t \in SUBSET (1..n) : t # {} => step[Greatest(t)][g[t \ {Greatest(t)}]] = next(g[t \ {Greatest(t)}], Greatest(t))
    BY <1>1, <1>6, <1>7, GreatestIn
  <2> QED
    BY <1>7, <2>1 DEF Recurses
<1>9. Folds(iter)
  BY <1>8
<1>10. RecursesIn(Chats, iter, n, base, step)
  <2>1. iter[{}] = base
    BY <1>9
  <2>2. ASSUME NEW t \in SUBSET (1..n), t # {}, iter[t \ {Greatest(t)}] \in Chats
        PROVE  iter[t] = step[Greatest(t)][iter[t \ {Greatest(t)}]]
    <3>1. Greatest(t) \in 1..n
      BY <1>1, <2>2, GreatestIn
    <3> QED
      BY <1>6, <1>9, <2>2, <3>1
  <2> HIDE DEF iter
  <2> QED
    BY <2>1, <2>2 DEF RecursesIn
<1> HIDE DEF iter
<1>11. PICK h \in [0..n -> Chats] : Leads(h, n, base, step, iter[1..n])
  BY <1>1, <1>3, <1>5, <1>10, FoldStays
<1>12. \A k \in 1..n : h[k] = next(h[k - 1], k)
  <2> SUFFICES ASSUME NEW k \in 1..n PROVE h[k] = next(h[k - 1], k)
    OBVIOUS
  <2>1. h[k] = step[k][h[k - 1]]
    BY <1>11 DEF Leads
  <2>2. k - 1 \in 0..n
    BY <1>1
  <2>3. h[k - 1] \in Chats
    BY <1>11, <2>2
  <2> QED
    BY <1>6, <2>1, <2>3
<1> QED
  BY <1>2, <1>11, <1>12 DEF base, next, n, Leads, Talks


\* The turns to k that had a runtime.
Ran(turns, k) == {i \in 1..k : turns[i].runtime}
Count(turns, k) == Cardinality(Ran(turns, k))

LEMMA CountGrows ==
  ASSUME NEW turns \in Seq(Turn), NEW k \in 1..Len(turns)
  PROVE  /\ Count(turns, k - 1) \in Nat /\ Count(turns, 0) = 0
         /\ Count(turns, k) = Count(turns, k - 1) + (IF turns[k].runtime THEN 1 ELSE 0)
         /\ \A j \in Ran(turns, k - 1) : Count(turns, j) \in 1..Count(turns, k - 1)
<1> DEFINE old == Ran(turns, k - 1)
<1>1. k \in Nat \ {0} /\ \A j \in 0..k : IsFiniteSet(Ran(turns, j)) /\ Count(turns, j) \in Nat
  <2>1. ASSUME NEW j \in 0..k PROVE IsFiniteSet(Ran(turns, j))
    <3>1. IsFiniteSet(1..j) /\ Ran(turns, j) \in SUBSET (1..j)
      BY FS_Interval DEF Ran
    <3> QED
      BY <3>1, FS_Subset
  <2> QED
    BY <2>1, FS_CardinalityType DEF Count
<1>2. IsFiniteSet(old) /\ Count(turns, k - 1) \in Nat /\ Count(turns, k - 1) = Cardinality(old)
  <2>1. k - 1 \in 0..k
    BY <1>1
  <2> QED
    BY <1>1, <2>1 DEF Count
<1>3. Ran(turns, 0) = {}
  BY DEF Ran
<1>4. Ran(turns, k) = IF turns[k].runtime THEN old \cup {k} ELSE old
  <2>1. 1..k = (1..k - 1) \cup {k} /\ k \notin 1..k - 1
    BY <1>1
  <2> QED
    BY <2>1 DEF Ran
<1>5. k \notin old
  BY <1>1 DEF Ran
<1>6. Count(turns, k) = Count(turns, k - 1) + (IF turns[k].runtime THEN 1 ELSE 0)
  <2>1. Cardinality(old \cup {k}) = Cardinality(old) + 1
    BY <1>2, <1>5, FS_AddElement
  <2> HIDE DEF old
  <2>2. CASE turns[k].runtime
    BY <1>2, <1>4, <2>1, <2>2 DEF Count
  <2>3. CASE ~turns[k].runtime
    BY <1>2, <1>4, <2>3 DEF Count
  <2> QED
    BY <2>2, <2>3
<1>7. ASSUME NEW j \in old PROVE Count(turns, j) \in 1..Count(turns, k - 1)
  <2>1. j \in 1..k - 1 /\ turns[j].runtime /\ j \in 0..k
    BY <1>1, <1>7 DEF Ran
  <2>2. j \in Ran(turns, j) /\ Ran(turns, j) \in SUBSET old
    BY <1>1, <2>1 DEF Ran
  <2>3. Cardinality(Ran(turns, j)) <= Cardinality(old)
    BY <1>2, <2>2, FS_Subset
  <2>4. Cardinality(Ran(turns, j)) # 0
    BY <1>1, <2>1, <2>2, FS_EmptySet
  <2>5. Count(turns, j) \in Nat
    BY <1>1, <2>1
  <2> HIDE DEF old
  <2> QED
    BY <1>2, <2>3, <2>4, <2>5 DEF Count
<1> QED
  BY <1>2, <1>3, <1>6, <1>7, FS_EmptySet DEF Count

\* Where it stands after k turns.
Told(turns, k, x) ==
  /\ x.turns = k /\ x.messages = History(turns, k)
  /\ Len(x.prompts) = Count(turns, k) /\ x.jobs = IF Count(turns, k) = 0 THEN 0 ELSE 1
  /\ \A j \in Ran(turns, k) : x.prompts[Count(turns, j)] = Shown(turns, j)

\* Another turn leaves it told.
LEMMA StillTold ==
  ASSUME NEW turns \in Seq(Turn), NEW k \in 1..Len(turns),
         NEW x \in Chats, Told(turns, k - 1, x), NEW c \in Chats, Sends(x, turns[k], c)
  PROVE  Told(turns, k, c)
<1>1. /\ k \in Nat \ {0} /\ turns[k].runtime \in BOOLEAN /\ turns[k].error \in BOOLEAN
      /\ x.prompts \in Seq(Seq(Said))
  <2>1. k \in Nat \ {0} /\ turns[k] \in Turn
    OBVIOUS
  <2>2. x.prompts \in Seq(Seq(Said))
    BY DEF Chats
  <2> QED
    BY <2>1, <2>2 DEF Turn
<1>2. /\ x.turns = k - 1 /\ x.turns + 1 = k /\ x.messages = History(turns, k - 1)
      /\ Len(x.prompts) = Count(turns, k - 1) /\ x.jobs = IF Count(turns, k - 1) = 0 THEN 0 ELSE 1
      /\ \A j \in Ran(turns, k - 1) : x.prompts[Count(turns, j)] = Shown(turns, j)
  BY <1>1 DEF Told
<1> DEFINE u == EvalRule!Message("user", k)
           a == EvalRule!Message("assistant", k)
<1>3. /\ Shown(turns, k) = Append(x.messages, u)
      /\ Replied(turns, k) => History(turns, k) = Append(Shown(turns, k), a)
      /\ ~Replied(turns, k) => History(turns, k) = Shown(turns, k)
      /\ History(turns, k - 1) \in Seq(Said)
  BY <1>2, HistoryGrows
<1>4. /\ Count(turns, k - 1) \in Nat
      /\ Count(turns, k) = Count(turns, k - 1) + (IF turns[k].runtime THEN 1 ELSE 0)
      /\ \A j \in Ran(turns, k - 1) : Count(turns, j) \in 1..Count(turns, k - 1)
  BY CountGrows
<1>5. /\ c.turns = k
      /\ ~turns[k].runtime => c.prompts = x.prompts /\ c.jobs = x.jobs
      /\ turns[k].runtime => c.prompts = Append(x.prompts, Shown(turns, k)) /\ c.jobs = IF x.jobs = 0 THEN 1 ELSE x.jobs
      /\ c.messages = IF turns[k].runtime /\ ~turns[k].error THEN Append(Shown(turns, k), a) ELSE Shown(turns, k)
  BY <1>2, <1>3, Zenon DEF Sends
<1> HIDE DEF u, a
<1>6. c.messages = History(turns, k)
  BY <1>3, <1>5 DEF Replied
<1>7. \A j \in Ran(turns, k) : j \in Ran(turns, k - 1) \/ (j = k /\ turns[k].runtime)
  BY <1>1 DEF Ran
<1>8. Shown(turns, k) \in Seq(Said)
  BY <1>2, <1>3, <1>1 DEF EvalRule!Message, Said, u
<1>9. CASE turns[k].runtime
  <2> DEFINE s == Shown(turns, k)
             n == Count(turns, k - 1)
  <2>1. c.prompts = Append(x.prompts, s) /\ Count(turns, k) = n + 1 /\ Len(x.prompts) = n /\ n \in Nat /\ s \in Seq(Said)
    BY <1>2, <1>4, <1>5, <1>8, <1>9
  <2>2. Len(c.prompts) = n + 1 /\ c.prompts[n + 1] = s /\ \A p \in 1..n : c.prompts[p] = x.prompts[p]
    <3> HIDE DEF s, n
    <3> QED
      BY <1>1, <2>1
  <2>3. c.jobs = 1 /\ Count(turns, k) # 0
    BY <1>2, <1>5, <1>9, <2>1
  <2> HIDE DEF s, n
  <2>4. ASSUME NEW j \in Ran(turns, k) PROVE c.prompts[Count(turns, j)] = Shown(turns, j)
    <3>1. CASE j \in Ran(turns, k - 1)
      BY <1>2, <1>4, <2>2, <3>1 DEF n
    <3>2. CASE j = k
      BY <2>1, <2>2, <3>2 DEF s
    <3> QED
      BY <1>7, <3>1, <3>2
  <2> QED
    BY <1>5, <1>6, <2>1, <2>2, <2>3, <2>4 DEF Told
<1>10. CASE ~turns[k].runtime
  <2>1. c.prompts = x.prompts /\ c.jobs = x.jobs /\ Count(turns, k) = Count(turns, k - 1) /\ Ran(turns, k) \subseteq Ran(turns, k - 1)
    BY <1>4, <1>5, <1>7, <1>10
  <2> QED
    BY <1>2, <1>5, <1>6, <2>1 DEF Told
<1> QED
  BY <1>1, <1>9, <1>10

\* However many turns a conversation has and whichever of them fail, the model is
\* shown in each all that was said before it, once and in order, the answer of no
\* turn that failed, and every turn runs under the one job (chat.py:111).
THEOREM AllIsRemembered ==
  ASSUME NEW turns \in Seq(Turn)
  PROVE  EvalRule!HistoryKept(turns)
<1> DEFINE n == Len(turns)
           end == EvalRule!Conversation(turns)
<1>1. n \in Nat /\ \A k \in 1..n : turns[k] \in Turn
  OBVIOUS
<1>2. PICK h \in [0..n -> Chats] : Talks(h, turns)
  BY ConversationFolds
<1> DEFINE S == {k \in 0..n : Told(turns, k, h[k])}
<1>3. 0 \in S
  <2>1. h[0] = [messages |-> <<>>, turns |-> 0, jobs |-> 0, runs |-> 0, prompts |-> <<>>] /\ 0 \in 0..n
    BY <1>1, <1>2 DEF Talks
  <2>2. History(turns, 0) = <<>>
    <3>1. [i \in 1..0 |-> Heard(turns, i)] = <<>>
      OBVIOUS
    <3>2. EvalRule!FlattenSeq(<<>>) = <<>>
      BY DEF EvalRule!FlattenSeq
    <3> QED
      BY <3>1, <3>2 DEF History
  <2>3. Ran(turns, 0) = {} /\ Count(turns, 0) = 0
    BY FS_EmptySet DEF Ran, Count
  <2> QED
    BY <2>1, <2>2, <2>3 DEF Told
<1>4. ASSUME NEW k \in 1..n, k - 1 \in S PROVE k \in S
  <2>1. h[k - 1] \in Chats /\ h[k] \in Chats /\ k \in 0..n
    <3>1. n \in Nat /\ k \in 0..n /\ k - 1 \in 0..n
      BY <1>1
    <3> HIDE DEF n, S
    <3> QED
      BY <1>2, <3>1
  <2>2. Sends(h[k - 1], turns[k], h[k])
    <3>1. h[k] = EvalRule!Send(h[k - 1], turns[k])
      BY <1>2 DEF Talks
    <3> QED
      BY <1>1, <2>1, <3>1, SendCases
  <2>3. Told(turns, k - 1, h[k - 1])
    BY <1>4
  <2>4. Told(turns, k, h[k])
    BY <2>1, <2>2, <2>3, StillTold
  <2> QED
    BY <2>1, <2>4
<1>5. Told(turns, n, end)
  <2>1. \A k \in 1..n : k - 1 \in S => k \in S
    BY <1>4
  <2> HIDE DEF S
  <2>2. \A k \in 0..n : k \in S
    BY <1>1, <1>3, <2>1, StepByStep
  <2>3. n \in 0..n
    BY <1>1
  <2> QED
    BY <1>2, <2>2, <2>3 DEF S, Talks
<1> HIDE DEF end
<1> DEFINE ran == {i \in 1..Len(turns) : turns[i].runtime}
           said(k) == EvalRule!FlattenSeq([i \in 1..k |-> <<EvalRule!Message("user", i)>> \o
             (IF (turns[i].runtime /\ ~turns[i].error) /\ i < k THEN <<EvalRule!Message("assistant", i)>> ELSE <<>>)])
<1>6. ran = Ran(turns, n) /\ \A k \in ran : {i \in ran : i <= k} = Ran(turns, k)
  <2>1. \A k \in 1..n, i \in 1..n : i <= k <=> i \in 1..k
    BY <1>1
  <2>2. \A k \in 1..n : 1..k \subseteq 1..n
    BY <1>1
  <2> QED
    BY <2>1, <2>2 DEF Ran
<1>7. \A k \in ran : said(k) = Shown(turns, k)
  BY Zenon DEF Shown, Replied
<1>8. \A k \in ran : EvalRule!Cardinality({i \in ran : i <= k}) = Count(turns, k)
  BY <1>6, SameCount DEF Count
<1>9. EvalRule!Cardinality(ran) = Count(turns, n) /\ (ran = {} <=> Count(turns, n) = 0)
  <2>1. IsFiniteSet(ran)
    <3>1. IsFiniteSet(1..n) /\ ran \in SUBSET (1..n)
      BY <1>1, FS_Interval
    <3> HIDE DEF ran
    <3> QED
      BY <3>1, FS_Subset
  <2> QED
    BY <1>6, <2>1, SameCount, FS_EmptySet DEF Count
<1>10. /\ Len(end.prompts) = Count(turns, n) /\ end.jobs = IF Count(turns, n) = 0 THEN 0 ELSE 1
       /\ \A j \in ran : end.prompts[Count(turns, j)] = Shown(turns, j)
  BY <1>5, <1>6 DEF Told
<1> HIDE DEF ran, said
<1>11. /\ Len(end.prompts) = EvalRule!Cardinality(ran) /\ end.jobs = (IF ran = {} THEN 0 ELSE 1)
       /\ \A k \in ran : end.prompts[EvalRule!Cardinality({i \in ran : i <= k})] = said(k)
  BY <1>7, <1>8, <1>9, <1>10
<1> QED
  BY <1>11, Zenon DEF EvalRule!HistoryKept, ran, said, end
=============================================================================
