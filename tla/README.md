# Verification of the HUD SDK

TLA+ modules, TLC configurations and TLAPS proofs kept beside the Python SDK in
`src/hud`: environments that serve tasks over a control channel, the rollouts
that drive them, the placements they lease, the sandbox and the robot bridge an
environment runs, the agents and their tools, the commands that keep a
directory and the platform in step, and the telemetry that reports what
happened. Every definition is translated from the source; `PROJECT.json` maps
each one to the lines it stands for, and lists the components, runs, mutants,
hazards, findings and theorems in a form tools can read.

    tlasany ControlChannel.tla                               # parse a module
    tlc -workers 2 -config Rollout.cfg Rollout               # model-check an instance
    tlc -workers 2 -config MCPolicies.cfg MCPolicies
    tlapm RolloutProofs.tla                                  # check the proofs of a module

Contents: [Inventory](#inventory) · [Modules](#modules) · [Runs and
bounds](#runs-and-bounds) · [Findings](#findings) · [Observed](#observed) ·
[Proofs](#proofs) · [Fairness](#fairness) · [What is not
modelled](#what-is-not-modelled) · [What is left](#what-is-left)

## Inventory

Almost everything is asyncio: coroutines of one event loop share state and lose
control at every `await`, where they may also be handed a `CancelledError`. The
exceptions are the telemetry exporter and the video encoders (real threads), the
simulation thread of the robot bridge, and the commands of the CLI, which are
processes of their own that meet in a directory and on the platform.

| Part | State it keeps | Operations | What is hard | What makes it correct |
| --- | --- | --- | --- | --- |
| Control channel server, `environment/server.py` | suspended task runners by session id, live sessions, active handlers | hello and resume, start, grade, cancel, bye, drop, shutdown | handlers interleave at every await; a drop parks a task; blind adoption; shutdown cancels handlers in mid-teardown | one holder per task; its hooks run once, under its own session; the channel is a ledger of tasks |
| Rollout, `eval/run.py` with `clients/client.py` | the driver task, its phase, the run's trace and grade, two provider contexts | drive, grade, verify, time out, cancel, heartbeat | the deadline falls in any phase; the driver goes on behind the returned run; cancellations are translated | the outcome is final, graded by whom it says, and no task is left behind |
| Robot bridge, `environment/robot/bridge.py` | slots, actions, an event, the simulation queue | reset, result, connect, act, tick | claims, agents and ticks interleave around one simulation thread; a barrier | who drives which slot, with which observation; the barrier never stalls |
| Robot endpoint, `environment/robot/endpoint.py` | claims by session, one shared link and its lock | reset, result, release, stop | timed-out calls on a link without call ids; a full batch | replies reach their callers; no slot is lost; a waiting reset is served |
| Shared placement, `eval/runtime/core.py` | addresses, contexts, deadlines, semaphores, a boot lock, a scope count | open, lease, boot, expire, close | boots, expiries, the end of the scope and late drivers interleave | width, one live substrate per key, everything is closed |
| Providers, `eval/runtime/{docker,modal,daytona,hud,local,compose}.py` | one substrate per lease; locks under which images are prepared | create, yield, remove | failure or cancellation between creating a substrate and guarding it | every substrate created is removed, every image prepared once |
| Process groups, `utils/process.py` | a leader and its descendants | wait, terminate | descendants outlive the leader, ignore SIGTERM, keep the pipes | nothing survives a termination, and it ends |
| Hosted rollout, `eval/runtime/hosted.py` | a remote trace | submit, poll, fold, cancel later | lost answers, retries, an interruption with requests in flight | the local outcome is the remote verdict |
| Workspace and sandbox, `environment/{workspace,namespace,egress,env}.py` | the sandbox process, its namespace host, egress servers, bridge, published ports | start, session, run, visit, discard, stop | concurrent first sessions, failed boots, a sandbox that dies | one sandbox, every process in it, its own way out |
| Environment, `environment/env.py`, `eval/runtime/local.py` | started flag, hooks, published capabilities | start, serve, stop | rollouts share one object | what is served is the current sandbox |
| Tool agent, `agents/tool_agent.py` and providers | messages, the provider's cursor, failure counters | loop, dispatch, stop | stop conditions, thrown-away turns, retries of a stream | it stops for the reason it gives, and history stays answerable |
| File tracking, `environment/file_tracker.py`, `eval/file_tracking.py` | a baseline and a snapshot | baseline, poll, flush | bounded diffs offered again; the observer's cancelled poll | what a viewer reconstructs is the previous state |
| Gym bridge and recorders, `environment/robot/gym.py`, `telemetry/robot/*` | the sim and its build, traces by slot, encoder threads | build, reset, step, score, record | an episode ends and starts in one step; failures while rebuilding | traces, videos and scores are about their episode |
| Robot client and agents, `capabilities/robot.py`, `agents/robot/*` | a queue of one observation, batched calls | receive, act, infer | only the latest observation counts; callers give up mid-batch | each robot executes rows planned for its own observation |
| Capability clients, `capabilities/{ssh,cdp,mcp,rfb}.py` | one connection shared by tools, commands in flight | dial, run, put back, close | close during a redial, cuts, broken links | one connection, commands sent once, nothing after close |
| Directory and platform, `cli/{deploy,sync,project}.py`, `eval/sync.py` | `.hud/config.json`, registry entry, taskset rows | deploy, sync tasks, sync env, project use | lost answers, two commands at once, somebody else's changes | what a command reports is so |
| Harbor integration, `integrations/harbor/*` | container, grading files, artifacts | adapt; run, grade, verify | steps of a template that fail around grading | a verdict is about this session's artifacts |
| Telemetry exporter, `telemetry/exporter.py` | a queue, an intake thread and its batch, a pool, uploads in flight | queue, flush, reset, exit | threads; a flush races with a dispatch | a flush that succeeds has drained; no span is lost or doubled |
| Rules without shared state: launches, egress policy, compose documents, tools and formats, graders, tasksets, training batches, protocol clients' messages, patches, CLI choices | none or one value | pure functions | corners of inputs | each is stated beside the module that holds it |

They interact as follows. `Taskset.run` opens a placement's scope and gathers
one `rollout` per task; each rollout starts a driver task, leases a substrate
from the provider (perhaps through `Shared`), connects a client to the
substrate's control channel, starts the task, runs the agent, and has the task
graded. The agent's loop calls tools over the capability clients, which reach a
sandbox that the environment's workspace boots on first use and whose files a
tracker watches. A task may reset a simulator through the `RobotEndpoint`, whose
link leads to the bridge's control port; the agent's websocket leads to the
bridge's tick loop. Spans written by all of them go to the exporter. The
channel's teardown hooks are what frees a robot slot, keyed by
`current_session_id`: that is why the session bound during a teardown matters.

## Modules

Each is written the same way: a step is what a coroutine (or thread, or command)
does between two points at which others can run. Operators with a suffix after an
underscore (`Teardown_KeepsEntry`) are deliberately wrong variants kept before
the operator they vary: substituted for it, they make a property fail, which
shows that the property depends on that line of the code.

*State machines*

| Module | Models | Explored by |
| --- | --- | --- |
| `ControlChannel`, `TaskLedger` | server.py: handlers, runners, shutdown; what the channel promises, abstractly | run `control`; `ControlChannelProofs` |
| `Rollout` | run.py: `rollout` and `_drive`, the client's heartbeat and abort | `rollout`; `RolloutProofs` |
| `SlotLedger` | what a bridge promises about the slots of a vectorized simulator, abstractly | as `ImplementsSlotBook` of the next |
| `RobotBridge` | bridge.py: slots, agents' connections, tick loop, simulation thread | `robot_bridge`, `robot_barrier_live`; `RobotBridgeProofs` |
| `RobotEndpoint` | endpoint.py: claims and the shared link; the bridge reduced to its slots | `trajectory`; `TrajectoryProofs` |
| `SharedLease` | core.py's `Shared` under several `Taskset.run` calls | `shared_lease`; `SharedLeaseProofs` |
| `TelemetryExporter` | exporter.py: intake thread, pool, flush, reset, exit | `telemetry`; `TelemetryProofs` |
| `Workspace`, `EnvServing` | workspace.py, namespace.py, egress.py: the sandbox's life; extended by env.py and local.py, which serve rollouts on one environment | `env_serving`, `workspace_parallel_start`; `ServingProofs` |
| `Substrates`, `ProcessGroup`, `HostedBatch` | the providers await by await; process.py; hosted.py with retries | `placement` (`MCPlacement`); `PlacementProofs` |
| `AgentLoop`, `FileTracking`, `EpisodeRecorder`, `GymSim` | the agents' loop over four providers; tracker and observer; the recorder of a wrapped env; the gym bridge | `trajectory` (`MCTrajectory`); `TrajectoryProofs` |
| `PlatformSync`, `HarborServing`, `SshLink`, `WireClients`, `BatchedModel` | CLI commands against the platform; Harbor's templates; the SSH client; CDP and robot sockets; batched inference | `policies` (`MCPolicies`); `PlacementProofs`, `RolloutProofs`, and `ServingProofs` for the last three |

*Rules*, modules of operators whose soundness is a predicate of an input:
`SessionLaunch` (what a process is given, what the egress proxy answers it),
`FileRules`, `ComposeRules`, `HarborRules` (how tasks are adapted and images
served), `ControlRules` (what crosses the channel), `CliRules`, `EditRules`,
`AgentRules` (with the schemas of tools), `ScreenRules`, `EvalRules`,
`ClientRules`.
`MCPolicies` enumerates the inputs: one initial state per input,
so a failing one is printed as a state. Rules that do not recurse over their
input are proved for every input besides. Where a rule is a recursion over data in
the code (documents, schemas, hosts), it is compared with a definition that says
what the result must be, not how it is computed.

### ControlChannel

One process per connection handler, and `Main` for `serve()` and `_shutdown()`.

| Model | Code |
| --- | --- |
| `phase[p]` | the await of the coroutine: first frame, next frame, generator's first yield (`starting`), its answer (`grading`), `aclose()` (`closing`), teardown hooks (`hooks`) |
| `work[p]`, `token[p]`, `next[p]` | the runner it awaits, the value of `current_session_id` bound for it, and what follows the teardown |
| `runners`, `live` | `_ControlChannel._runners`, `_live` |
| `sid[c]` | the handler's `session_id`, changed by a resuming hello |
| `doomed`, `handlers`, `sweep` | cancellations not yet delivered, `_shutdown`'s snapshot, `cancel_all`'s keys |
| `made`, `origin`, `torn` | history: runners constructed, the session each was started under, those whose hooks ran |

`Answer` is a reply or an error: sent, or the peer does not read and `drain()`
waits for it (`writing`, `parting`), or the peer is gone and the session ends.
`Close` is the `finally` of `accept()`: the handler is in `wait_closed()` until
the transport has gone (`unread`, `Flushed`), however it got there, and a
cancellation of that wait ends the handler and not the transport (`left`), for
which `_shutdown` waits after the handlers. `Cancelled` is the delivery of a `CancelledError`: a start or a grade still
tears its runner down, but a teardown is cut, because `TaskRunner.cancel`
suppresses only `Exception`. Session ids are fresh per connection, so a
connection's own session bears its name. Tunnels (`tunnel.open`) take no part in
sessions and end in `FirstFrame`.

`TaskLedger` knows neither connections nor coroutines: a session keeps at most
one task, which is taken once, to be graded or cancelled, and torn down at most
once; a replacing task starts under the same session. `ImplementsLedger` maps
the table to `kept` and a runner's state to unborn, kept, taken or over.

### Rollout

The driver's `pos` is the await it sits in; `exit` is how its `async with`
blocks are being left; `pending` is a `driver.cancel()` not yet delivered.
Leaving the blocks is a series of awaits of its own: the client is closed
(`Close`), a provider awaited in line (`release`) may be cut by a cancellation
(`CleanupCut`), the actor's is closed by a task of its own (`shield`).
`rollout()` itself is `outer`: `Deadline`, the two-second `client.cancel()`
(`TimeoutCancelled`, `BailCancelled`), a cancellation from outside
(`Cancelled`). `phase`, `seen`, `client`, `expired` and `run` are the variables
of the same names that the two coroutines share; `status`, `stop` and `grade`
are the run's outcome. `HeartbeatFails` cancels the driver through its owner
task, and `Translated` is `connect()` turning that cancellation back into the
heartbeat's error. A peer that stops answering without closing (`PeerStalls`) is
the environment's part and external, like the agent, which may return, raise or
hit its own deadline. The grade request is the one frame as large as the agent's
answer: `AskForGrade` may fail before anything is sent (`FrameTooLarge` of
`encode_frame`, client.py:343), and `unsent` remembers that the task it was about was
left where it was.

### RobotBridge and RobotEndpoint

In the bridge, `slot` is `_SlotRegistry.slots`; a token is the pair of the batch
and the slot it was issued for. `link` is a control connection's handler, `conn`
an agent's, `tick` the await of `_tick_loop`, `simq` the queue of the simulation
thread: whoever is in it waits, and `SimRuns` serves its head. `Signal` is the
event that only counts while the loop is waiting for actions. `shot` and `steps`
count the simulator's steps since its reset, so that an observation can be
compared with the state an action will meet. A frame sent to an agent that does not
read waits, without a timeout and without pings to end it: in a handler (`greeting`,
`last`), or in the tick loop, which shows observations one slot after the other
(`FanOut`, then `sending` or `ending`) and tells of failures the same way (`Tell`,
then `telling` or `failing`); `to` is the slot and the connection it waits for. What
happens to that slot meanwhile, another agent's claim included, is met when the send
returns.

`SlotLedger` knows neither links nor ticks: a token is given once, freed once at
most, and a batch begins when the one before it has no episode left and takes in
no more of them than there are slots, also when some end early. The bridge
implements it with the slots that are claimed, the tokens it has issued and the
slots its batch has used (`Ongoing`, `issued`, `UsedUp`). The endpoint implements no
ledger: after a cut it may free a slot of another session.

In the endpoint, `line` is `_lock` with its waiters, `stage` where a session's
call stands, `claims` is `_claims`, `wire` and `replies` are the two directions
of the link; the bridge is reduced to its slots, `open` and `used`, and a token is
named by the session whose reset got it. `LeavesAs` is leaving `async with
self._lock` or giving up the wait for it. A call may be cut wherever it stands
(`Cancel`, also of a teardown; `ReleaseTimeout`): `CutOff` is the cut of one whose
request was sent, whose reply stays on the link for whoever reads next, at most
`MaxCuts` of them in a run. `Faults` selects the other faults: `busy` (a release
that times out while others hold the lock) and `sim` (hooks that raise). The
history `astray` are the sessions one of whose own calls was cut or read another's
reply; the properties say what such a session may lose and that nobody else does.

### SharedLease

`call` is a `Taskset.run` and its hold on the scope, `addr` stands for
`_addresses` and `_contexts` together, `stale` for the deadlines that have
passed, `boot` for the lock, `gen` for the generation of `_semaphores` (the last
exit throws them away while late drivers still hold old ones). A rollout is the
coroutine that gather waits for (`mode`) and the driver that holds the lease
(`pc`, `leg`, `sem`, `on`): the driver's unwinding goes on after the coroutine
has returned. `state[s]` is what exists at the provider; `orphan` is a substrate
whose creating or removing call was cut, so that no code can find it again.
Limits: every rollout has a timeout; `max_concurrent` is left out; the contexts
of a scope are closed in any order; the provider's own run deadline does not
remove a substrate by itself; a call is not cancelled while it closes its scope. A
driver that learns late of its rollout's cancellation goes on, also to a verifier
(`Late`), and may boot for it when the scope has ended (`Outlived`: its semaphore is
of a generation that was thrown away).

### TelemetryExporter

`queue`, `batch`, `marker`, `fresh`, `inflight` are the exporter's own; `running`
holds the uploads a pool thread has not finished, each named by its spans.
`Submit` and `Register` are apart because an upload can be done before its
future joins `_inflight`. `InterpreterExit` is CPython's order at exit:
`concurrent.futures` shuts its pools down and joins them before `atexit`
callbacks run. Limits: `reset` (for tests, by its docstring) begins only while
no `queue_span` is under way, and no new flush starts during it; its stop marker
does not time out.

### Workspace and EnvServing

A sandbox is named by the number of the boot that made it; the egress servers,
the bridge, the connection to the namespace host and the published ports carry
the number of theirs, and 0 stands for `None`, so "the route of another sandbox"
is a comparison of numbers. Every await of `start`, `stop`, `sandbox_pid`,
`discard_sandbox`, `visiting` and of the spawn in the namespace host ends a step.
`EnvServing` extends it by the lock of `LocalRuntime` and the environment's
hooks: the workspace is started and stopped once per acquisition, and each
publishes its address.

### The machines around a placement

`Substrates` gives each provider as a list of awaits that bring something up, the
rollout's body, and nested finally blocks; each await may fail, or be cut before
or after its effect. `todo[l]` is a place in that program: the block being left and
the teardown call in it that is next; an error passes control to the next block. `LateCuts` would let a cancellation meet the teardown too.
`ProcessGroup` has a leader, a child and a daemon that has left the group, each of
which may ignore signals. `HostedBatch` sends requests that may be lost, be late,
or take effect though their answer is lost; `GivenUp` are those that ask for a
cancellation when the batch is interrupted.

### What a rollout leaves behind

`AgentLoop` keeps `history` (`RunState.messages`), the server-side `chain` and
`cursor` of OpenAI's agent and the token ids of the compatible one. What answers a
call is a result and perhaps more, such as the user message that carries an image for
the compatible agent (`Formatted`, `Shown`). `FileTracking`
keeps `disk`, the tracker's baseline and what was `shown`: what a viewer
reconstructs from the observer's spans. `EpisodeRecorder` names a frame by slot,
episode and tick; `GymSim` an env by the arguments it was built from.

### The machines of MCPolicies

`PlatformSync`: each command is a list of reads and writes of `.hud/config.json`
and of the platform, which may lose an answer after it has acted; `seen` is the
state a plan was made against. `HarborServing`: the `run` and `verify` templates;
every await may raise, also the end of the actor's sessions, which stands outside
the `try` (`hloose`); with `Overlapping` two sessions share an image.
`SshLink`: a connection is a number, `call[t]` a caller's position; one that was
cancelled waits for its channel (`ends`), closes it after 5 s and waits again
(`closes`), and a second cancellation ends either wait (`CutAgain`).
`WireClients`: `future` and `pending` of CDP, whose `close()` waits for its reader
before it closes the socket, and the queue of one of `RobotClient`.
`BatchedModel`: an observation is named by rollout and tick, so a row planned for
another one is visible.

## Runs and bounds

Deadlock is not checked: all of these systems may stop when their clients do,
and the liveness properties say where they may not. Modules that hold several
machines explore each by itself, chosen in the initial state (`part`).

| Run | Instance | Distinct states | What it shows |
| --- | --- | --- | --- |
| `control` | 3 connections, 2 task starts, peers that may not read, fair | 1.0M | `OneHolder`, `LiveSessions`, `HooksSound` (`ClaimIsStarter`, `TornOnce`); `ImplementsLedger`; `ShutdownEnds` |
| `rollout` | each verifier, with and without timeout, stalling peers, grades too large to send, fair | 19k | `OutcomeHonest`, `CleanedUp` (`NoTaskLeft`, `TeardownCutOnlyLate`), `ReturnedIsFinal`, `TimedRolloutEnds` |
| `robot_bridge` | 2 slots, 2 connections, one control link, 2 batches, 2 steps, a simulator that may raise, redials, agents that may not read | 5.6M | `OwnEpisode`, `ActsOnWhatItSaw`; `ImplementsSlotBook` |
| `robot_barrier_live` | 2 slots, 2 connections, 1 batch, agents that may not read, fair | 440k | `AgentAnswered` |
| `shared_lease` | calls A (2 rollouts, one with a verifier) and B (1), width 1, one key, A may be cancelled, fair | 618k | `WidthRespected`, `OneLive`, `ScopeReleases`, `LeaseServed` |
| `telemetry` | 3 spans of 2 traces, one flush, reset, exit, batches of 2 | 352k | `FlushDrains`, `InOnePlace` |
| `env_serving` | one session, two visiting graders, two acquisitions, 2 boots, 1 death, failing steps | 3.0M | `OneSandbox`, `OwnRoutes`, `ServedIsCurrent` |
| `workspace_parallel_start` | two sessions, nothing fails | violation | `SessionsShareBoot` |
| `placement` | 7 providers with 2 leases and 1 cut; one process group; 2 traces, 1 retry, cap 1; fair | 151k | `NoneForgotten`, `PreparedOnce`, `GroupEnded`, `FoldIsVerdict`, `AllEnd` |
| `trajectory` | 4 providers, 2 steps; 2 files, 2 versions; 2 slots, queue of 1; 2 builds; 3 robot sessions on 2 slots, 1 call cut after it was sent; fair | 667k | `LoopSound`, `ShownIsPrevious`, `EpisodesApart`, `RepliesMatch`, `SlotTracked`, `SlotKept`; `TrajectoryEnds`, `ResetServed` |
| `policies` | the rules' inputs; 2 commands; 2 Harbor sessions; 2 tools, 4 breakages; 3 CDP calls; 4 robot frames; 3 robots in batches of 2 | 3.9M | `RulesSound`, `SyncHonest`, `HarborHonest`, `ClientsSound`, `BatchSound` |
| `sync_env_moved` | 2 commands | violation | `SyncedWhole` |

Why these bounds are enough for the cases that matter:

- `control`: three connections give an owner, an adopter and a bystander whose
  runner makes adoption ambiguous; two starts give a replaced runner. Ownership
  and the refinement are proved for all values (below).
- `rollout` has no bound but that a rollout is cancelled from outside once. The
  driver is a finite program; all its awaits, outcomes and interruptions are there.
- `robot_bridge`: two slots are needed for a barrier and a late claim, two
  batches for stale tokens and released slots, two connections for a redial. The
  counter of steps saturates at two, enough to tell "stepped since" from "not".
- `shared_lease`: width one with three rollouts makes every lease contended; the
  verifier's lease on the same key is the hardest sharing. The call that is cancelled
  is the one with the verifier, whose boot may outlive it.
- `telemetry`: three spans with a batch of two leave one behind in the batch;
  two traces make one batch into two uploads.
- `env_serving`: a second boot follows a death or a failure, so something of the
  first may be left; two graders visit at once; two acquisitions follow each other.
- `placement`: two leases contend for an image; one cut falls at every await.
- `trajectory`: two turns have a turn to follow up on; a version and its successor
  make a diff that is pending while the file changes again; three endpoint sessions
  on two slots make the third one wait for a full batch. One cut call puts every
  reply after it one place behind, for good; a second would only add another place.
- `policies`: two commands in one directory are a reader and a writer at any
  distance; three robots in batches of two leave one waiting while a row is handed
  out; sequences in the rules' inputs have two or three elements, enough for a first, a
  last and what lies between.

Symmetry is used where no temporal property is checked and the names play no
part: the graders of `env_serving` and the two commands of `policies`.

## Findings

The two violations are disagreements between the code and its own comments or
docs; `PROJECT.json` quotes the lines.

1. `workspace_parallel_start`: `_start_sandbox` publishes the process before its
   boot is over, so a session that comes in between fails its assertion
   (workspace.py:1230; the comment at 567 says sessions start concurrently).
2. `sync_env_moved`: `_task_signature` leaves `env` out, so a task moved to another
   environment counts as unchanged (eval/sync.py:170; tasks.mdx:211).

## Observed

Behaviours met while modelling, stated by no run. Where a constant is named, the
model reaches the behaviour when it is set.

*Control channel and rollouts*

- A handler cancelled by `_shutdown` inside `aclose()` or a hook leaves
  `TaskRunner.cancel` early, and the rest of its hooks never run (server.py:196).
- A connection accepted just before shutdown, whose handler has not taken its
  first step, is not in `_shutdown`'s snapshot and outlives it (`LateAccept`).
- `wait_closed()` in the `finally` of a handler has no bound: a peer that stays and
  does not read holds its handler, and with it `_shutdown` (server.py:509-512, 527).
- A grade request larger than the frame limit raises before it is sent, and `bye`
  does not follow: the task stays live in the environment (client.py:343-346).
- Positional-only parameters are published by name, and the arguments the schema asks
  for are refused by `sig.bind(**args)` (server.py:158).
- Without a rollout timeout, a cancelled rollout waits without bound for a silent
  peer in `Run.__aexit__` (run.py:335), and a cancellation that meets another
  exception may be replaced by it (client.py:493).
- The stale `phase` of run.py:641 lets a timeout cancel the driver while a
  verifier's or the actor's provider is being torn down; `TeardownCutOnlyLate`,
  a part of `CleanedUp`, bounds when.
- A dict grade whose `score` is a bool passes the server and is refused by the
  client's `Grade.from_dict`.

*Placements and providers*

- After a cancelled `Taskset.run`, a driver in its grace can boot a substrate that
  the scope it belongs to does not close (core.py:270; the next one does), and its
  key's width can be exceeded by the next call. `ScopeReleases` and `WidthRespected`
  say so.
- A `Shared` entry that has expired is forgotten before its context is closed
  (core.py:258).
- The teardowns of Modal Compose, the HUD tunnel and the subprocess runtime await
  several calls in one `finally`: a cut in the first skips the rest (`LateCuts`).
- `docker()` leaves the CLI process running when it is cancelled.
- A delayed cancellation of a hosted rollout is dropped when `asyncio.run` closes
  the loop (hosted.py:234), and a poll that fails after its retries fails the run
  without cancelling the remote one (hosted.py:127). A cancellation that overtakes
  its submission finds nothing, and the remote rollout runs on.

*Robots*

- A slot claimed after a step has begun starts from an advanced copy
  (bridge.py:404); two control links can both find no slot in use and each start a
  reset of all of them, and the second then sets the registry up anew over a claim
  of the first (bridge.py:190): with two links the bridge keeps no slot ledger.
  The endpoint opens one link and has one call on it at a time; an agent that joins
  again may get one observation twice.
- An agent that stays connected and does not read blocks the tick loop, and with it
  every other agent (bridge.py:387, 446).
- `_call` does not compare ids: after a call was cut, by the endpoint's own `wait_for`
  (endpoint.py:322) or with its session, every later caller of the link reads the answer
  to an earlier one, for good (endpoint.py:337). A session may then play on the slot of
  another or free it, and a session cut while its reset is in flight loses its slot
  (endpoint.py:271). `RepliesMatch`, `SlotTracked` and `SlotKept` say who is affected.
- A gym factory that raises leaves the closed env in place with its old
  `_instance`, and the next reset with those arguments reuses it (gym.py:340).
- `RobotClient`: a socket closed without an error frame leaves `get_observation`
  waiting, and an observation not yet taken is overwritten by an error frame.
- `BatchedModel`'s worker belongs to the event loop of the first call
  (batching.py:54); calls of a later `asyncio.run` wait forever.
- Two slices of an observation whose feature keys end alike overwrite each other.

*Sandbox*

- `session_argv` for a dropped user omits the proxy variables.
- The egress proxy raises, with no status written, on credentials, targets, host names
  and paths it does not expect (egress.py:369, 417, 438, 466).
- `_terminate_sessions` skips a session that is not marked yet (namespace.py:490).
- A sandbox that died is replaced without discarding what belonged to it, and
  `stop()` may run beside a boot.
- `Environment.start` sets `_started` before its hooks have run.

*Agents and tools*

- A follow-up on the last turn ends with "done" instead of "max_steps"
  (tool_agent.py:262). A non-SSH tool's own `TimeoutError` ends the rollout as if
  its timeout had passed. The done branch of OpenAI's `get_response` is unreachable.
- Claude raises on result blocks other than text, image and PDF; the compatible
  agent records empty arguments that cannot be parsed on replay; Gemini shows only
  the first text block, clamps both drag coordinates to the longer side, replaces
  the first of several matches, and overwrites an existing file when `old_string`
  is empty; OpenAI's computer loses the text of a "response" that is not last;
  Claude's `insert` after a last line without a newline joins the two.
- Chat format: an error without text reads as success, and only the last image is
  sent. A failed turn's message stays in the chat's history.
- `apply_patch` writes earlier files before a later section fails, and ignores an
  anchor it does not find.
- Strict schemas: one `allOf` overwrites its node's own properties;
  `additionalProperties: {}` stays; `prefixItems` becomes an open object; a
  self-referencing `$ref` with siblings falls back to the raw schema.
- With no HUD key set, the chat agent may use a provider key at the gateway's URL.
- An image result of the compatible agent puts a user message between the answers to
  two calls of one turn (openai_compatible/tools/base.py:65), an order that providers
  may refuse.
- A command cancelled twice leaves its SSH channel open (ssh.py:116-124).
- CDP: a send after the reader ended with the socket open waits forever, and `close()`
  re-raises what ended the reader and leaves the socket open (cdp.py:139). RFB: a
  reconnect forgets the pointer's buttons and position. MCP: a POST repeated after a
  read error may run a tool twice, and a repeated notification holds up every later
  message.

*File tracking, grading, training*

- The late answer of a cancelled poll is read as the flush's (file_tracking.py:93);
  two observers of one tracker split its diffs.
- Keyed groups are checked by count, not for being contiguous, while
  `forward_backward` says the server normalises contiguous groups
  (train/client.py:160).

*Command line and Harbor*

- `.hud/config.json` is read, changed and replaced without a lock; a legacy config
  without a scope is adopted under the current one.
- A QA result whose problems have no title reads "passed". A module that names a
  task twice is refused as a duplicate. An earlier catalog entry's slug hides a later
  one's id.
- Single-quoted YAML scalars are taken literally by compose.py.
- Harbor: sessions of one image side by side share `/tests`, `/logs` and the answer
  (`Overlapping`); where the actor's sessions cannot be ended, outside the `try` that
  writes `error.txt`, the answer is graded alone, without its artifacts (env.py:582);
  nested artifacts overwrite their backup; an
  empty health check test list meets an assertion.

*Telemetry*

- The exit shuts the pool down before the atexit flush: what is queued or batched is
  lost (exporter.py:195). A `queue_span` that overlaps `reset` may leave its span in
  a queue without a reader (exporter.py:96).

## Proofs

Every safety property of the state machines is proved for all values of the
constants, from an inductive invariant that TLC has checked on the instance of
the run named in [Runs](#runs-and-bounds) first. Each module of proofs states the
invariant as a conjunction of named parts; a lemma says of one part (or one action)
that a step keeps it, and the theorem puts them together.

| Module | Theorems | Assumes, besides the modules' ASSUMEs |
| --- | --- | --- |
| `ControlChannelProofs` | `TypeCorrect`, `Safety`, `OneHolderAlways`, `LiveSessionsAlways`, `HooksSoundAlways`, `ImplementsLedgerAlways` | `~LateAccept`, but for the types |
| `RolloutProofs` | `OutcomeHonestAlways`, `ReturnedIsFinalAlways`, `CleanedUpAlways`, `HarborHonestAlways` | `~Overlapping`, for the last |
| `RobotBridgeProofs` | `OwnEpisodeAlways`, `ActsOnWhatItSawAlways`, `ImplementsSlotBookAlways` | `OneLink`, for the last |
| `SharedLeaseProofs` | `OneLiveAlways`, `ScopeReleasesAlways`, `WidthRespectedAlways` | nothing |
| `TelemetryProofs` | `FlushDrainsAlways`, `InOnePlaceAlways` | nothing |
| `PlacementProofs` | `GroupEndedAlways`, `FoldIsVerdictAlways`, `PreparedOnceAlways`, `NoneForgottenAlways`, `SyncHonestAlways` | `~LateCuts`, for `NoneForgottenAlways` |
| `ServingProofs` | `OneSandboxAlways`, `OwnRoutesAlways`, `ServedIsCurrentAlways`, `ClientsSoundAlways` (from `LinkSoundAlways` and `WireSoundAlways`), `BatchSoundAlways` | nothing |
| `TrajectoryProofs` | `ShownIsPreviousAlways`, `RepliesMatchAlways`, `SlotTrackedAlways`, `SlotKeptAlways`, `EpisodesApartAlways`, `LoopAlways` | nothing |

The hypotheses are not conveniences: without each of them the code does what
[Observed](#observed) describes, and TLC finds it when the constant is set. A
connection caught between accept and its handler outlives a shutdown
(`LateAccept`); a cancellation that meets a teardown skips the rest of it
(`LateCuts`); two control links reset all slots over each other's claims (`OneLink`);
Harbor sessions side by side share one container (`Overlapping`). Where a fault that
the code meets of itself breaks a promise for some, the property says for whom, and is
proved with the fault: the verifier of a cancelled rollout, a robot session whose call
was cut, a grade that was not sent, Harbor sessions that could not be ended.

### The control channel

| Theorem | Says | Assumes |
| --- | --- | --- |
| `TypeCorrect` | `Spec => []TypeOK` | nothing |
| `Safety` | `Spec => []Inv` | `~LateAccept` |
| `OneHolderAlways` | no runner is in two hands | `~LateAccept` |
| `LiveSessionsAlways` | sessions are not shared, and `_live` is exact | `~LateAccept` |
| `HooksSoundAlways` | user code runs under the session its task was started in, and hooks do not run twice | `~LateAccept` |
| `ImplementsLedgerAlways` | the channel implements `TaskLedger` | `~LateAccept` |

The module's assumptions about its constants are used throughout (`Main` is no
connection, `MaxStarts` a natural number, `LateAccept` a Boolean).

*The inductive invariant of the control channel.* None of the properties is
inductive alone. That a resume cannot share a session needs to know which sessions
have a connection (`LiveSessions`) and that a connection yet to say hello has left
no trace of its session (`Unopened`). That two coroutines never hold one runner
needs the numbering of runners (`Numbered`: a new one is held by nobody; one in the
table is under its own session) and what the table holds while `start()` is
suspended (`StartInTable`). That the server's own teardown does not race a handler
needs the order of the shutdown (`ShutdownOrder`), which is where `~LateAccept`
enters. `Inv` is their conjunction.

*The argument.* Types come first (`TypeStep`, with `WorkOK`: whoever is busy has a
runner). The table only changes in four ways, one lemma each: a runner is taken
out (`TakeOwned`), moves on in its teardown (`MoveOwned`), is done with
(`ReleaseOwned`), or a new one enters (`LaunchOwned`). Sessions change in four
ways too (`StaySessions`, `LeaveSessions`, `OpenSessions`, `ResumeSessions`).
`ConnStep` and `MainStep` then go through the actions and name the lemma each one
is an instance of; `OrderStep` handles the shutdown's order.

*The refinement.* `StateOf` is the ledger's view of a runner. A step takes a runner
out of the table (`LedgerTakes`, a `Take`), runs its hooks (`LedgerFinishes`, a
`Finish`), puts a new one in (`LedgerLaunches`: a `Start`, or a `Replace` when the
same step finished the previous one), or leaves all of it alone (`LedgerRests`).
That a replaced task has the owner of its successor needs one more invariant,
`StartOwn`: a handler that tears a runner down to start another is still in that
runner's session. `LedgerStep` goes through the actions.

### The rollout

The constants of `Rollout` are finite and the run explores all of its states; the
proof adds why. `Scoped` places each await of the driver: a verifier exists only after the
actor was released and its connection closed. `Honest` follows the grade: with a
verifier, a driver that ends well has the verifier's grade or still stands before the
place that gets it. `Leaving` and `Final` bound what a deadline leaves to the driver:
once something is reported the driver is done, or has been told to leave and writes
nothing more (this, `Quiet`, is what makes the outcome final while the driver is still
unwinding). `CutLate` says who can have cancelled a release, `Held` that a live task
belongs to a driver in its agent's phase with its connection open.
`ReturnedIsFinalAlways` is an action property: `FinalSteps` shows of every step that
it leaves a settled outcome alone.

### The robot bridge

`OwnInv` is about tokens: one is issued once in a batch and never again for a slot in
use (`Tokens`), a slot's `ws` is exactly the connection that claimed it with the
present token and is still joining or open (`Owned`), and who waits for the
simulation thread is where its state says (`Queued`, `Rounds`). `Timely` is about
observations: of a connection that has neither failed nor dialled again, an action
that is pending answers the present state (`Acted`), an agent to move has seen it
(`Shown`), one that joins reads behind any step in the simulator's queue (`Joining`),
and one whose action was taken waits for the loop's own reading (`Stepped`). The
order of the queue is what the argument turns on: lemmas `Queues` and `Served` say how
"before" changes when a request joins or is served. `ResetFirst` is the case of a
reset that is still queued.

That the bridge implements `SlotLedger` needs `OwnInv`, for the tokens (`Tokens`),
and `Batches`: whoever resets all slots still finds them free when the simulator is
done, which is where `OneLink` enters. A claim is then a `Begin` or a `Join` by
whether the batch is new, an end or a rollback a `Free`, and every other step, of
agents, ticks and the simulator, leaves the ledger alone (`SlotsKept`).

### Shared placements

`OneLiveAlways` holds whatever is cancelled. Its invariant says who holds the boot
lock (`LockHeld`: the one driver that is closing an expired entry or booting, whose
key has no address meanwhile) and where every substrate is known (`Known`: one that is
up is its key's address, one that comes up belongs to the holder of the lock).
`OneLive` alone is not inductive: it does not say that a key without an address has
nothing up, and the end of a scope clears every address while a late driver may still
hold the lock.

`ScopeReleasesAlways` and `WidthRespectedAlways` need to know who leases beyond its
scope: `Inside` (who still runs is in an open scope and holds a semaphore of the
present generation), `Ending` (what a rollout whose coroutine has ended can still do:
hold or leave, or, if it was cancelled, go on to its verifier) and `Emptied` (without an
open scope no address but a late verifier's). The width is then a count: those who hold one substrate
took their slots from one semaphore, the late ones apart (`OneSemaphore`), and a semaphore has given out no
more than `Width` (`SlotsKept`, by `SlotTaken` and `SlotsLeft` over
`FiniteSetTheorems`).

### The exporter

A span goes from the queue through the batch and an upload to the done ones, and the
four are disjoint (`Core`). That a flush drains rests on the order of the queue: the
marker it puts there is behind every span queued before the call, so once the intake
thread takes the marker those spans are in the batch, an upload or done (`Waited`),
and the flush returns true only after the uploads it then sees. `Appended` and `Taken`
say how items and their order change at the two ends of the queue. `InOnePlaceAlways`
turns the disjointness into the count that the property makes.

### Providers, process groups, hosted batches

`NoneForgottenAlways` is about every provider's program: `Numbered` says its awaits and
teardown calls are numbered as the steps use them, `Covers` that the blocks an await is inside of
take down all that the awaits before it brought up. Both are proved of each program as it is
written in `Substrates` (`NumberedAll`, `CoversAll`); moving a `try` below the call it
guards makes `Covers` false. From there `Accounted` follows one acquisition: what exists of it was asked to
end, was never known, or is still to be taken down by the blocks left.
`PreparedOnceAlways` is the double-checked lock: who prepares holds it, and
nobody prepares what is prepared. `GroupInv` and `HostedInv` add to their properties
where the teardown is past its last signal, and that a terminal remote status stays.

### Commands

`CommandInv` is the property for one command, wherever it is: while nobody changed the
taskset behind its back (`fresh`), the rows it has read are in the taskset
but for those it still has to send; a build belongs to a registered environment; a link
it is about to write bears one team's ids (`Owned`). The other commands write the same
directory and the same taskset meanwhile. `CommandMoves` and `OtherKeeps` say that what
they do leaves the invariant of a command standing, and a lemma per kind of step
(`LoadKeeps`, `PlaceKeeps`, `FetchKeeps`, `UploadKeeps`, ...) keeps that of the one that
moves.

### Harbor sessions

`Busy` is the session the container is serving, one at most when sessions follow each
other. `Kept` says for each phase which files a session has left for its verifier and
what its verdict may be; `Box` what tests, answer, root and lock the container holds
for it; and when nobody is busy it holds nothing. `AloneKeeps` gives the frame: a step
of one session leaves the records of the others and, since they are not busy, needs
only its own box. `RunKeeps` and `VerifyKeeps` are the two templates.

### The environment

`Booted` says that whoever boots has the lock and the newest number, under which no
sandbox is initialised before it is ready; `Jobs` that a process runs only in a live
sandbox, the one the workspace knows; `OwnRoutes` joins them, since a death, a kill
and an undone boot drop the routes in different orders. `Holding` relates the
runtime's lock to the acquisition that is served.

### Clients of connections

`ClientsSoundAlways` joins two theorems about three clients, `LinkSoundAlways` and
`WireSoundAlways`. The first is about the SSH client, for any tools, breakages and
attempts: one connection at most is open and it is the client's, one caller at a time
puts it back, a command is sent once at most and leaves a channel only to a caller cut
before it had its process or again while it waited, and after `close()` nothing is open
or comes back. Its invariant says who holds the lock (`Locked`: `relock` is exactly the
caller that dials or pauses, and nothing is open meanwhile), that what is open is the client's connection (`OneOpen`), that nobody
has sent before it runs (`SentOnce`), and that a closed client stays closed
(`ClosedStays`).

`WireSoundAlways` says of CDP that a settled future bears its own number and that who waits
is in `_pending` or came after the reader's end (`CdpInv`); of the robot, that what was
taken, what is queued and what is on the wire are one rising sequence with an error at
its end (`Rising`, `Under`), whose last item is the newest sent (`NewestOf`).

`BatchSoundAlways`: a robot has one call at most with the worker (`OneCallEach`, also
across a batch that was gathered before a caller gave up), who waits has its call there
for the tick it is at (`CallsKept`), and what it executes was planned for that tick
(`Planned`). `RowsScattered` is where rows meet callers by position.

### The trajectory

`ShownIsPreviousAlways`: while no call was abandoned, the observer has one call on the
wire while it waits and none otherwise (`OneCall`), and an answer under way is what
takes the viewer from what is shown to the tracker's snapshot (`Shows`, `Brings`). A
skipped patch is no exception, because the snapshot is reverted for that file.

`RepliesMatchAlways`, `SlotTrackedAlways` and `SlotKeptAlways`: who has sent heads the
line of the lock (`Lined`), and the link holds a frame for each call that was cut and,
behind them, that of who has sent (`Lag`). Sessions are in order or astray, and the
invariant is about those in order: their request is the last frame and names their claim
(`Requested`), the reply to it brings a slot that is claimed or was given after the slot
was freed (`AnsweredOnly`), and a claimed slot is theirs or in that reply (`Tracked`).
What keeps it is that who is astray has only tokens of those who are (`Claimed`):
a frame that goes to the wrong reader is of a session whose call was cut or misled.
`LeavesLine` and `JoinsLine` say how the line changes when a session leaves it from
the middle, as a cancelled waiter does.

`EpisodesApartAlways` is about two machines. Of the gym bridge, `GymInv` says that a slot's
done, success and reward are those of its first episode. Of the recorder, `Paired` says a
trace is entered when its slot opens it and exited once, with the reward of the episode
it is about; `Aligned` that recorder and env are in the same episode and tick; `Framed`
that a queue and what its encoder wrote are one stream of frames of that trace, in
order (`Stream`), which a submit, a finalisation and an encoder's step each extend
(`StreamSubmit`, `StreamFinalize`, `StreamEncode`).

`LoopAlways`: histories are compared by position. `View` is what the model has been
shown and will be, the messages or, for OpenAI's agent, its server's chain and what is
behind the cursor. When the model is asked every call of the view has its result
(`Complete`); in a turn those of the calls not yet dispatched are owed, and only those
(`Owing`). `SaysOwes`, `ResultAnswers` and `NothingOwed` carry a turn from its first call
to its last; `Continuing` says that continuation ids stand for a beginning of the
messages, and `LoopVerdict` is part of the invariant as it is. That the conversation
shown is the one recorded (`RecordedInv`) compares items by rank: `Rank` counts the items
up to a position that are no notes, and `Mirrors` has the item of each rank the same on
both sides. `MirrorsAppend` extends both by one item, `PromptMirrors` carries the
relation to what is sent, and `KeepMirrors` through an answer that is kept.

### The rules

Of the rules, those whose definitions are sets, records and conditions, and the most
telling of those that go through a sequence, are proved without a bound on their
inputs; each theorem says what the run `policies` checks input by input. It stands in
the module of proofs of its component, but for the rules that go through a sequence,
which share their lemmas in `RolloutProofs`.

| Module | Theorems |
| --- | --- |
| `ControlChannelProofs` | `GradeArrives`, `SchemaBinds`, `ErrorsFit`, `StreamsKeptApart`, `LimitsNest`, `TransportsFit`, `WaitCloses`, `CapabilityTried` |
| `RolloutProofs` | `LevelsHold`, `PortsKeptApart`, `RootWhenAsked`, `GroupsServe`; through a sequence, `RequestsAnswered`, `WriterKeepsOrder`, `SecretsStayHome`, `CapturesFit`, `SubscoresTold`, `RepeatsAreOneGroup`, `RowsAtHome`, `AllIsRemembered` |
| `ServingProofs` | `ProxyAnswersOnce`, `KeysStayHome`, `FieldsStay` |
| `PlacementProofs` | `ReferenceFindsOne`, `LocalRunStarts`, `DeployedUnderName`, `SecretsFound` |
| `TrajectoryProofs` | `ScansKeptApart`, `NothingIsHidden`, `PagesCoverAll` |

What a theorem assumes is what the code is handed: that names are unique in a
directory, that a registry's page is finite, that sizes and limits are numbers. Two
assumptions exclude inputs for which the rule fails: a deadline lies within the
attempts that are listed (`WaitCloses`: a wait that goes on has no outcome yet), and
a scanned file has a modification time other than 0 (`ScansKeptApart`: an empty file
of the epoch equals the entry of a file never seen). Where the code itself turns inputs
away that it should take, the theorem names them: a schema's positional-only parameters
(`SchemaBinds`), and the credentials, targets, names and paths on which the egress
proxy's handler raises without a status (`ProxyAnswersOnce`).

Three of these are about the first of something: the first try that ends a wait or a
connection, the first page that reaches a line. `LeastOf`, that a set of numbers has
a least one, comes from the well-foundedness of the natural numbers, which the
library states about a relation instead of an operator; with it a choice of the least
is a fact to reason from.

The same lemma does for a sequence what an induction would. A left fold is defined by
a recursive function on the sets of positions: `FoldExists` shows that there is one, and
`FoldStays` reads off it a sequence of values h, where h[0] is the base, h[k] the step
from h[k - 1], and the last one the fold. What a rule says of the whole is then a
relation between h[k] and the first k items; it holds of h[0] and of h[k] where it holds
of h[k - 1], and so of all (`StepByStep`: there is no least k where it fails). So:

- `RequestsAnswered`: any number of attempts, of which each is answered, retried, fatal
  or cancelled, under any limit; `WriterKeepsOrder`: any messages with any arrivals and
  durations.
- `SecretsStayHome`: any lines, and any path of any segments, among them those of the
  patterns. What "*", ".env.\*" and "\*.env" match is the model's table (`Glob`).
- `CapturesFit`: any changed files. `AllIsRemembered`: any turns.
- `SubscoresTold`: names of any parts, numbers among them. That a free number exists is
  the pigeonhole principle, and that the least one is chosen is again `LeastOf`.
- `RepeatsAreOneGroup`: any tasks and any group of at least one, where the position of
  a repeat is counted through a concatenation of any length (`FlattenSeq`, a recursive
  function treated the same way); `RowsAtHome`: any rows, where a row says whether it
  declares a container and has a sequence of rows for its verifier.

### Only model-checked

- Liveness under fairness (`ShutdownEnds`, `TimedRolloutEnds`, `AgentAnswered`,
  `LeaseServed`, `AllEnd`, `TrajectoryEnds`, `ResetServed`): beyond what the prover
  handles.
- `RulesSound` as a whole. The rules above are proved one by one. Of the others, some
  recurse over nested data (documents, schemas, patches), which takes an induction over
  its structure that the prover cannot instantiate; some select from a sequence
  (`SelectSeq` is defined by a recursion the prover cannot expand); and some enumerate a
  finite set of configurations (`AgentWalled`, `AgentBounded`), where TLC is already
  exhaustive. The module that joins them reaches recursive operators (`AgentRules`,
  `ComposeRules`, `ScreenRules`), so no theorem can name it.

## Fairness

Nothing is assumed of operators, or of timers that would help. Of peers, two
properties assume in their own statement that what is written to them is read, because
the code waits for it without a timeout; a peer that reads may be silent for good.

- `control`: weak fairness on what a handler does without its peer (generators
  and hooks return, cancellations are delivered) and on the shutdown. The event
  loop runs whatever is ready. `ShutdownEnds` is for peers that read or go
  (`ReadByPeers`): one that stays and does neither holds `wait_closed()`
  (server.py:512), and the shutdown with it, for good.
- `rollout`: the driver's steps, which include the return of a provider, of the
  agent and of a peer that answers; the outer coroutine; the deadline, a timer of
  asyncio; and the heartbeat, which is periodic. A silent peer is not fair: calls
  to it are not enabled.
- `robot_barrier_live`: the simulation thread, the tick loop with its
  `step_timeout`, control calls once begun, handlers. Strong fairness says only
  that an episode whose agent never dials is eventually given back: the barrier
  waits for a claimed slot's first connection by design, and the control channel
  tears a task down when its client goes. `AgentAnswered` is for agents that read or
  go (`ReadByAgents`): one that stays and does neither holds the tick loop in its send
  (bridge.py:387, 446), and every agent with it.
- `shared_lease`: exits and drivers go on, the grace of a cancellation ends;
  neither timeouts nor expiries nor cancellations are promised.
- `telemetry` states that the intake thread and the pool run and that an upload ends
  (its requests have timeouts and bounded retries); its two properties need none of it.
- `placement`: an acquisition goes on (its calls return or raise); the deadlines of
  `terminate` and `complete` pass, since both wait with a timeout; a hosted rollout
  gets its turn and its timeout.
- `trajectory`: the agent's loop and the observer go on, the observer is halted when
  its rollout ends, encoders run and the recorder is closed (by `atexit` at the
  latest); the bridge answers the endpoint, sessions go on when they can and episodes
  end. A slot whose release was given up after its attempts, or of which its session
  does not know after a cut, is lost to the batch; `ResetServed` says so.

## What is not modelled

- Byte streams: framing, tunnels and relays are abstracted to whole frames that
  arrive or do not.
- The providers' SDK and command line calls, the Docker and Modal APIs, the VNC and
  browser handshakes: external, by their outcomes.
- Mount tables, ptys, Windows job objects, arrays, codecs, prompts, printed text.
- Wrappers that launch an agent elsewhere (Claude Agent SDK, browser-use), and the
  cookbooks and examples.
- Start-up of the robot endpoint and of the bridge: sequential, before anything is
  shared.
- The judge's prompts, custom losses, dataset writers.

Per component, the "note" in `PROJECT.json` says what of it is left out.

## What is left

1. *Compose.* The rollout's client and the control channel's session as two ends of
   one connection.
2. *Prove.* The rules that select from a sequence, with a filter written as a fold; the
   recursive ones, with their recursion written as a function on the depth of a document.
3. *Deepen.* `Substrates` with a cancellation in the teardown, once the code guards
   it; `HarborServing` with overlapping sessions, if the runtimes come to place them so.
