------------------------------ MODULE EnvServing ------------------------------
(***************************************************************************)
(* Local rollouts on one environment object (hud/eval/runtime/local.py,    *)
(* hud/environment/env.py): LocalRuntime serialises the acquisitions of an *)
(* environment; each runs its initialize hook, which starts the workspace  *)
(* and publishes its address, serves, and runs the shutdown hook.          *)
(***************************************************************************)
EXTENDS Workspace

CONSTANT Acquisitions

ASSUME ServingAssumption == None \notin Acquisitions

VARIABLES acq,        \* acq[a]: "idle", "wait", "start", "serving", "stop", "done"
          held,       \* the holder of the environment's lock
          started,    \* Environment._started
          published   \* the address of the shell capability in the manifest

serving == <<acq, held, started, published>>
all == <<vars, serving>>

InitServing ==
  /\ Init
  /\ acq = [a \in Acquisitions |-> "idle"]
  /\ held = None /\ started = FALSE /\ published = 0

Go(a, from, to) == acq[a] = from /\ acq' = [acq EXCEPT ![a] = to]

\* Mutant: nothing serialises the acquisitions.
MayServe_Always == held \in Acquisitions \cup {None}
MayServe == held = None

\* Environment.start: the hook runs once; a second start returns at once.
Acquire(a) ==
  /\ MayServe /\ held' = a /\ started' = TRUE
  /\ IF started THEN Go(a, "idle", "serving") /\ UNCHANGED vars
     ELSE Go(a, "idle", "start") /\ Bind
  /\ UNCHANGED published

HookListens(a) ==
  /\ acq[a] = "start" /\ Listen
  /\ UNCHANGED serving

\* add_capability replaces the entry an earlier start has left.
Published(a) ==
  /\ accept = "up" /\ Go(a, "start", "serving")
  /\ published' = port
  /\ UNCHANGED <<held, started>> /\ UNCHANGED vars

\* The start fails or times out (the workspace stops itself), or the rollout
\* ends: Environment.stop runs the hook either way.
StopEnv(a) ==
  /\ \/ Faults /\ Go(a, "start", "stop")
     \/ Go(a, "serving", "stop")
  /\ IF accept \in {"bound", "up"} THEN StopBegin ELSE UNCHANGED vars
  /\ UNCHANGED <<held, started, published>>

Stopped(a) ==
  /\ accept = "down" /\ Go(a, "stop", "done")
  /\ started' = FALSE
  /\ held' = None
  /\ UNCHANGED published /\ UNCHANGED vars

Serve(a) == HookListens(a) \/ Published(a) \/ Stopped(a)

Workload ==
  /\ \/ \E c \in Clients : Client(c)
     \/ Stopping
     \/ TerminateSessions
     \/ \E g \in Boots : Die(g)
  /\ UNCHANGED serving

NextServing ==
  \/ \E a \in Acquisitions : Acquire(a) \/ StopEnv(a) \/ Serve(a)
  \/ Workload

SpecServing == InitServing /\ [][NextServing]_all

\* A rollout that is being served finds the workspace at the address its
\* manifest names: no other acquisition of the environment has stopped it.
ServedIsCurrent ==
  \A a \in Acquisitions : acq[a] = "serving" => accept = "up" /\ published = port
=============================================================================
