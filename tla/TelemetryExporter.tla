-------------------------- MODULE TelemetryExporter --------------------------
(***************************************************************************)
(* hud/telemetry/exporter.py: queue_span hands spans to one intake thread, *)
(* which batches them and submits one upload per trace to a pool of        *)
(* threads; flush puts a marker behind what is queued and then waits for   *)
(* the uploads in flight.  Threads interleave at every shared access; the  *)
(* interpreter's exit joins the pool before it runs the atexit flush.      *)
(***************************************************************************)
EXTENDS Naturals, Sequences, FiniteSets, SequencesExt

CONSTANTS Traces,    \* the traces (task runs), each the set of its spans
          Flushers,  \* flush() calls of the program
          RESET,     \* the flush() that reset() calls
          EXIT,      \* the flush() that atexit calls
          STOP,      \* reset()'s stop marker
          MaxBatch,  \* _MAX_BATCH_SPANS
          None

Spans == UNION Traces   \* each queued by a thread of its own
Callers == Flushers \cup {RESET, EXIT}
Markers == Callers \cup {STOP}

ASSUME ExporterAssumption ==
  /\ MaxBatch \in Nat \ {0}
  /\ RESET \notin Flushers /\ EXIT \notin Flushers \cup {RESET} /\ STOP \notin Callers
  /\ \A t, u \in Traces : t = u \/ t \cap u = {}
  /\ Spans \cap Markers = {} /\ None \notin Spans \cup Markers

VARIABLES
  queue,      \* _queue: spans and markers
  worker,     \* the intake thread: "none", "get", "submit", "register", "exited", "died"
  batch,      \* its local batch
  marker,     \* the marker it is honouring, or None
  fresh,      \* the upload it has submitted and not yet put into _inflight
  set,        \* markers whose event is set
  pool,       \* _pool and _client: "none", "open", "shut"
  running,    \* uploads submitted and not done; an upload is the set of its spans
  attempted,  \* spans whose upload is done, successful or given up
  inflight,   \* _inflight
  span,       \* span[s]: where queue_span(s) is
  caller,     \* caller[f]: where the flush is, "true" and "false" its results
  before,     \* before[f]: the spans queued when f was called
  pending,    \* pending[f]: the uploads f waits for
  resetting,  \* where reset() is
  process     \* "running", or "exiting" once the pool has been joined

intake == <<worker, batch, marker, fresh>>
uploads == <<pool, running, attempted, inflight>>
flushes == <<caller, before, pending>>
vars == <<queue, intake, set, uploads, span, flushes, resetting, process>>

Alive == worker \in {"get", "submit", "register"}
Put == {s \in Spans : span[s] = "put"}

Init ==
  /\ queue = <<>> /\ worker = "none" /\ batch = {} /\ marker = None /\ fresh = None
  /\ set = {} /\ pool = "none" /\ running = {} /\ attempted = {} /\ inflight = {}
  /\ span = [s \in Spans |-> "new"]
  /\ caller = [f \in Callers |-> "new"]
  /\ before = [f \in Callers |-> {}] /\ pending = [f \in Callers |-> {}]
  /\ resetting = "no" /\ process = "running"

-----------------------------------------------------------------------------
(* queue_span.                                                              *)

\* _ensure_worker.  reset() is for tests: no queue_span
\* and no flush begins while it runs.
Ensure(s) ==
  /\ span[s] = "new" /\ process = "running" /\ resetting \in {"no", "done"}
  /\ span' = [span EXCEPT ![s] = "ensured"]
  /\ IF Alive
       THEN UNCHANGED <<intake, pool>>
       ELSE /\ worker' = "get" /\ pool' = "open"
            /\ batch' = {} /\ marker' = None /\ fresh' = None
  /\ UNCHANGED <<queue, set, running, attempted, inflight, flushes, resetting, process>>

PutSpan(s) ==
  /\ span[s] = "ensured"
  /\ span' = [span EXCEPT ![s] = "put"]
  /\ queue' = Append(queue, s)
  /\ UNCHANGED <<intake, set, uploads, flushes, resetting, process>>

-----------------------------------------------------------------------------
(* The intake thread: _run and _dispatch.                                    *)

\* What _run does once _dispatch has returned: honour the marker, if any.
Dispatched(m) ==
  /\ marker' = None
  /\ set' = IF m = None THEN set ELSE set \cup {m}
  /\ worker' = IF m = STOP THEN "exited" ELSE "get"

\* _dispatch(batch) on the way to honouring m (None: no marker).
Dispatch(b, m) ==
  IF b = {} THEN Dispatched(m)
            ELSE worker' = "submit" /\ marker' = m /\ UNCHANGED set

GetSpan ==
  /\ worker = "get" /\ queue # <<>> /\ Head(queue) \in Spans
  /\ queue' = Tail(queue)
  /\ batch' = batch \cup {Head(queue)}
  /\ \/ Dispatch(batch', None)                                    \* _MAX_BATCH_BYTES
     \/ Cardinality(batch') < MaxBatch /\ UNCHANGED <<worker, marker, set>>
  /\ UNCHANGED <<fresh, uploads, span, flushes, resetting, process>>

\* Mutant: the event is set before the batch is dispatched.
GetMarker_SetFirst ==
  /\ worker = "get" /\ queue # <<>> /\ Head(queue) \in Markers \ {STOP}
  /\ queue' = Tail(queue)
  /\ set' = set \cup {Head(queue)}
  /\ worker' = IF batch = {} THEN "get" ELSE "submit"
  /\ UNCHANGED <<batch, marker, fresh, uploads, span, flushes, resetting, process>>

GetMarker ==
  /\ worker = "get" /\ queue # <<>> /\ Head(queue) \in Markers
  /\ queue' = Tail(queue)
  /\ Dispatch(batch, Head(queue))
  /\ UNCHANGED <<batch, fresh, uploads, span, flushes, resetting, process>>

\* Nothing arrives for _FLUSH_INTERVAL.
Idle ==
  /\ worker = "get" /\ queue = <<>> /\ batch # {}
  /\ Dispatch(batch, None)
  /\ UNCHANGED <<queue, batch, fresh, uploads, span, flushes, resetting, process>>

\* Mutant: the batch is emptied after its first trace.
Submit_First(t) ==
  LET group == batch \cap t
  IN /\ worker = "submit" /\ group # {} /\ pool = "open"
     /\ running' = running \cup {group} /\ fresh' = group
     /\ batch' = {} /\ worker' = "register"
     /\ UNCHANGED <<queue, marker, set, pool, attempted, inflight, span, flushes, resetting, process>>

\* One upload per trace; pool.submit raises once the pool has been shut down,
\* and nothing in _run catches it.
Submit(t) ==
  LET group == batch \cap t
  IN /\ worker = "submit" /\ group # {}
     /\ IF pool = "open"
          THEN /\ running' = running \cup {group} /\ fresh' = group
               /\ batch' = batch \ group /\ worker' = "register"
          ELSE /\ worker' = "died" /\ UNCHANGED <<running, fresh, batch>>
     /\ UNCHANGED <<queue, marker, set, pool, attempted, inflight, span, flushes, resetting, process>>

\* The future joins _inflight; if it is done already, add_done_callback runs
\* _retire here.
Register ==
  /\ worker = "register"
  /\ inflight' = IF fresh \in running THEN inflight \cup {fresh} ELSE inflight
  /\ fresh' = None
  /\ Dispatch(batch, marker)
  /\ UNCHANGED <<queue, batch, pool, running, attempted, span, flushes, resetting, process>>

\* A pool thread ends _do_upload, which swallows a failure, and retires it.
Upload(u) ==
  /\ u \in running
  /\ running' = running \ {u}
  /\ attempted' = attempted \cup u
  /\ inflight' = inflight \ {u}
  /\ UNCHANGED <<queue, intake, set, pool, span, flushes, resetting, process>>

-----------------------------------------------------------------------------
(* flush.                                                                   *)

MayFlush(f) == CASE f = RESET -> resetting = "flush"
                 [] f = EXIT  -> process = "exiting"
                 [] OTHER     -> process = "running" /\ resetting \in {"no", "done"}

\* Without a live worker there is nothing to wait for.
FlushCall(f) ==
  /\ caller[f] = "new" /\ MayFlush(f)
  /\ before' = [before EXCEPT ![f] = Put]
  /\ caller' = [caller EXCEPT ![f] = IF Alive THEN "alive" ELSE "true"]
  /\ UNCHANGED <<queue, intake, set, uploads, span, pending, resetting, process>>

PutMarker(f) ==
  /\ caller[f] = "alive"
  /\ queue' = Append(queue, f)
  /\ caller' = [caller EXCEPT ![f] = "marker"]
  /\ UNCHANGED <<intake, set, uploads, span, before, pending, resetting, process>>

Snapshot(f) ==
  /\ caller[f] = "marker" /\ f \in set
  /\ pending' = [pending EXCEPT ![f] = inflight]
  /\ caller' = [caller EXCEPT ![f] = "uploads"]
  /\ UNCHANGED <<queue, intake, set, uploads, span, before, resetting, process>>

Drained(f) ==
  /\ caller[f] = "uploads" /\ pending[f] \cap running = {}
  /\ caller' = [caller EXCEPT ![f] = "true"]
  /\ UNCHANGED <<queue, intake, set, uploads, span, before, pending, resetting, process>>

FlushTimeout(f) ==
  /\ caller[f] \in {"marker", "uploads"}
  /\ caller' = [caller EXCEPT ![f] = "false"]
  /\ UNCHANGED <<queue, intake, set, uploads, span, before, pending, resetting, process>>

-----------------------------------------------------------------------------
(* reset, and the interpreter's exit.                                       *)

ResetBegins ==
  /\ resetting = "no" /\ process = "running"
  /\ \A s \in Spans : span[s] # "ensured"
  /\ resetting' = IF Alive THEN "flush" ELSE "pool"
  /\ UNCHANGED <<queue, intake, set, uploads, span, flushes, process>>

PutStop ==
  /\ resetting = "flush" /\ caller[RESET] \in {"true", "false"}
  /\ queue' = Append(queue, STOP)
  /\ resetting' = "stop"
  /\ UNCHANGED <<intake, set, uploads, span, flushes, process>>

\* stop.wait and worker.join
WorkerJoined ==
  /\ resetting = "stop" /\ STOP \in set /\ worker = "exited"
  /\ resetting' = "pool"
  /\ UNCHANGED <<queue, intake, set, uploads, span, flushes, process>>

\* pool.shutdown(wait=True) returns when the uploads are done.
PoolIdle == running = {}

ResetEnds ==
  /\ resetting = "pool" /\ PoolIdle
  /\ resetting' = "done"
  /\ worker' = "none" /\ pool' = "none" /\ inflight' = {}
  /\ UNCHANGED <<queue, batch, marker, fresh, set, running, attempted, span, flushes, process>>

\* The main thread ends: threads that are no daemons have ended, and
\* concurrent.futures shuts every pool down and joins it before atexit.
InterpreterExit ==
  /\ process = "running" /\ running = {}
  /\ resetting \in {"no", "done"}
  /\ \A s \in Spans : span[s] # "ensured"
  /\ \A f \in Flushers : caller[f] \in {"new", "true", "false"}
  /\ process' = "exiting"
  /\ pool' = IF pool = "open" THEN "shut" ELSE pool
  /\ UNCHANGED <<queue, intake, set, running, attempted, inflight, span, flushes, resetting>>

-----------------------------------------------------------------------------
Intake == GetSpan \/ GetMarker \/ Idle \/ (\E t \in Traces : Submit(t)) \/ Register
Uploads == \E u \in running : Upload(u)
Flush(f) == FlushCall(f) \/ PutMarker(f) \/ Snapshot(f) \/ Drained(f)
Reset == ResetBegins \/ PutStop \/ WorkerJoined \/ ResetEnds

Next ==
  \/ \E s \in Spans : Ensure(s) \/ PutSpan(s)
  \/ Intake \/ Uploads \/ Reset \/ InterpreterExit
  \/ \E f \in Callers : Flush(f) \/ FlushTimeout(f)

Spec == Init /\ [][Next]_vars

\* Threads run, an upload ends (its request has timeouts and few retries),
\* and an exit runs its flush.
FairSpec == Spec /\ WF_vars(Intake) /\ WF_vars(Uploads) /\ WF_vars(Flush(EXIT))

-----------------------------------------------------------------------------
(* Properties                                                               *)

\* A flush that reports success has drained: while the program runs, every
\* span queued before it was called has been uploaded, or its upload given up.
FlushDrains ==
  process = "running" =>
    \A f \in Callers : caller[f] = "true" => before[f] \subseteq attempted

\* No span is lost or sent twice: a queued span is in exactly one of the
\* queue, the batch, one upload and the uploads that are done.
InOnePlace ==
  process = "running" =>
    \A s \in Put :
      Cardinality({i \in DOMAIN queue : queue[i] = s})
        + Cardinality({u \in running : s \in u})
        + Cardinality({x \in {"batch", "done"} : s \in IF x = "done" THEN attempted ELSE batch})
        = 1

=============================================================================
