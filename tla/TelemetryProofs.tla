---------------------------- MODULE TelemetryProofs ----------------------------
(***************************************************************************)
(* No span is lost or sent twice, and a flush that reports success has     *)
(* drained: for any traces, flushes and batch size.                        *)
(***************************************************************************)
EXTENDS TelemetryExporter, SequenceTheorems, FiniteSetTheorems, TLAPS

\* What the argument needs to know of a queue: its items, which are distinct, and
\* which of them come after a given one.
Items(q) == {q[i] : i \in 1..Len(q)}
Distinct(q) == \A i, j \in 1..Len(q) : q[i] = q[j] => i = j
Behind(q, m) == {q[j] : j \in {k \in 1..Len(q) : \E i \in 1..(k - 1) : q[i] = m}}

\* Nothing is behind what is not there.
LEMMA NotBehind ==
  ASSUME NEW S, NEW q \in Seq(S), NEW m, m \notin Items(q) PROVE Behind(q, m) = {}
<1>1. ASSUME NEW k \in 1..Len(q), NEW i \in 1..(k - 1), q[i] = m PROVE FALSE
  <2>1. i \in 1..Len(q)
    BY LenProperties
  <2> QED
    BY <1>1, <2>1 DEF Items
<1> QED
  BY <1>1 DEF Behind

\* Appending an item that is not there puts it behind all the others.
LEMMA Appended ==
  ASSUME NEW S, NEW q \in Seq(S), NEW x \in S, x \notin Items(q), Distinct(q)
  PROVE  /\ Append(q, x) \in Seq(S) /\ Distinct(Append(q, x))
         /\ Items(Append(q, x)) = Items(q) \cup {x}
         /\ \A m : Behind(Append(q, x), m) \subseteq
                     Behind(q, m) \cup (IF m \in Items(q) THEN {x} ELSE {})
<1> DEFINE r == Append(q, x)
<1>1. r \in Seq(S) /\ Len(r) = Len(q) + 1 /\ Len(q) \in Nat /\ r[Len(r)] = x
      /\ \A i \in 1..Len(q) : r[i] = q[i]
  BY AppendProperties
<1> HIDE DEF r
<1>2. Items(r) = Items(q) \cup {x}
  BY <1>1 DEF Items
<1>3. Distinct(r)
  BY <1>1 DEF Distinct, Items
<1>4. ASSUME NEW m PROVE Behind(r, m) \subseteq Behind(q, m) \cup (IF m \in Items(q) THEN {x} ELSE {})
  BY <1>1 DEF Behind, Items
<1> QED
  BY <1>1, <1>2, <1>3, <1>4 DEF r

\* What is taken from the head was there once, and the rest was behind it.
LEMMA Taken ==
  ASSUME NEW S, NEW q \in Seq(S), q # <<>>, Distinct(q)
  PROVE  /\ Tail(q) \in Seq(S) /\ Distinct(Tail(q)) /\ Head(q) \in S
         /\ Head(q) \in Items(q)
         /\ Items(Tail(q)) = Items(q) \ {Head(q)}
         /\ Items(Tail(q)) = Behind(q, Head(q))
         /\ \A m : Behind(Tail(q), m) \subseteq Behind(q, m)
<1> DEFINE r == Tail(q)
<1>1. /\ r \in Seq(S) /\ Len(q) \in Nat \ {0} /\ Len(r) = Len(q) - 1
      /\ Head(q) = q[1] /\ q[1] \in S
      /\ \A i \in 1..Len(r) : r[i] = q[i + 1]
  BY HeadTailProperties, EmptySeq, LenProperties, ElementOfSeq
<1> HIDE DEF r
<1>2. Distinct(r)
  BY <1>1 DEF Distinct
<1>3. Items(r) = Items(q) \ {q[1]} /\ q[1] \in Items(q)
  <2>1. ASSUME NEW y \in Items(q) \ {q[1]} PROVE y \in Items(r)
    <3>1. PICK i \in 1..Len(q) : q[i] = y /\ i # 1
      BY <1>1, <2>1 DEF Items
    <3>2. i - 1 \in 1..Len(r) /\ r[i - 1] = q[i]
      BY <1>1, <3>1
    <3> QED
      BY <3>1, <3>2 DEF Items
  <2>2. ASSUME NEW i \in 1..Len(r) PROVE r[i] \in Items(q) \ {q[1]}
    BY <1>1, <2>2 DEF Items, Distinct
  <2>3. 1 \in 1..Len(q)
    BY <1>1
  <2>4. q[1] \in Items(q)
    BY <2>3 DEF Items
  <2>5. Items(r) \subseteq Items(q) \ {q[1]}
    BY <2>2 DEF Items
  <2> QED
    BY <2>1, <2>4, <2>5
<1>4. Items(r) = Behind(q, q[1])
  <2>1. ASSUME NEW j \in 1..Len(q), NEW i \in 1..(j - 1), q[i] = q[1]
        PROVE  q[j] \in Items(r)
    <3>1. j - 1 \in 1..Len(r) /\ r[j - 1] = q[j]
      BY <1>1, <2>1
    <3> QED
      BY <3>1 DEF Items
  <2>2. ASSUME NEW i \in 1..Len(r) PROVE r[i] \in Behind(q, q[1])
    <3>1. i + 1 \in 1..Len(q) /\ 1 \in 1..(i + 1 - 1) /\ r[i] = q[i + 1]
      BY <1>1, <2>2
    <3> QED
      BY <3>1 DEF Behind
  <2> QED
    BY <2>1, <2>2 DEF Items, Behind
<1>5. ASSUME NEW m PROVE Behind(r, m) \subseteq Behind(q, m)
  <2>1. ASSUME NEW j \in 1..Len(r), NEW i \in 1..(j - 1), r[i] = m
        PROVE  r[j] \in Behind(q, m)
    <3>1. /\ j + 1 \in 1..Len(q) /\ r[j] = q[j + 1]
          /\ i + 1 \in 1..(j + 1 - 1) /\ r[i] = q[i + 1]
      BY <1>1, <2>1
    <3> QED
      BY <2>1, <3>1 DEF Behind
  <2> QED
    BY <2>1 DEF Behind
<1> QED
  BY <1>1, <1>2, <1>3, <1>4, <1>5 DEF r

-----------------------------------------------------------------------------
\* The types the argument needs.
Typed ==
  /\ queue \in Seq(Spans \cup Markers)
  /\ worker \in {"none", "get", "submit", "register", "exited", "died"}
  /\ batch \subseteq Spans /\ marker \in Markers \cup {None} /\ set \subseteq Markers
  /\ running \subseteq SUBSET Spans /\ attempted \subseteq Spans /\ inflight \subseteq SUBSET Spans
  /\ span \in [Spans -> {"new", "ensured", "put"}]
  /\ caller \in [Callers -> {"new", "alive", "marker", "uploads", "true", "false"}]
  /\ before \in [Callers -> SUBSET Spans] /\ pending \in [Callers -> SUBSET SUBSET Spans]
  /\ resetting \in {"no", "flush", "stop", "pool", "done"}
  /\ process \in {"running", "exiting"}

Queued == Items(queue)
Uploading == UNION running

\* A span that is put is in one place, and what is in a place was put.
Places ==
  /\ Distinct(queue)
  /\ Put = (Queued \cap Spans) \cup batch \cup Uploading \cup attempted
  /\ Queued \cap batch = {} /\ Queued \cap Uploading = {} /\ Queued \cap attempted = {}
  /\ batch \cap Uploading = {} /\ batch \cap attempted = {} /\ Uploading \cap attempted = {}
  /\ \A u, v \in running : u = v \/ u \cap v = {}

\* Where the intake thread is: without it nothing waits to be sent, and while it
\* lives the pool is open.
Thread ==
  /\ worker # "died"
  /\ Alive => pool = "open"
  /\ worker \in {"none", "exited"} =>
       batch = {} /\ Queued \cap Spans = {} /\ \A s \in Spans : span[s] # "ensured"
  /\ worker = "none" => running = {}
  /\ worker = "exited" => resetting \in {"stop", "pool"}
  /\ marker # None => worker \in {"submit", "register"}

\* How far reset() is: its marker is the last thing put while it lasts.
Stopping ==
  /\ resetting \in {"flush", "stop", "pool"} => \A s \in Spans : span[s] # "ensured"
  /\ resetting \in {"no", "flush"} => STOP \notin Queued \cup {marker} \cup set
  /\ resetting \in {"pool", "done"} => STOP \notin Queued \cup {marker}
  /\ resetting = "pool" => worker \in {"none", "exited"}
  /\ STOP \in set => STOP \notin Queued \cup {marker}
  /\ marker = STOP => Queued \cap (Spans \cup {STOP}) = {}
  /\ Behind(queue, STOP) \cap Spans = {}

\* An upload that runs is one flush() will see, or about to be.
Registered == running \subseteq inflight \cup (IF worker = "register" THEN {fresh} ELSE {})

\* What a flush has before it is before its marker, wherever the marker is.
AheadOf(f) ==
  /\ before[f] \subseteq Put
  /\ f \in Queued \cup {marker} \cup set => caller[f] \notin {"new", "alive"}
  /\ Behind(queue, f) \cap before[f] = {}
  /\ marker = f => Queued \cap before[f] = {}
  /\ f \in set =>
       /\ Queued \cap before[f] = {} /\ batch \cap before[f] = {}
       /\ worker = "register" => fresh \cap before[f] = {}
Ahead == \A f \in Callers : AheadOf(f)

\* What a flush that waits for uploads still has to see sent, and what one that
\* has returned True has seen.
Waited ==
  \A f \in Callers :
    /\ caller[f] = "uploads" => before[f] \subseteq attempted \cup UNION (pending[f] \cap running)
    /\ caller[f] = "true" => before[f] \subseteq attempted

Core == Places /\ Thread /\ Stopping /\ Registered /\ Ahead /\ Waited
IInv == Typed /\ (process = "running" => Core)

-----------------------------------------------------------------------------
\* At first nothing is queued.
LEMMA InitHolds == Init => IInv
<1> SUFFICES ASSUME Init PROVE IInv
  OBVIOUS
<1>1. queue = <<>> /\ Len(queue) = 0
  BY DEF Init
<1>2. Items(queue) = {} /\ Distinct(queue) /\ \A m : Behind(queue, m) = {}
  BY <1>1 DEF Items, Distinct, Behind
<1> QED
  BY <1>1, <1>2, ExporterAssumption
  DEF Init, IInv, Typed, Core, Places, Thread, Stopping, Registered, Ahead, AheadOf, Waited,
      Queued, Uploading, Put, Alive, Markers

\* A step of queue_span: a thread is there when a span is put.
LEMMA SpanStep ==
  ASSUME IInv, NEW s \in Spans, Ensure(s) \/ PutSpan(s)
  PROVE  IInv'
<1>1. CASE Ensure(s)
  BY <1>1, ExporterAssumption
  DEF Ensure, IInv, Typed, Core, Places, Thread, Stopping, Registered, Ahead, AheadOf, Waited,
      Queued, Uploading, Put, Alive, intake, flushes
<1>2. CASE PutSpan(s)
  <2> USE <1>2 DEF PutSpan, intake, uploads, flushes
  <2>1. Typed'
    BY DEF IInv, Typed
  <2>2. CASE process = "running"
    <3> USE <2>2, ExporterAssumption DEF IInv, Core
    <3>1. s \notin Queued /\ s \in Spans \cup Markers /\ Distinct(queue)
      BY DEF Places, Put
    <3>2. /\ Distinct(queue') /\ Items(queue') = Queued \cup {s}
          /\ \A m : Behind(queue', m) \subseteq Behind(queue, m) \cup (IF m \in Queued THEN {s} ELSE {})
      BY <3>1, Appended DEF Queued, Typed
    <3>3. s \notin Put /\ Put' = Put \cup {s}
      BY DEF Put, Typed
    <3>4. Places'
      BY <3>2, <3>3 DEF Places, Queued, Uploading, Put
    <3>5. Thread' /\ Registered' /\ Waited'
      BY <3>2 DEF Thread, Queued, Alive, Registered, Waited, Typed
    <3>6. STOP \notin Queued \cup {marker}
      BY DEF Stopping, Typed
    <3>7. Stopping'
      <4>1. Behind(queue', STOP) \subseteq Behind(queue, STOP)
        BY <3>2, <3>6
      <4>2. STOP # s /\ marker # STOP
        BY <3>6 DEF Markers
      <4> QED
        BY <3>2, <3>6, <4>1, <4>2 DEF Stopping, Queued, Typed, Thread
    <3>8. ASSUME NEW f \in Callers PROVE s \notin before[f]
      BY <3>3 DEF Ahead, AheadOf
    <3>9. Ahead'
      <4> SUFFICES ASSUME NEW f \in Callers PROVE AheadOf(f)'
        BY DEF Ahead
      <4>1. f # s
        BY DEF Markers
      <4>2. Behind(queue', f) \subseteq Behind(queue, f) \cup {s}
        BY <3>2
      <4> QED
        BY <3>2, <3>3, <3>8, <4>1, <4>2 DEF Ahead, AheadOf, Queued
    <3> QED
      BY <2>1, <3>4, <3>5, <3>7, <3>9
  <2> QED
    BY <2>1, <2>2 DEF IInv, Typed
<1> QED
  BY <1>1, <1>2

\* A step of the intake thread: what it takes from the queue goes to the batch, what
\* it takes from the batch to an upload; a marker is honoured once both are empty.
LEMMA IntakeStep ==
  ASSUME IInv, Intake
  PROVE  IInv'
<1> USE ExporterAssumption DEF IInv, Core, uploads, flushes
<1>1. CASE GetSpan
  <2> DEFINE h == Head(queue)
  <2> USE <1>1 DEF GetSpan
  <2>1. /\ queue' \in Seq(Spans \cup Markers) /\ h \in Spans /\ batch' = batch \cup {h}
        /\ worker' \in {"submit", "get"} /\ marker' \in {marker, None} /\ set' = set
    BY DEF Dispatch, Typed, Taken
  <2>2. Typed'
    BY <2>1 DEF Typed
  <2>3. CASE process = "running"
    <3>1. /\ Distinct(queue') /\ h \in Queued /\ Items(queue') = Queued \ {h}
          /\ \A m : Behind(queue', m) \subseteq Behind(queue, m)
      BY <2>3, Taken DEF Typed, Places, Queued
    <3> HIDE DEF h
    <3>2. Places'
      BY <2>1, <2>3, <3>1 DEF Places, Queued, Uploading, Put
    <3>3. Thread' /\ Registered' /\ Waited'
      BY <2>1, <2>3, <3>1 DEF Thread, Queued, Alive, Registered, Waited
    <3>4. Stopping'
      BY <2>1, <2>3, <3>1 DEF Stopping, Queued, Typed, Markers
    <3>5. Ahead'
      BY <2>1, <2>3, <3>1 DEF Ahead, AheadOf, Queued, Put, Typed, Markers
    <3> QED
      BY <2>2, <3>2, <3>3, <3>4, <3>5
  <2> QED
    BY <2>2, <2>3 DEF IInv, Typed
<1>2. CASE GetMarker
  <2> DEFINE h == Head(queue)
  <2> USE <1>2 DEF GetMarker
  <2>1. /\ queue' \in Seq(Spans \cup Markers) /\ h \in Markers
        /\ \/ /\ batch = {} /\ marker' = None /\ set' = set \cup {h}
              /\ worker' = IF h = STOP THEN "exited" ELSE "get"
           \/ batch # {} /\ marker' = h /\ set' = set /\ worker' = "submit"
    BY DEF Dispatch, Dispatched, Typed, Taken
  <2>2. Typed'
    BY <2>1 DEF Typed
  <2>3. CASE process = "running"
    <3>1. /\ Distinct(queue') /\ h \in Queued /\ Items(queue') = Queued \ {h}
          /\ Items(queue') = Behind(queue, h)
          /\ \A m : Behind(queue', m) \subseteq Behind(queue, m)
      BY <2>3, Taken DEF Typed, Places, Queued
    <3> HIDE DEF h
    <3>2. Places'
      BY <2>1, <2>3, <3>1 DEF Places, Queued, Uploading, Put
    <3>3. marker = None
      BY <2>3 DEF Thread
    <3>4. h = STOP => /\ Items(queue') \cap Spans = {} /\ resetting = "stop"
                      /\ \A s \in Spans : span[s] # "ensured"
      BY <2>3, <3>1 DEF Stopping, Typed
    <3>5. Thread' /\ Registered' /\ Waited'
      BY <2>1, <2>3, <3>1, <3>4 DEF Thread, Queued, Alive, Registered, Waited
    <3>6. Stopping'
      BY <2>1, <2>3, <3>1, <3>3, <3>4 DEF Stopping, Queued, Typed
    <3>7. Ahead'
      <4> SUFFICES ASSUME NEW f \in Callers PROVE AheadOf(f)'
        BY DEF Ahead
      <4>1. f = h => Items(queue') \cap before[f] = {}
        BY <2>3, <3>1 DEF Ahead, AheadOf
      <4> QED
        BY <2>1, <2>3, <3>1, <3>3, <4>1 DEF Ahead, AheadOf, Queued, Put
    <3> QED
      BY <2>2, <3>2, <3>5, <3>6, <3>7
  <2> QED
    BY <2>2, <2>3 DEF IInv, Typed
<1>3. CASE Idle
  BY <1>3
  DEF Idle, Dispatch, Typed, Places, Thread, Stopping, Registered, Ahead, AheadOf, Waited,
      Queued, Uploading, Put, Alive
<1>4. ASSUME NEW t \in Traces, Submit(t) PROVE IInv'
  <2> DEFINE group == batch \cap t
  <2> USE <1>4 DEF Submit
  <2>1. Typed'
    BY DEF Typed
  <2>2. CASE process = "running"
    <3>1. /\ pool = "open" /\ group # {} /\ running' = running \cup {group} /\ fresh' = group
          /\ batch' = batch \ group /\ worker' = "register"
      BY <2>2 DEF Thread, Alive
    <3> HIDE DEF group
    <3>2. Uploading' = Uploading \cup group
      BY <3>1 DEF Uploading
    <3>3. group \subseteq batch
      BY DEF group
    <3>4. Places'
      BY <2>2, <3>1, <3>2, <3>3 DEF Places, Queued, Put, Uploading
    <3>5. Thread' /\ Stopping' /\ Registered' /\ Waited'
      BY <2>2, <3>1, <3>3 DEF Thread, Queued, Alive, Registered, Waited, Stopping
    <3>6. Ahead'
      BY <2>2, <3>1, <3>3 DEF Ahead, AheadOf, Queued, Put
    <3> QED
      BY <2>1, <3>4, <3>5, <3>6
  <2> QED
    BY <2>1, <2>2 DEF IInv, Typed
<1>5. CASE Register
  <2> USE <1>5 DEF Register
  <2>1. \/ /\ batch = {} /\ marker' = None /\ set' = (IF marker = None THEN set ELSE set \cup {marker})
           /\ worker' = IF marker = STOP THEN "exited" ELSE "get"
        \/ batch # {} /\ marker' = marker /\ set' = set /\ worker' = "submit"
    BY DEF Dispatch, Dispatched
  <2>0. STOP \in Markers /\ None \notin Markers
    BY DEF Markers
  <2>2. Typed'
    BY <2>1 DEF Typed
  <2>3. CASE process = "running"
    <3>1. Places' /\ Registered' /\ Waited'
      BY <2>1, <2>3 DEF Places, Queued, Uploading, Put, Registered, Waited
    <3>2. marker = STOP => /\ Queued \cap (Spans \cup {STOP}) = {} /\ resetting = "stop"
                           /\ \A s \in Spans : span[s] # "ensured"
      BY <2>3 DEF Stopping, Typed
    <3>3. Thread' /\ Stopping'
      BY <2>0, <2>1, <2>3, <3>2 DEF Thread, Stopping, Queued, Alive, Typed
    <3>4. Ahead'
      <4> SUFFICES ASSUME NEW f \in Callers PROVE AheadOf(f)'
        BY DEF Ahead
      <4> QED
        BY <2>0, <2>1, <2>3 DEF Ahead, AheadOf, Queued, Put, Markers
    <3> QED
      BY <2>2, <3>1, <3>3, <3>4
  <2> QED
    BY <2>2, <2>3 DEF IInv, Typed
<1> QED
  BY <1>1, <1>2, <1>3, <1>4, <1>5 DEF Intake

\* An upload that ends hands its spans over.
LEMMA UploadStep ==
  ASSUME IInv, NEW u \in running, Upload(u)
  PROVE  IInv'
<1> USE DEF Upload, intake, flushes, IInv, Core
<1>1. Typed'
  BY DEF Typed
<1>2. CASE process = "running"
  <2>1. Uploading' = Uploading \ u /\ u \subseteq Uploading
    BY <1>2 DEF Uploading, Places
  <2>2. Places'
    BY <1>2, <2>1 DEF Places, Queued, Put, Uploading
  <2>3. Thread' /\ Stopping' /\ Registered' /\ Ahead'
    BY <1>2 DEF Thread, Stopping, Registered, Ahead, AheadOf, Queued, Alive, Put
  <2>4. Waited'
    BY <1>2 DEF Waited
  <2> QED
    BY <1>1, <2>2, <2>3, <2>4
<1> QED
  BY <1>1, <1>2 DEF Typed

\* A step of a flush: its marker goes behind all that was put before it was called,
\* and what it then waits for covers what of that is not sent yet.
LEMMA FlushStep ==
  ASSUME IInv, NEW f \in Callers, Flush(f) \/ FlushTimeout(f)
  PROVE  IInv'
<1> USE ExporterAssumption DEF IInv, Core, intake, uploads, flushes
<1>1. CASE FlushCall(f)
  <2> USE <1>1 DEF FlushCall
  <2>1. Typed'
    BY DEF Typed, Put
  <2>2. CASE process = "running"
    <3>1. ~Alive => Put \subseteq attempted
      BY <2>2 DEF Thread, MayFlush, Places, Uploading, Alive, Typed, Stopping
    <3>2. Places' /\ Thread' /\ Stopping' /\ Registered'
      BY <2>2 DEF Places, Thread, Stopping, Registered, Queued, Uploading, Put, Alive
    <3>3. f \notin Queued \cup {marker} \cup set
      BY <2>2 DEF Ahead, AheadOf
    <3>4. Waited'
      BY <2>2, <3>1 DEF Waited, Typed
    <3>5. Ahead'
      BY <2>2, <3>3, NotBehind DEF Ahead, AheadOf, Queued, Put, Typed
    <3> QED
      BY <2>1, <3>2, <3>4, <3>5
  <2> QED
    BY <2>1, <2>2 DEF Typed
<1>2. CASE PutMarker(f)
  <2> USE <1>2 DEF PutMarker
  <2>1. Typed'
    BY DEF Typed, Markers
  <2>2. CASE process = "running"
    <3>1. f \notin Queued \cup {marker} \cup set
      BY <2>2 DEF Ahead, AheadOf
    <3>2. /\ Distinct(queue') /\ Items(queue') = Queued \cup {f}
          /\ \A m : Behind(queue', m) \subseteq Behind(queue, m) \cup (IF m \in Queued THEN {f} ELSE {})
      BY <2>2, <3>1, Appended DEF Queued, Typed, Places, Markers
    <3>3. f \notin Spans /\ f # STOP
      BY DEF Markers
    <3>4. Places' /\ Thread' /\ Registered' /\ Waited'
      BY <2>2, <3>2, <3>3 DEF Places, Thread, Registered, Waited, Queued, Uploading, Put, Alive, Typed
    <3>5. Stopping'
      BY <2>2, <3>2, <3>3 DEF Stopping, Queued
    <3>6. Ahead'
      BY <2>2, <3>1, <3>2, <3>3 DEF Ahead, AheadOf, Queued, Put, Typed
    <3> QED
      BY <2>1, <3>4, <3>5, <3>6
  <2> QED
    BY <2>1, <2>2 DEF Typed
<1>3. CASE Snapshot(f)
  <2> USE <1>3 DEF Snapshot
  <2>1. Typed'
    BY DEF Typed
  <2>2. CASE process = "running"
    <3>1. Places' /\ Thread' /\ Stopping' /\ Registered' /\ Ahead'
      BY <2>2 DEF Places, Thread, Stopping, Registered, Ahead, AheadOf, Queued, Uploading, Put,
                  Alive, Typed
    <3>2. before[f] \subseteq attempted \cup UNION (inflight \cap running)
      BY <2>2 DEF Ahead, AheadOf, Places, Uploading, Registered
    <3>3. Waited'
      BY <2>2, <3>2 DEF Waited, Typed
    <3> QED
      BY <2>1, <3>1, <3>3
  <2> QED
    BY <2>1, <2>2 DEF Typed
<1>4. CASE Drained(f) \/ FlushTimeout(f)
  BY <1>4
  DEF Drained, FlushTimeout, Typed, Places, Thread, Stopping, Registered, Ahead, AheadOf, Waited,
      Queued, Uploading, Put, Alive
<1> QED
  BY <1>1, <1>2, <1>3, <1>4 DEF Flush

\* A step of reset(): no span can come behind its marker, and when the pool has been
\* joined nothing is left to be sent.
LEMMA ResetStep ==
  ASSUME IInv, Reset
  PROVE  IInv'
<1> USE ExporterAssumption DEF IInv, Core, intake, uploads, flushes
<1>1. CASE ResetBegins \/ WorkerJoined
  BY <1>1
  DEF ResetBegins, WorkerJoined, Typed, Places, Thread, Stopping, Registered, Ahead, AheadOf,
      Waited, Queued, Uploading, Put, Alive
<1>2. CASE PutStop
  <2> USE <1>2 DEF PutStop
  <2>1. Typed'
    BY DEF Typed, Markers
  <2>2. CASE process = "running"
    <3>1. STOP \notin Queued \cup {marker} \cup set /\ \A s \in Spans : span[s] # "ensured"
      BY <2>2 DEF Stopping
    <3>2. /\ Distinct(queue') /\ Items(queue') = Queued \cup {STOP}
          /\ \A m : Behind(queue', m) \subseteq Behind(queue, m) \cup (IF m \in Queued THEN {STOP} ELSE {})
      BY <2>2, <3>1, Appended DEF Queued, Typed, Places, Markers
    <3>3. STOP \notin Spans
      BY DEF Markers
    <3>4. Places' /\ Thread' /\ Registered' /\ Waited'
      BY <2>2, <3>2, <3>3 DEF Places, Thread, Registered, Waited, Queued, Uploading, Put, Alive
    <3>5. Stopping'
      BY <2>2, <3>1, <3>2, <3>3 DEF Stopping, Queued
    <3>6. Ahead'
      <4> SUFFICES ASSUME NEW f \in Callers PROVE AheadOf(f)'
        BY DEF Ahead
      <4>1. f # STOP /\ before[f] \subseteq Spans
        BY DEF Typed
      <4> QED
        BY <2>2, <3>2, <3>3, <4>1 DEF Ahead, AheadOf, Queued, Put
    <3> QED
      BY <2>1, <3>4, <3>5, <3>6
  <2> QED
    BY <2>1, <2>2 DEF Typed
<1>3. CASE ResetEnds
  <2> USE <1>3 DEF ResetEnds, PoolIdle
  <2>1. Typed'
    BY DEF Typed
  <2>2. CASE process = "running"
    <3>1. Places' /\ Registered' /\ Waited' /\ Thread' /\ Stopping'
      BY <2>2 DEF Places, Thread, Stopping, Registered, Waited, Queued, Uploading, Put, Alive, Typed
    <3>2. Ahead'
      BY <2>2 DEF Ahead, AheadOf, Queued, Put
    <3> QED
      BY <2>1, <3>1, <3>2
  <2> QED
    BY <2>1, <2>2 DEF Typed
<1> QED
  BY <1>1, <1>2, <1>3 DEF Reset

\* Every step keeps the invariant.
LEMMA StepHolds == IInv /\ [Next]_vars => IInv'
<1> SUFFICES ASSUME IInv, [Next]_vars PROVE IInv'
  OBVIOUS
<1>1. CASE InterpreterExit
  BY <1>1 DEF InterpreterExit, IInv, Typed, intake, flushes
<1>2. CASE UNCHANGED vars
  BY <1>2
  DEF vars, intake, uploads, flushes, IInv, Core, Typed, Places, Thread, Stopping, Registered, Ahead,
      AheadOf, Waited, Queued, Uploading, Put, Alive
<1> QED
  BY <1>1, <1>2, SpanStep, IntakeStep, UploadStep, FlushStep, ResetStep DEF Next, Uploads

\* A flush that reports success has drained, whatever uploads, resets and other
\* flushes go on beside it (exporter.py:100): for any number of spans and flushes.
THEOREM FlushDrainsAlways == Spec => []FlushDrains
<1>1. IInv => FlushDrains
  BY DEF IInv, Core, Waited, FlushDrains
<1> QED
  BY <1>1, InitHolds, StepHolds, PTL DEF Spec

\* A set that says of one thing whether it is somewhere has one member or none.
LEMMA Counted ==
  ASSUME NEW A, NEW x, A \subseteq {x}
  PROVE  Cardinality(A) = IF x \in A THEN 1 ELSE 0
<1>1. CASE x \in A
  <2>1. A = {x}
    BY <1>1
  <2> QED
    BY <1>1, <2>1, FS_Singleton
<1>2. CASE x \notin A
  <2>1. A = {}
    BY <1>2
  <2> QED
    BY <1>2, <2>1, FS_EmptySet
<1> QED
  BY <1>1, <1>2

\* The places counted: a span that was put is in exactly one of them.
LEMMA OnePlace == IInv => InOnePlace
<1> SUFFICES ASSUME IInv, process = "running", NEW s \in Put
             PROVE  Cardinality({i \in DOMAIN queue : queue[i] = s})
                      + Cardinality({u \in running : s \in u})
                      + Cardinality({x \in {"batch", "done"} : s \in IF x = "done" THEN attempted ELSE batch})
                      = 1
  BY DEF InOnePlace
<1> DEFINE Q == {i \in DOMAIN queue : queue[i] = s}
           U == {u \in running : s \in u}
           X == {x \in {"batch", "done"} : s \in IF x = "done" THEN attempted ELSE batch}
<1>1. /\ s \in Spans /\ Typed /\ Places /\ DOMAIN queue = 1..Len(queue)
  BY DEF IInv, Core, Put, Typed
<1>2. Cardinality(Q) = IF s \in Queued THEN 1 ELSE 0
  <2>1. CASE s \in Queued
    <3>1. PICK i \in 1..Len(queue) : queue[i] = s
      BY <2>1 DEF Queued, Items
    <3>2. Q \subseteq {i} /\ i \in Q
      BY <1>1, <3>1 DEF Places, Distinct
    <3> QED
      BY <2>1, <3>2, Counted
  <2>2. CASE s \notin Queued
    <3>1. Q = {}
      BY <1>1, <2>2 DEF Queued, Items
    <3> QED
      BY <2>2, <3>1, FS_EmptySet
  <2> QED
    BY <2>1, <2>2
<1>3. Cardinality(U) = IF s \in Uploading THEN 1 ELSE 0
  <2>1. CASE s \in Uploading
    <3>1. PICK u \in running : s \in u
      BY <2>1 DEF Uploading
    <3>2. U \subseteq {u} /\ u \in U
      BY <1>1, <3>1 DEF Places
    <3> QED
      BY <2>1, <3>2, Counted
  <2>2. CASE s \notin Uploading
    <3>1. U = {}
      BY <2>2 DEF Uploading
    <3> QED
      BY <2>2, <3>1, FS_EmptySet
  <2> QED
    BY <2>1, <2>2
<1>4. Cardinality(X) = IF s \in batch \cup attempted THEN 1 ELSE 0
  <2>1. CASE s \in batch
    <3>1. X \subseteq {"batch"} /\ "batch" \in X
      BY <1>1, <2>1 DEF Places
    <3> HIDE DEF X
    <3>2. Cardinality(X) = 1
      BY <3>1, Counted
    <3> QED
      BY <2>1, <3>2
  <2>2. CASE s \in attempted
    <3>1. X \subseteq {"done"} /\ "done" \in X
      BY <1>1, <2>2 DEF Places
    <3> HIDE DEF X
    <3>2. Cardinality(X) = 1
      BY <3>1, Counted
    <3> QED
      BY <2>2, <3>2
  <2>3. CASE s \notin batch \cup attempted
    <3>1. X = {}
      BY <2>3
    <3> QED
      BY <2>3, <3>1, FS_EmptySet
  <2> QED
    BY <2>1, <2>2, <2>3
<1> HIDE DEF Q, U, X
<1>5. Cardinality(Q) + Cardinality(U) + Cardinality(X) = 1
  BY <1>1, <1>2, <1>3, <1>4 DEF Places
<1> QED
  BY <1>5 DEF Q, U, X

\* No span is lost or sent twice while the program runs (exporter.py:184): for any
\* traces and any batch size, with flushes and a reset between.
THEOREM InOnePlaceAlways == Spec => []InOnePlace
BY InitHolds, StepHolds, OnePlace, PTL DEF Spec
=============================================================================
