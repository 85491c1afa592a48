---------------------------- MODULE ControlChannel ----------------------------
(***************************************************************************)
(* The control channel of a served environment (hud/environment/server.py): *)
(* one asyncio task per connection, each dispatching JSON-RPC frames in     *)
(* order, all of them sharing a table of suspended task runners keyed by    *)
(* session id.                                                              *)
(*                                                                          *)
(* A step of this module is what a coroutine does between two awaits.  The  *)
(* awaits modelled are the ones at which another connection can run in      *)
(* between: reading a frame, writing one to a peer that does not read, a    *)
(* generator's first yield, its answer, its aclose(), the environment's     *)
(* teardown hooks, and the close of the connection.                         *)
(*                                                                          *)
(* Session ids are freshly minted per connection, so a connection's own     *)
(* session is named by the connection itself; a resumed session keeps the   *)
(* name of the connection that opened it.                                   *)
(***************************************************************************)
EXTENDS Naturals, FiniteSets

CONSTANTS
  Conn,        \* connections ever accepted
  MaxStarts,   \* bound: task runners ever constructed
  LateAccept   \* may a connection sit between asyncio's accept and the first
               \* step of its handler while the server shuts down?

\* The coroutine that runs serve() and, at the end, _shutdown().
Main == "main"

ASSUME ConnAssumption == Main \notin Conn
ASSUME MaxStartsAssumption == MaxStarts \in Nat
ASSUME LateAcceptAssumption == LateAccept \in BOOLEAN

Proc == Conn \cup {Main}
Runner == 1..MaxStarts
None == 0

VARIABLES
  phase,    \* what each coroutine is awaiting
  sid,      \* the session id a connection's handler currently carries
  work,     \* the runner a coroutine is starting, grading or tearing down
  next,     \* what the coroutine does once that runner is torn down
  token,    \* current_session_id as the coroutine last bound it for that work
  runners,  \* _ControlChannel._runners: session -> suspended runner, or None
  live,     \* _ControlChannel._live
  made,     \* runners constructed so far
  origin,   \* the session each runner was started under
  torn,     \* runners whose teardown hooks ran to their end
  server,   \* progress of serve() / _shutdown()
  doomed,   \* handlers with a task.cancel() not yet delivered
  handlers, \* _shutdown's snapshot of the active handlers
  sweep     \* sessions cancel_all has still to visit

vars == <<phase, sid, work, next, token, runners, live, made, origin, torn,
          server, doomed, handlers, sweep>>

Working == {"starting", "grading", "closing", "hooks"}
Writing == {"writing", "parting"}        \* a reply, or bye's, is in drain()
InSession == {"reading"} \cup Writing \cup Working
\* "unread": the handler is in wait_closed(), for a peer that has to take what was
\* written first; "left": the handler has ended, and its transport has not.
Active == {"first", "unread"} \cup InSession
Ended == {"idle", "left", "gone"}

Go(p, ph) == phase' = [phase EXCEPT ![p] = ph]

Init ==
  /\ phase = [p \in Proc |-> "idle"]
  /\ sid = [c \in Conn |-> c]
  /\ work = [p \in Proc |-> None]
  /\ next = [p \in Proc |-> "reply"]
  /\ token = [p \in Proc |-> p]
  /\ runners = [s \in Conn |-> None]
  /\ live = {}
  /\ made = 0
  /\ origin = [r \in Runner |-> Main]
  /\ torn = {}
  /\ server = "serving"
  /\ doomed = {}
  /\ handlers = {}
  /\ sweep = {}

serverVars == <<server, doomed, handlers, sweep>>
runnerVars == <<made, origin>>

-----------------------------------------------------------------------------
(* Pieces the handlers are built from.                                      *)

\* The coroutine of p suspends on runner r, with session s bound.
Await(p, ph, r, s, k) ==
  /\ Go(p, ph)
  /\ work' = [work EXCEPT ![p] = r]
  /\ token' = [token EXCEPT ![p] = s]
  /\ next' = [next EXCEPT ![p] = k]

\* Mutants of Teardown: the runner is looked up instead of popped; a session
\* without a runner is not skipped.
Teardown_KeepsEntry(p, s, k) ==
  /\ runners[s] # None
  /\ Await(p, "closing", runners[s], s, k)
  /\ UNCHANGED runners

\* _ControlChannel.cancel for a session that has a runner: out of the table
\* first, then torn down with the session bound.
Teardown(p, s, k) ==
  /\ runners[s] # None
  /\ runners' = [runners EXCEPT ![s] = None]
  /\ Await(p, "closing", runners[s], s, k)

\* accept()'s finally block: the connection is closed, and the handler waits until
\* it is lost, which the loop reports next unless the peer has output to take.
Close(c) == Go(c, "gone") \/ Go(c, "unread")

\* The session's coroutine returns or raises: its finally block, and accept()'s.
Leave(c) ==
  /\ Close(c)
  /\ live' = live \ {sid[c]}

\* A reply or an error frame is written.  Either it is sent and the handler
\* reads on, or the peer does not read and drain() waits for it, or the peer is
\* gone, the error reply fails as well, and session() ends.
Answer(c) ==
  \/ /\ Go(c, "reading") \/ Go(c, "writing")
     /\ live' = live
  \/ Leave(c)

\* bye is answered, and the session ends.
Part(c) ==
  \/ Go(c, "parting") /\ live' = live
  \/ Leave(c)

\* start() past its cancel of the previous runner: an unknown task or bad
\* arguments are answered; otherwise the runner enters the table before its
\* generator runs.
Launch(c) ==
  \/ /\ Answer(c)
     /\ work' = [work EXCEPT ![c] = None]
     /\ UNCHANGED <<next, token, runners, made, origin>>
  \/ /\ made < MaxStarts
     /\ made' = made + 1
     /\ origin' = [origin EXCEPT ![made + 1] = sid[c]]
     /\ runners' = [runners EXCEPT ![sid[c]] = made + 1]
     /\ Await(c, "starting", made + 1, sid[c], "reply")
     /\ live' = live

-----------------------------------------------------------------------------
(* A connection and its handler.                                            *)

\* asyncio accepts a connection and schedules accept() for it.
Accept(c) ==
  /\ server = "serving"
  /\ phase[c] = "idle"
  /\ Go(c, "accepted")
  /\ UNCHANGED <<sid, work, next, token, runners, live, torn, runnerVars, serverVars>>

\* accept() runs: the handler joins the active set and awaits the first frame.
Open(c) ==
  /\ phase[c] = "accepted"
  /\ Go(c, "first")
  /\ UNCHANGED <<sid, work, next, token, runners, live, torn, runnerVars, serverVars>>

\* The first frame opens a control session, or the connection is a tunnel,
\* sends nothing, or sends a frame beyond the limit.
FirstFrame(c) ==
  /\ phase[c] = "first"
  /\ c \notin doomed
  /\ \/ Go(c, "reading") /\ live' = live \cup {c}
     \/ Close(c) /\ live' = live
  /\ UNCHANGED <<sid, work, next, token, runners, torn, runnerVars, serverVars>>

Reading(c) == phase[c] = "reading" /\ c \notin doomed

\* The peer hangs up, or sends a frame beyond the limit.
HangUp(c) ==
  /\ Reading(c)
  /\ Leave(c)
  /\ UNCHANGED <<sid, work, next, token, runners, torn, runnerVars, serverVars>>

\* A frame that only asks: tasks.list, hello without a session, what is refused.
Ask(c) ==
  /\ Reading(c)
  /\ Answer(c)
  /\ UNCHANGED <<sid, work, next, token, runners, torn, runnerVars, serverVars>>

\* The peer reads on, or is gone and drain() raises.
Taken(c) ==
  /\ phase[c] \in Writing /\ c \notin doomed
  /\ \/ phase[c] = "writing" /\ Go(c, "reading") /\ live' = live
     \/ Leave(c)
  /\ UNCHANGED <<sid, work, next, token, runners, torn, runnerVars, serverVars>>

\* The connection is lost at last: a peer that did not read has, or is gone.
Flushed(c) ==
  /\ phase[c] \in {"unread", "left"}
  /\ Go(c, "gone")
  /\ doomed' = doomed \ {c}
  /\ UNCHANGED <<sid, work, next, token, runners, live, torn, runnerVars, server, handlers, sweep>>

\* Mutant of Resumable: a session with a live connection is not refused.
Resumable_Live(c, s) == s # sid[c] /\ runners[s] # None

\* The session another hello may take over: parked, with a runner to grade.
Resumable(c, s) == s # sid[c] /\ s \notin live /\ runners[s] # None

\* hello with the id of another session.
HelloResume(c, s) ==
  /\ Reading(c)
  /\ Resumable(c, s)
  /\ sid' = [sid EXCEPT ![c] = s]
  /\ \/ /\ Go(c, "reading") \/ Go(c, "writing")
        /\ live' = (live \ {sid[c]}) \cup {s}
     \/ Close(c) /\ live' = live \ {sid[c], s}
  /\ UNCHANGED <<work, next, token, runners, torn, runnerVars, serverVars>>

\* tasks.start: the session's previous runner is torn down before the new one
\* is constructed.
TasksStart(c) ==
  /\ Reading(c)
  /\ \/ /\ Teardown(c, sid[c], "start")
        /\ UNCHANGED <<live, runnerVars>>
     \/ /\ runners[sid[c]] = None
        /\ Launch(c)
  /\ UNCHANGED <<sid, torn, serverVars>>

\* The generator yields its prompt and the prompt is replied; a prompt beyond
\* the frame limit cancels the task again.
StartReturns(c) ==
  /\ phase[c] = "starting"
  /\ c \notin doomed
  /\ \/ /\ Answer(c)
        /\ work' = [work EXCEPT ![c] = None]
        /\ UNCHANGED <<next, token, runners>>
     \/ /\ Teardown(c, sid[c], "reply")
        /\ UNCHANGED live
  /\ UNCHANGED <<sid, torn, runnerVars, serverVars>>

\* Mutant of StartFails: the entry stays in the table.
StartFails_KeepsEntry(c) ==
  /\ phase[c] = "starting"
  /\ c \notin doomed
  /\ Await(c, "closing", work[c], sid[c], "reply")
  /\ UNCHANGED <<sid, runners, live, torn, runnerVars, serverVars>>

\* The generator raises before its prompt: start() withdraws the entry and
\* tears the runner down before re-raising.
StartFails(c) ==
  /\ phase[c] = "starting"
  /\ c \notin doomed
  /\ runners' = [runners EXCEPT ![sid[c]] = None]
  /\ Await(c, "closing", work[c], sid[c], "reply")
  /\ UNCHANGED <<sid, live, torn, runnerVars, serverVars>>

\* Mutant: the caller's session is bound.
Grading_AsCaller(c, s) == Await(c, "grading", runners[s], sid[c], "reply")

Parked == {s \in Conn : runners[s] # None /\ s \notin live}
Grading(c, s) == Await(c, "grading", runners[s], s, "reply")

\* tasks.grade takes the session's own runner, or adopts the only parked one;
\* it binds the claimed session, not the caller's.
TasksGrade(c) ==
  /\ Reading(c)
  /\ \/ \E s \in Conn :
          /\ IF runners[sid[c]] # None THEN s = sid[c] ELSE Parked = {s}
          /\ runners' = [runners EXCEPT ![s] = None]
          /\ Grading(c, s)
          /\ UNCHANGED live
     \/ /\ runners[sid[c]] = None
        /\ Cardinality(Parked) # 1
        /\ Answer(c)
        /\ UNCHANGED <<work, next, token, runners>>
  /\ UNCHANGED <<sid, torn, runnerVars, serverVars>>

\* The generator answers, stops or raises; the runner is torn down either way.
GradeReturns(c) ==
  /\ phase[c] = "grading"
  /\ c \notin doomed
  /\ Go(c, "closing")
  /\ UNCHANGED <<sid, work, next, token, runners, live, torn, runnerVars, serverVars>>

\* tasks.cancel, and bye, which also ends the session.
TasksCancel(c) ==
  /\ Reading(c)
  /\ \/ Teardown(c, sid[c], "reply") /\ UNCHANGED live
     \/ /\ runners[sid[c]] = None
        /\ Answer(c)
        /\ UNCHANGED <<work, next, token, runners>>
  /\ UNCHANGED <<sid, torn, runnerVars, serverVars>>

Bye(c) ==
  /\ Reading(c)
  /\ \/ Teardown(c, sid[c], "bye") /\ UNCHANGED live
     \/ /\ runners[sid[c]] = None
        /\ Part(c)
        /\ UNCHANGED <<work, next, token, runners>>
  /\ UNCHANGED <<sid, torn, runnerVars, serverVars>>

\* TaskRunner.cancel: aclose() returns (its errors are suppressed) ...
Closed(p) ==
  /\ phase[p] = "closing"
  /\ p \notin doomed
  /\ Go(p, "hooks")
  /\ UNCHANGED <<sid, work, next, token, runners, live, torn, runnerVars, serverVars>>

\* ... and the teardown hooks have run; the handler goes on with what it was
\* tearing the runner down for.
HooksRan(c) ==
  /\ phase[c] = "hooks"
  /\ c \notin doomed
  /\ torn' = torn \cup {work[c]}
  /\ \/ next[c] = "start" /\ Launch(c)
     \/ /\ next[c] # "start"
        /\ \/ next[c] = "reply" /\ Answer(c)
           \/ next[c] = "bye" /\ Part(c)
           \/ next[c] = "leave" /\ Leave(c)
        /\ work' = [work EXCEPT ![c] = None]
        /\ UNCHANGED <<next, token, runners, runnerVars>>
  /\ UNCHANGED <<sid, serverVars>>

\* Mutant of Cancelled: the handler suppresses the error and reads on.
Cancelled_Swallowed(c) ==
  /\ c \in doomed
  /\ doomed' = doomed \ {c}
  /\ UNCHANGED <<phase, sid, work, next, token, runners, live, torn, runnerVars,
                 server, handlers, sweep>>

\* A cancelled handler resumes with CancelledError.  A start or a grade still
\* tears its runner down; inside aclose() or a hook the error escapes
\* TaskRunner.cancel, which suppresses only Exception, and the rest is skipped.
Cancelled(c) ==
  /\ c \in doomed
  /\ doomed' = doomed \ {c}
  /\ \/ /\ phase[c] = "first"
        /\ Close(c)
        /\ UNCHANGED <<work, next, token, runners, live>>
     \/ /\ phase[c] = "unread"
        /\ Go(c, "left")
        /\ UNCHANGED <<work, next, token, runners, live>>
     \/ /\ phase[c] \in {"reading"} \cup Writing
        /\ Leave(c)
        /\ UNCHANGED <<work, next, token, runners>>
     \/ /\ phase[c] = "starting"
        /\ runners' = [runners EXCEPT ![sid[c]] = None]
        /\ Await(c, "closing", work[c], sid[c], "leave")
        /\ UNCHANGED live
     \/ /\ phase[c] = "grading"
        /\ Await(c, "closing", work[c], token[c], "leave")
        /\ UNCHANGED <<runners, live>>
     \/ /\ phase[c] \in {"closing", "hooks"}
        /\ Leave(c)
        /\ work' = [work EXCEPT ![c] = None]
        /\ UNCHANGED <<next, token, runners>>
  /\ UNCHANGED <<sid, torn, runnerVars, server, handlers, sweep>>

-----------------------------------------------------------------------------
(* _shutdown: stop listening, cancel the handlers, wait for them, tear down  *)
(* what is left in the table.                                                *)

Shutdown ==
  /\ server = "serving"
  /\ LateAccept \/ \A c \in Conn : phase[c] # "accepted"
  /\ server' = "draining"
  /\ handlers' = {c \in Conn : phase[c] \in Active}
  /\ doomed' = handlers'
  /\ UNCHANGED <<phase, sid, work, next, token, runners, live, torn, runnerVars, sweep>>

Leftover == {s \in Conn : runners[s] # None}

\* Every cancelled handler has ended: cancel_all takes the table's keys.
Drained ==
  /\ server = "draining"
  /\ \A c \in handlers : phase[c] \in Ended
  /\ server' = "sweeping"
  /\ sweep' = Leftover
  /\ UNCHANGED <<phase, sid, work, next, token, runners, live, torn, runnerVars,
                 doomed, handlers>>

\* cancel_all visits one session; it may have lost its runner since.
Sweep(s) ==
  /\ server = "sweeping"
  /\ phase[Main] = "idle"
  /\ s \in sweep
  /\ sweep' = sweep \ {s}
  /\ \/ Teardown(Main, s, "leave")
     \/ /\ runners[s] = None
        /\ UNCHANGED <<phase, work, next, token, runners>>
  /\ UNCHANGED <<sid, live, torn, runnerVars, server, doomed, handlers>>

SweepRan ==
  /\ phase[Main] = "hooks"
  /\ torn' = torn \cup {work[Main]}
  /\ work' = [work EXCEPT ![Main] = None]
  /\ Go(Main, "idle")
  /\ UNCHANGED <<sid, next, token, runners, live, runnerVars, serverVars>>

\* Server.wait_closed() waits for every transport (from Python 3.12 on).
Stop ==
  /\ \A c \in Conn : phase[c] # "left"
  /\ server = "sweeping"
  /\ sweep = {}
  /\ phase[Main] = "idle"
  /\ server' = "stopped"
  /\ UNCHANGED <<phase, sid, work, next, token, runners, live, torn, runnerVars,
                 doomed, handlers, sweep>>

-----------------------------------------------------------------------------

\* What a handler does without its peer: the steps the event loop and the
\* task's own code owe it.
HandlerStep(c) ==
  \/ StartReturns(c) \/ StartFails(c) \/ GradeReturns(c)
  \/ Closed(c) \/ HooksRan(c) \/ Cancelled(c)

\* What the peer decides.
PeerStep(c) ==
  \/ Accept(c) \/ Open(c) \/ FirstFrame(c) \/ HangUp(c) \/ Ask(c) \/ Taken(c) \/ Flushed(c)
  \/ TasksStart(c) \/ TasksGrade(c) \/ TasksCancel(c) \/ Bye(c)
  \/ \E s \in Conn : HelloResume(c, s)

ShutdownStep ==
  \/ Drained \/ Closed(Main) \/ SweepRan \/ Stop
  \/ \E s \in Conn : Sweep(s)

Next ==
  \/ \E c \in Conn : HandlerStep(c) \/ PeerStep(c)
  \/ Shutdown
  \/ ShutdownStep

Spec == Init /\ [][Next]_vars

\* Generators and hooks return, and the event loop runs what is ready; nothing
\* is assumed of the peers, nor of the operator who stops the server.
Fairness ==
  /\ \A c \in Conn : WF_vars(HandlerStep(c))
  /\ WF_vars(ShutdownStep)

FairSpec == Spec /\ Fairness

-----------------------------------------------------------------------------

\* Every variable keeps its type.
TypeOK ==
  /\ phase \in [Proc -> {"accepted"} \cup Active \cup Ended]
  /\ sid \in [Conn -> Conn]
  /\ work \in [Proc -> Runner \cup {None}]
  /\ next \in [Proc -> {"reply", "start", "bye", "leave"}]
  /\ token \in [Proc -> Proc]
  /\ runners \in [Conn -> Runner \cup {None}]
  /\ live \subseteq Conn
  /\ made \in 0..MaxStarts
  /\ origin \in [Runner -> Proc]
  /\ torn \subseteq Runner
  /\ server \in {"serving", "draining", "sweeping", "stopped"}
  /\ doomed \subseteq Conn
  /\ handlers \subseteq Conn
  /\ sweep \subseteq Conn

Busy(p) == phase[p] \in Working

\* A suspended task has one holder: no two coroutines start, grade or tear
\* down the same runner, no two sessions hold it, and one that a coroutine
\* works on is out of the table unless its own session is still starting it
\* (TaskRunner's generator would be re-entered otherwise).
OneHolder ==
  /\ \A p, q \in Proc : p # q /\ Busy(p) /\ Busy(q) => work[p] # work[q]
  /\ \A s, t \in Conn : s # t /\ runners[s] # None => runners[s] # runners[t]
  /\ \A p \in Proc, s \in Conn :
       Busy(p) /\ runners[s] = work[p] => /\ phase[p] = "starting"
                                          /\ p \in Conn
                                          /\ s = sid[p]

\* Connections in session carry distinct session ids, and _live is exactly the
\* set of them: a resume can neither share a session nor leave a stale entry
\* that would make it unresumable.
LiveSessions ==
  /\ live = {sid[c] : c \in {d \in Conn : phase[d] \in InSession}}
  /\ \A c, d \in Conn :
       c # d /\ phase[c] \in InSession /\ phase[d] \in InSession => sid[c] # sid[d]

\* Whatever runs user code for a task - its generator or the teardown hooks -
\* runs with the session bound under which that task was started, so a hook
\* frees the claim that task holds (robot slots are keyed by session id), also
\* when a blind reconnect adopted it or the server tears it down.
ClaimIsStarter ==
  \A p \in Proc : Busy(p) => token[p] = origin[work[p]]

\* The teardown hooks never run twice for one task, and a torn-down task is
\* never in the table for a later grade to find.
TornOnce ==
  /\ \A p \in Proc : Busy(p) => work[p] \notin torn
  /\ \A s \in Conn : runners[s] \notin torn

\* The teardown hooks of a task run once, and for the session it was started under
\* (server.py:252, server.py:285).
HooksSound == ClaimIsStarter /\ TornOnce

(* The rest of what makes these inductive.                                  *)

\* Runners are numbered in the order they are made; nothing refers to one that
\* is not made yet, and a runner in the table is there under its own session.
Numbered ==
  /\ \A p \in Proc : Busy(p) => work[p] \in 1..made
  /\ \A s \in Conn : runners[s] # None => /\ runners[s] \in 1..made
                                          /\ origin[runners[s]] = s
  /\ torn \subseteq 1..made

\* A connection that has not opened its session has left no trace of it.
Unopened ==
  \A c \in Conn : phase[c] \in {"idle", "accepted", "first"} =>
    /\ sid[c] = c
    /\ runners[c] = None
    /\ \A d \in Conn \ {c} : sid[d] # c

\* While start() awaits the generator its runner is its session's entry; while
\* it awaits the previous runner's teardown the session has none; and neither a
\* start nor a grade in progress has a start to go on with.
StartInTable ==
  \A c \in Conn :
    /\ phase[c] \in {"starting", "grading"} => next[c] = "reply"
    /\ phase[c] = "starting" => runners[sid[c]] = work[c]
    /\ phase[c] \in {"closing", "hooks"} /\ next[c] = "start" => runners[sid[c]] = None

\* The server tears runners down itself only after every handler has ended.
ShutdownOrder ==
  /\ phase[Main] \in {"idle", "closing", "hooks"}
  /\ phase[Main] # "idle" => server = "sweeping"
  /\ server = "draining" => \A c \in Conn : c \in handlers \/ phase[c] \in Ended
  /\ server \in {"sweeping", "stopped"} => \A c \in Conn : phase[c] \in Ended

Inv ==
  /\ TypeOK
  /\ Numbered
  /\ Unopened
  /\ LiveSessions
  /\ StartInTable
  /\ OneHolder
  /\ ClaimIsStarter
  /\ TornOnce
  /\ ShutdownOrder

\* A shutdown that has begun comes to its end unless a peer keeps its connection
\* and never reads what was written to it: the gather over the handlers and the
\* teardown of the table wait on nothing else, and not on each other.
ReadByPeers == \A c \in Conn : phase[c] \notin {"unread", "left"}
ShutdownEnds == []<>ReadByPeers => (server = "draining" ~> server = "stopped")

-----------------------------------------------------------------------------

\* The ledger of tasks a client relies on, seen through the channel's state.
Ledger == INSTANCE TaskLedger WITH
  Session <- Conn,
  MaxTasks <- MaxStarts,
  Nobody <- Main,
  kept <- runners,
  state <- [r \in Runner |->
              IF r > made THEN "unborn"
              ELSE IF \E s \in Conn : runners[s] = r THEN "kept"
              ELSE IF r \in torn THEN "over" ELSE "taken"],
  owner <- origin

\* Every step of the channel is a step of the ledger, or leaves it alone: a
\* session keeps at most one task, and each task is taken once and torn down
\* once, whatever connections drop, resume, adopt or get cancelled.
ImplementsLedger == Ledger!Spec
=============================================================================
