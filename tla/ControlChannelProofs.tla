------------------------ MODULE ControlChannelProofs ------------------------
(***************************************************************************)
(* Proofs about ControlChannel for any set of connections and any number of *)
(* task starts; then about what its frames and its clients decide, for any    *)
(* input.                                                                    *)
(***************************************************************************)
EXTENDS ControlChannel, Sequences, WellFoundedInduction, TLAPS

\* Busy coroutines work on a runner: what TypeOK needs to be inductive.
WorkOK == \A p \in Proc : Busy(p) => work[p] \in Runner

\* What Launch assigns has its type; a coroutine it makes busy has a runner.
LEMMA LaunchTypes ==
  ASSUME TypeOK, WorkOK, NEW c \in Conn, Launch(c)
  PROVE  /\ phase' \in [Proc -> {"accepted"} \cup Active \cup Ended]
         /\ work' \in [Proc -> Runner \cup {None}]
         /\ next' \in [Proc -> {"reply", "start", "bye", "leave"}]
         /\ token' \in [Proc -> Proc]
         /\ runners' \in [Conn -> Runner \cup {None}]
         /\ live' \subseteq Conn
         /\ made' \in 0..MaxStarts
         /\ origin' \in [Runner -> Proc]
         /\ WorkOK'
<1> USE DEF TypeOK, WorkOK, Proc, Busy, Working, Writing, InSession, Active, Ended, Go
<1>1. CASE /\ Answer(c)
           /\ work' = [work EXCEPT ![c] = None]
           /\ UNCHANGED <<next, token, runners, made, origin>>
  BY <1>1 DEF Answer, Leave, Close
<1>2. CASE /\ made < MaxStarts
           /\ made' = made + 1
           /\ origin' = [origin EXCEPT ![made + 1] = sid[c]]
           /\ runners' = [runners EXCEPT ![sid[c]] = made + 1]
           /\ Await(c, "starting", made + 1, sid[c], "reply")
           /\ live' = live
  <2>1. made' \in 0..MaxStarts /\ made + 1 \in Runner
    BY <1>2, MaxStartsAssumption DEF Runner
  <2> QED
    BY <1>2, <2>1 DEF Await
<1> QED
  BY <1>1, <1>2 DEF Launch

\* A step keeps every type.
LEMMA TypeStep ==
  ASSUME TypeOK, WorkOK, [Next]_vars
  PROVE  TypeOK' /\ WorkOK'
<1> USE ConnAssumption, MaxStartsAssumption
    DEF Proc, Busy, Working, Writing, InSession, Active, Ended, Go, Reading
<1> USE DEF TypeOK, WorkOK, runnerVars, serverVars
<1>1. ASSUME NEW c \in Conn, Accept(c) PROVE TypeOK' /\ WorkOK'
  BY <1>1 DEF Accept
<1>2. ASSUME NEW c \in Conn, Open(c) PROVE TypeOK' /\ WorkOK'
  BY <1>2 DEF Open
<1>3. ASSUME NEW c \in Conn, FirstFrame(c) PROVE TypeOK' /\ WorkOK'
  BY <1>3 DEF FirstFrame, Close
<1>4. ASSUME NEW c \in Conn, HangUp(c) \/ Ask(c) \/ Taken(c) \/ Flushed(c) PROVE TypeOK' /\ WorkOK'
  BY <1>4 DEF HangUp, Ask, Taken, Flushed, Answer, Leave, Close
<1>5. ASSUME NEW c \in Conn, TasksStart(c) PROVE TypeOK' /\ WorkOK'
  <2>1. CASE Teardown(c, sid[c], "start") /\ UNCHANGED <<live, runnerVars>>
    BY <1>5, <2>1 DEF TasksStart, Teardown, Await
  <2>2. CASE Launch(c)
    BY <1>5, <2>2, LaunchTypes DEF TasksStart
  <2> QED
    BY <1>5, <2>1, <2>2 DEF TasksStart
<1>6. ASSUME NEW c \in Conn, StartReturns(c) PROVE TypeOK' /\ WorkOK'
  BY <1>6 DEF StartReturns, Teardown, Await, Answer, Leave, Close
<1>7. ASSUME NEW c \in Conn, StartFails(c) PROVE TypeOK' /\ WorkOK'
  BY <1>7 DEF StartFails, Await
<1>8. ASSUME NEW c \in Conn, TasksGrade(c) PROVE TypeOK' /\ WorkOK'
  BY <1>8 DEF TasksGrade, Grading, Parked, Await, Answer, Leave, Close
<1>9. ASSUME NEW c \in Conn, TasksCancel(c) PROVE TypeOK' /\ WorkOK'
  BY <1>9 DEF TasksCancel, Teardown, Await, Answer, Leave, Close
<1>10. ASSUME NEW c \in Conn, Bye(c) PROVE TypeOK' /\ WorkOK'
  BY <1>10 DEF Bye, Part, Teardown, Await, Leave, Close
<1>11. ASSUME NEW c \in Conn, GradeReturns(c) PROVE TypeOK' /\ WorkOK'
  BY <1>11 DEF GradeReturns
<1>12. ASSUME NEW c \in Conn, HooksRan(c) PROVE TypeOK' /\ WorkOK'
  <2>1. CASE Launch(c)
    BY <1>12, <2>1, LaunchTypes DEF HooksRan
  <2>2. CASE next[c] # "start"
    BY <1>12, <2>2 DEF HooksRan, Part, Answer, Leave, Close
  <2> QED
    BY <1>12, <2>1, <2>2 DEF HooksRan
<1>13. ASSUME NEW c \in Conn, Cancelled(c) PROVE TypeOK' /\ WorkOK'
  BY <1>13 DEF Cancelled, Await, Leave, Close
<1>14. ASSUME NEW c \in Conn, NEW s \in Conn, HelloResume(c, s)
       PROVE TypeOK' /\ WorkOK'
  BY <1>14 DEF HelloResume, Close, Resumable
<1>15. ASSUME NEW p \in Proc, Closed(p) PROVE TypeOK' /\ WorkOK'
  BY <1>15 DEF Closed
<1>16. CASE Shutdown
  BY <1>16 DEF Shutdown
<1>17. CASE Drained
  BY <1>17 DEF Drained, Leftover
<1>18. ASSUME NEW s \in Conn, Sweep(s) PROVE TypeOK' /\ WorkOK'
  BY <1>18 DEF Sweep, Teardown, Await
<1>19. CASE SweepRan
  BY <1>19 DEF SweepRan
<1>20. CASE Stop
  BY <1>20 DEF Stop
<1>21. CASE UNCHANGED vars
  BY <1>21 DEF vars
<1> QED
  BY <1>1, <1>2, <1>3, <1>4, <1>5, <1>6, <1>7, <1>8, <1>9, <1>10, <1>11,
     <1>12, <1>13, <1>14, <1>15, <1>16, <1>17, <1>18, <1>19, <1>20, <1>21
     DEF Next, HandlerStep, PeerStep, ShutdownStep

\* The initial state has the right types.
LEMMA TypeInit == Init => TypeOK /\ WorkOK
  BY ConnAssumption, MaxStartsAssumption
     DEF Init, TypeOK, WorkOK, None, Proc, Busy, Working, InSession, Active, Ended

\* Every variable keeps its type, with or without a connection caught between
\* accept and its handler's first step.
THEOREM TypeCorrect == Spec => []TypeOK
<1>1. TypeOK /\ WorkOK /\ [Next]_vars => (TypeOK /\ WorkOK)'
  BY TypeStep
<1> QED
  BY <1>1, TypeInit, PTL DEF Spec

-----------------------------------------------------------------------------
(* What a coroutine can do to the runners: take one out of the table to      *)
(* grade it or tear it down, carry on with the one it has, let go of it, or  *)
(* make a new one.                                                           *)

\* Who holds which runner, and under which session.
Owned == Numbered /\ StartInTable /\ OneHolder /\ ClaimIsStarter /\ TornOnce

\* Taking the runner of a session nobody else is working in.
LEMMA TakeOwned ==
  ASSUME TypeOK, Owned, NEW p \in Proc, NEW s \in Conn,
         NEW ph \in {"closing", "grading"}, NEW k \in {"reply", "start", "bye", "leave"},
         runners[s] # None,
         ~Busy(p) \/ (p \in Conn /\ phase[p] = "starting" /\ s = sid[p]),
         \A d \in Conn \ {p} : Busy(d) => sid[d] # s,
         ph = "grading" => k = "reply",
         k = "start" => p \in Conn /\ s = sid[p],
         runners' = [runners EXCEPT ![s] = None],
         Await(p, ph, runners[s], s, k),
         UNCHANGED <<sid, torn, made, origin>>
  PROVE  Owned'
<1> USE ConnAssumption, MaxStartsAssumption DEF TypeOK, Owned, Await, Go, Busy, Working, Proc
<1>1. Numbered'
  BY DEF Numbered, InSession, None, Runner
<1>2. StartInTable'
  BY DEF StartInTable, OneHolder, InSession
<1>3. OneHolder'
  <2>1. \A q, r \in Proc : q # r /\ Busy(q)' /\ Busy(r)' => work'[q] # work'[r]
    BY DEF OneHolder, InSession
  <2>2. \A t, u \in Conn : t # u /\ runners'[t] # None => runners'[t] # runners'[u]
    BY DEF OneHolder, InSession
  <2>3. \A q \in Proc, t \in Conn : Busy(q)' /\ runners'[t] = work'[q] =>
          phase'[q] = "starting" /\ q \in Conn /\ t = sid'[q]
    <3> SUFFICES ASSUME NEW q \in Proc, NEW t \in Conn,
                        Busy(q)', runners'[t] = work'[q]
                 PROVE  phase'[q] = "starting" /\ q \in Conn /\ t = sid'[q]
      BY DEF InSession
    <3>1. CASE q = p
      BY <3>1 DEF OneHolder, InSession
    <3>2. CASE q # p
      BY <3>2 DEF OneHolder, InSession, None, Runner, Numbered
    <3> QED
      BY <3>1, <3>2
  <2> QED
    BY <2>1, <2>2, <2>3 DEF OneHolder
<1>4. ClaimIsStarter'
  BY DEF ClaimIsStarter, Numbered, InSession
<1>5. TornOnce'
  BY DEF TornOnce, Numbered, InSession, None, Runner
<1> QED
  BY <1>1, <1>2, <1>3, <1>4, <1>5

\* The next stage of a teardown.
LEMMA MoveOwned ==
  ASSUME TypeOK, Owned, NEW p \in Proc, NEW ph \in {"closing", "hooks"},
         phase[p] \in {"grading", "closing"},
         Go(p, ph),
         next' = next \/ next' = [next EXCEPT ![p] = "leave"],
         UNCHANGED <<sid, torn, made, origin, runners, work, token>>
  PROVE  Owned'
<1> USE ConnAssumption, MaxStartsAssumption DEF TypeOK, Owned, Await, Go, Busy, Working, Proc
<1>1. Numbered'
  BY DEF Numbered, InSession
<1>2. StartInTable'
  BY DEF StartInTable, OneHolder, InSession
<1>3. OneHolder'
  BY DEF OneHolder, InSession
<1>4. ClaimIsStarter'
  BY DEF ClaimIsStarter, Numbered, InSession
<1>5. TornOnce'
  BY DEF TornOnce, Numbered, InSession
<1> QED
  BY <1>1, <1>2, <1>3, <1>4, <1>5

\* A coroutine that ends up with no runner, having torn one down or never had one.
LEMMA ReleaseOwned ==
  ASSUME TypeOK, Owned, NEW p \in Proc, NEW ph \in {"accepted", "first", "reading", "unread"} \cup Writing \cup Ended,
         Go(p, ph),
         torn' = torn \/ (phase[p] = "hooks" /\ torn' = torn \cup {work[p]}),
         work' = work \/ work' = [work EXCEPT ![p] = None],
         UNCHANGED <<made, origin, runners, token, next>>,
         sid' = sid \/ (p \in Conn /\ ~Busy(p) /\ \E s \in Conn : sid' = [sid EXCEPT ![p] = s])
  PROVE  Owned'
<1> USE ConnAssumption, MaxStartsAssumption DEF TypeOK, Owned, Await, Go, Busy, Working, Writing, Ended, Proc
<1>1. Numbered'
  BY DEF Numbered, InSession
<1>2. StartInTable'
  BY DEF StartInTable, OneHolder, InSession
<1>3. OneHolder'
  BY DEF OneHolder, InSession
<1>4. ClaimIsStarter'
  BY DEF ClaimIsStarter, Numbered, InSession
<1>5. TornOnce'
  BY DEF TornOnce, Numbered, InSession, OneHolder, None, Runner
<1> QED
  BY <1>1, <1>2, <1>3, <1>4, <1>5

\* A new runner enters the table under a session that has none.
LEMMA LaunchOwned ==
  ASSUME TypeOK, Owned, NEW c \in Conn,
         runners[sid[c]] = None,
         \A d \in Conn \ {c} : Busy(d) => sid[d] # sid[c],
         made < MaxStarts,
         made' = made + 1,
         origin' = [origin EXCEPT ![made + 1] = sid[c]],
         runners' = [runners EXCEPT ![sid[c]] = made + 1],
         Await(c, "starting", made + 1, sid[c], "reply"),
         \/ torn' = torn /\ ~Busy(c)
         \/ phase[c] = "hooks" /\ torn' = torn \cup {work[c]},
         sid' = sid
  PROVE  Owned'
<1> USE ConnAssumption, MaxStartsAssumption DEF TypeOK, Owned, Await, Go, Busy, Working, Proc
<1>0. made + 1 \in Runner /\ made' = made + 1 /\ made \in Nat
  BY DEF Runner
<1>1. Numbered'
  <2>1. \A q \in Proc : Busy(q)' => work'[q] \in 1..made'
    BY <1>0 DEF Numbered, InSession, Runner
  <2>2. \A t \in Conn : runners'[t] # None => /\ runners'[t] \in 1..made'
                                             /\ origin'[runners'[t]] = t
    BY <1>0 DEF Numbered, InSession, None, Runner
  <2>3. torn' \subseteq 1..made'
    <3>1. torn \subseteq 1..made /\ (phase[c] = "hooks" => work[c] \in 1..made)
      BY DEF Numbered
    <3>2. 1..made \subseteq 1..made'
      BY <1>0
    <3> QED
      BY <3>1, <3>2
  <2> QED
    BY <2>1, <2>2, <2>3 DEF Numbered
<1>2. StartInTable'
  BY DEF StartInTable, OneHolder, InSession
<1>3. OneHolder'
  BY DEF OneHolder, Numbered, InSession, None, Runner
<1>4. ClaimIsStarter'
  BY DEF ClaimIsStarter, Numbered, InSession, None, Runner
<1>5. TornOnce'
  BY DEF TornOnce, Numbered, InSession, OneHolder, None, Runner
<1> QED
  BY <1>1, <1>2, <1>3, <1>4, <1>5

-----------------------------------------------------------------------------
(* What a coroutine can do to the sessions.                                  *)

\* Which sessions there are, and which of them have a connection.
Sessions == Unopened /\ LiveSessions

\* A coroutine that neither opens nor ends a session, and a table that gains no
\* runner but its own.
LEMMA StaySessions ==
  ASSUME TypeOK, Sessions, NEW p \in Proc, NEW ph,
         Go(p, ph), sid' = sid, live' = live,
         p \in Conn => (phase[p] \in InSession <=> ph \in InSession),
         ph \in {"idle", "accepted", "first"} => p = Main \/ phase[p] \in {"idle", "accepted", "first"},
         \A s \in Conn : \/ runners'[s] \in {None, runners[s]}
                         \/ p \in Conn /\ phase[p] \in InSession /\ s = sid[p]
  PROVE  Sessions'
<1> USE ConnAssumption DEF TypeOK, Sessions, Go, Working, Writing, Proc
<1>1. Unopened'
  BY DEF Unopened, InSession
<1>2. LiveSessions'
  BY DEF LiveSessions
<1> QED
  BY <1>1, <1>2

\* A handler that ends its session.
LEMMA LeaveSessions ==
  ASSUME TypeOK, Sessions, NEW c \in Conn, phase[c] \in InSession,
         Leave(c), sid' = sid,
         \A s \in Conn : runners'[s] \in {None, runners[s]}
  PROVE  Sessions'
<1> USE ConnAssumption DEF TypeOK, Sessions, Go, Leave, Close, Writing, Working, Proc
<1>1. Unopened'
  BY DEF Unopened, InSession
<1>2. LiveSessions'
  BY DEF LiveSessions, InSession
<1> QED
  BY <1>1, <1>2

\* A connection that opens its session, or closes without one.
LEMMA OpenSessions ==
  ASSUME TypeOK, Sessions, NEW c \in Conn, FirstFrame(c)
  PROVE  Sessions'
<1> USE ConnAssumption DEF TypeOK, Sessions, Go, FirstFrame, Close, Writing, Working, Proc
<1>1. Unopened'
  BY DEF Unopened, InSession
<1>2. LiveSessions'
  <2>1. CASE phase' = [phase EXCEPT ![c] = "reading"] /\ live' = live \cup {c}
    BY <2>1 DEF LiveSessions, InSession, Unopened
  <2>2. CASE (\E ph \in {"gone", "unread"} : phase' = [phase EXCEPT ![c] = ph]) /\ live' = live
    BY <2>2 DEF LiveSessions, InSession
  <2> QED
    BY <2>1, <2>2
<1> QED
  BY <1>1, <1>2

\* A handler that takes over a parked session.
LEMMA ResumeSessions ==
  ASSUME TypeOK, Sessions, NEW c \in Conn, NEW s \in Conn, HelloResume(c, s)
  PROVE  Sessions'
<1> USE ConnAssumption DEF TypeOK, Sessions, Go, HelloResume, Resumable, Reading, Close, Writing, Working, Proc
<1>1. Unopened'
  BY DEF Unopened, InSession
<1>2. LiveSessions'
  <2>1. CASE /\ \E ph \in {"reading", "writing"} : phase' = [phase EXCEPT ![c] = ph]
             /\ live' = (live \ {sid[c]}) \cup {s}
    BY <2>1 DEF LiveSessions, InSession
  <2>2. CASE /\ \E ph \in {"gone", "unread"} : phase' = [phase EXCEPT ![c] = ph]
             /\ live' = live \ {sid[c], s}
    BY <2>2 DEF LiveSessions, InSession
  <2> QED
    BY <2>1, <2>2
<1> QED
  BY <1>1, <1>2

-----------------------------------------------------------------------------
(* Ownership is an invariant, provided no connection is caught between accept *)
(* and its handler's first step when the shutdown begins.                     *)

\* Nobody but c works in the session c carries, nor in a parked one.
LEMMA AloneInSession ==
  ASSUME TypeOK, Sessions, NEW c \in Conn, phase[c] \in InSession,
         NEW s \in Conn, s = sid[c] \/ s \notin live
  PROVE  \A d \in Conn \ {c} : Busy(d) => sid[d] # s
  BY DEF Sessions, LiveSessions, InSession, Busy, Working

\* A handler that takes its own session's runner to tear it down.
LEMMA TeardownOwn ==
  ASSUME TypeOK, Owned, Sessions, NEW c \in Conn, NEW k \in {"reply", "start", "bye", "leave"},
         phase[c] \in {"reading", "starting"},
         Teardown(c, sid[c], k),
         UNCHANGED <<sid, live, torn, made, origin>>
  PROVE  Owned' /\ Sessions'
<1>1. sid[c] \in Conn /\ c \in Proc
  BY DEF TypeOK, Proc
<1>2. \A d \in Conn \ {c} : Busy(d) => sid[d] # sid[c]
  BY <1>1, AloneInSession DEF InSession, Working
<1>3. ~Busy(c) \/ phase[c] = "starting"
  BY DEF Busy, Working
<1>4. PICK s \in Conn : s = sid[c]
  BY <1>1
<1>5. Owned'
  <2>1. /\ runners[s] # None
        /\ runners' = [runners EXCEPT ![s] = None]
        /\ Await(c, "closing", runners[s], s, k)
    BY <1>4 DEF Teardown
  <2>2. UNCHANGED <<sid, torn, made, origin>>
    OBVIOUS
  <2> QED
    BY <1>1, <1>2, <1>3, <1>4, <2>1, <2>2, TakeOwned DEF Await, Busy
<1>6. Sessions'
  BY <1>1, StaySessions DEF Teardown, Await, InSession, Working, TypeOK
<1> QED
  BY <1>5, <1>6

\* A handler that is done with its runner, if it had one, and replies or ends.
LEMMA AnswerStep ==
  ASSUME TypeOK, Owned, Sessions, NEW c \in Conn, phase[c] \in InSession, Answer(c) \/ Part(c),
         torn' = torn \/ (phase[c] = "hooks" /\ torn' = torn \cup {work[c]}),
         work' = work \/ work' = [work EXCEPT ![c] = None],
         UNCHANGED <<sid, next, token, runners, made, origin>>
  PROVE  Owned' /\ Sessions'
<1>1. Owned'
  BY ReleaseOwned DEF Answer, Part, Leave, Close, Go, Proc, Writing, Ended
<1>2. ASSUME NEW ph \in {"reading", "writing", "parting"}, Go(c, ph), live' = live
      PROVE  Owned' /\ Sessions'
  BY <1>1, <1>2, StaySessions DEF Proc, InSession, Writing, TypeOK, ConnAssumption
<1>3. CASE Leave(c)
  BY <1>1, <1>3, LeaveSessions
<1> QED
  BY <1>2, <1>3 DEF Answer, Part

\* A handler whose session has no runner launches one, or fails to.
LEMMA LaunchStep ==
  ASSUME TypeOK, Owned, Sessions, NEW c \in Conn, phase[c] \in InSession, Launch(c),
         runners[sid[c]] = None,
         \/ torn' = torn /\ ~Busy(c)
         \/ phase[c] = "hooks" /\ torn' = torn \cup {work[c]},
         UNCHANGED sid
  PROVE  Owned' /\ Sessions'
<1>1. CASE /\ Answer(c)
           /\ work' = [work EXCEPT ![c] = None]
           /\ UNCHANGED <<next, token, runners, made, origin>>
  BY <1>1, AnswerStep
<1>2. CASE /\ made < MaxStarts
           /\ made' = made + 1
           /\ origin' = [origin EXCEPT ![made + 1] = sid[c]]
           /\ runners' = [runners EXCEPT ![sid[c]] = made + 1]
           /\ Await(c, "starting", made + 1, sid[c], "reply")
           /\ live' = live
  <2>1. \A d \in Conn \ {c} : Busy(d) => sid[d] # sid[c]
    BY AloneInSession DEF TypeOK
  <2>2. Owned'
    BY <1>2, <2>1, LaunchOwned
  <2>3. Sessions'
    BY <1>2, StaySessions DEF Await, InSession, Working, TypeOK, Proc
  <2> QED
    BY <2>2, <2>3
<1> QED
  BY <1>1, <1>2 DEF Launch

\* Every handler step keeps the sessions and the runners in order.
LEMMA ConnStep ==
  ASSUME TypeOK, Owned, Sessions, NEW c \in Conn, HandlerStep(c) \/ PeerStep(c)
  PROVE  Owned' /\ Sessions'
<1> USE ConnAssumption DEF Proc, Go, runnerVars, serverVars, Reading
<1> c \in Proc
  OBVIOUS
<1> USE DEF Writing, Ended
<1>1. CASE Accept(c)
  BY <1>1, ReleaseOwned, StaySessions DEF Accept, TypeOK, InSession, Working
<1>2. CASE Open(c)
  BY <1>2, ReleaseOwned, StaySessions DEF Open, TypeOK, InSession, Working
<1>3. CASE FirstFrame(c)
  BY <1>3, ReleaseOwned, OpenSessions DEF FirstFrame, Close
<1>4. CASE HangUp(c)
  BY <1>4, ReleaseOwned, LeaveSessions DEF HangUp, Leave, Close, InSession
<1>16. CASE Ask(c)
  BY <1>16, AnswerStep DEF Ask, InSession
<1>17. CASE Taken(c)
  <2>1. Answer(c)
    BY <1>17 DEF Taken, Answer
  <2> QED
    BY <1>17, <2>1, AnswerStep DEF Taken, InSession
<1>18. CASE Flushed(c)
  BY <1>18, ReleaseOwned, StaySessions DEF Flushed, TypeOK, InSession, Working
<1>5. ASSUME NEW s \in Conn, HelloResume(c, s)
      PROVE  Owned' /\ Sessions'
  BY <1>5, ReleaseOwned, ResumeSessions DEF HelloResume, Close, Busy, Working
<1>6. CASE TasksStart(c)
  <2>1. CASE Teardown(c, sid[c], "start") /\ UNCHANGED <<live, runnerVars>>
    BY <1>6, <2>1, TeardownOwn DEF TasksStart
  <2>2. CASE runners[sid[c]] = None /\ Launch(c)
    BY <1>6, <2>2, LaunchStep DEF TasksStart, Busy, Working, InSession
  <2> QED
    BY <1>6, <2>1, <2>2 DEF TasksStart
<1>7. CASE StartReturns(c)
  <2>1. CASE Answer(c) /\ work' = [work EXCEPT ![c] = None] /\ UNCHANGED <<next, token, runners>>
    BY <1>7, <2>1, AnswerStep DEF StartReturns, Working, InSession
  <2>2. CASE Teardown(c, sid[c], "reply") /\ UNCHANGED live
    BY <1>7, <2>2, TeardownOwn DEF StartReturns
  <2> QED
    BY <1>7, <2>1, <2>2 DEF StartReturns
<1>8. CASE StartFails(c)
  <2>1. runners[sid[c]] = work[c] /\ work[c] # None
    BY <1>8 DEF StartFails, Owned, StartInTable, Numbered, Busy, Working, None
  <2>2. Teardown(c, sid[c], "reply")
    BY <1>8, <2>1 DEF StartFails, Teardown
  <2> QED
    BY <1>8, <2>2, TeardownOwn DEF StartFails
<1>9. CASE TasksGrade(c)
  <2>1. ASSUME NEW s \in Conn,
               IF runners[sid[c]] # None THEN s = sid[c] ELSE Parked = {s},
               runners' = [runners EXCEPT ![s] = None],
               Grading(c, s),
               UNCHANGED live
        PROVE  Owned' /\ Sessions'
    <3>1. runners[s] # None /\ (s = sid[c] \/ s \notin live)
      BY <2>1 DEF Parked
    <3>2. \A d \in Conn \ {c} : Busy(d) => sid[d] # s
      BY <1>9, <3>1, AloneInSession DEF TasksGrade, InSession
    <3>3. Owned'
      BY <1>9, <2>1, <3>1, <3>2, TakeOwned DEF TasksGrade, Grading, Busy, Working
    <3>4. Sessions'
      BY <1>9, <2>1, StaySessions
         DEF TasksGrade, Grading, Await, InSession, Working, TypeOK
    <3> QED
      BY <3>3, <3>4
  <2>2. CASE Answer(c) /\ UNCHANGED <<work, next, token, runners>>
    BY <1>9, <2>2, AnswerStep DEF TasksGrade, Working, InSession
  <2> QED
    BY <1>9, <2>1, <2>2 DEF TasksGrade
<1>10. CASE TasksCancel(c)
  <2>1. CASE Teardown(c, sid[c], "reply") /\ UNCHANGED live
    BY <1>10, <2>1, TeardownOwn DEF TasksCancel
  <2>2. CASE Answer(c) /\ UNCHANGED <<work, next, token, runners>>
    BY <1>10, <2>2, AnswerStep DEF TasksCancel, Working, InSession
  <2> QED
    BY <1>10, <2>1, <2>2 DEF TasksCancel
<1>11. CASE Bye(c)
  <2>1. CASE Teardown(c, sid[c], "bye") /\ UNCHANGED live
    BY <1>11, <2>1, TeardownOwn DEF Bye
  <2>2. CASE Part(c) /\ UNCHANGED <<work, next, token, runners>>
    BY <1>11, <2>2, AnswerStep DEF Bye, Working, InSession
  <2> QED
    BY <1>11, <2>1, <2>2 DEF Bye
<1>12. CASE GradeReturns(c)
  BY <1>12, MoveOwned, StaySessions DEF GradeReturns, InSession, Working, TypeOK
<1>13. CASE Closed(c)
  BY <1>13, MoveOwned, StaySessions DEF Closed, InSession, Working, TypeOK
<1>14. CASE HooksRan(c)
  <2>1. CASE next[c] = "start" /\ Launch(c)
    <3>1. runners[sid[c]] = None
      BY <1>14, <2>1 DEF HooksRan, Owned, StartInTable
    <3> QED
      BY <1>14, <2>1, <3>1, LaunchStep DEF HooksRan, Working, InSession
  <2>2. CASE /\ Answer(c) \/ Part(c) \/ Leave(c)
             /\ work' = [work EXCEPT ![c] = None]
             /\ UNCHANGED <<next, token, runners, runnerVars>>
    BY <1>14, <2>2, AnswerStep DEF HooksRan, Working, InSession, Answer
  <2> QED
    BY <1>14, <2>1, <2>2 DEF HooksRan
<1>15. CASE Cancelled(c)
  <2>1. CASE /\ \/ phase[c] = "first" /\ Close(c)
                \/ phase[c] = "unread" /\ Go(c, "left")
             /\ UNCHANGED <<work, next, token, runners, live>>
    BY <1>15, <2>1, ReleaseOwned, StaySessions DEF Cancelled, Close, InSession, Working, TypeOK
  <2>2. CASE /\ phase[c] \in {"reading", "closing", "hooks"} \cup Writing
             /\ Leave(c)
             /\ work' = work \/ work' = [work EXCEPT ![c] = None]
             /\ UNCHANGED <<next, token, runners>>
    BY <1>15, <2>2, AnswerStep DEF Cancelled, Working, InSession, Answer
  <2>3. CASE /\ phase[c] = "starting"
             /\ runners' = [runners EXCEPT ![sid[c]] = None]
             /\ Await(c, "closing", work[c], sid[c], "leave")
             /\ UNCHANGED live
    <3>1. runners[sid[c]] = work[c] /\ work[c] # None
      BY <2>3 DEF Owned, StartInTable, Numbered, Busy, Working, None
    <3>2. Teardown(c, sid[c], "leave")
      BY <2>3, <3>1 DEF Teardown
    <3> QED
      BY <1>15, <2>3, <3>2, TeardownOwn DEF Cancelled
  <2>4. CASE /\ phase[c] = "grading"
             /\ Await(c, "closing", work[c], token[c], "leave")
             /\ UNCHANGED <<runners, live>>
    <3>1. UNCHANGED <<work, token>> /\ next' = [next EXCEPT ![c] = "leave"]
      BY <2>4 DEF Await, TypeOK
    <3> QED
      BY <1>15, <2>4, <3>1, MoveOwned, StaySessions
         DEF Cancelled, Await, InSession, Working, TypeOK
  <2> QED
    BY <1>15, <2>1, <2>2, <2>3, <2>4 DEF Cancelled
<1> QED
  BY <1>1, <1>2, <1>3, <1>4, <1>5, <1>6, <1>7, <1>8, <1>9, <1>10, <1>11, <1>12,
     <1>13, <1>14, <1>15, <1>16, <1>17, <1>18 DEF HandlerStep, PeerStep
\* Every step of serve() and _shutdown() does too.
LEMMA MainStep ==
  ASSUME TypeOK, Owned, Sessions, ShutdownOrder, Shutdown \/ ShutdownStep
  PROVE  Owned' /\ Sessions'
<1> USE ConnAssumption DEF Go, runnerVars, serverVars
<1> Main \in Proc /\ Main \notin Conn
  BY DEF Proc
<1>1. CASE Shutdown \/ Drained \/ Stop
  <2>1. UNCHANGED <<phase, sid, work, next, token, runners, live, torn, made, origin>>
    BY <1>1 DEF Shutdown, Drained, Stop
  <2> QED
    BY <2>1 DEF Owned, Sessions, Numbered, StartInTable, OneHolder,
       ClaimIsStarter, TornOnce, Unopened, LiveSessions, Busy
<1>2. CASE Closed(Main)
  BY <1>2, MoveOwned, StaySessions DEF Closed, TypeOK
<1>3. CASE SweepRan
  BY <1>3, ReleaseOwned, StaySessions DEF SweepRan, TypeOK, Ended
<1>4. ASSUME NEW s \in Conn, Sweep(s)
      PROVE  Owned' /\ Sessions'
  <2>1. CASE Teardown(Main, s, "leave")
    <3>1. \A d \in Conn \ {Main} : Busy(d) => sid[d] # s
      BY <1>4 DEF Sweep, ShutdownOrder, Busy, Working, Ended
    <3>2. ~Busy(Main)
      BY <1>4 DEF Sweep, Busy, Working
    <3>3. Owned'
      BY <1>4, <2>1, <3>1, <3>2, TakeOwned DEF Sweep, Teardown
    <3>4. Sessions'
      BY <1>4, <2>1, StaySessions DEF Sweep, Teardown, Await, TypeOK
    <3> QED
      BY <3>3, <3>4
  <2>2. CASE UNCHANGED <<phase, work, next, token, runners>>
    BY <1>4, <2>2 DEF Sweep, Owned, Sessions, Numbered, StartInTable,
       OneHolder, ClaimIsStarter, TornOnce, Unopened, LiveSessions, Busy
  <2> QED
    BY <1>4, <2>1, <2>2 DEF Sweep
<1> QED
  BY <1>1, <1>2, <1>3, <1>4 DEF ShutdownStep

\* The shutdown tears nothing down before every handler has ended, and no
\* handler starts afterwards.
LEMMA OrderStep ==
  ASSUME TypeOK, ShutdownOrder, ~LateAccept, [Next]_vars
  PROVE  ShutdownOrder'
<1> USE ConnAssumption DEF Go, runnerVars, serverVars, TypeOK, ShutdownOrder, Proc, Ended, Writing
<1>1. ASSUME NEW c \in Conn, Accept(c) PROVE ShutdownOrder'
  BY <1>1 DEF Accept
<1>2. ASSUME NEW c \in Conn, Open(c) PROVE ShutdownOrder'
  BY <1>2 DEF Open
<1>3. ASSUME NEW c \in Conn, FirstFrame(c) PROVE ShutdownOrder'
  BY <1>3 DEF FirstFrame, Close
<1>4. ASSUME NEW c \in Conn, HangUp(c) \/ Ask(c) \/ Taken(c) \/ Flushed(c) PROVE ShutdownOrder'
  BY <1>4 DEF HangUp, Ask, Taken, Flushed, Answer, Leave, Close, Reading, Writing
<1>5. ASSUME NEW c \in Conn, TasksStart(c) PROVE ShutdownOrder'
  BY <1>5 DEF TasksStart, Reading, Teardown, Launch, Await, Answer, Leave, Close
<1>6. ASSUME NEW c \in Conn, StartReturns(c) PROVE ShutdownOrder'
  BY <1>6 DEF StartReturns, Teardown, Await, Answer, Leave, Close
<1>7. ASSUME NEW c \in Conn, StartFails(c) PROVE ShutdownOrder'
  BY <1>7 DEF StartFails, Await
<1>8. ASSUME NEW c \in Conn, TasksGrade(c) PROVE ShutdownOrder'
  BY <1>8 DEF TasksGrade, Reading, Grading, Await, Answer, Leave, Close
<1>9. ASSUME NEW c \in Conn, TasksCancel(c) PROVE ShutdownOrder'
  BY <1>9 DEF TasksCancel, Reading, Teardown, Await, Answer, Leave, Close
<1>10. ASSUME NEW c \in Conn, Bye(c) PROVE ShutdownOrder'
  BY <1>10 DEF Bye, Part, Reading, Teardown, Await, Leave, Close
<1>11. ASSUME NEW c \in Conn, GradeReturns(c) PROVE ShutdownOrder'
  BY <1>11 DEF GradeReturns
<1>12. ASSUME NEW c \in Conn, HooksRan(c) PROVE ShutdownOrder'
  BY <1>12 DEF HooksRan, Part, Launch, Await, Answer, Leave, Close
<1>13. ASSUME NEW c \in Conn, Cancelled(c) PROVE ShutdownOrder'
  BY <1>13 DEF Cancelled, Await, Leave, Close
<1>14. ASSUME NEW c \in Conn, NEW s \in Conn, HelloResume(c, s) PROVE ShutdownOrder'
  BY <1>14 DEF HelloResume, Close, Reading
<1>15. ASSUME NEW p \in Proc, Closed(p) PROVE ShutdownOrder'
  BY <1>15 DEF Closed
<1>16. CASE Shutdown
  BY <1>16 DEF Shutdown, Active, InSession, Working
<1>17. CASE Drained
  BY <1>17 DEF Drained
<1>18. ASSUME NEW s \in Conn, Sweep(s) PROVE ShutdownOrder'
  BY <1>18 DEF Sweep, Teardown, Await
<1>19. CASE SweepRan
  BY <1>19 DEF SweepRan
<1>20. CASE Stop
  BY <1>20 DEF Stop
<1>21. CASE UNCHANGED vars
  BY <1>21 DEF vars
<1> QED
  BY <1>1, <1>2, <1>3, <1>4, <1>5, <1>6, <1>7, <1>8, <1>9, <1>10, <1>11,
     <1>12, <1>13, <1>14, <1>15, <1>16, <1>17, <1>18, <1>19, <1>20, <1>21
     DEF Next, HandlerStep, PeerStep, ShutdownStep

\* Ownership, session identity and teardown hold in every reachable state.
THEOREM Safety == ASSUME ~LateAccept PROVE Spec => []Inv
<1>1. Init => Inv
  BY TypeInit, ConnAssumption DEF Init, Inv, Numbered, StartInTable, OneHolder,
     ClaimIsStarter, TornOnce, Unopened, LiveSessions, ShutdownOrder, Busy,
     Working, Writing, InSession, None, Ended, Proc
<1>2. Inv /\ [Next]_vars => Inv'
  <2> SUFFICES ASSUME Inv, [Next]_vars PROVE Inv'
    OBVIOUS
  <2>1. WorkOK
    BY MaxStartsAssumption DEF Inv, Numbered, WorkOK, TypeOK, Runner
  <2>2. TypeOK' /\ ShutdownOrder'
    BY <2>1, TypeStep, OrderStep DEF Inv
  <2>3. Owned /\ Sessions
    BY DEF Inv, Owned, Sessions
  <2>4. CASE UNCHANGED vars
    BY <2>2, <2>4 DEF vars, Inv, Numbered, StartInTable, OneHolder,
       ClaimIsStarter, TornOnce, Unopened, LiveSessions, Busy
  <2>5. CASE Next
    <3>1. Owned' /\ Sessions'
      BY <2>3, <2>5, ConnStep, MainStep DEF Next, Inv
    <3> QED
      BY <2>2, <3>1 DEF Inv, Owned, Sessions
  <2> QED
    BY <2>4, <2>5
<1> QED
  BY <1>1, <1>2, PTL DEF Spec
\* No runner is ever in two hands: the generator of a task is never re-entered
\* and its teardown never raced.
THEOREM OneHolderAlways == ASSUME ~LateAccept PROVE Spec => []OneHolder
<1>1. Inv => OneHolder
  BY DEF Inv
<1> QED
  BY <1>1, Safety, PTL

\* Sessions are never shared, and exactly those with a connection are live.
THEOREM LiveSessionsAlways == ASSUME ~LateAccept PROVE Spec => []LiveSessions
<1>1. Inv => LiveSessions
  BY DEF Inv
<1> QED
  BY <1>1, Safety, PTL

\* A task's own code and its hooks always run under the session it was started
\* in, whoever grades it or tears it down, and the hooks never run twice for it.
THEOREM HooksSoundAlways == ASSUME ~LateAccept PROVE Spec => []HooksSound
<1>1. Inv => HooksSound
  BY DEF Inv, HooksSound
<1> QED
  BY <1>1, Safety, PTL

-----------------------------------------------------------------------------
(* The control channel implements the ledger of tasks: every step takes,       *)
(* finishes, starts or replaces a task of the ledger, or leaves it alone.      *)

\* What the ledger calls the state of each runner.
StateOf == [r \in Runner |->
              IF r > made THEN "unborn"
              ELSE IF \E s \in Conn : runners[s] = r THEN "kept"
              ELSE IF r \in torn THEN "over" ELSE "taken"]

\* A handler that tears a runner down in order to start another is still in the
\* session that runner was started under.
StartOwn ==
  \A c \in Conn : phase[c] \in {"closing", "hooks"} /\ next[c] = "start" => token[c] = sid[c]

\* Every step keeps that: a session changes hands only while its handler reads.
LEMMA StartOwnStep ==
  ASSUME TypeOK, StartInTable, StartOwn, [Next]_vars
  PROVE  StartOwn'
<1> USE ConnAssumption DEF Go, runnerVars, serverVars, TypeOK, StartOwn, StartInTable, Proc
<1>1. ASSUME NEW c \in Conn, Accept(c) PROVE StartOwn'
  BY <1>1 DEF Accept
<1>2. ASSUME NEW c \in Conn, Open(c) PROVE StartOwn'
  BY <1>2 DEF Open
<1>3. ASSUME NEW c \in Conn, FirstFrame(c) PROVE StartOwn'
  BY <1>3 DEF FirstFrame, Close
<1>4. ASSUME NEW c \in Conn, HangUp(c) \/ Ask(c) \/ Taken(c) \/ Flushed(c) PROVE StartOwn'
  BY <1>4 DEF HangUp, Ask, Taken, Flushed, Answer, Leave, Close, Reading, Writing
<1>5. ASSUME NEW c \in Conn, TasksStart(c) PROVE StartOwn'
  BY <1>5 DEF TasksStart, Reading, Teardown, Launch, Await, Answer, Leave, Close
<1>6. ASSUME NEW c \in Conn, StartReturns(c) PROVE StartOwn'
  BY <1>6 DEF StartReturns, Teardown, Await, Answer, Leave, Close
<1>7. ASSUME NEW c \in Conn, StartFails(c) PROVE StartOwn'
  BY <1>7 DEF StartFails, Await
<1>8. ASSUME NEW c \in Conn, TasksGrade(c) PROVE StartOwn'
  BY <1>8 DEF TasksGrade, Reading, Grading, Await, Answer, Leave, Close
<1>9. ASSUME NEW c \in Conn, TasksCancel(c) PROVE StartOwn'
  BY <1>9 DEF TasksCancel, Reading, Teardown, Await, Answer, Leave, Close
<1>10. ASSUME NEW c \in Conn, Bye(c) PROVE StartOwn'
  BY <1>10 DEF Bye, Part, Reading, Teardown, Await, Leave, Close
<1>11. ASSUME NEW c \in Conn, GradeReturns(c) PROVE StartOwn'
  BY <1>11 DEF GradeReturns
<1>12. ASSUME NEW c \in Conn, HooksRan(c) PROVE StartOwn'
  BY <1>12 DEF HooksRan, Part, Launch, Await, Answer, Leave, Close
<1>13. ASSUME NEW c \in Conn, Cancelled(c) PROVE StartOwn'
  BY <1>13 DEF Cancelled, Await, Leave, Close
<1>14. ASSUME NEW c \in Conn, NEW s \in Conn, HelloResume(c, s) PROVE StartOwn'
  BY <1>14 DEF HelloResume, Close, Reading
<1>15. ASSUME NEW p \in Proc, Closed(p) PROVE StartOwn'
  BY <1>15 DEF Closed
<1>16. CASE Shutdown \/ Drained \/ Stop
  BY <1>16 DEF Shutdown, Drained, Stop
<1>17. ASSUME NEW s \in Conn, Sweep(s) PROVE StartOwn'
  BY <1>17 DEF Sweep, Teardown, Await
<1>18. CASE SweepRan
  BY <1>18 DEF SweepRan
<1>19. CASE UNCHANGED vars
  BY <1>19 DEF vars
<1> QED
  BY <1>1, <1>2, <1>3, <1>4, <1>5, <1>6, <1>7, <1>8, <1>9, <1>10, <1>11,
     <1>12, <1>13, <1>14, <1>15, <1>16, <1>17, <1>18, <1>19
     DEF Next, HandlerStep, PeerStep, ShutdownStep

\* A function that differs from another at one argument.
LEMMA DiffersAt ==
  ASSUME NEW S, NEW f, NEW g, NEW x \in S, NEW y,
         f = [r \in S |-> f[r]], g = [r \in S |-> g[r]],
         g[x] = y, \A r \in S \ {x} : g[r] = f[r]
  PROVE  g = [f EXCEPT ![x] = y]
  OBVIOUS

\* What is taken out of the table was kept, and is in no other session's hands.
LEMMA LedgerTakes ==
  ASSUME TypeOK, Owned, NEW s \in Conn, runners[s] # None,
         runners' = [runners EXCEPT ![s] = None],
         UNCHANGED <<torn, made, origin>>
  PROVE  Ledger!Take(s)
<1> DEFINE r0 == runners[s]
<1>1. r0 \in Runner /\ r0 <= made /\ r0 \notin torn /\ r0 # None
  BY MaxStartsAssumption DEF Owned, Numbered, TornOnce, TypeOK, Runner, None
<1>2. \A t \in Conn : runners'[t] # r0
  BY <1>1 DEF Owned, OneHolder, TypeOK
<1>3. \A r \in Runner : r # r0 => ((\E t \in Conn : runners'[t] = r) <=> (\E t \in Conn : runners[t] = r))
  BY <1>1 DEF TypeOK, Runner, None
<1>4. StateOf' = [StateOf EXCEPT ![r0] = "taken"]
  <2>1. StateOf'[r0] = "taken"
    BY <1>1, <1>2 DEF StateOf, Runner, TypeOK
  <2>2. \A r \in Runner \ {r0} : StateOf'[r] = StateOf[r]
    BY <1>3 DEF StateOf
  <2>3. StateOf = [r \in Runner |-> StateOf[r]] /\ StateOf' = [r \in Runner |-> StateOf'[r]]
    BY DEF StateOf
  <2> HIDE DEF r0
  <2> QED
    BY <1>1, <2>1, <2>2, <2>3, DiffersAt
<1> QED
  BY <1>4 DEF Ledger!Take, StateOf, None

\* A runner whose hooks have run was out of the table and not torn down before.
LEMMA LedgerFinishes ==
  ASSUME TypeOK, Owned, NEW p \in Proc, phase[p] = "hooks",
         torn' = torn \cup {work[p]},
         UNCHANGED <<runners, made, origin>>
  PROVE  Ledger!Next
<1>1. PICK w \in Runner : w = work[p]
  BY MaxStartsAssumption DEF Owned, Numbered, Busy, Working, TypeOK, Runner
<1>2. w <= made /\ w \notin torn /\ \A s \in Conn : runners[s] # w
  BY <1>1, MaxStartsAssumption DEF Owned, Numbered, TornOnce, OneHolder, Busy, Working, TypeOK, Runner
<1>3. StateOf[w] = "taken" /\ StateOf'[w] = "over"
  BY <1>1, <1>2 DEF StateOf, TypeOK, Runner
<1>4. StateOf' = [StateOf EXCEPT ![w] = "over"]
  <2>1. \A r \in Runner \ {w} : StateOf'[r] = StateOf[r]
    BY <1>1 DEF StateOf
  <2>2. StateOf = [r \in Runner |-> StateOf[r]] /\ StateOf' = [r \in Runner |-> StateOf'[r]]
    BY DEF StateOf
  <2> QED
    BY <1>3, <2>1, <2>2, DiffersAt
<1>5. Ledger!Finish(w)
  BY <1>3, <1>4 DEF Ledger!Finish, StateOf
<1> QED
  BY <1>1, <1>5 DEF Ledger!Next, Ledger!Task, Runner

\* A new runner enters the table under a session that has none, after the
\* teardown of that session's previous runner where there was one.
LEMMA LedgerLaunches ==
  ASSUME TypeOK, Owned, StartOwn, NEW c \in Conn, runners[sid[c]] = None,
         made < MaxStarts,
         made' = made + 1,
         origin' = [origin EXCEPT ![made + 1] = sid[c]],
         runners' = [runners EXCEPT ![sid[c]] = made + 1],
         \/ torn' = torn
         \/ phase[c] = "hooks" /\ next[c] = "start" /\ torn' = torn \cup {work[c]}
  PROVE  Ledger!Next
<1>1. PICK s \in Conn : s = sid[c]
  BY DEF TypeOK
<1>2. PICK n \in Runner : n = made + 1
  BY MaxStartsAssumption DEF TypeOK, Runner
<1>3. \A t \in Conn : runners[t] # n
  BY <1>2, MaxStartsAssumption DEF Owned, Numbered, TypeOK, Runner, None
<1>4. \A r \in Runner : r # n =>
        ((\E t \in Conn : runners'[t] = r) <=> (\E t \in Conn : runners[t] = r))
  BY <1>1, <1>2 DEF TypeOK, Runner, None
<1>5. StateOf[n] = "unborn" /\ StateOf'[n] = "kept"
  BY <1>1, <1>2 DEF StateOf, TypeOK, Runner
<1>6. StateOf = [r \in Runner |-> StateOf[r]] /\ StateOf' = [r \in Runner |-> StateOf'[r]]
  BY DEF StateOf
<1>7. CASE torn' = torn
  <2>1. \A r \in Runner \ {n} : StateOf'[r] = StateOf[r]
    BY <1>2, <1>4, <1>7 DEF StateOf, TypeOK, Runner
  <2>2. StateOf' = [StateOf EXCEPT ![n] = "kept"]
    BY <1>5, <1>6, <2>1, DiffersAt
  <2>3. Ledger!Start(s, n)
    BY <1>1, <1>2, <1>5, <2>2 DEF Ledger!Start, StateOf, None
  <2> QED
    BY <1>1, <1>2, <2>3 DEF Ledger!Next, Ledger!Task, Runner
<1>8. CASE phase[c] = "hooks" /\ next[c] = "start" /\ torn' = torn \cup {work[c]}
  <2>1. PICK w \in Runner : w = work[c]
    BY <1>8, MaxStartsAssumption DEF Owned, Numbered, Busy, Working, TypeOK, Runner, Proc
  <2>2. w <= made /\ w # n /\ w \notin torn /\ \A t \in Conn : runners[t] # w
    BY <1>2, <1>8, <2>1, MaxStartsAssumption
       DEF Owned, Numbered, TornOnce, OneHolder, Busy, Working, TypeOK, Runner, Proc
  <2>3. origin[w] = s
    BY <1>1, <1>8, <2>1 DEF Owned, ClaimIsStarter, StartOwn, Busy, Working, Proc
  <2>4. StateOf[w] = "taken" /\ StateOf'[w] = "over"
    BY <1>2, <1>4, <1>8, <2>1, <2>2 DEF StateOf, TypeOK, Runner
  <2>5. \A r \in Runner \ {n, w} : StateOf'[r] = StateOf[r]
    BY <1>2, <1>4, <1>8, <2>1 DEF StateOf, TypeOK, Runner
  <2>6. StateOf' = [[StateOf EXCEPT ![w] = "over"] EXCEPT ![n] = "kept"]
    <3> DEFINE mid == [StateOf EXCEPT ![w] = "over"]
    <3>1. mid = [r \in Runner |-> mid[r]]
      BY <1>6
    <3>2. \A r \in Runner \ {n} : StateOf'[r] = mid[r]
      BY <1>6, <2>4, <2>5
    <3> HIDE DEF mid
    <3>3. StateOf' = [mid EXCEPT ![n] = "kept"]
      BY <1>5, <1>6, <3>1, <3>2, DiffersAt
    <3> QED
      BY <3>3 DEF mid
  <2>7. Ledger!Replace(s, w, n)
    BY <1>1, <1>2, <1>5, <2>2, <2>3, <2>4, <2>6 DEF Ledger!Replace, StateOf, None
  <2> QED
    BY <1>1, <1>2, <2>1, <2>7 DEF Ledger!Next, Ledger!Task, Runner
<1> QED
  BY <1>7, <1>8

\* Steps that touch no runner leave the ledger alone.
LEMMA LedgerRests ==
  ASSUME UNCHANGED <<runners, torn, made, origin>>
  PROVE  UNCHANGED Ledger!vars
  BY DEF Ledger!vars

\* A launch that is refused, or one that starts a task.
LEMMA LedgerLaunchStep ==
  ASSUME TypeOK, Owned, StartOwn, NEW c \in Conn, runners[sid[c]] = None, Launch(c),
         \/ torn' = torn
         \/ phase[c] = "hooks" /\ next[c] = "start" /\ torn' = torn \cup {work[c]}
  PROVE  [Ledger!Next]_Ledger!vars
<1>1. CASE UNCHANGED <<runners, made, origin>> /\ torn' = torn
  BY <1>1, LedgerRests
<1>2. CASE /\ UNCHANGED <<runners, made, origin>>
           /\ phase[c] = "hooks" /\ torn' = torn \cup {work[c]}
  BY <1>2, LedgerFinishes DEF Proc
<1>3. CASE /\ made < MaxStarts
           /\ made' = made + 1
           /\ origin' = [origin EXCEPT ![made + 1] = sid[c]]
           /\ runners' = [runners EXCEPT ![sid[c]] = made + 1]
  <2>1. Ledger!Next
    BY <1>3, LedgerLaunches
  <2> QED
    BY <2>1
<1> QED
  BY <1>1, <1>2, <1>3 DEF Launch

\* Every step takes, finishes, starts or replaces one task of the ledger.
LEMMA LedgerStep ==
  ASSUME Inv, StartOwn, [Next]_vars
  PROVE  [Ledger!Next]_Ledger!vars
<1> USE DEF runnerVars, serverVars, Proc
<1>0. TypeOK /\ Owned /\ sid \in [Conn -> Conn]
  BY DEF Inv, Owned, TypeOK
<1>1. ASSUME NEW s \in Conn, runners[s] # None,
             runners' = [runners EXCEPT ![s] = None],
             UNCHANGED <<torn, made, origin>>
      PROVE  Ledger!Next
  BY <1>0, <1>1, LedgerTakes DEF Ledger!Next
<1>2. ASSUME NEW p \in Proc, phase[p] = "hooks",
             torn' = torn \cup {work[p]},
             UNCHANGED <<runners, made, origin>>
      PROVE  Ledger!Next
  BY <1>0, <1>2, LedgerFinishes
<1>3. ASSUME NEW c \in Conn,
             \/ Accept(c) \/ Open(c) \/ FirstFrame(c) \/ HangUp(c) \/ GradeReturns(c)
             \/ Ask(c) \/ Taken(c) \/ Flushed(c)
             \/ \E s \in Conn : HelloResume(c, s)
      PROVE  [Ledger!Next]_Ledger!vars
  BY <1>3, LedgerRests DEF Accept, Open, FirstFrame, HangUp, GradeReturns,
     Ask, Taken, Flushed, HelloResume
<1>4. ASSUME NEW p \in Proc, Closed(p) PROVE [Ledger!Next]_Ledger!vars
  BY <1>4, LedgerRests DEF Closed
<1>5. ASSUME NEW c \in Conn, TasksStart(c) PROVE [Ledger!Next]_Ledger!vars
  <2>1. CASE Teardown(c, sid[c], "start") /\ UNCHANGED runnerVars
    BY <1>0, <1>1, <1>5, <2>1 DEF TasksStart, Teardown
  <2>2. CASE runners[sid[c]] = None /\ Launch(c)
    BY <1>0, <1>5, <2>2, LedgerLaunchStep DEF TasksStart
  <2> QED
    BY <1>5, <2>1, <2>2 DEF TasksStart
<1>6. ASSUME NEW c \in Conn, StartReturns(c) PROVE [Ledger!Next]_Ledger!vars
  <2>1. CASE UNCHANGED runners
    BY <1>6, <2>1, LedgerRests DEF StartReturns
  <2>2. CASE Teardown(c, sid[c], "reply")
    BY <1>0, <1>1, <1>6, <2>2 DEF StartReturns, Teardown
  <2> QED
    BY <1>6, <2>1, <2>2 DEF StartReturns
<1>7. ASSUME NEW c \in Conn, phase[c] = "starting",
             runners' = [runners EXCEPT ![sid[c]] = None],
             UNCHANGED <<torn, made, origin>>
      PROVE  Ledger!Next
  <2>1. runners[sid[c]] # None
    BY <1>0, <1>7 DEF Owned, StartInTable, Numbered, Busy, Working, None
  <2> QED
    BY <1>0, <1>1, <1>7, <2>1
<1>8. ASSUME NEW c \in Conn, StartFails(c) PROVE [Ledger!Next]_Ledger!vars
  BY <1>7, <1>8 DEF StartFails
<1>9. ASSUME NEW c \in Conn, TasksGrade(c) PROVE [Ledger!Next]_Ledger!vars
  <2>1. ASSUME NEW s \in Conn,
               IF runners[sid[c]] # None THEN s = sid[c] ELSE Parked = {s},
               runners' = [runners EXCEPT ![s] = None]
        PROVE  Ledger!Next
    <3>1. runners[s] # None
      BY <2>1 DEF Parked
    <3> QED
      BY <1>1, <1>9, <2>1, <3>1 DEF TasksGrade
  <2>2. CASE UNCHANGED runners
    BY <1>9, <2>2, LedgerRests DEF TasksGrade
  <2> QED
    BY <1>9, <2>1, <2>2 DEF TasksGrade
<1>10. ASSUME NEW c \in Conn, TasksCancel(c) \/ Bye(c) PROVE [Ledger!Next]_Ledger!vars
  <2>1. UNCHANGED <<torn, made, origin>>
    BY <1>10 DEF TasksCancel, Bye
  <2>2. CASE UNCHANGED runners
    BY <2>1, <2>2, LedgerRests
  <2>3. CASE Teardown(c, sid[c], "reply") \/ Teardown(c, sid[c], "bye")
    BY <1>0, <1>1, <2>1, <2>3 DEF Teardown
  <2> QED
    BY <1>10, <2>2, <2>3 DEF TasksCancel, Bye
<1>11. ASSUME NEW c \in Conn, HooksRan(c) PROVE [Ledger!Next]_Ledger!vars
  <2>1. CASE next[c] = "start" /\ Launch(c)
    <3>1. runners[sid[c]] = None
      BY <1>0, <1>11, <2>1 DEF HooksRan, Owned, StartInTable
    <3> QED
      BY <1>0, <1>11, <2>1, <3>1, LedgerLaunchStep DEF HooksRan
  <2>2. CASE UNCHANGED <<runners, made, origin>>
    BY <1>2, <1>11, <2>2 DEF HooksRan
  <2> QED
    BY <1>11, <2>1, <2>2 DEF HooksRan
<1>12. ASSUME NEW c \in Conn, Cancelled(c) PROVE [Ledger!Next]_Ledger!vars
  <2>1. UNCHANGED <<torn, made, origin>>
    BY <1>12 DEF Cancelled
  <2>2. CASE UNCHANGED runners
    BY <2>1, <2>2, LedgerRests
  <2>3. CASE phase[c] = "starting" /\ runners' = [runners EXCEPT ![sid[c]] = None]
    BY <1>7, <2>1, <2>3
  <2> QED
    BY <1>12, <2>2, <2>3 DEF Cancelled
<1>13. CASE Shutdown \/ Drained \/ Stop
  BY <1>13, LedgerRests DEF Shutdown, Drained, Stop
<1>14. ASSUME NEW s \in Conn, Sweep(s) PROVE [Ledger!Next]_Ledger!vars
  <2>1. CASE Teardown(Main, s, "leave")
    BY <1>1, <1>14, <2>1 DEF Sweep, Teardown
  <2>2. CASE UNCHANGED runners
    BY <1>14, <2>2, LedgerRests DEF Sweep
  <2> QED
    BY <1>14, <2>1, <2>2 DEF Sweep
<1>15. CASE SweepRan
  BY <1>2, <1>15 DEF SweepRan
<1>16. CASE UNCHANGED vars
  BY <1>16, LedgerRests DEF vars
<1> QED
  BY <1>3, <1>4, <1>5, <1>6, <1>8, <1>9, <1>10, <1>11, <1>12, <1>13, <1>14, <1>15, <1>16
     DEF Next, HandlerStep, PeerStep, ShutdownStep

\* The channel keeps the ledger a client relies on: a session keeps at most one
\* task, and each task is taken once and torn down once, for any number of
\* connections and of tasks.
THEOREM ImplementsLedgerAlways == ASSUME ~LateAccept PROVE Spec => ImplementsLedger
<1>1. Init => Ledger!Init /\ StartOwn
  <2> SUFFICES ASSUME Init PROVE Ledger!Init /\ StartOwn
    OBVIOUS
  <2>1. StartOwn
    BY DEF Init, StartOwn, Proc
  <2>2. \A r \in Runner : StateOf[r] = "unborn"
    BY MaxStartsAssumption DEF Init, StateOf, Runner
  <2>3. StateOf = [r \in Runner |-> "unborn"]
    BY <2>2 DEF StateOf
  <2>4. Ledger!Init
    BY <2>3 DEF Init, Ledger!Init, Ledger!Task, StateOf, Runner, None
  <2> QED
    BY <2>1, <2>4
<1>2. Inv /\ StartOwn /\ [Next]_vars => StartOwn'
  BY StartOwnStep DEF Inv
<1>3. Inv /\ StartOwn /\ [Next]_vars => [Ledger!Next]_Ledger!vars
  BY LedgerStep
<1> QED
  BY <1>1, <1>2, <1>3, Safety, PTL DEF Spec, ImplementsLedger, Ledger!Spec

-----------------------------------------------------------------------------
(* The rules of the channel: what its frames and its clients decide, each for  *)
(* every input.                                                              *)
Rules == INSTANCE ControlRules

\* A set of numbers has a least one.
LEMMA LeastOf == ASSUME NEW S \in SUBSET Nat, S # {} PROVE \E m \in S : \A n \in S : m <= n
<1>1. PICK m \in S : \A n \in S : ~(<<n, m>> \in OpToRel(<, Nat))
  BY NatLessThanWellFounded, WFMin
<1>2. \A n \in S : ~(n < m)
  BY <1>1 DEF OpToRel
<1> QED
  BY <1>2

\* What a task may yield at its end (server.py:132).
Evaluations(Score) ==
  [form : {"ended", "number", "dict", "object", "other"}, is : {"number", "bool", "missing"}, score : Score, error : BOOLEAN]
    \cup [form : {"result"}, is : {"number"}, score : Score, error : BOOLEAN]

\* A grade crosses the wire as the task gave it, whatever numbers are scores: a
\* reader of Grade.from_dict (run.py:170) has the same one, or an error, never a
\* zero in place of one.
THEOREM GradeArrives ==
  ASSUME NEW Score, NEW e \in Evaluations(Score)
  PROVE  Rules!GradeKept(e)
<1> DEFINE sent == Rules!GradeFrame(e)
           kept == IF sent.refused THEN Rules!Wrong ELSE Rules!FromDict(sent.value)
<1> USE DEF Rules!GradeFrame, Rules!Made, Rules!Wrong, Rules!FromDict
<1>1. CASE e.form = "ended"
  BY <1>1 DEF Rules!GradeKept
<1>2. CASE e.form \in {"number", "object"}
  <2>1. CASE e.is = "missing"
    <3>1. kept.refused /\ e.is # "number"
      BY <1>2, <2>1
    <3> QED
      BY <3>1, <1>2, <2>1 DEF Rules!GradeKept
  <2>2. CASE e.is # "missing"
    <3>1. ~kept.refused /\ kept.value.reward = e.score
      BY <1>2, <2>2
    <3> QED
      BY <3>1, <1>2, <2>2 DEF Rules!GradeKept
  <2> QED
    BY <2>1, <2>2
<1>3. CASE e.form = "dict"
  <2>1. CASE e.is = "number"
    <3>1. ~kept.refused /\ kept.value.reward = e.score /\ kept.value.is_error = e.error
      BY <1>3, <2>1
    <3> QED
      BY <3>1, <1>3, <2>1 DEF Rules!GradeKept
  <2>2. CASE e.is # "number"
    <3>1. kept.refused
      BY <1>3, <2>2
    <3> QED
      BY <3>1, <1>3, <2>2 DEF Rules!GradeKept
  <2> QED
    BY <2>1, <2>2
<1>4. CASE e.form = "result"
  <2>0. e.is = "number"
    BY <1>4 DEF Evaluations
  <2>1. ~kept.refused /\ kept.value.reward = e.score /\ kept.value.is_error = e.error
    BY <1>4
  <2> QED
    BY <2>0, <2>1, <1>4 DEF Rules!GradeKept
<1>5. CASE e.form = "other"
  <2>1. kept.refused
    BY <1>5
  <2> QED
    BY <2>1, <1>5 DEF Rules!GradeKept
<1> QED
  BY <1>1, <1>2, <1>3, <1>4, <1>5 DEF Evaluations

\* Any template's published schema (env.py:57) accepts whatever its signature binds
\* (server.py:158), and of what it accepts the signature refuses only what names a
\* parameter that is positional only, which the schema publishes by name: any other
\* row that was validated starts.
THEOREM SchemaBinds ==
  ASSUME NEW params, NEW names, NEW lenient \in BOOLEAN
  PROVE  Rules!SchemaIsContract(params, names, lenient)
  BY DEF Rules!SchemaIsContract, Rules!Validates, Rules!ArgsSchema, Rules!Binds, Rules!Fields

\* However long an error is, the frame that tells it fits the limit of a line,
\* and is under its id where that leaves room for a reason (server.py:415).
THEOREM ErrorsFit ==
  ASSUME NEW message \in Nat, NEW id \in Nat, NEW reason \in Nat, NEW limit \in Nat
  PROVE  Rules!ErrorFits(message, id, reason, limit)
  BY DEF Rules!ErrorFits, Rules!ErrorFrame

\* Whatever is published, a stream is spliced to the daemon the client named and
\* to no other, and the client that gave an id hears whether it was (server.py:431).
THEOREM StreamsKeptApart ==
  ASSUME NEW msg, msg.id \in BOOLEAN, NEW published
  PROVE  Rules!StreamsApart(msg, published)
<1> DEFINE s == Rules!Stream(msg, published)
<1>1. (s.code = 0 <=> s.to # Rules!None) /\ (s.to # Rules!None => s.to = msg.capability /\ published[s.to].answers)
  BY DEF Rules!Stream
<1>2. Rules!StreamReply(msg, published) = IF msg.id THEN {[code |-> s.code]} ELSE {}
  BY DEF Rules!StreamReply
<1> HIDE DEF s
<1>3. Rules!Forwarded(TRUE, Rules!StreamReply(msg, published)) => s.to = msg.capability
  BY <1>1, <1>2 DEF Rules!Forwarded
<1>4. msg.id => \E r \in Rules!StreamReply(msg, published) : (r.code = 0) <=> (s.to # Rules!None)
  <2>1. msg.id => [code |-> s.code] \in Rules!StreamReply(msg, published)
    BY <1>2
  <2>2. ([code |-> s.code].code = 0) <=> (s.to # Rules!None)
    BY <1>1
  <2> QED
    BY <2>1, <2>2, Zenon
<1> QED
  BY <1>1, <1>3, <1>4, Zenon DEF Rules!StreamsApart, s

\* Limits that validate_rollout_timeouts (run.py:57) lets through nest, whatever
\* they are: the agent's is below its sandbox's, and each of the placement's
\* below the rollout's.  A limit is a set of at most one number: of none, where
\* there is no limit.
THEOREM LimitsNest ==
  ASSUME NEW agent \in SUBSET Nat, NEW ofTask, ofTask.seconds \in SUBSET Nat, NEW rollout \in SUBSET Nat,
         NEW actor \in [startup : SUBSET Nat, run : SUBSET Nat],
         NEW verifier \in [startup : SUBSET Nat, run : SUBSET Nat]
  PROVE  Rules!TimeoutsNest(agent, ofTask, rollout, actor, verifier)
<1> DEFINE a == Rules!AgentTimeout(agent, ofTask)
           t == Rules!Timeouts(a, rollout, actor, verifier)
<1> SUFFICES ASSUME ~t.refused PROVE Rules!TimeoutsNest(agent, ofTask, rollout, actor, verifier)
  BY Zenon DEF Rules!TimeoutsNest
<1>1. a \in SUBSET Nat
  BY DEF Rules!AgentTimeout
<1>2. /\ t.value = a /\ ~Rules!Over(a, actor.run) /\ ~Rules!Over(a, rollout)
      /\ \A c \in {actor, verifier} : ~Rules!Over(c.startup, rollout) /\ ~Rules!Over(c.run, rollout)
  BY DEF Rules!Timeouts, Rules!Made, Rules!Wrong
<1>3. \A x, y \in SUBSET Nat : ~Rules!Over(x, y) => \A m \in x, n \in y : m < n
  BY DEF Rules!Over
<1>4. ofTask.given => a = ofTask.seconds
  BY DEF Rules!AgentTimeout
<1>5. \A x \in t.value, r \in rollout \cup actor.run : x < r
  BY <1>1, <1>2, <1>3
<1>6. \A r \in rollout, l \in UNION {actor.startup, actor.run, verifier.startup, verifier.run} : l < r
  BY <1>2, <1>3
<1> QED
  BY <1>2, <1>4, <1>5, <1>6, Zenon DEF Rules!TimeoutsNest

\* Any url an mcp capability is made of (base.py:165) has a port and the scheme
\* of its transport, and is read back from the manifest as it was.
THEOREM TransportsFit ==
  ASSUME NEW name, NEW url, url.host \in BOOLEAN, url.lettered \in BOOLEAN, url.port \in Nat,
         NEW transport \in {"none", "sse", "streamable-http", "websocket"}
  PROVE  Rules!TransportFits(name, url, transport)
<1> DEFINE cap == Rules!Mcp(name, url, transport)
           scheme == IF url.scheme = "none" THEN "ws" ELSE url.scheme
           port == IF url.port # 0 THEN url.port ELSE IF scheme \in {"https", "wss"} THEN 443 ELSE 80
           over == IF transport = "none" THEN Rules!Transport(scheme) ELSE transport
<1> SUFFICES ASSUME ~cap.url.refused PROVE Rules!TransportFits(name, url, transport)
  BY Zenon DEF Rules!TransportFits
<1>1. /\ cap.name = name /\ cap.protocol = "mcp/2025-11-25" /\ cap.transport = over
      /\ cap.url = [refused |-> FALSE, value |-> [scheme |-> scheme, host |-> TRUE, port |-> port]]
      /\ scheme \in Rules!Sockets \cup Rules!Webs
      /\ transport = "websocket" => scheme \in Rules!Sockets
      /\ transport \in {"sse", "streamable-http"} => scheme \notin Rules!Sockets
  BY DEF Rules!Mcp, Rules!NormalizeUrl, Rules!Made, Rules!Wrong, Rules!None, Rules!Sockets, Rules!Webs
<1>2. \A t : [cap EXCEPT !.transport = t] = [name |-> name, protocol |-> "mcp/2025-11-25", url |-> cap.url, transport |-> t]
  BY DEF Rules!Mcp
<1>3. \A t : Rules!FromManifest([name |-> name, protocol |-> "mcp/2025-11-25", url |-> cap.url, transport |-> t]).transport
               = IF t = "none" THEN Rules!Transport(scheme) ELSE t
  BY <1>1 DEF Rules!FromManifest, Rules!Family, Rules!None
<1>4. over # "none" /\ over \in {"sse", "streamable-http", "websocket"} /\ (over = "websocket" <=> scheme \in Rules!Sockets)
  BY <1>1 DEF Rules!Transport, Rules!Sockets, Rules!Webs
<1>5. Rules!FromManifest(cap) = cap
  BY <1>1, <1>4 DEF Rules!FromManifest, Rules!None
<1>6. Rules!FromManifest([cap EXCEPT !.transport = Rules!None]).transport \in {over, "streamable-http"}
  BY <1>1, <1>2, <1>3, <1>4 DEF Rules!Transport, Rules!None
<1>7. cap.url.value.port # 0
  BY <1>1
<1>8. (cap.transport = "websocket") <=> (cap.url.value.scheme \in Rules!Sockets)
  BY <1>1, <1>4
<1> QED
  BY <1>5, <1>6, <1>7, <1>8, <1>1, Zenon DEF Rules!TransportFits

\* However many times a client tries to reach a control channel that comes up
\* (client.py:381), and whatever each try meets, it ends with the one connection
\* that answered or with none left open, and gives up only at the deadline or for
\* something that is no delay.
THEOREM WaitCloses ==
  ASSUME NEW outcomes \in Seq({"refused", "eof", "error", "cancelled", "ok"}),
         NEW deadline \in 1..Len(outcomes)
  PROVE  Rules!ReadyCloses(outcomes, deadline)
<1> DEFINE r == Rules!ConnectReady(outcomes, deadline)
           stops == {i \in 1..Len(outcomes) : outcomes[i] \notin Rules!NotReady \/ i >= deadline}
           last == CHOOSE i \in stops : \A j \in stops : i <= j
           opened == {i \in 1..last : outcomes[i] # "refused"}
           closed == {i \in 1..last : outcomes[i] \notin {"refused", "ok"}}
<1>1. last \in stops /\ \A j \in stops : last <= j
  <2>1. deadline \in stops /\ stops \in SUBSET Nat
    OBVIOUS
  <2>2. \E m \in stops : \A n \in stops : m <= n
    BY <2>1, LeastOf
  <2> QED
    BY <2>2
<1>2. r = [tries |-> last, client |-> outcomes[last] = "ok", opened |-> opened, closed |-> closed]
  BY Zenon DEF Rules!ConnectReady
<1> HIDE DEF r, last
<1>3. last \in 1..Len(outcomes) /\ \A i \in 1..last - 1 : outcomes[i] \in Rules!NotReady
  BY <1>1
<1>4. opened \ closed = IF outcomes[last] = "ok" THEN {last} ELSE {}
  BY <1>3 DEF Rules!NotReady
<1>6. outcomes[last] # "ok" => last >= deadline \/ outcomes[last] \notin Rules!NotReady
  BY <1>1
<1> QED
  <2>1. /\ r.tries = last /\ (r.client <=> outcomes[last] = "ok")
        /\ r.opened = opened /\ r.closed = closed
    BY <1>2
  <2> HIDE DEF opened, closed
  <2>2. r.opened \ r.closed = IF r.client THEN {r.tries} ELSE {}
    BY <1>4, <2>1
  <2>3. ~r.client => r.tries >= deadline \/ outcomes[r.tries] \notin Rules!NotReady
    BY <1>6, <2>1
  <2>4. \A i \in 1..r.tries - 1 : outcomes[i] \in Rules!NotReady
    BY <1>3, <2>1
  <2> QED
    BY <2>2, <2>3, <2>4 DEF Rules!ReadyCloses, r

\* A daemon that refuses at first and then accepts within three tries is
\* connected, and one that is broken is not tried again (client.py:55).
THEOREM CapabilityTried ==
  ASSUME NEW outcomes \in Seq({"ok", "refused", "broken"}), Len(outcomes) >= 3
  PROVE  Rules!CapabilityAwaited(outcomes)
<1> DEFINE c == Rules!ConnectCapability(outcomes)
           stops == {i \in 1..3 : outcomes[i] # "refused" \/ i = 3}
           last == CHOOSE i \in stops : \A j \in stops : i <= j
<1>1. last \in stops /\ \A j \in stops : last <= j
  <2>1. 3 \in stops /\ stops \in SUBSET Nat
    OBVIOUS
  <2> QED
    BY <2>1, LeastOf
<1>2. c.tries = last /\ (c.ok <=> outcomes[last] = "ok")
  BY DEF Rules!ConnectCapability, Rules!CapabilityAttempts
<1> HIDE DEF last, c
<1>3. last \in 1..3 /\ (\A i \in 1..last - 1 : outcomes[i] = "refused") /\ (last < 3 => outcomes[last] # "refused")
  BY <1>1
<1>4. (outcomes[last] = "ok") <=> \E i \in 1..3 : outcomes[i] = "ok" /\ \A j \in 1..i - 1 : outcomes[j] = "refused"
  BY <1>3
<1>5. (c.ok <=> \E i \in 1..3 : outcomes[i] = "ok" /\ \A j \in 1..i - 1 : outcomes[j] = "refused")
      /\ \A i \in 1..c.tries - 1 : outcomes[i] = "refused"
  BY <1>2, <1>3, <1>4
<1> QED
  BY <1>5, Zenon DEF Rules!CapabilityAwaited, Rules!CapabilityAttempts, c
=============================================================================
