------------------------------ MODULE ProcessGroup ------------------------------
(***************************************************************************)
(* hud/utils/process.py: complete() waits for a leader, ends its group and *)
(* collects its output; terminate() escalates from SIGTERM to SIGKILL.     *)
(* Deadlines pass at any time.  A process may have left the group, keeping *)
(* the pipes open, or run as a user that may not be signalled.             *)
(***************************************************************************)
EXTENDS Naturals

CONSTANTS Leader, Child, Daemon \* the daemon has left the group

Procs == {Leader, Child, Daemon}

VARIABLES
  step,    \* where complete() is
  alive,   \* the processes that run
  foreign, \* those that may not be signalled
  killed,  \* those that got SIGKILL
  over,    \* the deadlines that have passed: "wait", "term", "kill", "drain"
  cut      \* whether a cancellation has met the teardown

groupVars == <<step, alive, foreign, killed, over, cut>>

Members == alive \ {Daemon}

InitGroup ==
  /\ step = "wait" /\ alive \in {{Leader}, {Leader, Child}, Procs}
  /\ foreign \in {{}, {Child}} /\ killed = {} /\ over = {} /\ cut = FALSE

Go(s) == step' = s
Still == UNCHANGED <<alive, foreign>>

\* A process ends, of itself or for a signal, or ignores what it gets.
Exit(p) ==
  /\ p \in alive /\ alive' = alive \ {p}
  /\ UNCHANGED <<step, foreign, killed, over, cut>>

\* max_wait, term_timeout (with settle_time), kill_timeout, the poll interval.
During == [wait |-> {"wait"}, term |-> {"leader", "group"}, kill |-> {"killed"},
           drain |-> {"drain"}]
Passes(d) ==
  /\ d \notin over /\ step \in During[d] /\ over' = over \cup {d}
  /\ UNCHANGED <<step, alive, foreign, killed, cut>>

\* The leader is waited for, not the end of the pipes.
Wait ==
  /\ step = "wait" /\ (Leader \notin alive \/ "wait" \in over)
  /\ Go("term") /\ Still /\ UNCHANGED <<killed, over, cut>>

\* killpg(SIGTERM): nobody left, somebody who may be signalled, or nobody who
\* may (a PermissionError that passes through).
Term ==
  /\ step = "term" /\ Go(IF Members \subseteq foreign THEN "drain" ELSE "leader")
  /\ Still /\ UNCHANGED <<killed, over, cut>>

LeaderGone ==
  /\ step = "leader" /\ (Leader \notin alive \/ "term" \in over)
  /\ Go("group") /\ Still /\ UNCHANGED <<killed, over, cut>>

\* Mutant: the leader's end is taken for the group's.
GroupExited_Leader == Leader \notin alive
GroupExited == Members = {}

\* killpg(0) until nobody answers, and SIGKILL at the deadline, or at once
\* where the probe is refused.
Group ==
  /\ step = "group"
  /\ \/ GroupExited /\ Go("drain") /\ killed' = killed
     \/ /\ ~GroupExited /\ ("term" \in over \/ Members \subseteq foreign)
        /\ Go("killed") /\ killed' = Members \ foreign
  /\ Still /\ UNCHANGED <<over, cut>>

Killed ==
  /\ step = "killed" /\ (Leader \notin alive \/ "kill" \in over)
  /\ Go("drain") /\ Still /\ UNCHANGED <<killed, over, cut>>

\* Mutant: the readers are awaited to the end of the pipes.
Drained_All == alive = {}
Drained == alive = {} \/ "drain" \in over

Drain ==
  /\ step = "drain" /\ Drained
  /\ Go("done") /\ Still /\ UNCHANGED <<killed, over, cut>>

\* A cancellation while it waits leads to the same teardown; one that meets
\* the teardown leaves it, after the drain.
Cancel ==
  /\ \/ step = "wait" /\ Go("term") /\ cut' = cut
     \/ step \in {"leader", "group", "killed"} /\ Go("drain") /\ cut' = TRUE
  /\ Still /\ UNCHANGED <<killed, over>>

Teardown == Wait \/ Term \/ LeaderGone \/ Group \/ Killed \/ Drain
NextGroup ==
  \/ Teardown \/ Cancel
  \/ \E p \in Procs : Exit(p)
  \/ \E d \in DOMAIN During : Passes(d)

\* The event loop runs, clocks advance; no process need ever end of itself.
FairGroup ==
  /\ WF_groupVars(Teardown)
  /\ \A d \in DOMAIN During : WF_groupVars(Passes(d))

-----------------------------------------------------------------------------
\* No process of the group that may be signalled outlives the call, leader or
\* not, unless the teardown was itself cancelled; and none is killed before
\* it has had its time after SIGTERM (process.py:150).
GroupEnded ==
  /\ step = "done" /\ ~cut => Members \subseteq killed \cup foreign
  /\ killed # {} => "term" \in over

\* The call returns, whoever keeps the pipes open or ignores its signals.
CompleteEnds == step = "wait" ~> step = "done"
=============================================================================
