------------------------------ MODULE TaskLedger ------------------------------
(***************************************************************************)
(* What a control channel promises about the tasks it runs, without         *)
(* connections, frames or coroutines: tasks are started under a session, a  *)
(* session keeps at most one, a task is taken out once - to be graded or    *)
(* cancelled - and torn down at most once afterwards.                       *)
(***************************************************************************)
EXTENDS Naturals

CONSTANTS Session, MaxTasks, Nobody

Task == 1..MaxTasks

VARIABLES
  kept,    \* session -> the task it keeps, or 0
  state,   \* "unborn", "kept", "taken" or "over"
  owner    \* the session a task was started under; Nobody before

vars == <<kept, state, owner>>

Init ==
  /\ kept = [s \in Session |-> 0]
  /\ state = [t \in Task |-> "unborn"]
  /\ owner = [t \in Task |-> Nobody]

\* A new task of session s, which keeps none.
Start(s, t) ==
  /\ kept[s] = 0
  /\ state[t] = "unborn"
  /\ kept' = [kept EXCEPT ![s] = t]
  /\ state' = [state EXCEPT ![t] = "kept"]
  /\ owner' = [owner EXCEPT ![t] = s]

\* The task session s keeps is taken, to be graded or torn down.
Take(s) ==
  /\ kept[s] # 0
  /\ kept' = [kept EXCEPT ![s] = 0]
  /\ state' = [state EXCEPT ![kept[s]] = "taken"]
  /\ UNCHANGED owner

\* A taken task has been torn down.
Finish(t) ==
  /\ state[t] = "taken"
  /\ state' = [state EXCEPT ![t] = "over"]
  /\ UNCHANGED <<kept, owner>>

\* A session's next task starts as soon as its previous one is torn down.
Replace(s, t, u) ==
  /\ state[t] = "taken"
  /\ owner[t] = s
  /\ kept[s] = 0
  /\ state[u] = "unborn"
  /\ kept' = [kept EXCEPT ![s] = u]
  /\ state' = [state EXCEPT ![t] = "over", ![u] = "kept"]
  /\ owner' = [owner EXCEPT ![u] = s]

Next ==
  \/ \E s \in Session, t \in Task : Start(s, t)
  \/ \E s \in Session : Take(s)
  \/ \E t \in Task : Finish(t)
  \/ \E s \in Session, t, u \in Task : Replace(s, t, u)

Spec == Init /\ [][Next]_vars
=============================================================================
