------------------------------- MODULE HostedBatch -------------------------------
(***************************************************************************)
(* Rollouts that run on the platform: hud/eval/runtime/hosted.py under     *)
(* Taskset.run, with the retries of hud/utils/requests.py.  A request may  *)
(* be lost, be late, or take effect though its answer is lost.  The        *)
(* platform knows a rollout by its trace id.                               *)
(***************************************************************************)
EXTENDS Naturals, FiniteSets

CONSTANTS Traces,     \* the expanded rollouts of one call
          Cap,        \* max_concurrent
          MaxRetries  \* of one request

ASSUME HostedAssumption == Cap \in Nat \ {0} /\ MaxRetries \in Nat

VARIABLES
  doing,   \* doing[t]: "queued", "submit", "poll", "sleep" or "done"
  tries,   \* tries[t]: the attempts of the request it is in
  wire,    \* the requests that may still reach the platform
  remote,  \* remote[t]: "none", "running" or a terminal status
  outcome, \* outcome[t]: "none", the folded status, "failed", "timeout" or "cut"
  cancel,  \* cancel[t]: "none", "scheduled", "asked" or "dropped"
  batch,   \* "running", "interrupted" or "over", when its event loop has closed
  told     \* the traces whose cancellation the platform has heard of

hostedVars == <<doing, tries, wire, remote, outcome, cancel, batch, told>>

Terminal == {"completed", "error", "cancelled"}
InHand == {t \in Traces : doing[t] \notin {"queued", "done"}}

InitHosted ==
  /\ doing = [t \in Traces |-> "queued"] /\ tries = [t \in Traces |-> 0]
  /\ remote = [t \in Traces |-> "none"] /\ outcome = remote /\ cancel = remote
  /\ wire = {} /\ told = {} /\ batch = "running"

Admits == Cardinality(InHand) < Cap

Start(t) ==
  /\ batch = "running" /\ doing[t] = "queued" /\ Admits
  /\ doing' = [doing EXCEPT ![t] = "submit"]
  /\ UNCHANGED <<tries, wire, remote, outcome, cancel, batch, told>>

\* One attempt of the POST, the first or, after a network error or a gateway
\* status, another with the same trace id.
Post(t) ==
  /\ doing[t] = "submit" /\ tries[t] <= MaxRetries
  /\ tries' = [tries EXCEPT ![t] = @ + 1]
  /\ wire' = wire \cup {<<"submit", t>>}
  /\ UNCHANGED <<doing, remote, outcome, cancel, batch, told>>

Lost(kind, t) ==
  /\ <<kind, t>> \in wire /\ wire' = wire \ {<<kind, t>>}
  /\ UNCHANGED <<doing, tries, remote, outcome, cancel, batch, told>>

\* The platform: a trace is started once, and cancelled while it runs; it may end,
\* or be cancelled from there, at any time.
Arrives(kind, t) ==
  /\ <<kind, t>> \in wire /\ wire' = wire \ {<<kind, t>>}
  /\ remote' = [remote EXCEPT ![t] =
       CASE kind = "submit" /\ @ = "none" -> "running"
         [] kind = "cancel" /\ @ = "running" -> "cancelled"
         [] OTHER -> @]
  /\ told' = IF kind = "cancel" THEN told \cup {t} ELSE told
  /\ UNCHANGED <<doing, tries, outcome, cancel, batch>>

RemoteEnds(t) ==
  /\ remote[t] = "running"
  /\ \E s \in Terminal : remote' = [remote EXCEPT ![t] = s]
  /\ UNCHANGED <<doing, tries, wire, outcome, cancel, batch, told>>

\* The answer to the POST, or to a GET of the trace.
Answered(t) ==
  /\ \/ doing[t] = "submit" /\ tries[t] > 0 /\ remote[t] # "none"
     \/ doing[t] = "poll" /\ remote[t] = "running"
  /\ doing' = [doing EXCEPT ![t] = IF @ = "submit" THEN "poll" ELSE "sleep"]
  /\ tries' = [tries EXCEPT ![t] = 0]
  /\ UNCHANGED <<wire, remote, outcome, cancel, batch, told>>

Ends(t, o) ==
  /\ outcome' = [outcome EXCEPT ![t] = o] /\ doing' = [doing EXCEPT ![t] = "done"]

\* Mutant: any answer ends the polling.
Folds_Any(t) == remote[t] # "none"
Folds(t) == remote[t] \in Terminal

Fold(t) ==
  /\ doing[t] = "poll" /\ Folds(t) /\ Ends(t, remote[t])
  /\ UNCHANGED <<tries, wire, remote, cancel, batch, told>>

Wake(t) ==
  /\ doing[t] = "sleep" /\ doing' = [doing EXCEPT ![t] = "poll"]
  /\ UNCHANGED <<tries, wire, remote, outcome, cancel, batch, told>>

Retry(t) ==
  /\ doing[t] = "poll" /\ tries[t] < MaxRetries
  /\ tries' = [tries EXCEPT ![t] = @ + 1]
  /\ UNCHANGED <<doing, wire, remote, outcome, cancel, batch, told>>

\* Rejected, or out of retries: a failed run, and the trace is left alone.
Fail(t) ==
  /\ doing[t] = "poll" \/ (doing[t] = "submit" /\ tries[t] > 0)
  /\ Ends(t, "failed")
  /\ UNCHANGED <<tries, wire, remote, cancel, batch, told>>

CancelLater(t) == cancel' = [cancel EXCEPT ![t] = "scheduled"]

TimedOut(t) ==
  /\ t \in InHand /\ Ends(t, "timeout") /\ CancelLater(t)
  /\ UNCHANGED <<tries, wire, remote, batch, told>>

\* The caller's task is cancelled: gather passes it on to every rollout, and one that
\* has its slot asks for a cancellation, whether or not its submission was answered.
\* Mutant: only what the platform has confirmed is cancelled there.
GivenUp_Confirmed == {t \in Traces : doing[t] \in {"poll", "sleep"}}
GivenUp == InHand
Interrupt ==
  /\ batch = "running" /\ \E t \in Traces : doing[t] # "done"
  /\ batch' = "interrupted"
  /\ outcome' = [t \in Traces |-> IF doing[t] = "done" THEN outcome[t] ELSE "cut"]
  /\ cancel' = [t \in Traces |-> IF t \in GivenUp THEN "scheduled" ELSE cancel[t]]
  /\ doing' = [t \in Traces |-> "done"]
  /\ UNCHANGED <<tries, wire, remote, told>>

SendCancel(t) ==
  /\ batch # "over" /\ cancel[t] = "scheduled"
  /\ cancel' = [cancel EXCEPT ![t] = "asked"] /\ wire' = wire \cup {<<"cancel", t>>}
  /\ UNCHANGED <<doing, tries, remote, outcome, batch, told>>

\* asyncio.run ends with the batch: the tasks that are left are cancelled.
LoopCloses ==
  /\ batch # "over" /\ \A t \in Traces : doing[t] = "done"
  /\ batch' = "over"
  /\ cancel' = [t \in Traces |-> IF cancel[t] = "scheduled" THEN "dropped" ELSE cancel[t]]
  /\ UNCHANGED <<doing, tries, wire, remote, outcome, told>>

Local(t) == Start(t) \/ Post(t) \/ Answered(t) \/ Fold(t) \/ Wake(t) \/ TimedOut(t)
NextHosted ==
  \/ \E t \in Traces : Local(t) \/ Retry(t) \/ Fail(t) \/ RemoteEnds(t) \/ SendCancel(t)
  \/ \E t \in Traces, kind \in {"submit", "cancel"} : Arrives(kind, t) \/ Lost(kind, t)
  \/ Interrupt \/ LoopCloses

\* With a rollout_timeout the wait for an answer ends in any case.
FairHosted == \A t \in Traces : WF_hostedVars(Start(t)) /\ WF_hostedVars(TimedOut(t))

-----------------------------------------------------------------------------
\* A rollout reports what its trace ended with, never a status that changed
\* afterwards.  One that timed out has a cancellation scheduled or sent, and so has
\* one that was cut, if the platform has its trace or may yet get it; only the end
\* of the event loop drops one.  Nobody else's trace is cancelled: one whose polls
\* failed is left alone (hosted.py:89, 117-129, 211, 223).
Submitted(t) == remote[t] # "none" \/ <<"submit", t>> \in wire
FoldIsVerdict ==
  \A t \in Traces :
    /\ outcome[t] \notin {"none", "failed", "timeout", "cut"} => remote[t] = outcome[t]
    /\ outcome[t] = "timeout" \/ (outcome[t] = "cut" /\ Submitted(t)) => cancel[t] # "none"
    /\ cancel[t] = "dropped" => batch = "over"
    /\ cancel[t] # "none" \/ t \in told => outcome[t] \in {"timeout", "cut"}

\* "A local cancel (Ctrl-C) requests remote cancellation before propagating."
CancelAsked == \A t \in Traces : cancel[t] # "dropped"

\* Every rollout of the batch gets an outcome, in spite of a silent platform.
BatchEnds == <>(\A t \in Traces : doing[t] = "done")
=============================================================================
