----------------------------- MODULE FileTracking -----------------------------
(* The workspace's file tracker, its filetracking/1 server and the observer   *)
(* that a rollout runs against it over one connection, while the agent writes *)
(* to the tracked files.  A file is its version, 0 when it is absent; `shown` *)
(* is what a viewer reconstructs from the spans the observer emitted.         *)
EXTENDS Naturals, FiniteSets, Sequences

CONSTANTS Files, MaxVersion,
          Requests      \* a bound on what the observer asks

Unknown == [f \in Files |-> MaxVersion + 1]
ASSUME TrackingAssumption == MaxVersion \in Nat /\ Requests \in Nat

VARIABLES disk,
          previous,     \* _previous_snapshot, its hashes; Unknown before the first
          baseline,     \* _baseline_snapshot
          queue,        \* requests on the wire: methods
          answers,      \* answers on the wire: [to, files, captured]
          observer,     \* where file_tracking_observer stands
          asked,
          shown,
          slipped       \* a call was abandoned with its answer still to come

trackVars == <<disk, previous, baseline, queue, answers, observer, asked, shown, slipped>>
observerVars == <<observer, asked, shown, slipped>>

InitTracking ==
  /\ disk = [f \in Files |-> 1]
  /\ previous = disk /\ baseline = disk          \* take_baseline when the capability is served
  /\ queue = <<>> /\ answers = <<>>
  /\ observer = "connect" /\ asked = 0
  /\ shown = Unknown /\ slipped = FALSE

\* The agent, or a setup script, changes a file; a version is its content.
Write(f) ==
  /\ observer \notin {"done", "off"}
  /\ disk' \in {[disk EXCEPT ![f] = v] : v \in 0 .. MaxVersion}
  /\ UNCHANGED <<previous, baseline, queue, answers, observerVars>>

---------------------------------------------------------------------------
\* The tracker.
Changed(old, new) == {f \in Files : old[f] # new[f]}

\* _diff under the byte cap: some of the changed files get no patch.
Patches(old, new, skipped) == [f \in Changed(old, new) \ skipped |-> new[f]]

\* Mutant: the snapshot advances past what the cap skipped.
Reverted_Advances(old, new, skipped) == new

\* The files without a patch stay as they were, and so stay pending.
Reverted(old, new, skipped) == [f \in Files |-> IF f \in skipped THEN old[f] ELSE new[f]]

\* _capture_artifacts: what differs from the baseline and is still there.
Artifacts == {f \in Files : disk[f] # 0 /\ disk[f] # baseline[f]}

NoPatch == [f \in {} |-> 0]
Reply(to, patches, files, captured, ok) ==
  answers' = Append(answers, [to |-> to, patches |-> patches, files |-> files, captured |-> captured, ok |-> ok])

\* One request at a time, under the lock; the scan runs in a thread.
Setup ==
  /\ \/ Head(queue) = "setup" /\ Reply("setup", NoPatch, disk, {}, TRUE)
     \/ Head(queue) = "advance" /\ Reply("advance", NoPatch, disk, {}, TRUE)
  /\ baseline' = disk /\ previous' = disk
Manifest ==
  /\ Head(queue) = "snapshot"
  /\ Reply("snapshot", NoPatch, previous, {}, TRUE)
  /\ UNCHANGED <<previous, baseline>>
DiffCurrent ==
  /\ Head(queue) \in {"diff", "flush"}
  /\ \E skipped \in SUBSET Changed(previous, disk) :
       /\ previous' = Reverted(previous, disk, skipped)
       /\ Reply(Head(queue), Patches(previous, disk, skipped), disk,
                IF Head(queue) = "flush" THEN Artifacts ELSE {}, TRUE)
  /\ baseline' = baseline
\* A scan or a capture that raises is answered with an error, before the
\* snapshot is advanced.
ServerError == /\ Reply(Head(queue), NoPatch, disk, {}, FALSE)
               /\ UNCHANGED <<previous, baseline>>

Scans == /\ queue # <<>>
         /\ queue' = Tail(queue)
         /\ Setup \/ Manifest \/ DiffCurrent \/ ServerError
         /\ UNCHANGED <<disk, observerVars>>

---------------------------------------------------------------------------
\* The observer.  call() writes a request and takes the next line for its
\* answer, whatever request that line answers.
Post(method) == queue' = Append(queue, method) /\ UNCHANGED <<disk, previous, baseline>>
TakeLine == answers # <<>> /\ answers' = Tail(answers) /\ UNCHANGED <<disk, previous, baseline, queue>>

Connect ==
  /\ observer = "connect"
  /\ \E method \in {"setup", "advance"} : Post(method)
  /\ observer' = "setup"
  /\ UNCHANGED <<answers, asked, shown, slipped>>

\* Anything that fails before the anchor leaves the rollout untracked.
Anchor ==
  /\ observer \in {"setup", "anchor"}
  /\ TakeLine
  /\ IF ~Head(answers).ok THEN observer' = "off" /\ shown' = shown
     ELSE IF observer = "setup" THEN observer' = "anchoring" /\ shown' = shown
     ELSE observer' = "polling" /\ shown' = Head(answers).files
  /\ UNCHANGED <<asked, slipped>>
AskAnchor ==
  /\ observer = "anchoring" /\ Post("snapshot") /\ observer' = "anchor"
  /\ UNCHANGED <<answers, asked, shown, slipped>>

\* poll_diffs, once per interval.
Poll ==
  /\ observer = "polling" /\ asked < Requests
  /\ Post("diff") /\ observer' = "asking" /\ asked' = asked + 1
  /\ UNCHANGED <<answers, shown, slipped>>

Emit(patches) == shown' = [f \in Files |-> IF f \in DOMAIN patches THEN patches[f] ELSE shown[f]]
Diffed ==
  /\ observer \in {"asking", "draining"}
  /\ TakeLine /\ Emit(Head(answers).patches)
  /\ observer' = IF observer = "asking" THEN "polling" ELSE "drained"
  /\ UNCHANGED <<asked, slipped>>

\* The rollout is over: the poll in hand is let finish, then cancelled.
Halt == /\ observer \in {"polling", "asking"}
        /\ observer' = IF observer = "asking" THEN "draining" ELSE "drained"
        /\ UNCHANGED <<disk, previous, baseline, queue, answers, asked, shown, slipped>>
DrainTimeout == /\ observer = "draining"
                /\ observer' = "drained" /\ slipped' = TRUE
                /\ UNCHANGED <<disk, previous, baseline, queue, answers, asked, shown>>
Flush == /\ observer = "drained"
         /\ Post("flush") /\ observer' = "flushing"
         /\ UNCHANGED <<answers, asked, shown, slipped>>

\* The answer to the flush, or the late one of the abandoned poll: that one has
\* no "diff" of its own, and nothing is emitted.
Flushed ==
  /\ observer = "flushing"
  /\ TakeLine
  /\ IF Head(answers).to = "flush" /\ Head(answers).ok
     THEN Emit(Head(answers).patches) ELSE UNCHANGED shown
  /\ observer' = "done"
  /\ UNCHANGED <<asked, slipped>>
FlushTimeout == /\ observer = "flushing"
                /\ observer' = "done" /\ slipped' = TRUE
                /\ UNCHANGED <<disk, previous, baseline, queue, answers, asked, shown>>

ObserverStep == \/ Connect \/ AskAnchor \/ Anchor \/ Diffed \/ Flush \/ Flushed
NextTracking == \/ \E f \in Files : Write(f)
                \/ Scans \/ ObserverStep \/ Poll \/ Halt \/ DrainTimeout \/ FlushTimeout

---------------------------------------------------------------------------
\* No change is lost or shown twice: with no answer on the wire the viewer has
\* exactly the snapshot the next diff starts from, though patches are skipped
\* under the cap, scans fail and files change during polls.  It does not hold
\* after a call was abandoned: the answer that carried the change is dropped.
ShownIsPrevious ==
  observer \in {"polling", "drained", "done"} /\ ~slipped /\ answers = <<>> => shown = previous

\* The observer never outlives the rollout by more than its two bounded waits.
ObserverEnded == observer \in {"done", "off"}
=============================================================================
