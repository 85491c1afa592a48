----------------------------- MODULE HarborServing -----------------------------
(***************************************************************************)
(* hud.integrations.harbor.env: the `run` and `verify` templates of a served *)
(* Harbor image.  A session runs its task, its answer is graded in place or   *)
(* kept with its artifacts for the verifier, and the container, its grading    *)
(* files and the verifier's root serve the next session.                      *)
(*                                                                         *)
(* A step is what happens between two awaits.  Every await may raise.  The     *)
(* sessions of one image come one after the other, as the runtimes place       *)
(* them, unless Overlapping.                                                 *)
(***************************************************************************)
EXTENDS Integers, Sequences, FiniteSets

CONSTANTS Sessions,
          Services,        \* Compose services with a healthcheck
          HealthTries,     \* healthcheck.retries; 0 when there is no healthcheck
          Overlapping      \* sessions of one image side by side

None == "none"
ASSUME HarborAssumption == HealthTries \in Nat /\ Overlapping \in BOOLEAN /\ None \notin Sessions

VARIABLES hsep,            \* CONFIG["verifier_root"]: the verifier has a root of its own
          hphase, htries, hpending, hentry,   \* by session: progress, failed probes, services waited for, entrypoint
          hverdict,        \* by session: what was yielded: None, "error", "zero", or what the tests saw
          hfiles,          \* by session: what its directory holds
          hloose,          \* by session: terminate_sessions raised
          tests, logs, answer, root, lock     \* the container: /tests, /logs/verifier, the answer file, the verifier's root and lock
harborVars == <<hsep, hphase, htries, hpending, hentry, hverdict, hfiles, hloose, tests, logs, answer, root, lock>>
boxVars == <<tests, logs, answer, root, lock>>

Missing == {"missing"}
Seen(v, t, a, r) == [is |-> v, tests |-> t, answer |-> a, root |-> r]
Word(v) == Seen(v, None, None, None)
InitHarbor ==
  /\ hsep \in BOOLEAN /\ hphase = [s \in Sessions |-> "idle"] /\ htries = [s \in Sessions |-> 0]
  /\ hpending = [s \in Sessions |-> {}] /\ hentry = [s \in Sessions |-> None] /\ hverdict = [s \in Sessions |-> Word(None)]
  /\ hfiles = [s \in Sessions |-> Missing] /\ hloose = [s \in Sessions |-> FALSE] /\ tests = None /\ logs = None /\ answer = None /\ root = None /\ lock = None

Go(s, p) == hphase' = [hphase EXCEPT ![s] = p]
Yield(s, v) == hverdict' = [hverdict EXCEPT ![s] = Word(v)]
\* clear_grading_files.
ClearGradingFiles == tests' = None /\ logs' = None /\ answer' = None

Sits(s) == \A u \in Sessions \ {s} : Overlapping \/ hphase[u] \in {"idle", "ran", "done"}

---------------------------------------------------------------------------
(* run                                                                       *)

\* The files of the session before are cleared and the answer file is touched.
RunStart(s) ==
  /\ hphase[s] = "idle" /\ Sits(s)
  /\ Go(s, "entering") /\ tests' = None /\ logs' = None /\ answer' = "touched"
  /\ UNCHANGED <<hsep, hloose, htries, hpending, hentry, hverdict, hfiles, root, lock>>

\* Whatever raises goes through the finally.  Before the prompt nobody asks for a
\* verdict, and the rollout ends there.
Fail(s) == Go(s, "leaving") /\ UNCHANGED hverdict
Raise(s) == Go(s, "leaving") /\ Yield(s, "error")

\* start_entrypoint: the image may have none; one that ends at once is refused.
StartEntrypoint(s) ==
  /\ hphase[s] = "entering"
  /\ \/ /\ \E e \in {None, "up"} : hentry' = [hentry EXCEPT ![s] = e]
        /\ Go(s, IF HealthTries > 0 THEN "probing" ELSE "waiting")
        /\ hpending' = [hpending EXCEPT ![s] = Services] /\ UNCHANGED <<hsep, hloose, htries, hverdict, hfiles, boxVars>>
     \/ Fail(s) /\ UNCHANGED <<hsep, hloose, htries, hpending, hentry, hfiles, boxVars>>
EntrypointEnds(s) ==
  /\ hentry[s] = "up" /\ hentry' = [hentry EXCEPT ![s] = "ended"]
  /\ UNCHANGED <<hsep, hloose, hphase, htries, hpending, hverdict, hfiles, boxVars>>

\* wait_until_healthy, the image's own healthcheck: a failure counts once the
\* start period is over, and an entrypoint that ended fails it at once.
Probe(s) ==
  /\ hphase[s] = "probing" /\ UNCHANGED <<hsep, hloose, hpending, hentry, hfiles, boxVars>>
  /\ \/ hentry[s] # "ended" /\ Go(s, "waiting") /\ UNCHANGED <<htries, hverdict>>
     \/ /\ hentry[s] # "ended" /\ htries' = [htries EXCEPT ![s] = @ + 1]
        /\ IF htries'[s] >= HealthTries THEN Fail(s) ELSE UNCHANGED <<hphase, hverdict>>
     \/ hentry[s] = "ended" /\ Fail(s) /\ UNCHANGED htries
\* The services, one inspection at a time: one that starts or restarts is asked
\* again; one that is down, unhealthy or without a health status fails the run.
\* A service that is done is not asked again, so the round has no state of its own.
Inspect(s) ==
  /\ hphase[s] = "waiting" /\ UNCHANGED <<hsep, hloose, htries, hentry, hfiles, boxVars>>
  /\ \/ \E v \in hpending[s] : hpending' = [hpending EXCEPT ![s] = @ \ {v}] /\ UNCHANGED <<hphase, hverdict>>
     \/ hpending[s] # {} /\ Fail(s) /\ UNCHANGED hpending
     \/ hpending[s] = {} /\ Go(s, "prompted") /\ UNCHANGED <<hverdict, hpending>>

\* The answer arrives.  In a separate image the session's directory is emptied
\* and the answer kept there; in the other the tests are brought in and run.
Answered(s) ==
  /\ hphase[s] = "prompted" /\ UNCHANGED <<hsep, hloose, htries, hpending, hentry>>
  /\ IF hentry[s] = "ended" THEN Raise(s) /\ UNCHANGED <<hfiles, boxVars>>
     ELSE IF hsep THEN /\ Go(s, "ending") /\ hfiles' = [hfiles EXCEPT ![s] = {"answer"}] /\ UNCHANGED <<hverdict, boxVars>>
     ELSE /\ Go(s, "grading") /\ tests' = s /\ logs' = "clean" /\ answer' = s
          /\ UNCHANGED <<hverdict, hfiles, root, lock>>
\* The session was cancelled, or its client said bye, at the prompt.
Closed(s) ==
  /\ hphase[s] = "prompted" /\ Fail(s)
  /\ UNCHANGED <<hsep, hloose, htries, hpending, hentry, hfiles, boxVars>>

\* terminate_sessions, outside the try: where it raises - the sandbox is gone, say -
\* nothing is collected, and nothing of it is kept for the verifier.
Terminated(s) ==
  /\ hphase[s] = "ending" /\ UNCHANGED <<hsep, htries, hpending, hentry, hfiles, boxVars>>
  /\ \/ Go(s, "collecting") /\ UNCHANGED <<hverdict, hloose>>
     \/ Raise(s) /\ hloose' = [hloose EXCEPT ![s] = TRUE]
\* Mutant: the error of a collect hook is only yielded.
Collect_Forgotten(s) ==
  /\ hphase[s] = "collecting" /\ Go(s, "leaving") /\ UNCHANGED <<hsep, hloose, htries, hpending, hentry, boxVars>>
  /\ \/ hfiles' = [hfiles EXCEPT ![s] = @ \cup {"artifacts"}] /\ Yield(s, "zero")
     \/ hfiles' = hfiles /\ Yield(s, "error")
\* collect: the error of a hook, or of a copy, is kept for the verifier.
Collect(s) ==
  /\ hphase[s] = "collecting" /\ Go(s, "leaving") /\ UNCHANGED <<hsep, hloose, htries, hpending, hentry, boxVars>>
  /\ \/ hfiles' = [hfiles EXCEPT ![s] = @ \cup {"artifacts"}] /\ Yield(s, "zero")
     \/ hfiles' = [hfiles EXCEPT ![s] = @ \cup {"error"}] /\ Yield(s, "error")

\* What a verifier that ran has to say: nothing in time, nothing at all, or the
\* reward its tests made of the answer and the root they saw.
Evaluate(s, t) ==
  \/ Yield(s, "error") /\ UNCHANGED logs
  \/ logs # None /\ logs' = s /\ hverdict' = [hverdict EXCEPT ![s] = Seen("reward", t, answer, root)]
Grade(s) ==
  /\ hphase[s] = "grading" /\ Evaluate(s, tests) /\ Go(s, "leaving")
  /\ UNCHANGED <<hsep, hloose, htries, hpending, hentry, hfiles, tests, answer, root, lock>>

\* The finally of run: the files are cleared, the sandbox is discarded, which
\* ends the entrypoint, and its end is waited for.
RunLeave(s) ==
  /\ hphase[s] = "leaving" /\ ClearGradingFiles /\ Go(s, IF hsep /\ hverdict[s].is # None THEN "ran" ELSE "done")
  /\ hentry' = [hentry EXCEPT ![s] = None] /\ UNCHANGED <<hsep, hloose, htries, hpending, hverdict, hfiles, root, lock>>

---------------------------------------------------------------------------
(* verify                                                                    *)

\* The rollout goes on to the verifier whatever became of the actor's grade; a
\* rollout that expired does not.
VerifyStart(s) ==
  /\ hphase[s] = "ran" /\ hsep /\ Sits(s) /\ UNCHANGED <<hsep, hloose, htries, hpending, hentry, hfiles, boxVars>>
  /\ \/ hfiles[s] = Missing /\ Go(s, "done") /\ Yield(s, "error")
     \/ hfiles[s] # Missing /\ "error" \in hfiles[s] /\ Go(s, "closing") /\ Yield(s, "error")
     \/ hfiles[s] # Missing /\ "error" \notin hfiles[s] /\ Go(s, "queued") /\ UNCHANGED hverdict
\* grade_separate under its lock: logs and answer are laid out for this session.
LayOut(s) ==
  /\ hphase[s] = "queued" /\ lock = None /\ lock' = s
  /\ \/ logs' = "clean" /\ answer' = s /\ Go(s, "bringing") /\ UNCHANGED <<hverdict, tests, root>>
     \/ Yield(s, "error") /\ Go(s, "unlocking") /\ UNCHANGED <<tests, logs, answer, root>>
  /\ UNCHANGED <<hsep, hloose, htries, hpending, hentry, hfiles>>
\* materialized_artifacts: the artifacts there are replace what the root has in
\* their places; a failure in the middle restores it in the same step.
Materialize(s) ==
  /\ hphase[s] = "bringing"
  /\ \/ root' = (IF "artifacts" \in hfiles[s] THEN s ELSE root) /\ Go(s, "verifying") /\ UNCHANGED hverdict
     \/ root' = root /\ Yield(s, "error") /\ Go(s, "unlocking")
  /\ UNCHANGED <<hsep, hloose, htries, hpending, hentry, hfiles, tests, logs, answer, lock>>
\* The isolated workspace runs the tests, is stopped, and the root is restored.
Verify(s) ==
  /\ hphase[s] = "verifying" /\ root' = None /\ Evaluate(s, s) /\ Go(s, "unlocking")
  /\ UNCHANGED <<hsep, hloose, htries, hpending, hentry, hfiles, tests, answer, lock>>
Unlock(s) ==
  /\ hphase[s] = "unlocking" /\ lock' = None /\ Go(s, "closing")
  /\ UNCHANGED <<hsep, hloose, htries, hpending, hentry, hverdict, hfiles, tests, logs, answer, root>>
\* The finally of verify: nothing of the session remains.
VerifyLeave(s) ==
  /\ hphase[s] = "closing" /\ ClearGradingFiles /\ Go(s, "done") /\ hfiles' = [hfiles EXCEPT ![s] = Missing]
  /\ UNCHANGED <<hsep, hloose, htries, hpending, hentry, hverdict, root, lock>>

HarborStep(s) ==
  \/ RunStart(s) \/ StartEntrypoint(s) \/ EntrypointEnds(s) \/ Probe(s) \/ Inspect(s) \/ Answered(s) \/ Closed(s)
  \/ Terminated(s) \/ Collect(s) \/ Grade(s) \/ RunLeave(s)
  \/ VerifyStart(s) \/ LayOut(s) \/ Materialize(s) \/ Verify(s) \/ Unlock(s) \/ VerifyLeave(s)
NextHarbor == \E s \in Sessions : HarborStep(s)

---------------------------------------------------------------------------
\* A reward is what the session's own tests made of its own answer, over a root
\* that held its own artifacts and nobody else's - none at all exactly where the
\* actor's sessions could not be ended.
VerdictOwn ==
  \A s \in Sessions : hverdict[s].is = "reward" =>
    hverdict[s] = Seen("reward", s, s, IF hsep /\ ~hloose[s] THEN s ELSE None)
\* What could not be collected is never graded, unless collecting never began: then,
\* and only then, the verifier is given the answer alone (env.py:582).
CollectedWhole ==
  \A s \in Sessions : hphase[s] \in {"bringing", "verifying"} =>
    hfiles[s] = IF hloose[s] THEN {"answer"} ELSE {"answer", "artifacts"}
\* Between two sessions the container is as it was: no tests, no logs, no answer,
\* the verifier's root its own, its lock free, no entrypoint left.
NothingLeft ==
  (\A s \in Sessions : hphase[s] \in {"idle", "ran", "done"}) =>
    /\ tests = None /\ logs = None /\ answer = None /\ root = None /\ lock = None
    /\ \A s \in Sessions : hentry[s] = None /\ (hphase[s] = "done" => hfiles[s] = Missing)
HarborHonest == VerdictOwn /\ CollectedWhole /\ NothingLeft
=============================================================================
