---------------------------- MODULE EpisodeRecorder ----------------------------
(* wrap(env): a vectorized env driven by its owner, recorded as one job with  *)
(* a trace per episode and slot.  Each trace has a video encoder, a thread    *)
(* behind a bounded queue.  A frame is <<slot, episode, tick>> of the env.    *)
EXTENDS Naturals, FiniteSets, Sequences, SequencesExt

CONSTANTS Slots, RecordSteps, MaxQueued
ASSUME RecorderAssumption == RecordSteps \in Nat /\ MaxQueued \in Nat \ {0}

VARIABLES world,      \* the env: the episode and tick each slot is in
          steps,
          rec,        \* _rec[i]: the open trace, its number and tick, or None
          entered,    \* traces reported as entered, with their parametrization
          exited,     \* what was reported at each exit
          params,     \* extra_metadata, and what the episodes really run with
          queues,     \* per trace, the frames its encoder has not taken; Stop ends it
          encoded,    \* per trace, the frames its encoder wrote
          dead        \* traces whose encoder failed, or has ended

recorderVars == <<world, steps, rec, entered, exited, params, queues, encoded, dead>>

Sentinel == <<0, 0, 0>>
Episodes == Slots \X (0 .. RecordSteps)
Closed == [open |-> FALSE, episode |-> 0, tick |-> 0, reward |-> 0, meta |-> 0]

InitRecorder ==
  /\ world = [i \in Slots |-> [episode |-> 0, tick |-> 0, reward |-> 0]] /\ steps = 0
  /\ rec = [i \in Slots |-> Closed]
  /\ entered = {} /\ exited = {}
  /\ params = [told |-> 0, real |-> 0]
  /\ queues = [t \in Episodes |-> <<>>] /\ encoded = [t \in Episodes |-> <<>>] /\ dead = {}

\* _rec[i] or _open(i)
Opened(i) == IF rec[i].open THEN rec[i] ELSE [rec[i] EXCEPT !.open = TRUE, !.reward = 0, !.meta = params.told]

\* submit: a full queue drops the frame.
Submit(q, frame) == IF Len(q) < MaxQueued THEN Append(q, frame) ELSE q
\* Mutant: the sentinel is dropped like a frame.
Finalize_Dropped(q) == Submit(q, Sentinel)
\* finalize: a full queue makes room for the sentinel.
Finalize(q) == Append(IF Len(q) < MaxQueued THEN q ELSE Tail(q), Sentinel)

\* _close: the exit is reported, and the slot waits for its next episode.
CloseRec(r) == [Closed EXCEPT !.episode = r.episode + 1]
Exit(i, r) == [trace |-> <<i, r.episode>>, reward |-> r.reward, meta |-> r.meta, of |-> world[i]]

\* step() on a world whose slots end by themselves: a done step returns the
\* first observation of the next episode, and its reward belongs to the last.
StepEnv(done, reward) ==
  [i \in Slots |-> IF done[i] THEN [episode |-> world[i].episode + 1, tick |-> 0, reward |-> 0]
                   ELSE [world[i] EXCEPT !.tick = @ + 1, !.reward = @ + reward[i]]]

\* JobRecorder.record for every recorded slot.
Record ==
  /\ steps < RecordSteps /\ params.real # 0
  /\ \E done \in [Slots -> BOOLEAN], reward \in [Slots -> 0 .. 1] :
       LET open == [i \in Slots |-> [Opened(i) EXCEPT !.reward = @ + reward[i]]]
           trace(i) == <<i, open[i].episode>>
           next == StepEnv(done, reward)
           frame(i) == <<i, next[i].episode, next[i].tick>>
       IN /\ world' = next
          /\ entered' = entered \cup {trace(i) : i \in {j \in Slots : ~rec[j].open}}
          /\ rec' = [i \in Slots |-> IF done[i] THEN CloseRec(open[i]) ELSE [open[i] EXCEPT !.tick = @ + 1]]
          /\ exited' = exited \cup
               {[Exit(i, open[i]) EXCEPT !.of.reward = @ + reward[i]] : i \in {j \in Slots : done[j]}}
          /\ queues' = [t \in Episodes |->
               IF t # trace(t[1]) THEN queues[t]
               ELSE IF done[t[1]] THEN IF open[t[1]].tick > 0 THEN Finalize(queues[t]) ELSE queues[t]
               ELSE Submit(queues[t], frame(t[1]))]
  /\ steps' = steps + 1
  /\ UNCHANGED <<params, encoded, dead>>

\* close_slots: an explicit reset, or the end, closes what is open.
CloseSlots ==
  /\ exited' = exited \cup {Exit(i, rec[i]) : i \in {j \in Slots : rec[j].open}}
  /\ rec' = [i \in Slots |-> IF rec[i].open THEN CloseRec(rec[i]) ELSE rec[i]]
  /\ queues' = [t \in Episodes |-> IF rec[t[1]].open /\ rec[t[1]].episode = t[2] /\ rec[t[1]].tick > 0
                                  THEN Finalize(queues[t]) ELSE queues[t]]

\* TracedEnv.reset: the env first, then the open traces, then the parameters.
ResetEnv ==
  /\ steps < RecordSteps
  /\ \E p \in 1 .. 2 : params' = [told |-> p, real |-> p]
  /\ world' = [i \in Slots |-> IF rec[i].open \/ world[i].tick > 0
                               THEN [episode |-> world[i].episode + 1, tick |-> 0, reward |-> 0]
                               ELSE world[i]]
  /\ CloseSlots
  /\ steps' = steps + 1
  /\ UNCHANGED <<entered, encoded, dead>>

\* TracedEnv.close, at the latest by atexit: nothing is recorded after it.
CloseEnv ==
  /\ steps <= RecordSteps
  /\ steps' = RecordSteps + 1
  /\ CloseSlots
  /\ UNCHANGED <<world, entered, params, encoded, dead>>

\* The encoder thread: a frame that fails to encode ends the thread.
Encode(t) ==
  /\ t \notin dead /\ queues[t] # <<>>
  /\ queues' = [queues EXCEPT ![t] = Tail(@)]
  /\ \/ Head(queues[t]) = Sentinel /\ dead' = dead \cup {t} /\ UNCHANGED encoded
     \/ Head(queues[t]) # Sentinel /\ encoded' = [encoded EXCEPT ![t] = Append(@, Head(queues[t]))] /\ UNCHANGED dead
     \/ Head(queues[t]) # Sentinel /\ dead' = dead \cup {t} /\ UNCHANGED encoded
  /\ UNCHANGED <<world, steps, rec, entered, exited, params>>

NextRecorder == Record \/ ResetEnv \/ CloseEnv \/ \E t \in Episodes : Encode(t)

---------------------------------------------------------------------------
\* A trace is about one episode: its frames are of that episode and in order,
\* though the encoder lags behind, drops frames and survives its episode; its
\* reward and its parametrization are those the episode had.
TraceIsEpisode ==
  /\ \A t \in Episodes : \A k \in DOMAIN encoded[t] :
       LET f == encoded[t][k] IN
         /\ <<f[1], f[2]>> = t
         /\ k > 1 => encoded[t][k - 1][3] < f[3]
  /\ \A e \in exited : e.reward = e.of.reward /\ e.trace[2] = e.of.episode

\* Every trace that was entered is exited exactly once, and no other.
Exited(t) == {e \in exited : e.trace = t}
TracesPaired == /\ \A t \in entered : Cardinality(Exited(t)) =
                     IF rec[t[1]].open /\ rec[t[1]].episode = t[2] THEN 0 ELSE 1
                /\ \A e \in exited : e.trace \in entered

\* At the end every trace is closed and every encoder thread has ended.
RecordingEnded == /\ \A i \in Slots : ~rec[i].open
                  /\ \A t \in Episodes : t \in dead \/ (queues[t] = <<>> /\ encoded[t] = <<>>)
=============================================================================
