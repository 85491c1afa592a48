-------------------------------- MODULE GymSim --------------------------------
(* GymBridge: the sim behind env.gym(), on its sim thread.  It is built from  *)
(* the build arguments, kept while they stay the same, and scores every slot  *)
(* of a vectorized env from its first episode after a reset only.             *)
EXTENDS Integers, FiniteSets

CONSTANTS Envs,        \* the slots of a vectorized env
          Builds,      \* what build arguments a reset may pass
          MaxTicks     \* a bound on the steps and resets
Nothing == "nothing"

VARIABLES env,         \* the gym env: its build, whether it is open; Nothing before the first
          instance,    \* _instance: the build arguments env was made from
          contract,    \* the build the contract was derived from
          done, success, reward, seen,   \* per slot _done, _success, _acc_reward; _seen_success
          fresh,       \* the last reset came back
          ticks,
          truth        \* per slot, what its first episode really earned

gymVars == <<env, instance, contract, done, success, reward, seen, fresh, ticks, truth>>
scoring == <<done, success, reward, seen, truth>>

NoEnv == [build |-> Nothing, open |-> FALSE]
NoTruth == [reward |-> 0, over |-> FALSE, success |-> FALSE]

InitGym ==
  /\ env = NoEnv /\ instance = Nothing
  /\ contract \in {Nothing, "file"}
  /\ done = [e \in Envs |-> FALSE] /\ success = [e \in Envs |-> FALSE]
  /\ reward = [e \in Envs |-> 0] /\ seen = FALSE
  /\ fresh = FALSE /\ ticks = 0
  /\ truth = [e \in Envs |-> NoTruth]

Tick == ticks < MaxTicks /\ ticks' = ticks + 1

\* The other half of a reset: the env starts over and so does every slot's score.
Restart(build) ==
  /\ done' = [e \in Envs |-> FALSE] /\ success' = [e \in Envs |-> FALSE]
  /\ reward' = [e \in Envs |-> 0] /\ seen' = FALSE
  /\ truth' = [e \in Envs |-> NoTruth]
  /\ fresh' = TRUE
  /\ contract' = IF contract = Nothing THEN build ELSE contract    \* _ensure_contract_from_env

\* reset: the same build is kept, open or not; another one is closed and replaced.
ResetSame(build) ==
  /\ Tick /\ env # NoEnv /\ build = instance
  /\ Restart(build)
  /\ UNCHANGED <<env, instance>>
ResetOther(build) ==
  /\ Tick /\ (env = NoEnv \/ build # instance)
  /\ env' = [build |-> build, open |-> TRUE] /\ instance' = build
  /\ Restart(build)
\* The factory raises, when the old env is closed already and still held; or a
\* reset of the env raises, when the slots keep the scores of before.
BuildFails(build) ==
  /\ Tick /\ (env = NoEnv \/ build # instance)
  /\ env' = [env EXCEPT !.open = FALSE]
  /\ fresh' = FALSE
  /\ UNCHANGED <<instance, contract, scoring>>
ResetFails(build) ==
  /\ Tick /\ env # NoEnv /\ build = instance
  /\ fresh' = FALSE
  /\ UNCHANGED <<env, instance, contract, scoring>>

\* Mutant: an env that started over by itself keeps earning.
Credited_Always(e, r) == reward[e] + r

\* step: rewards count until a slot's first done; success is read on the steps
\* where some slot is newly done, and taken for those slots.
Credited(e, r) == IF done[e] THEN reward[e] ELSE reward[e] + r
Newly(over) == {e \in Envs : over[e] /\ ~done[e]}
Successful(over, reported) ==
  [e \in Envs |-> success[e] \/ (e \in Newly(over) /\ reported[e])]
Step ==
  /\ Tick /\ fresh
  /\ \E r \in [Envs -> 0 .. 1], over, reported \in [Envs -> BOOLEAN], told \in BOOLEAN :
       /\ reward' = [e \in Envs |-> Credited(e, r[e])]
       /\ LET heard == told /\ Newly(over) # {} IN
            /\ success' = IF heard THEN Successful(over, reported) ELSE success
            /\ seen' = (seen \/ heard)
       /\ done' = [e \in Envs |-> done[e] \/ over[e]]
       /\ truth' = [e \in Envs |->
            IF truth[e].over THEN truth[e]
            ELSE [reward |-> truth[e].reward + r[e], over |-> over[e],
                  success |-> over[e] /\ told /\ reported[e]]]
  /\ UNCHANGED <<env, instance, contract, fresh>>

\* stop() closes the env on the sim thread.
StopSim == /\ env # NoEnv
           /\ env' = NoEnv /\ fresh' = FALSE
           /\ UNCHANGED <<instance, contract, scoring, ticks>>

NextGym == \/ \E b \in Builds : ResetSame(b) \/ ResetOther(b) \/ BuildFails(b) \/ ResetFails(b)
           \/ Step \/ StopSim

---------------------------------------------------------------------------
\* result_slots
Score(e) == IF seen THEN (IF success[e] THEN 1 ELSE 0) ELSE reward[e]

\* A slot's grade comes from its own first episode: slots of a vectorized env
\* end at different steps and start over by themselves, and what they earn
\* then, or another slot's success, does not count.
GradedByFirst ==
  fresh => \A e \in Envs :
    /\ reward[e] = truth[e].reward /\ done[e] = truth[e].over
    /\ success[e] = truth[e].success
    /\ Score(e) \in {truth[e].reward, IF truth[e].success THEN 1 ELSE 0}
=============================================================================
