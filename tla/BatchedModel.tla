----------------------------- MODULE BatchedModel -----------------------------
(***************************************************************************)
(* Robot rollouts that share one policy: RobotAgent._loop, which executes a chunk of   *)
(* actions before it asks for the next, and BatchedModel, whose worker stacks the      *)
(* calls that are there into one forward and hands out its rows.  An observation is    *)
(* named by its rollout and tick.                                                    *)
(***************************************************************************)
EXTENDS Naturals, Sequences, FiniteSets

CONSTANTS Robots,       \* the rollouts
          BatchSize,    \* batch_size: {} or {n}
          ChunkRows,    \* rows of a chunk that are executed (adapter.chunk_size)
          RobotSteps    \* max_steps

ASSUME BatchAssumption == BatchSize \subseteq Nat \ {0} /\ ChunkRows \in Nat \ {0} /\ RobotSteps \in Nat

VARIABLES
  episode,    \* each rollout's loop: [pc, step, chunk, wire]; chunk: the rows left, [of, at, row]
  asked,      \* BatchedModel._queue: <<rollout, tick>>
  batch,      \* the calls of the forward being gathered or run
  worker      \* _worker: "none", "idle", "gathers", "infers"

batchVars == <<episode, asked, batch, worker>>

InitBatch ==
  /\ episode = [r \in Robots |-> [pc |-> "ticks", step |-> 0, chunk |-> <<>>, wire |-> TRUE]]
  /\ asked = <<>> /\ batch = <<>> /\ worker = "none"

\* The loop ends, and the finally closes the robot's connection before all else.
EndsLoop(r, how) == episode' = [episode EXCEPT ![r].pc = how, ![r].wire = FALSE]

\* should_stop, or the last tick was reached: nothing more is sent.
Stops(r) ==
  /\ episode[r].pc = "ticks" /\ EndsLoop(r, "done")
  /\ UNCHANGED <<asked, batch, worker>>
\* ainfer: the first call starts the worker.
Ainfer(r) ==
  /\ episode[r].pc = "ticks" /\ episode[r].step < RobotSteps /\ episode[r].chunk = <<>>
  /\ asked' = Append(asked, <<r, episode[r].step>>)
  /\ worker' = IF worker = "none" THEN "idle" ELSE worker
  /\ episode' = [episode EXCEPT ![r].pc = "waits"]
  /\ UNCHANGED batch
\* An action is sent and the next observation awaited, which may be an error.
Executes(r) ==
  /\ episode[r].pc = "ticks" /\ episode[r].step < RobotSteps /\ episode[r].chunk # <<>>
  /\ \/ episode' = [episode EXCEPT ![r].chunk = Tail(@), ![r].step = @ + 1]
     \/ EndsLoop(r, "raised")
  /\ UNCHANGED <<asked, batch, worker>>
\* The rollout's timeout or a cancellation; its call stays where it is.
CutEpisode(r) ==
  /\ episode[r].pc \in {"ticks", "waits"} /\ EndsLoop(r, "cut")
  /\ UNCHANGED <<asked, batch, worker>>

\* _batch_loop: the first call is waited for, more until the batch is full ...
Full == \E n \in BatchSize : Len(batch) >= n
FirstCall == worker = "idle" /\ worker' = "gathers"
More == worker = "gathers" /\ ~Full /\ UNCHANGED worker
Gathers ==
  /\ asked # <<>> /\ (FirstCall \/ More)
  /\ batch' = Append(batch, Head(asked)) /\ asked' = Tail(asked)
  /\ UNCHANGED episode
\* ... or max_wait_s is over.
Stacks ==
  /\ worker = "gathers" /\ worker' = "infers"
  /\ UNCHANGED <<episode, asked, batch>>
\* The forward: row i is call i's.  A call nobody waits for is skipped.
\* Mutant: the rows go to those who still wait, in order.
Waits(i) == episode[batch[i][1]].pc = "waits"
RowOf_Waiting(i) == Cardinality({k \in 1..i : Waits(k)})
RowOf(i) == i
ChunkOf(i) == [n \in 1..ChunkRows |-> [of |-> batch[RowOf(i)][1], at |-> batch[RowOf(i)][2], row |-> n]]
\* `rows` of them come; fewer than there are calls, or none, is an error for the others.
Scatters(rows) ==
  /\ worker = "infers" /\ rows <= Len(batch)
  /\ episode' = [r \in Robots |->
       IF \E i \in 1..Len(batch) : batch[i][1] = r /\ Waits(i)
       THEN LET i == CHOOSE k \in 1..Len(batch) : batch[k][1] = r /\ Waits(k) IN
            IF i <= rows THEN [episode[r] EXCEPT !.pc = "ticks", !.chunk = ChunkOf(i)]
                         ELSE [episode[r] EXCEPT !.pc = "raised", !.wire = FALSE]
       ELSE episode[r]]
  /\ batch' = <<>> /\ worker' = "idle" /\ UNCHANGED asked

NextBatch ==
  \/ \E r \in Robots : Stops(r) \/ Ainfer(r) \/ Executes(r) \/ CutEpisode(r)
  \/ Gathers \/ Stacks \/ \E rows \in 0..Cardinality(Robots) : Scatters(rows)

\* Whatever calls are stacked, fail or are given up: a rollout executes the rows of
\* its own observation, in order, each at the tick it was planned for; whoever waits has
\* its one call with the worker; a batch is never larger than asked; and a loop that
\* ended holds no connection (robot/batching.py:52-95, robot/agent.py:99-171).
BatchSound ==
  /\ \A r \in Robots : LET e == episode[r] IN
       /\ \A n \in 1..Len(e.chunk) :
            /\ e.chunk[n].of = r
            /\ e.chunk[n].at + e.chunk[n].row = e.step + n
       /\ e.pc = "waits" =>
            /\ worker # "none"
            /\ Cardinality({i \in 1..Len(batch) : batch[i] = <<r, e.step>>}) +
               Cardinality({i \in 1..Len(asked) : asked[i] = <<r, e.step>>}) = 1
       /\ e.wire <=> e.pc \in {"ticks", "waits"}
       /\ e.step <= RobotSteps
  /\ \A n \in BatchSize : Len(batch) <= n
  /\ batch # <<>> <=> worker \in {"gathers", "infers"}
=============================================================================
