------------------------------ MODULE RobotBridge ------------------------------
(***************************************************************************)
(* The simulation bridge (hud/environment/robot/bridge.py): episodes claim  *)
(* the slots of a vectorized simulator over a control link, one agent       *)
(* connection drives each claimed slot, and a tick loop steps all slots in  *)
(* lockstep once every live one has its action.  Coroutines of one event    *)
(* loop share the slots; every touch of the simulator is queued to the      *)
(* simulation thread and awaited.                                           *)
(*                                                                          *)
(* A slot token is a pair <<batch, slot>>: a slot is claimed at most once    *)
(* between two global resets, each of which configures new slot objects.    *)
(***************************************************************************)
EXTENDS Naturals, Sequences, FiniteSetsExt, SequencesExt

CONSTANTS
  NumEnvs,    \* num_envs
  Conn,       \* agent connections, each used once
  Link,       \* control connections
  Redial,     \* may an episode's agent connect a second time?
  SimMayFail, \* may the simulator's hooks raise?
  MaxBatch,   \* bound: global resets
  MaxSteps    \* bound: `steps` saturates here

ASSUME NumEnvsAssumption == NumEnvs \in Nat \ {0}
ASSUME BoundsAssumption == MaxBatch \in Nat /\ MaxSteps \in Nat \ {0}
ASSUME FlagsAssumption == Redial \in BOOLEAN /\ SimMayFail \in BOOLEAN

Slot == 1..NumEnvs
Tick == "tick"
None == "none"
ASSUME NamesAssumption == Conn \cap Link = {} /\ Tick \notin Conn \cup Link /\ None \notin Conn
NoClaim == <<0, 0>>
Claims == (0..MaxBatch) \X (0..NumEnvs)

VARIABLES
  slot,      \* _SlotRegistry.slots
  batch,     \* global resets configured so far
  issued,    \* tokens handed out
  dialed,    \* tokens some connection has claimed with
  conn,      \* each connection's handler, and what its agent last saw
  link,      \* each control connection's handler
  tick,      \* where _tick_loop is
  acting,    \* the slots it gathers from, steps, or has yet to write to
  stepOf,    \* the batch `acting` belongs to
  to,        \* whom its send waits for: the slot and the connection it had
  event,     \* _action_event
  simq,      \* _sim_q: who waits for the simulation thread, in order
  shot,      \* the observation last read for a requester: steps since reset
  steps      \* steps of the simulator since its reset (of every copy)

slots == <<slot, batch, issued>>
loop == <<tick, acting, stepOf, to>>
sim == <<simq, shot, steps>>
vars == <<slots, dialed, conn, link, loop, event, sim>>

Free == [claimed |-> FALSE, used |-> FALSE, ws |-> None, action |-> FALSE, idle |-> FALSE]
Claimed == [Free EXCEPT !.claimed = TRUE, !.used = TRUE]

New == [at |-> "new", claim |-> NoClaim, turn |-> "none", seen |-> 0,
        again |-> FALSE, failed |-> FALSE, gone |-> FALSE]
Shut == [New EXCEPT !.at = "closed"]
Nobody == [slot |-> 0, conn |-> None]

Init ==
  /\ slot = [s \in Slot |-> Free] /\ batch = 0 /\ issued = {} /\ dialed = {}
  /\ conn = [c \in Conn |-> New]
  /\ link = [l \in Link |-> [at |-> "idle", claim |-> NoClaim]]
  /\ tick = "wait" /\ acting = {} /\ stepOf = 0 /\ to = Nobody /\ event = FALSE
  /\ simq = <<>> /\ shot = [r \in Conn \cup {Tick} |-> 0] /\ steps = 0

\* An event set while the loop does not wait for it is cleared before it does.
Signal == event' = (tick = "gather")

OnSim(r) == simq' = Append(simq, r)
Done(r) == r \notin ToSet(simq)

-----------------------------------------------------------------------------
(* The simulation thread                                                     *)

SimRuns ==
  /\ simq # <<>> /\ simq' = Tail(simq)
  /\ LET r == Head(simq) IN
       \/ /\ r = Tick /\ tick = "stepping"
          /\ steps' = IF steps < MaxSteps THEN steps + 1 ELSE steps
          /\ UNCHANGED shot
       \/ /\ r \in Conn \/ (r = Tick /\ tick = "reading")
          /\ shot' = [shot EXCEPT ![r] = steps]
          /\ UNCHANGED steps
       \/ /\ r \in Link /\ link[r].at = "resetting"
          /\ steps' = 0 /\ UNCHANGED shot
       \/ /\ r \in Link /\ link[r].at = "scoring"
          /\ UNCHANGED <<shot, steps>>
  /\ UNCHANGED <<slots, dialed, conn, link, loop, event>>

-----------------------------------------------------------------------------
(* The control link: reset claims a slot, result scores and frees it         *)

AllFree == \A s \in Slot : ~slot[s].claimed
Resetting == {l \in Link : link[l].at = "resetting"}

Reclaimable_Reused == {s \in Slot : ~slot[s].claimed}

Reclaimable == {s \in Slot : ~slot[s].claimed /\ ~slot[s].used}

GlobalReset(l) ==
  /\ link[l].at = "idle" /\ AllFree /\ batch + Cardinality(Resetting) < MaxBatch
  /\ link' = [link EXCEPT ![l].at = "resetting"] /\ OnSim(l)
  /\ UNCHANGED <<slots, dialed, conn, loop, event, shot, steps>>

\* configure(): new slot objects, the first one claimed.
ResetDone(l) ==
  /\ link[l].at = "resetting" /\ Done(l)
  /\ link' = [link EXCEPT ![l].at = "idle"]
  /\ batch' = batch + 1
  /\ slot' = [s \in Slot |-> IF s = 1 THEN Claimed ELSE Free]
  /\ issued' = issued \cup {<<batch', 1>>}
  /\ UNCHANGED <<dialed, conn, loop, event, simq, shot, steps>>

ClaimSlot(l) ==
  /\ link[l].at = "idle" /\ ~AllFree /\ Reclaimable # {}
  /\ LET s == Min(Reclaimable) IN
       /\ slot' = [slot EXCEPT ![s] = Claimed]
       /\ issued' = issued \cup {<<batch, s>>}
  /\ UNCHANGED <<batch, dialed, conn, link, loop, event, sim>>

Valid(k) == k[1] = batch /\ slot[k[2]].claimed

Result(l, k) ==
  /\ link[l].at = "idle" /\ k \in issued /\ Valid(k)
  /\ link' = [link EXCEPT ![l] = [at |-> "scoring", claim |-> k]] /\ OnSim(l)
  /\ UNCHANGED <<slots, dialed, conn, loop, event, shot, steps>>

\* The slot object was looked up before the score was awaited.
Release_KeepsSocket(k) == slot' = [slot EXCEPT ![k[2]].claimed = FALSE]

Release(k) == slot' = [slot EXCEPT ![k[2]] = [Free EXCEPT !.used = TRUE]]

ResultDone(l) ==
  /\ link[l].at = "scoring" /\ Done(l)
  /\ IF link[l].claim[1] = batch THEN Release(link[l].claim) ELSE UNCHANGED slot
  /\ Signal
  /\ link' = [link EXCEPT ![l] = [at |-> "idle", claim |-> NoClaim]]
  /\ UNCHANGED <<batch, issued, dialed, conn, loop, sim>>

\* reset or result raised on the simulation thread.
ControlFails(l) ==
  /\ SimMayFail /\ link[l].at # "idle" /\ Done(l)
  /\ link' = [link EXCEPT ![l] = [at |-> "idle", claim |-> NoClaim]]
  /\ UNCHANGED <<slots, dialed, conn, loop, event, sim>>

-----------------------------------------------------------------------------
(* An agent's connection (_handle_client)                                    *)

Own(c) == conn[c].claim[2]
Current(c) == conn[c].claim[1] = batch

Joinable(k) == Valid(k) /\ slot[k[2]].ws = None

Join(c) ==
  /\ conn[c].at = "new"
  /\ \E k \in issued :
       /\ Redial \/ k \notin dialed
       /\ dialed' = dialed \cup {k}
       /\ IF Joinable(k)
            THEN /\ slot' = [slot EXCEPT ![k[2]].ws = c, ![k[2]].action = FALSE,
                                         ![k[2]].idle = FALSE]
                 /\ conn' = [conn EXCEPT ![c].at = "joining", ![c].claim = k,
                                         ![c].again = k \in dialed]
                 /\ Signal /\ OnSim(c)
            ELSE /\ conn' = [conn EXCEPT ![c] = Shut]
                 /\ UNCHANGED <<slot, event, simq>>
  /\ UNCHANGED <<batch, issued, link, loop, shot, steps>>

\* A send waits while the peer has not read enough of what was written to it: with
\* no timeout, and no pings (bridge.py:290).
Unread(c) ==
  \/ conn[c].at \in {"greeting", "last"}
  \/ tick \in {"telling", "failing", "sending", "ending"} /\ to.conn = c

\* Whether a frame written now makes its sender wait.
Waiting(c) == {w \in BOOLEAN : (conn[c].gone => ~w) /\ (Unread(c) => w)}

\* An observation for whatever connection the slot has.
Show(s, n, over) ==
  [conn EXCEPT ![slot[s].ws].seen = n, ![slot[s].ws].turn = IF over THEN "over" ELSE "act"]

\* Once the observation is sent, a terminated slot drops out of the barrier.
DropOut(s, over, present) ==
  IF over
    THEN /\ slot' = IF present THEN [slot EXCEPT ![s].idle = TRUE, ![s].action = FALSE] ELSE slot
         /\ Signal
    ELSE UNCHANGED <<slot, event>>

FirstObservation(c) ==
  /\ conn[c].at = "joining" /\ Done(c)
  /\ shot' = [shot EXCEPT ![c] = 0]
  /\ IF Current(c) /\ slot[Own(c)].ws # None
       THEN \E over \in BOOLEAN, waits \in Waiting(slot[Own(c)].ws) :
              IF waits
                THEN /\ conn' = [Show(Own(c), shot[c], over)
                                   EXCEPT ![c].at = IF over THEN "last" ELSE "greeting"]
                     /\ UNCHANGED <<slot, event>>
                ELSE /\ conn' = [Show(Own(c), shot[c], over) EXCEPT ![c].at = "open"]
                     /\ DropOut(Own(c), over, TRUE)
       ELSE conn' = [conn EXCEPT ![c].at = "open"] /\ UNCHANGED <<slot, event>>
  /\ UNCHANGED <<batch, issued, dialed, link, loop, simq, steps>>

\* The peer reads, or is gone and the send raises.
Greeted(c) ==
  /\ conn[c].at \in {"greeting", "last"}
  /\ conn' = [conn EXCEPT ![c].at = "open"]
  /\ DropOut(Own(c), conn[c].at = "last", Current(c))
  /\ UNCHANGED <<batch, issued, dialed, link, loop, sim>>

\* The agent answers an observation; the handler does not look at slot.ws.
Act(c) ==
  /\ conn[c].at = "open" /\ conn[c].turn = "act" /\ ~conn[c].gone
  /\ ~(tick \in {"sending", "ending"} /\ to.conn = c)
  /\ conn' = [conn EXCEPT ![c].turn = "obs"]
  /\ slot' = IF Current(c) THEN [slot EXCEPT ![Own(c)].action = TRUE, ![Own(c)].idle = FALSE]
                           ELSE slot
  /\ Signal
  /\ UNCHANGED <<batch, issued, dialed, link, loop, sim>>

HangUp(c) ==
  /\ conn[c].at \in {"joining", "greeting", "last", "open"} /\ ~conn[c].gone
  /\ conn' = [conn EXCEPT ![c].gone = TRUE]
  /\ UNCHANGED <<slots, dialed, link, loop, event, sim>>

\* Idle, not pending: a dropped connection must not stall the barrier.
Dropped(s) == [slot[s] EXCEPT !.ws = None, !.action = FALSE, !.idle = TRUE]

HandlerEnds(c) ==
  /\ conn[c].at = "open" /\ (conn[c].gone \/ conn[c].failed)
  /\ conn' = [conn EXCEPT ![c] = Shut]
  /\ IF Current(c) /\ slot[Own(c)].ws = c
       THEN slot' = [slot EXCEPT ![Own(c)] = Dropped(Own(c))] /\ Signal
       ELSE UNCHANGED <<slot, event>>
  /\ UNCHANGED <<batch, issued, dialed, link, loop, sim>>

-----------------------------------------------------------------------------
(* The barrier (_tick_loop)                                                  *)

Live == {s \in Slot : slot[s].claimed /\ ~slot[s].idle}
Dialing == \E s \in Slot : slot[s].claimed /\ slot[s].ws = None /\ ~slot[s].idle

Rest == tick' = "wait" /\ acting' = {} /\ stepOf' = 0

Ready_Some == \E s \in Live : slot[s].action

Ready == \A s \in Live : slot[s].action

\* Look at the slots: nobody to wait for, everybody ready, or wait on.
Round ==
  \/ /\ Live = {} \/ Dialing
     /\ Rest /\ UNCHANGED <<slot, simq>>
  \/ /\ Live # {} /\ ~Dialing /\ Ready
     /\ tick' = "stepping" /\ acting' = {s \in Live : slot[s].action} /\ stepOf' = batch
     /\ slot' = [s \in Slot |-> [slot[s] EXCEPT !.action = FALSE]]
     /\ OnSim(Tick)
  \/ /\ Live # {} /\ ~Dialing /\ ~Ready
     /\ tick' = "gather" /\ acting' = Live /\ stepOf' = batch
     /\ UNCHANGED <<slot, simq>>

Wake ==
  /\ tick \in {"wait", "gather"} /\ (event \/ tick = "wait") /\ event' = FALSE
  /\ Round
  /\ UNCHANGED <<batch, issued, dialed, conn, link, to, shot, steps>>

Silent_None == {}

Silent == {s \in acting : stepOf = batch /\ ~slot[s].action /\ slot[s].ws # None}

\* A step that raised is told to everybody connected, whatever they do.
Connected == {s \in acting : stepOf = batch /\ slot[s].ws # None}
Failing == IF tick = "fail" THEN Connected ELSE Silent

\* step_timeout passes: the silent ones are told, closed and left behind.
TimedOut == tick = "tell" \/ (tick = "gather" /\ ~event)

\* The first of some slots is written to, those behind it are asked in their turn.
Turn(s, among) == s \in among /\ (\A t \in among : s <= t) /\ acting' = {t \in acting : s < t}

\* It drops out before the send is awaited, and is closed when that has returned.
Tell ==
  /\ TimedOut \/ tick = "fail"
  /\ \E s \in Failing, waits \in BOOLEAN :
       /\ Turn(s, Failing) /\ waits \in Waiting(slot[s].ws)
       /\ slot' = [slot EXCEPT ![s].idle = TRUE]
       /\ IF waits
            THEN /\ tick' = IF tick = "fail" THEN "failing" ELSE "telling"
                 /\ to' = [slot |-> s, conn |-> slot[s].ws] /\ UNCHANGED conn
            ELSE /\ tick' = IF tick = "fail" THEN "fail" ELSE "tell"
                 /\ conn' = [conn EXCEPT ![slot[s].ws].failed = TRUE] /\ UNCHANGED to
  /\ UNCHANGED <<batch, issued, dialed, link, stepOf, event, sim>>

\* The peer reads, and the connection is closed if it is still the slot's; or it
\* is gone, the send raises, and there is nothing to close.
Told ==
  /\ tick \in {"telling", "failing"}
  /\ conn' = IF stepOf = batch /\ slot[to.slot].ws = to.conn /\ ~conn[to.conn].gone
               THEN [conn EXCEPT ![to.conn].failed = TRUE] ELSE conn
  /\ tick' = (IF tick = "telling" THEN "tell" ELSE "fail") /\ to' = Nobody
  /\ UNCHANGED <<slots, dialed, link, acting, stepOf, event, sim>>

\* The others go on without them.
AllTold ==
  /\ TimedOut /\ Failing = {}
  /\ Round
  /\ UNCHANGED <<batch, issued, dialed, conn, link, to, event, shot, steps>>

AllFailed ==
  /\ tick = "fail" /\ Failing = {} /\ Rest
  /\ UNCHANGED <<slots, dialed, conn, link, to, event, sim>>

StepDone ==
  /\ tick = "stepping" /\ Done(Tick)
  /\ tick' = "reading" /\ OnSim(Tick)
  /\ UNCHANGED <<slots, dialed, conn, link, acting, stepOf, to, event, shot, steps>>

SimRaises ==
  /\ SimMayFail /\ tick \in {"stepping", "reading"} /\ Done(Tick)
  /\ tick' = "fail" /\ acting' = {s \in Slot : slot[s].claimed} /\ stepOf' = batch
  /\ UNCHANGED <<slots, dialed, conn, link, to, event, sim>>

\* Each slot gets its row of what was read, one send after the other.
Read == tick = "fan" \/ (tick = "reading" /\ Done(Tick))

FanOut ==
  /\ Read
  /\ \E s \in Connected :
       /\ Turn(s, Connected)
       /\ \E over \in BOOLEAN, waits \in Waiting(slot[s].ws) :
            /\ conn' = Show(s, shot[Tick], over)
            /\ IF waits
                 THEN /\ tick' = IF over THEN "ending" ELSE "sending"
                      /\ to' = [slot |-> s, conn |-> slot[s].ws]
                      /\ UNCHANGED <<slot, event>>
                 ELSE tick' = "fan" /\ UNCHANGED to /\ DropOut(s, over, TRUE)
  /\ UNCHANGED <<batch, issued, dialed, link, stepOf, sim>>

FanSent ==
  /\ tick \in {"sending", "ending"}
  /\ tick' = "fan" /\ to' = Nobody
  /\ DropOut(to.slot, tick = "ending", stepOf = batch)
  /\ UNCHANGED <<batch, issued, dialed, conn, link, acting, stepOf, sim>>

AllSent ==
  /\ Read /\ Connected = {} /\ Rest
  /\ UNCHANGED <<slots, dialed, conn, link, to, event, sim>>

-----------------------------------------------------------------------------
\* Connections are alike.
ConnSymmetry == Permutations(Conn)

Sent == Told \/ FanSent
TickLoop ==
  \/ Wake \/ Tell \/ AllTold \/ AllFailed
  \/ StepDone \/ SimRaises \/ FanOut \/ AllSent

Control(l) ==
  \/ GlobalReset(l) \/ ResetDone(l) \/ ClaimSlot(l) \/ ResultDone(l) \/ ControlFails(l)
  \/ \E k \in issued : Result(l, k)

Agent(c) ==
  \/ Join(c) \/ FirstObservation(c) \/ Greeted(c) \/ Act(c) \/ HangUp(c) \/ HandlerEnds(c)

Next ==
  \/ SimRuns \/ TickLoop \/ Sent
  \/ (\E l \in Link : Control(l)) \/ (\E c \in Conn : Agent(c))

Spec == Init /\ [][Next]_vars

\* An episode that claimed a slot dials it, or ends and gives it back.
Undialed(k) == Valid(k) /\ slot[k[2]].ws = None /\ ~slot[k[2]].idle

\* Coroutines run, the simulator answers, timers fire, and dialing is bounded.
\* Nothing is assumed of the agents: none has to act, to read or to hang up.  A
\* send that waits for one returns when it reads, or raises when it is gone.
Raises == \E c \in Conn : to.conn = c /\ conn[c].gone /\ Sent
FairSpec ==
  /\ Spec /\ WF_vars(SimRuns) /\ WF_vars(TickLoop) /\ WF_vars(Raises)
  /\ \A l \in Link :
       /\ WF_vars(ResetDone(l)) /\ WF_vars(ResultDone(l))
       /\ SF_vars(\E k \in issued : Undialed(k) /\ Result(l, k))
  /\ \A c \in Conn : 
       /\ WF_vars(FirstObservation(c)) /\ WF_vars(conn[c].gone /\ Greeted(c))
       /\ WF_vars(HandlerEnds(c))

-----------------------------------------------------------------------------
(* Properties                                                                *)

\* A slot's connection is one that claimed it with the token of its present
\* episode: no connection outlives the episode it was opened for (bridge.py:352).
OwnEpisode ==
  \A s \in Slot : LET c == slot[s].ws IN
    c # None => slot[s].claimed /\ conn[c].claim = <<batch, s>>

\* An action waiting at the barrier answers the simulator's present state: no
\* step went by between the observation its agent saw and the action's own step
\* (bridge.py:393), unless the agent joined again while a step was in flight.
ActsOnWhatItSaw ==
  \A s \in Slot : LET c == slot[s].ws IN
    c # None /\ slot[s].action => conn[c].failed \/ conn[c].again \/ conn[c].seen = steps

\* An agent whose action was taken in gets an observation or an error, as long as
\* the others dial or give up, and whoever stays connected reads what it is sent:
\* an agent that never acts stalls nobody for good (bridge.py:376), one that never
\* reads may (bridge.py:387, 446).
Waits(c) == conn[c].at = "open" /\ conn[c].turn = "obs" /\ Current(c) /\ slot[Own(c)].ws = c
ReadByAgents == \A c \in Conn : []<>~Unread(c)
AgentAnswered == ReadByAgents => \A c \in Conn : Waits(c) ~> ~Waits(c)

\* The tokens of episodes that go on, and the slots the batch has used up.
Ongoing == {<<batch, s>> : s \in {s \in Slot : slot[s].claimed}}
UsedUp == {s \in Slot : slot[s].used}

SlotBook == INSTANCE SlotLedger WITH
  Token <- Claims, Size <- NumEnvs,
  open <- Ongoing, given <- issued, used <- Cardinality(UsedUp)

\* Every step of the bridge is a step of the slot ledger, or leaves it alone: a
\* batch is reset for all slots at once only when no episode goes on in any, and
\* a slot freed early is not given out again before (bridge.py:77, bridge.py:182).
ImplementsSlotBook == SlotBook!Spec
=============================================================================
