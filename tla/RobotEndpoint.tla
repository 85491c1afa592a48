----------------------------- MODULE RobotEndpoint -----------------------------
(***************************************************************************)
(* The environment's handle on a simulation process                         *)
(* (hud/environment/robot/endpoint.py): the sessions of the environment     *)
(* share one control link to the bridge, one call at a time under a lock.   *)
(* A session resets (claims a slot), runs its episode, asks for the result  *)
(* (frees the slot) and is torn down, cancelled or not; teardown frees the  *)
(* slot if result never did, stop() frees what teardown could not.          *)
(*                                                                          *)
(* Replies bear a constant id: a call that is cut after its request was sent *)
(* leaves its reply to the next caller, and that one's to the one after it.  *)
(* Tasks pass their token to result().  The bridge is reduced to its slots   *)
(* (see RobotBridge); a token is named by the session whose reset got it.    *)
(***************************************************************************)
EXTENDS Naturals, Sequences, FiniteSets

CONSTANTS
  Session,   \* control sessions
  NumEnvs,   \* slots of the bridge
  Attempts,  \* attempts of _result_with_retry
  MaxCuts,   \* calls that are cancelled or time out after their request was sent
  Faults     \* of the kinds below, those that happen

ASSUME NumEnvsAssumption == NumEnvs \in Nat \ {0} /\ Attempts \in Nat \ {0} /\ MaxCuts \in Nat

\* "busy": a release times out while others hold the link
\* "sim": the simulator's hooks raise, or a reset's arguments are not the batch's
ASSUME FaultsAssumption == Faults \subseteq {"busy", "sim"}

Token == Session \X (Nat \ {0})   \* the n-th slot a session's resets were given
None == <<>>
Freed == <<"">>

VARIABLES
  at,        \* what the session is doing
  stage,     \* where its call is: not calling, at the lock, sent, between tries
  tries,     \* failed attempts of its release
  line,      \* _lock: its holder and, behind it, the waiters
  claims,    \* _claims
  stopping,  \* stop(): not begun, draining, link dropped
  drained,   \* sessions stop() has dealt with
  wire,      \* requests the bridge has not read
  replies,   \* replies the endpoint has not read
  open,      \* tokens claimed on the bridge
  used,      \* slots used since the bridge's last global reset
  given,     \* how many tokens the bridge gave each session
  cuts,      \* history: calls cut after their request was sent
  astray     \* history: sessions one of whose calls was cut, or read another's reply

calls == <<stage, line>>
link == <<wire, replies>>
bridge == <<open, used, given>>
past == <<cuts, astray>>
vars == <<at, calls, tries, claims, stopping, drained, link, bridge, past>>

Init ==
  /\ at = [s \in Session |-> "new"] /\ stage = [s \in Session |-> "none"]
  /\ tries = [s \in Session |-> 0] /\ line = <<>>
  /\ claims = [s \in Session |-> None]
  /\ stopping = "no" /\ drained = {}
  /\ wire = <<>> /\ replies = <<>>
  /\ open = {} /\ used = 0 /\ given = [s \in Session |-> 0]
  /\ cuts = 0 /\ astray = {}

-----------------------------------------------------------------------------
(* The bridge answers requests in the order they were sent                   *)

Answer(by, kind, token) == replies' = Append(replies, [by |-> by, kind |-> kind, token |-> token])

Grant(s) == LET t == <<s, given[s] + 1>> IN
  open' = open \cup {t} /\ given' = [given EXCEPT ![s] = @ + 1] /\ Answer(s, "ok", t)

BridgeReset(s) ==
  \/ /\ open = {} /\ used' = 1 /\ Grant(s)
  \/ /\ open # {} /\ used < NumEnvs /\ used' = used + 1 /\ Grant(s)
  \/ /\ open # {} /\ used = NumEnvs /\ Answer(s, "full", None) /\ UNCHANGED bridge
  \/ /\ "sim" \in Faults /\ Answer(s, "error", None) /\ UNCHANGED bridge

\* Mutant: the only claimed slot is meant, whatever the token.
Resolved_Lenient(k) == IF Cardinality(open) = 1 THEN open ELSE open \cap {k}

Resolved(k) == open \cap {k}

BridgeResult(s, k) ==
  \/ /\ Resolved(k) # {} /\ open' = open \ Resolved(k)
     /\ Answer(s, "ok", None) /\ UNCHANGED <<used, given>>
  \/ /\ Resolved(k) = {} \/ "sim" \in Faults
     /\ Answer(s, "error", None) /\ UNCHANGED bridge

Serve ==
  /\ wire # <<>> /\ wire' = Tail(wire)
  /\ LET q == Head(wire) IN
       IF q.method = "reset" THEN BridgeReset(q.by) ELSE BridgeResult(q.by, q.token)
  /\ UNCHANGED <<at, calls, tries, claims, stopping, drained, past>>

-----------------------------------------------------------------------------
(* One call of a session (_call)                                             *)

Enqueue(s) == stage' = [stage EXCEPT ![s] = "wait"] /\ line' = Append(line, s)

\* A session that is in the line leaves it, from wherever it stands.
Without(k) == [i \in 1..(Len(line) - 1) |-> IF i < k THEN line[i] ELSE line[i + 1]]
LeavesAs(s, st) ==
  /\ stage' = [stage EXCEPT ![s] = st]
  /\ IF \E k \in DOMAIN line : line[k] = s
       THEN \E k \in DOMAIN line : line[k] = s /\ line' = Without(k)
       ELSE line' = line

Goes(s, where) == at' = [at EXCEPT ![s] = where]

\* Whoever had sent its request leaves the reply to others.
CutOff(s) ==
  IF stage[s] = "sent" THEN cuts < MaxCuts /\ cuts' = cuts + 1 /\ astray' = astray \cup {s}
  ELSE UNCHANGED past

Send_Unlocked(s) ==
  /\ stage[s] = "wait" /\ stage' = [stage EXCEPT ![s] = "sent"]
  /\ wire' = Append(wire, [by |-> s, method |-> IF at[s] = "reset" THEN "reset" ELSE "result",
                           token |-> claims[s]])
  /\ UNCHANGED <<at, tries, line, claims, stopping, drained, replies, bridge, past>>

Send(s) ==
  /\ stage[s] = "wait" /\ Head(line) = s
  /\ stage' = [stage EXCEPT ![s] = "sent"]
  /\ wire' = Append(wire, [by |-> s, method |-> IF at[s] = "reset" THEN "reset" ELSE "result",
                           token |-> claims[s]])
  /\ UNCHANGED <<at, tries, line, claims, stopping, drained, replies, bridge, past>>

Retry(s) ==
  /\ stage[s] = "sleep" /\ Enqueue(s)
  /\ UNCHANGED <<at, tries, claims, stopping, drained, link, bridge, past>>

-----------------------------------------------------------------------------
(* The session                                                               *)

Reset(s) ==
  /\ at[s] = "new" /\ stopping = "no" /\ Goes(s, "reset") /\ Enqueue(s)
  /\ UNCHANGED <<tries, claims, stopping, drained, link, bridge, past>>

Full_KeepsLock(s) == stage' = [stage EXCEPT ![s] = "wait"] /\ UNCHANGED line

\* Batch full: the lock is dropped between tries so that a peer can result.
Full(s) == LeavesAs(s, "sleep")

\* The task fails on an error, and on a score: that has no prompt.
ResetReplied(s, msg) ==
  \/ /\ msg.kind = "full" /\ Full(s) /\ UNCHANGED <<at, claims>>
  \/ /\ msg.kind = "ok" /\ msg.token # None /\ LeavesAs(s, "none") /\ Goes(s, "episode")
     /\ claims' = [claims EXCEPT ![s] = msg.token]
  \/ /\ msg.kind # "full" /\ msg.token = None
     /\ LeavesAs(s, "none") /\ Goes(s, "teardown") /\ UNCHANGED claims

Finish(s) ==
  /\ at[s] = "episode" /\ Goes(s, "result") /\ Enqueue(s)
  /\ UNCHANGED <<tries, claims, stopping, drained, link, bridge, past>>

\* Freed; disconnect or cancel must not ask for the result again.
Scored(s) == claims' = [claims EXCEPT ![s] = Freed]

ResultReplied_AlwaysFreed(s, msg) ==
  LeavesAs(s, "none") /\ Goes(s, "teardown") /\ Scored(s)

ResultReplied(s, msg) ==
  /\ LeavesAs(s, "none") /\ Goes(s, "teardown")
  /\ IF msg.kind = "ok" THEN Scored(s) ELSE UNCHANGED claims

\* The session's task is cancelled (cancel, bye, a dropped connection), and it is
\* torn down; the teardown, which only suppresses exceptions, ends there.
Cancel(s) ==
  /\ \/ at[s] \in {"reset", "episode", "result"} /\ Goes(s, "teardown")
     \/ at[s] \in {"teardown", "release"} /\ stopping = "no" /\ Goes(s, "ended")
  /\ LeavesAs(s, "none") /\ CutOff(s) /\ tries' = [tries EXCEPT ![s] = 0]
  /\ UNCHANGED <<claims, stopping, drained, link, bridge>>

-----------------------------------------------------------------------------
(* Teardown (release_claim) and stop()                                       *)

Teardown(s) ==
  /\ at[s] = "teardown"
  /\ IF claims[s] \in {None, Freed}
       THEN /\ Goes(s, "ended") /\ claims' = [claims EXCEPT ![s] = None]
            /\ UNCHANGED calls
       ELSE /\ Goes(s, "release") /\ Enqueue(s) /\ UNCHANGED claims
  /\ UNCHANGED <<tries, stopping, drained, link, bridge, past>>

\* The claim is kept: stop() drains leftovers while the link is up.
GiveUp(s) == UNCHANGED claims

AttemptFails(s) ==
  IF tries[s] + 1 < Attempts
    THEN tries' = [tries EXCEPT ![s] = @ + 1] /\ LeavesAs(s, "sleep") /\ UNCHANGED <<at, claims>>
    ELSE /\ tries' = [tries EXCEPT ![s] = 0] /\ LeavesAs(s, "none") /\ Goes(s, "ended")
         /\ GiveUp(s)

ReleaseReplied(s, msg) ==
  IF msg.kind = "ok"
    THEN /\ tries' = [tries EXCEPT ![s] = 0] /\ LeavesAs(s, "none") /\ Goes(s, "ended")
         /\ claims' = [claims EXCEPT ![s] = None]
    ELSE AttemptFails(s)

\* wait_for covers the wait for the lock as well as the reply.
ReleaseTimeout(s) ==
  /\ at[s] = "release"
  /\ \/ stage[s] = "sent"
     \/ stage[s] = "wait" /\ Head(line) # s /\ "busy" \in Faults
  /\ CutOff(s) /\ AttemptFails(s)
  /\ UNCHANGED <<stopping, drained, link, bridge>>

\* The next frame is taken for the reply, whoever asked for it.
Receive(s) ==
  /\ stage[s] = "sent" /\ replies # <<>> /\ replies' = Tail(replies)
  /\ \/ at[s] = "reset" /\ ResetReplied(s, Head(replies)) /\ UNCHANGED tries
     \/ at[s] = "result" /\ ResultReplied(s, Head(replies)) /\ UNCHANGED tries
     \/ at[s] = "release" /\ ReleaseReplied(s, Head(replies))
  /\ astray' = IF Head(replies).by = s THEN astray ELSE astray \cup {s}
  /\ UNCHANGED <<stopping, drained, wire, bridge, cuts>>

\* Shutdown hooks run once the sessions' tasks are gone.
Stop ==
  /\ stopping = "no" /\ \A s \in Session : at[s] \in {"new", "ended"}
  /\ stopping' = "draining"
  /\ UNCHANGED <<at, calls, tries, claims, drained, link, bridge, past>>

Drain(s) ==
  /\ stopping = "draining" /\ s \notin drained /\ \A r \in Session : at[r] # "release"
  /\ claims[s] \notin {None, Freed}
  /\ drained' = drained \cup {s} /\ Goes(s, "release") /\ Enqueue(s)
  /\ UNCHANGED <<tries, claims, stopping, link, bridge, past>>

DropLink ==
  /\ stopping = "draining" /\ \A s \in Session : at[s] # "release"
  /\ \A s \in Session : claims[s] \in {None, Freed} \/ s \in drained
  /\ stopping' = "dropped"
  /\ UNCHANGED <<at, calls, tries, claims, drained, link, bridge, past>>

-----------------------------------------------------------------------------
Task(s) ==
  \/ Reset(s) \/ Send(s) \/ Receive(s) \/ Retry(s) \/ Finish(s) \/ Cancel(s)
  \/ Teardown(s) \/ ReleaseTimeout(s) \/ Drain(s)

Next == Serve \/ Stop \/ DropLink \/ \E s \in Session : Task(s)

-----------------------------------------------------------------------------
(* Properties                                                                *)

\* The sessions whose replies are to come, oldest first: those that lie unread,
\* and those of the requests the bridge has yet to read.
Due == [i \in 1..(Len(replies) + Len(wire)) |->
          IF i <= Len(replies) THEN replies[i].by ELSE wire[i - Len(replies)].by]

\* "Serialize send+read so replies don't cross" (endpoint.py:139): a caller reads
\* the reply to its own request, until a call is cut after it was sent (a release's
\* ten seconds, a task cancelled in its reset).  From then on, and for good, each
\* caller reads the reply that belongs to the caller before it, or as many before
\* it as calls were cut.
RepliesMatch ==
  /\ \A s \in Session : stage[s] = "sent" => Len(Due) = cuts + 1 /\ Due[cuts + 1] = s
  /\ (\A s \in Session : stage[s] # "sent") => Len(Due) = cuts
  /\ cuts = 0 => astray = {}

\* A claimed slot is known to the endpoint as its session's, which will free it at
\* teardown or at stop, or the session still awaits the reply that tells it
\* (endpoint.py:271): unless a call of that very session was cut or misled, no
\* other's trouble loses it a slot.
SlotTracked ==
  \A t \in open : LET s == t[1] IN
    claims[s] = t \/ (at[s] = "reset" /\ stage[s] = "sent") \/ s \in astray

\* A session that was not misled itself plays on the slot it was given, until it
\* asks for the result: nobody else's release, retried or late, frees it
\* (endpoint.py:306), whatever others make of the replies they read.
SlotKept ==
  \A s \in Session \ astray :
    at[s] = "episode" \/ (at[s] = "result" /\ stage[s] = "wait") =>
      claims[s] \in open /\ claims[s][1] = s

\* A session that wants a slot gets one, or its task ends, although the batch is
\* full when it asks: its peers can still result (endpoint.py:264).  A slot whose
\* release was given up, or of which its session does not know, is lost to the batch.
Lost == \E t \in open : LET s == t[1] IN
          at[s] = "ended" \/ (claims[s] # t /\ ~(at[s] = "reset" /\ stage[s] = "sent"))
ResetServed == \A s \in Session : at[s] = "reset" ~> at[s] # "reset" \/ Lost
=============================================================================
