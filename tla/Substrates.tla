------------------------------- MODULE Substrates -------------------------------
(***************************************************************************)
(* What the providers of hud/eval/runtime bring up for a rollout and take  *)
(* down again.  A provider is an async context manager: awaits that bring  *)
(* something up, then the rollout's body, then finally blocks.  Each await *)
(* may fail, or be cut by a cancellation, before or after its effect.      *)
(***************************************************************************)
EXTENDS Naturals, Sequences

CONSTANTS Leases,    \* acquisitions of one provider
          Providers, \* which of the providers below
          Cuts,      \* cancellations one acquisition may meet
          LateCuts,  \* whether a cancellation may meet the teardown
          None

\* An await of __aenter__: what the service makes, though the caller may be
\* cut or refused, and what exists here once it has returned.
Step(far, near) == [far |-> far, near |-> near]
Ask == Step({}, {})
\* A finally block that is entered from the await "from" on; an exception that
\* is not suppressed leaves the rest of the block out.
Block(from, undoes) == [from |-> from, undoes |-> undoes]

\* "prepare": the first await is made under a lock, by each acquisition or
\* until one has succeeded.  "expires": the run timeout removes it.
DockerImage == [prepare |-> "no", expires |-> "container",
  up |-> <<Step({"container"}, {}), Ask, Step({}, {"logs"})>>,
  down |-> <<Block(4, <<"logs">>), Block(2, <<"container">>)>>]

DockerCompose == [prepare |-> "each", expires |-> "project",
  up |-> <<Step({}, {"files"}), Step({"project"}, {}), Ask, Step({}, {"logs"})>>,
  down |-> <<Block(5, <<"logs">>), Block(2, <<"project">>), Block(2, <<"files">>)>>]

ModalImage == [prepare |-> "once", expires |-> "sandbox",
  up |-> <<Ask, Step({"sandbox"}, {"logs"}), Ask>>,
  down |-> <<Block(3, <<"sandbox", "logs">>)>>]

ModalCompose == [prepare |-> "no", expires |-> "sandbox",
  up |-> <<Step({"sandbox"}, {}), Ask, Step({"project"}, {}), Step({}, {"logs"})>>,
  down |-> <<Block(2, <<"project", "sandbox", "logs">>)>>]

Daytona == [prepare |-> "once", expires |-> None,
  up |-> <<Step({}, {}), Step({"sandbox"}, {}), Step({}, {"logs"}), Ask, Step({}, {"ssh"})>>,
  down |-> <<Block(6, <<"ssh">>), Block(3, <<"sandbox", "logs">>)>>]

HUDTunnel == [prepare |-> "no", expires |-> None,
  up |-> <<Step({"session"}, {}), Step({}, {"listener"})>>,
  down |-> <<Block(2, <<"listener", "session">>)>>]

Subprocess == [prepare |-> "no", expires |-> None,
  up |-> <<Step({}, {"group", "logs"}), Ask>>,
  down |-> <<Block(2, <<"group", "logs">>)>>]

Program == [docker_image |-> DockerImage, docker_compose |-> DockerCompose,
            modal_image |-> ModalImage, modal_compose |-> ModalCompose,
            daytona |-> Daytona, tunnel |-> HUDTunnel, subprocess |-> Subprocess]

ASSUME SubstratesAssumption == Providers \subseteq DOMAIN Program /\ None \notin Leases

VARIABLES
  provider, \* the one that all acquisitions share
  at,       \* at[l]: the await it is in, 0 before, Len(up) + 1 in the body
  todo,     \* todo[l]: the next teardown call, its block and its place there
  phase,    \* "idle", "lock", "up", "body", "down" or "left"
  world,    \* world[l]: what exists of it
  unknown,  \* unknown[l]: what a call made whose answer never came
  asked,    \* asked[l]: what a teardown call was made for
  cuts,     \* cuts[l]: the cancellations it has met
  lock,     \* the acquisition that prepares, or None
  prepared  \* how often the preparation has succeeded

vars == <<provider, at, todo, phase, world, unknown, asked, cuts, lock, prepared>>

P == Program[provider]
Ready == Len(P.up) + 1

Init ==
  /\ provider \in Providers
  /\ at = [l \in Leases |-> 0] /\ todo = [l \in Leases |-> <<0, 0>>]
  /\ phase = [l \in Leases |-> "idle"] /\ cuts = [l \in Leases |-> 0]
  /\ world = [l \in Leases |-> {}] /\ unknown = world /\ asked = world
  /\ lock = None /\ prepared = 0

Begin(l) ==
  /\ phase[l] = "idle"
  /\ at' = [at EXCEPT ![l] = 1]
  /\ phase' = [phase EXCEPT ![l] = IF P.prepare = "no" THEN "up" ELSE "lock"]
  /\ UNCHANGED <<provider, todo, world, unknown, asked, cuts, lock, prepared>>

\* Mutant: the second acquisition does not look again once it has the lock.
Resolved_Stale == FALSE
Resolved == P.prepare = "once" /\ prepared > 0

\* The double-checked lock: what is resolved already is not resolved again.
Prepare(l) ==
  /\ phase[l] = "lock" /\ lock = None
  /\ phase' = [phase EXCEPT ![l] = "up"]
  /\ IF Resolved THEN at' = [at EXCEPT ![l] = 2] /\ lock' = lock
                 ELSE lock' = l /\ at' = at
  /\ UNCHANGED <<provider, todo, world, unknown, asked, cuts, prepared>>

\* Mutant: no async with, so that what raises keeps the lock.
Unlocked_Kept(l) == IF phase'[l] \in {"up", "body"} /\ lock = l THEN None ELSE lock
Unlocked(l) == IF lock = l THEN None ELSE lock

Returns(l) ==
  /\ phase[l] = "up"
  /\ world' = [world EXCEPT ![l] = @ \cup P.up[at[l]].far \cup P.up[at[l]].near]
  /\ at' = [at EXCEPT ![l] = @ + 1]
  /\ phase' = [phase EXCEPT ![l] = IF at[l] + 1 = Ready THEN "body" ELSE "up"]
  /\ prepared' = IF lock = l THEN prepared + 1 ELSE prepared
  /\ lock' = Unlocked(l)
  /\ UNCHANGED <<provider, todo, unknown, asked, cuts>>

\* The await (or the body) is inside the blocks from the i-th on: they nest.
\* Mutant: the try begins after the first call that it should cover.
Entered_Late(l, i) == \A j \in DOMAIN P.down : P.down[j].from < at[l] <=> i <= j
Entered(l, i) == \A j \in DOMAIN P.down : P.down[j].from <= at[l] <=> i <= j

\* Control passes to a block: the innermost one left, or out of the last.
Unwind(l, next) ==
  /\ todo' = [todo EXCEPT ![l] = next]
  /\ phase' = [phase EXCEPT ![l] = IF next[1] > Len(P.down) THEN "left" ELSE "down"]

Down(l) ==
  /\ \E i \in 1..(Len(P.down) + 1) : Entered(l, i) /\ Unwind(l, <<i, 1>>)
  /\ lock' = Unlocked(l)

\* The await raises: its own error, or the cancellation.
Raises(l) ==
  /\ phase[l] = "up"
  /\ \E done \in SUBSET P.up[at[l]].far :
       /\ world' = [world EXCEPT ![l] = @ \cup done]
       /\ unknown' = [unknown EXCEPT ![l] = @ \cup done]
  /\ Down(l)
  /\ \/ cuts' = cuts
     \/ cuts[l] < Cuts /\ cuts' = [cuts EXCEPT ![l] = @ + 1]
  /\ UNCHANGED <<provider, at, asked, prepared>>

\* Cancelled while it waits for the lock.
GiveUp(l) ==
  /\ phase[l] = "lock" /\ cuts[l] < Cuts
  /\ cuts' = [cuts EXCEPT ![l] = @ + 1]
  /\ Down(l)
  /\ UNCHANGED <<provider, at, world, unknown, asked, prepared>>

\* The body ends, in whatever way.
Leave(l) ==
  /\ phase[l] = "body" /\ Down(l)
  /\ UNCHANGED <<provider, at, world, unknown, asked, cuts, prepared>>

\* _docker_deadline, or the sandbox's own timeout.
Expire(l) ==
  /\ phase[l] = "body" /\ P.expires \in world[l]
  /\ world' = [world EXCEPT ![l] = @ \ {P.expires}]
  /\ UNCHANGED <<provider, at, todo, phase, unknown, asked, cuts, lock, prepared>>

\* What goes with a thing: a Modal sandbox holds the project it runs.
With(x) == IF x = "sandbox" THEN {"sandbox", "project"} ELSE {x}

\* The next teardown call: made, answered, refused without a word or cut.
TakeDown(l) ==
  LET block == todo[l][1]
      call == todo[l][2]
      x == P.down[block].undoes[call]
  IN /\ phase[l] = "down"
     /\ asked' = [asked EXCEPT ![l] = @ \cup With(x)]
     /\ world' \in {world, [world EXCEPT ![l] = @ \ With(x)]}
     /\ \/ /\ cuts' = cuts
           /\ Unwind(l, IF call < Len(P.down[block].undoes) THEN <<block, call + 1>>
                        ELSE <<block + 1, 1>>)
        \/ /\ LateCuts /\ cuts[l] < Cuts
           /\ cuts' = [cuts EXCEPT ![l] = @ + 1]
           /\ Unwind(l, <<block + 1, 1>>)
     /\ UNCHANGED <<provider, at, unknown, lock, prepared>>

Proceed(l) == Prepare(l) \/ Returns(l) \/ Raises(l) \/ TakeDown(l)
NextSubstrate == \E l \in Leases : Begin(l) \/ Proceed(l) \/ GiveUp(l) \/ Leave(l) \/ Expire(l)

\* Every await returns or raises: the services answer, or the calls time out.
FairSubstrate == \A l \in Leases : WF_vars(Proceed(l))
Spec == Init /\ [][NextSubstrate]_vars /\ FairSubstrate

-----------------------------------------------------------------------------
\* A provider that has been left has asked for the end of all it brought up,
\* but for what a call made whose answer never came (docker.py:299, the
\* sandboxes' and the session's creation alike).
NoneForgotten ==
  \A l \in Leases : phase[l] = "left" => world[l] \subseteq asked[l] \cup unknown[l]

\* Concurrent acquisitions of one provider resolve its image, or its snapshot,
\* once, and one at a time (modal.py:158, daytona.py:117).
PreparedOnce ==
  /\ P.prepare = "once" => prepared <= 1
  /\ \A l \in Leases : phase[l] = "up" /\ at[l] = 1 /\ P.prepare # "no" => lock = l

\* An acquisition gets through or gives up, whatever happens to the others: no
\* failure and no cancellation keeps the lock.
AcquisitionsEnd == \A l \in Leases : phase[l] = "lock" ~> phase[l] \in {"body", "left"}
=============================================================================
