----------------------------- MODULE SharedLease -----------------------------
(***************************************************************************)
(* hud/eval/runtime/core.py, class Shared: rollouts of several             *)
(* Taskset.run calls lease one substrate per placement, at most Width at a *)
(* time.  The placement is a scope: the last call to leave it closes what  *)
(* was booted.  A rollout is a coroutine and the driver task it waits for  *)
(* (hud/eval/run.py): when the rollout's timeout or a cancellation ends    *)
(* the coroutine, its driver is cancelled, and the driver's own unwinding  *)
(* goes on after the call has left the scope.                              *)
(***************************************************************************)
EXTENDS Naturals, FiniteSets

CONSTANTS Calls,      \* the Taskset.run calls that use the placement
          Rollouts,   \* the rollouts of all of them
          CallOf,     \* CallOf[r]: the call that runs r
          Keys,       \* (environment, runtime configuration) pairs
          KeyOf,      \* KeyOf[leg]: the placement that leg of r leases
          Width,      \* Shared.width
          Verified,   \* the rollouts whose task has a verifier of its own
          Cancels,    \* the Taskset.run calls that may be cancelled
          None

\* A rollout leases for the actor, then perhaps for a verifier of its own.
\* A substrate is named after the leg that boots it: each boots at most one.
Legs == Rollouts \X {"actor", "verifier"}

ASSUME LeaseAssumption ==
  /\ Width \in Nat \ {0}
  /\ CallOf \in [Rollouts -> Calls]
  /\ KeyOf \in [Legs -> Keys]
  /\ Verified \subseteq Rollouts
  /\ Cancels \subseteq Calls /\ IsFiniteSet(Rollouts)
  /\ None \notin Legs \cup Rollouts

VARIABLES
  call,     \* call[c]: where Taskset.run is: "new", "open", "closing", "closed"
  going,    \* going[c]: the contexts c's exit of the scope still has to close
  gen,      \* how often the last exit has thrown the semaphores away
  addr,     \* Shared._addresses and _contexts, always changed together
  stale,    \* substrates whose entry of Shared._deadlines has passed
  boot,     \* the holder of Shared._boot
  state,    \* state[s]: the substrate itself, in the provider
  pc,       \* pc[r]: where r's driver is
  leg,      \* leg[r]: the lease the driver is in
  sem,      \* sem[r]: the generation of the semaphore it waits on or holds
  on,       \* on[r]: the substrate it boots, closes or has leased
  mode      \* mode[r]: what r's coroutine has done to its driver

vars == <<call, going, gen, addr, stale, boot, state, pc, leg, sem, on, mode>>
lease == <<pc, leg, sem, on>>
scope == <<call, going, gen>>

Waiting == {"slot", "lock", "expiring", "creating", "readying"}
InSlot  == (Waiting \ {"slot"}) \cup {"held", "leaving"}
Holds(r, s) == pc[r] \in {"held", "leaving"} /\ on[r] = s
Key(r) == KeyOf[leg[r]]

\* The coroutine has returned to gather, or was cancelled out of it.
Returned(r) == pc[r] = "done" \/ mode[r] \in {"killed", "dropped", "left"}
\* A driver whose cancellation is pending takes no other step first.
Runs(r) == mode[r] \notin {"killed", "dropped"}

Init ==
  /\ call = [c \in Calls |-> "new"]
  /\ going = [c \in Calls |-> {}]
  /\ gen = 0
  /\ addr = [k \in Keys |-> None]
  /\ stale = {}
  /\ boot = None
  /\ state = [s \in Legs |-> "none"]
  /\ pc = [r \in Rollouts |-> "idle"]
  /\ leg = [r \in Rollouts |-> <<r, "actor">>]
  /\ sem = [r \in Rollouts |-> 0]
  /\ on = [r \in Rollouts |-> None]
  /\ mode = [r \in Rollouts |-> "run"]

-----------------------------------------------------------------------------
(* The scope: Shared.__aenter__ and __aexit__, entered by Taskset.run.      *)

OpenScope(c) ==
  /\ call[c] = "new"
  /\ call' = [call EXCEPT ![c] = "open"]
  /\ UNCHANGED <<going, gen, addr, stale, boot, state, lease, mode>>

\* gather ends with the last rollout, or with the first one it cancelled.
Gathered(c) ==
  LET mine == {r \in Rollouts : CallOf[r] = c}
  IN \/ \A r \in mine : Returned(r)
     \/ \E r \in mine : mode[r] = "dropped"

LastOut(c) == \A d \in Calls \ {c} : call[d] # "open"

\* The last one out takes every context and forgets every semaphore.
LeaveScope(c) ==
  LET closing == IF LastOut(c) THEN {addr[k] : k \in Keys} \ {None} ELSE {}
  IN /\ call[c] = "open" /\ Gathered(c)
     /\ call' = [call EXCEPT ![c] = IF closing = {} THEN "closed" ELSE "closing"]
     /\ going' = [going EXCEPT ![c] = closing]
     /\ state' = [s \in Legs |-> IF s \in closing THEN "closing" ELSE state[s]]
     /\ IF LastOut(c)
          THEN gen' = gen + 1 /\ addr' = [k \in Keys |-> None] /\ stale' = {}
          ELSE UNCHANGED <<gen, addr, stale>>
     /\ UNCHANGED <<boot, lease, mode>>

ContextClosed(c, s) ==
  /\ s \in going[c]
  /\ going' = [going EXCEPT ![c] = @ \ {s}]
  /\ call' = [call EXCEPT ![c] = IF going[c] = {s} THEN "closed" ELSE @]
  /\ state' = [state EXCEPT ![s] = "down"]
  /\ UNCHANGED <<gen, addr, stale, boot, lease, mode>>

-----------------------------------------------------------------------------
(* The lease: Shared.__call__, run by the driver.                           *)

\* The driver ends, and its locals with it.
End(r) ==
  /\ pc' = [pc EXCEPT ![r] = "done"]
  /\ sem' = [sem EXCEPT ![r] = 0]
  /\ on' = [on EXCEPT ![r] = None]

\* `_opens == 0` refuses; else the key's semaphore, the current one.
Queue(r, l) ==
  /\ leg' = [leg EXCEPT ![r] = l]
  /\ IF \E c \in Calls : call[c] = "open"
       THEN /\ pc' = [pc EXCEPT ![r] = "slot"]
            /\ sem' = [sem EXCEPT ![r] = gen]
            /\ on' = [on EXCEPT ![r] = None]
       ELSE End(r)

Start(r) ==
  /\ pc[r] = "idle" /\ call[CallOf[r]] = "open" /\ Runs(r)
  /\ Queue(r, leg[r])
  /\ UNCHANGED <<scope, addr, stale, boot, state, mode>>

\* Mutant: a rollout counts against the width only once it has its lease.
HasSlot_Late(r) ==
  Cardinality({q \in Rollouts : pc[q] \in {"held", "leaving"} /\ sem[q] = sem[r]
                                  /\ Key(q) = Key(r)}) < Width

HasSlot(r) ==
  Cardinality({q \in Rollouts : pc[q] \in InSlot /\ sem[q] = sem[r] /\ Key(q) = Key(r)}) < Width

TakeSlot(r) ==
  /\ pc[r] = "slot" /\ Runs(r) /\ HasSlot(r)
  /\ pc' = [pc EXCEPT ![r] = "lock"]
  /\ UNCHANGED <<scope, addr, stale, boot, state, leg, sem, on, mode>>

\* Mutant: booting is not serialised.
LockFree_Always == TRUE

LockFree == boot = None

\* Mutant: the expired entry is dropped and its context never closed.
Retire_Unclosed(r, s) ==
  /\ addr' = [addr EXCEPT ![Key(r)] = None]
  /\ stale' = stale \ {s}
  /\ pc' = [pc EXCEPT ![r] = "expiring"]
  /\ on' = [on EXCEPT ![r] = None]
  /\ UNCHANGED state

\* An expired entry is forgotten before the await that closes its context.
Retire(r, s) ==
  /\ addr' = [addr EXCEPT ![Key(r)] = None]
  /\ stale' = stale \ {s}
  /\ state' = [state EXCEPT ![s] = "closing"]
  /\ pc' = [pc EXCEPT ![r] = "expiring"]
  /\ on' = [on EXCEPT ![r] = s]

\* The inner provider's context is entered: until the provider's call that
\* makes the substrate returns, nobody but that call knows of it.
Create(r, others) ==
  /\ state' = [others EXCEPT ![leg[r]] = "creating"]
  /\ pc' = [pc EXCEPT ![r] = "creating"]
  /\ on' = [on EXCEPT ![r] = leg[r]]
  /\ boot' = r

TakeLock(r) ==
  LET s == addr[Key(r)]
  IN /\ pc[r] = "lock" /\ Runs(r) /\ LockFree
     /\ \/ s \in stale /\ Retire(r, s) /\ boot' = r
        \/ s = None /\ Create(r, state) /\ UNCHANGED <<addr, stale>>
        \/ /\ s # None /\ s \notin stale
           /\ pc' = [pc EXCEPT ![r] = "held"]
           /\ on' = [on EXCEPT ![r] = s]
           /\ UNCHANGED <<addr, stale, boot, state>>
     /\ UNCHANGED <<scope, leg, sem, mode>>

\* The key is still unbooted: only the holder of the lock adds an address.
ExpiredClosed(r) ==
  /\ pc[r] = "expiring" /\ Runs(r)
  /\ Create(r, [state EXCEPT ![on[r]] = "down"])
  /\ UNCHANGED <<scope, addr, stale, leg, sem, mode>>

\* From here the provider's `finally` removes the substrate.
Created(r) ==
  /\ pc[r] = "creating" /\ Runs(r)
  /\ pc' = [pc EXCEPT ![r] = "readying"]
  /\ state' = [state EXCEPT ![on[r]] = "readying"]
  /\ UNCHANGED <<scope, addr, stale, boot, leg, sem, on, mode>>

Booted(r) ==
  /\ pc[r] = "readying" /\ Runs(r)
  /\ pc' = [pc EXCEPT ![r] = "held"]
  /\ state' = [state EXCEPT ![on[r]] = "up"]
  /\ addr' = [addr EXCEPT ![Key(r)] = on[r]]
  /\ boot' = None
  /\ UNCHANGED <<scope, stale, leg, sem, on, mode>>

\* Mutant: an unsuccessful boot leaves the lock taken.
Abandon_Locked(r) ==
  /\ End(r)
  /\ UNCHANGED boot

\* The driver leaves the lock and the semaphore; nothing is kept of the boot.
Abandon(r) ==
  /\ End(r)
  /\ boot' = IF boot = r THEN None ELSE boot

BootFails(r) ==
  /\ pc[r] \in {"creating", "readying"} /\ Runs(r)
  /\ Abandon(r)
  /\ state' = [state EXCEPT ![on[r]] = "down"]
  /\ UNCHANGED <<scope, addr, stale, leg, mode>>

\* limits.run_timeout_s passes for the substrate behind an entry.
Expire(k) ==
  /\ addr[k] # None
  /\ stale' = stale \cup {addr[k]}
  /\ UNCHANGED <<scope, addr, boot, state, lease, mode>>

-----------------------------------------------------------------------------
(* The driver with its lease: hud.eval.run.rollout and its _drive.           *)

\* The actor (or the verifier, in its own leg) is through; what is left is
\* the phase "cleanup", in which a timeout leaves the driver alone.
Finish(r) ==
  /\ pc[r] = "held" /\ Runs(r)
  /\ pc' = [pc EXCEPT ![r] = "leaving"]
  /\ UNCHANGED <<scope, addr, stale, boot, state, leg, sem, on, mode>>

Release(r) ==
  /\ pc[r] = "leaving"
  /\ End(r)
  /\ UNCHANGED <<scope, addr, stale, boot, state, leg, mode>>

\* actor.aclose() gives the actor's slot back before the verifier's lease.
Verify(r) ==
  /\ pc[r] = "held" /\ Runs(r)
  /\ r \in Verified /\ leg[r] = <<r, "actor">>
  /\ mode[r] \notin {"expired", "doomed"}    \* rollout_expired
  /\ Queue(r, <<r, "verifier">>)
  /\ UNCHANGED <<scope, addr, stale, boot, state, mode>>

\* The rollout timeout.  With a client, client.cancel() may take 2 seconds
\* more, in which the driver goes on.
TimedOut(r) ==
  /\ mode[r] = "run" /\ pc[r] \notin {"idle", "done"}
  /\ \/ pc[r] \in Waiting \cup {"held"} /\ mode' = [mode EXCEPT ![r] = "killed"]
     \/ pc[r] = "held" /\ mode' = [mode EXCEPT ![r] = "expired"]
     \/ pc[r] = "leaving" /\ mode' = [mode EXCEPT ![r] = "left"]
  /\ UNCHANGED <<scope, addr, stale, boot, state, lease>>

\* Taskset.run is cancelled: gather cancels every child that is not done.
\* The coroutine of a rollout that has a client asks the environment to cancel
\* for up to 2 seconds first; one that has already timed out does so again.
Cancel(c) ==
  LET mine == {r \in Rollouts : CallOf[r] = c /\ ~Returned(r)}
  IN /\ c \in Cancels /\ call[c] = "open" /\ ~Gathered(c)
     /\ \A r \in mine : mode[r] \notin {"cancelled", "doomed"}
     /\ \E soft \in SUBSET {r \in mine : pc[r] \in {"held", "leaving"}} :
          mode' = [r \in Rollouts |-> IF r \notin mine THEN mode[r]
                                      ELSE IF r \notin soft THEN "dropped"
                                      ELSE IF mode[r] = "expired" THEN "doomed" ELSE "cancelled"]
     /\ pc' = [r \in Rollouts |-> IF r \in mine /\ pc[r] = "idle" THEN "done" ELSE pc[r]]
     /\ UNCHANGED <<scope, addr, stale, boot, state, leg, sem, on>>

\* The grace is over: driver.cancel(), and the coroutine returns or raises.
GraceEnds(r) ==
  /\ mode[r] \in {"expired", "cancelled", "doomed"}
  /\ mode' = [mode EXCEPT ![r] = IF @ = "expired" THEN "killed" ELSE "dropped"]
  /\ UNCHANGED <<scope, addr, stale, boot, state, lease>>

\* What a provider has made of a substrate whose creation, or whose
\* teardown, is cut: no `finally` stands behind either.
CutTo(p) == IF p \in {"creating", "expiring"} THEN {"down", "orphan"} ELSE {"down"}

\* CancelledError reaches the driver where it waits.
Interrupt(r) ==
  /\ mode[r] \in {"killed", "dropped"}
  /\ \/ /\ pc[r] \in Waiting
        /\ Abandon(r)
        /\ IF boot = r THEN \E x \in CutTo(pc[r]) : state' = [state EXCEPT ![on[r]] = x]
                       ELSE UNCHANGED state
     \/ /\ pc[r] = "held"
        /\ pc' = [pc EXCEPT ![r] = "leaving"]
        /\ UNCHANGED <<boot, state, sem, on>>
  /\ UNCHANGED <<scope, addr, stale, leg, mode>>

-----------------------------------------------------------------------------
Driver(r) == \/ TakeSlot(r) \/ TakeLock(r) \/ ExpiredClosed(r) \/ Created(r) \/ Booted(r)
             \/ BootFails(r) \/ Finish(r) \/ Release(r) \/ Verify(r) \/ Interrupt(r)

Next ==
  \/ \E c \in Calls : OpenScope(c) \/ LeaveScope(c) \/ Cancel(c)
  \/ \E c \in Calls, s \in Legs : ContextClosed(c, s)
  \/ \E k \in Keys : Expire(k)
  \/ \E r \in Rollouts : Start(r) \/ Driver(r) \/ TimedOut(r) \/ GraceEnds(r)

Spec == Init /\ [][Next]_vars

Exit(c) == LeaveScope(c) \/ \E s \in Legs : ContextClosed(c, s)
Runnable(r) == Start(r) \/ Driver(r) \/ GraceEnds(r)

\* The event loop runs whatever is ready, agents and providers return, the
\* grace of client.cancel() is bounded.  No timeout, expiry or cancellation is
\* promised.  A rollout takes few steps, so one condition per rollout is enough.
FairSpec ==
  /\ Spec
  /\ \A c \in Calls : WF_vars(Exit(c))
  /\ \A r \in Rollouts : WF_vars(Runnable(r))

-----------------------------------------------------------------------------
(* Properties                                                               *)

\* Every variable has its type, an address names a running substrate of its
\* key, and whoever has the boot lock is closing or booting.
TypeOK ==
  /\ call \in [Calls -> {"new", "open", "closing", "closed"}]
  /\ going \in [Calls -> SUBSET Legs]
  /\ gen \in 0..Cardinality(Calls)
  /\ \A k \in Keys : addr[k] # None => KeyOf[addr[k]] = k /\ state[addr[k]] = "up"
  /\ stale \subseteq {addr[k] : k \in Keys}
  /\ state \in [Legs -> {"none", "creating", "readying", "up", "closing", "down", "orphan"}]
  /\ pc \in [Rollouts -> Waiting \cup {"idle", "held", "leaving", "done"}]
  /\ \A r \in Rollouts : leg[r] \in {<<r, "actor">>, <<r, "verifier">>}
  /\ sem \in [Rollouts -> 0..gen]
  /\ on \in [Rollouts -> Legs \cup {None}]
  /\ mode \in [Rollouts -> {"run", "expired", "cancelled", "doomed", "killed", "dropped", "left"}]
  /\ \A r \in Rollouts : boot = r <=> pc[r] \in {"expiring", "creating", "readying"}

\* The leases of a substrate stay within its width, whatever scopes and expiries
\* come between (the semaphore counts leases of a key, not of a substrate), but
\* where one of its holders outlived its scope: a driver that went on to its
\* verifier after its call was cancelled, and whose semaphore the scope's end
\* has thrown away (core.py:250, core.py:270).
Late(s) == s[2] = "verifier" /\ mode[s[1]] \in {"cancelled", "doomed", "dropped"}
Outlived(r) == sem[r] # gen /\ Late(leg[r])
WidthRespected ==
  \A s \in Legs : LET holders == {r \in Rollouts : Holds(r, s)} IN
    Cardinality(holders) <= Width \/ \E r \in holders : Outlived(r)

\* Two rollouts never boot the same placement side by side: a key has one
\* substrate that is coming up or serving.
OneLive ==
  \A s, t \in Legs :
    /\ KeyOf[s] = KeyOf[t]
    /\ {state[s], state[t]} \subseteq {"creating", "readying", "up"}
    => s = t

\* Once every call has left the scope, what is still up was booted for the verifier
\* of a rollout whose cancellation had not reached its driver yet; and it has its
\* entry, so that the next scope to end closes it (core.py:222, Shared.__aexit__).
ScopeReleases ==
  (\A c \in Calls : call[c] \in {"new", "closed"}) =>
    \A s \in Legs : state[s] = "up" => Late(s) /\ addr[KeyOf[s]] = s

\* A rollout that asks for a lease is served or fails: it does not wait for
\* a slot or for the boot lock for good.
LeaseServed == \A r \in Rollouts : pc[r] \in Waiting ~> pc[r] \in {"held", "done"}

=============================================================================
