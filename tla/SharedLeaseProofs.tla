-------------------------- MODULE SharedLeaseProofs --------------------------
(***************************************************************************)
(* Two rollouts never boot one placement side by side; and but for drivers *)
(* that went on to their verifier after their call was cancelled, no       *)
(* substrate is leased beyond the width or left up by the last call: for   *)
(* any calls, rollouts, keys and width, and whichever calls are cancelled. *)
(***************************************************************************)
EXTENDS SharedLease, FiniteSetTheorems, TLAPS

Booting == {"expiring", "creating", "readying"}

\* The types the argument needs.
Typed ==
  /\ addr \in [Keys -> Legs \cup {None}]
  /\ state \in [Legs -> {"none", "creating", "readying", "up", "closing", "down", "orphan"}]
  /\ pc \in [Rollouts -> Waiting \cup {"idle", "held", "leaving", "done"}]
  /\ leg \in [Rollouts -> Legs]
  /\ on \in [Rollouts -> Legs \cup {None}]
  /\ boot \in Rollouts \cup {None}

\* The lock is held by the one driver that closes or boots; what it closes is no
\* longer leased out, what it boots it boots for its own lease.
LockHeld ==
  \A r \in Rollouts :
    /\ pc[r] \in Booting <=> boot = r
    /\ pc[r] \in Booting => addr[Key(r)] = None
    /\ pc[r] \in {"creating", "readying"} => on[r] = leg[r]

\* A substrate that is up has its address, one that comes up has its driver.
Known ==
  \A s \in Legs :
    /\ state[s] = "up" => addr[KeyOf[s]] = s
    /\ state[s] \in {"creating", "readying"} =>
         \E r \in Rollouts : boot = r /\ leg[r] = s /\ pc[r] \in {"creating", "readying"}

IInv == Typed /\ LockHeld /\ Known


\* What is up for a key, or coming up, is what its address or the lock says.
LEMMA Follows == IInv => OneLive
  BY LeaseAssumption DEF IInv, Typed, LockHeld, Known, OneLive, Booting, Key

\* Nothing is booted at first, and the lock is free.
LEMMA InitHolds == Init => IInv
  BY LeaseAssumption
  DEF Init, IInv, Typed, LockHeld, Known, Booting, Waiting, Legs, Key

\* Every step keeps the invariant, those of a driver whose rollout has already
\* returned and of a call that leaves the scope included.
LEMMA StepHolds == IInv /\ [Next]_vars => IInv'
<1> SUFFICES ASSUME IInv, [Next]_vars PROVE IInv'
  OBVIOUS
<1> USE LeaseAssumption DEF IInv, Typed, LockHeld, Known, Booting, Key
<1>1. ASSUME NEW c \in Calls, OpenScope(c) PROVE IInv'
  BY <1>1 DEF OpenScope, lease
<1>2. ASSUME NEW c \in Calls, LeaveScope(c) PROVE IInv'
  BY <1>2 DEF LeaveScope, lease
<1>3. ASSUME NEW c \in Calls, Cancel(c) PROVE IInv'
  BY <1>3 DEF Cancel
<1>4. ASSUME NEW c \in Calls, NEW s \in Legs, ContextClosed(c, s) PROVE IInv'
  BY <1>4 DEF ContextClosed, lease
<1>5. ASSUME NEW k \in Keys, Expire(k) PROVE IInv'
  BY <1>5 DEF Expire, lease
<1>6. ASSUME NEW r \in Rollouts, Start(r) PROVE IInv'
  BY <1>6 DEF Start, Queue, End, Waiting
<1>7. ASSUME NEW r \in Rollouts, TakeSlot(r) PROVE IInv'
  BY <1>7 DEF TakeSlot, Waiting
<1>8. ASSUME NEW r \in Rollouts, TakeLock(r) PROVE IInv'
  BY <1>8 DEF TakeLock, LockFree, Retire, Create, Waiting
<1>9. ASSUME NEW r \in Rollouts, ExpiredClosed(r) PROVE IInv'
  BY <1>9 DEF ExpiredClosed, Create, Waiting
<1>10. ASSUME NEW r \in Rollouts, Created(r) PROVE IInv'
  BY <1>10 DEF Created, Waiting
<1>11. ASSUME NEW r \in Rollouts, Booted(r) PROVE IInv'
  BY <1>11 DEF Booted, Waiting
<1>12. ASSUME NEW r \in Rollouts, BootFails(r) PROVE IInv'
  BY <1>12 DEF BootFails, Abandon, End
<1>13. ASSUME NEW r \in Rollouts, Finish(r) PROVE IInv'
  BY <1>13 DEF Finish
<1>14. ASSUME NEW r \in Rollouts, Release(r) PROVE IInv'
  BY <1>14 DEF Release, End
<1>15. ASSUME NEW r \in Rollouts, Verify(r) PROVE IInv'
  BY <1>15 DEF Verify, Queue, End, Legs, Waiting
<1>16. ASSUME NEW r \in Rollouts, Interrupt(r) PROVE IInv'
  BY <1>16 DEF Interrupt, Abandon, End, CutTo, Waiting
<1>17. ASSUME NEW r \in Rollouts, TimedOut(r) \/ GraceEnds(r) PROVE IInv'
  BY <1>17 DEF TimedOut, GraceEnds, lease
<1>18. CASE UNCHANGED vars
  BY <1>18 DEF vars, lease
<1> QED
  BY <1>1, <1>2, <1>3, <1>4, <1>5, <1>6, <1>7, <1>8, <1>9, <1>10, <1>11, <1>12, <1>13,
     <1>14, <1>15, <1>16, <1>17, <1>18 DEF Next, Driver

\* Whatever expires, fails, is cancelled or outlives its scope, a key has at most
\* one substrate that comes up or serves (core.py:253, Shared._boot: one boot at a time).
THEOREM OneLiveAlways == Spec => []OneLive
<1>1. IInv /\ [Next]_vars => IInv'
  BY StepHolds
<1> QED
  BY <1>1, InitHolds, Follows, PTL DEF Spec

-----------------------------------------------------------------------------
(* The scope and the width.  A cancelled rollout goes on for its grace; one   *)
(* that asks for its verifier then may lease beyond its scope: it is late.    *)

ScopeTyped ==
  /\ call \in [Calls -> {"new", "open", "closing", "closed"}]
  /\ mode \in [Rollouts -> {"run", "expired", "cancelled", "doomed", "killed", "dropped", "left"}]
  /\ gen \in Nat /\ sem \in [Rollouts -> 0..gen]
  /\ going \in [Calls -> SUBSET Legs] /\ \A c \in Calls : going[c] # {} => call[c] = "closing"

Cancelled == {"cancelled", "doomed"}

\* What a rollout whose coroutine has begun to end can still be doing.
Ending ==
  \A r \in Rollouts :
    /\ mode[r] \in Cancelled \cup {"expired"} =>
         \/ pc[r] \in {"held", "leaving", "done"}
         \/ mode[r] = "cancelled" /\ leg[r] = <<r, "verifier">>
    /\ mode[r] = "left" => pc[r] \in {"leaving", "done"}
    /\ pc[r] = "idle" => mode[r] = "run"
    /\ mode[r] \in Cancelled \cup {"dropped"} =>
         \A q \in Rollouts : CallOf[q] = CallOf[r] => Returned(q) \/ mode[q] \in Cancelled

\* Whoever has neither ended nor begun to is in an open scope, of this generation.
Inside ==
  \A r \in Rollouts :
    mode[r] = "run" /\ pc[r] \notin {"idle", "done"} => call[CallOf[r]] = "open" /\ sem[r] = gen

\* Without an open scope no placement has an address but for a late lease.
Emptied == (\A c \in Calls : call[c] # "open") => \A k \in Keys : addr[k] = None \/ Late(addr[k])

Inner == ScopeTyped /\ Ending /\ Inside
ScopeInv == Inner /\ Emptied

\* A leg boots once: its substrate is not there before, and those of a later leg
\* are not there yet.
Early == {"idle", "slot", "lock", "expiring"}
UnbootedBy(r) ==
  /\ leg[r] \in {<<r, "actor">>, <<r, "verifier">>}
  /\ pc[r] \in Early => state[leg[r]] = "none"
  /\ leg[r] = <<r, "actor">> => state[<<r, "verifier">>] = "none"
Unbooted == \A r \in Rollouts : UnbootedBy(r)

\* What an address names is up and of its key, what a scope or a driver closes is not.
Past == {"closing", "down", "orphan"}
Addressed ==
  /\ \A k \in Keys : addr[k] # None => KeyOf[addr[k]] = k /\ state[addr[k]] = "up"
  /\ None \notin stale
  /\ \A c \in Calls : \A s \in going[c] : state[s] \in Past
  /\ \A r \in Rollouts : pc[r] = "expiring" => on[r] \in Legs /\ state[on[r]] \in Past
  /\ \A r \in Rollouts : pc[r] \in {"creating", "readying"} => state[on[r]] = pc[r]

\* Those who hold a substrate got their slots from one semaphore, the current one
\* as long as others can still come to it, the late ones apart.
OneSemaphore ==
  \A s \in Legs : \A r \in Rollouts : Holds(r, s) =>
    /\ KeyOf[s] = Key(r) /\ state[s] \notin {"none", "creating", "readying"}
    /\ addr[KeyOf[s]] = s => sem[r] = gen \/ Late(leg[r])
    /\ \A q \in Rollouts : Holds(q, s) => sem[r] = sem[q] \/ Outlived(r) \/ Outlived(q)

InSlots(g, k) == {q \in Rollouts : pc[q] \in InSlot /\ sem[q] = g /\ Key(q) = k}
SlotsKept == \A g \in Nat, k \in Keys : Cardinality(InSlots(g, k)) <= Width

HoldInv == Unbooted /\ Addressed /\ OneSemaphore /\ SlotsKept

-----------------------------------------------------------------------------
\* A verifier's lease is asked for like an actor's, by one who still runs.
LEMMA Verifies ==
  ASSUME NEW r \in Rollouts, Verify(r)
  PROVE  /\ pc[r] = "held" /\ Runs(r) /\ r \in Verified /\ mode[r] \notin {"expired", "doomed"}
         /\ <<r, "verifier">> \in Legs /\ Queue(r, <<r, "verifier">>)
         /\ UNCHANGED <<scope, addr, stale, boot, state, mode>>
<1>1. <<r, "verifier">> \in Legs
  BY DEF Legs
<1> QED
  BY <1>1 DEF Verify

\* Whoever is late stays late, and the scopes only go on.
LateModes == {"cancelled", "doomed", "dropped"}
LateStays ==
  /\ \A s \in Legs : Late(s) => Late(s)'
  /\ gen' \in {gen, gen + 1}

\* No step takes a cancellation back.
LEMMA Lateness == ScopeTyped /\ [Next]_vars => LateStays
<1> SUFFICES ASSUME ScopeTyped, [Next]_vars PROVE LateStays
  OBVIOUS
<1>1. \A s \in Legs : s[1] \in Rollouts
  BY DEF Legs
<1>2. mode \in [Rollouts -> {"run", "expired", "cancelled", "doomed", "killed", "dropped", "left"}]
  BY DEF ScopeTyped
<1>3. ASSUME NEW q \in Rollouts, mode[q] \in LateModes PROVE mode'[q] \in LateModes
  <2>1. CASE mode' = mode
    BY <1>3, <2>1
  <2>2. ASSUME NEW c \in Calls, Cancel(c) PROVE mode'[q] \in LateModes
    BY <1>2, <1>3, <2>2 DEF Cancel, Returned, LateModes
  <2>3. ASSUME NEW r \in Rollouts, TimedOut(r) \/ GraceEnds(r) PROVE mode'[q] \in LateModes
    BY <1>2, <1>3, <2>3 DEF TimedOut, GraceEnds, LateModes
  <2> QED
    BY <2>1, <2>2, <2>3 DEF Next, Driver, vars, OpenScope, LeaveScope, ContextClosed, Expire, Start, TakeSlot,
       TakeLock, ExpiredClosed, Created, Booted, BootFails, Finish, Release, Verify, Interrupt
<1>4. gen' \in {gen, gen + 1}
  BY DEF Next, Driver, vars, scope, OpenScope, LeaveScope, Cancel, ContextClosed, Expire, Start, TakeSlot,
     TakeLock, ExpiredClosed, Created, Booted, BootFails, Finish, Release, Verify, Interrupt, TimedOut, GraceEnds
<1> QED
  BY <1>1, <1>3, <1>4, Zenon DEF LateStays, Late, LateModes

\* At first nobody is in a scope.
LEMMA InitScope == Init => ScopeInv /\ HoldInv
<1> SUFFICES ASSUME Init PROVE ScopeInv /\ HoldInv
  OBVIOUS
<1> USE LeaseAssumption DEF Init
<1>1. ScopeInv
  BY DEF ScopeInv, Inner, ScopeTyped, Ending, Inside, Emptied, Cancelled
<1>2. Unbooted /\ Addressed /\ OneSemaphore
  BY DEF Unbooted, UnbootedBy, Addressed, OneSemaphore, Holds, Legs
<1>3. ASSUME NEW g \in Nat, NEW k \in Keys PROVE Cardinality(InSlots(g, k)) <= Width
  <2>1. InSlots(g, k) = {}
    BY DEF InSlots, InSlot, Waiting
  <2> QED
    BY <2>1, FS_EmptySet
<1> QED
  BY <1>1, <1>2, <1>3 DEF HoldInv, SlotsKept

\* No step lets a rollout into a lease that its scope does not cover any more.
LEMMA InnerStep == IInv /\ Inner /\ [Next]_vars => Inner'
<1> SUFFICES ASSUME IInv, Inner, [Next]_vars PROVE Inner'
  OBVIOUS
<1> USE LeaseAssumption
    DEF IInv, Typed, Inner, ScopeTyped, Ending, Inside, Cancelled, Runs, Returned,
        Waiting, scope
<1>1. ASSUME NEW c \in Calls, OpenScope(c) PROVE Inner'
  BY <1>1 DEF OpenScope, lease
<1>2. ASSUME NEW c \in Calls, LeaveScope(c) PROVE Inner'
  <2>1. \A r \in Rollouts : CallOf[r] = c => mode[r] # "run" \/ pc[r] \in {"idle", "done"}
    BY <1>2 DEF LeaveScope, Gathered
  <2>2. \/ gen' = gen /\ addr' = addr /\ \E d \in Calls \ {c} : call'[d] = "open"
        \/ gen' = gen + 1 /\ (\A d \in Calls : call'[d] # "open") /\ \A k \in Keys : addr'[k] = None
    BY <1>2 DEF LeaveScope, LastOut
  <2>3. ScopeTyped'
    <3> DEFINE closing == IF LastOut(c) THEN {addr[k] : k \in Keys} \ {None} ELSE {}
    <3>1. closing \in SUBSET Legs
      OBVIOUS
    <3>2. /\ call' = [call EXCEPT ![c] = IF closing = {} THEN "closed" ELSE "closing"]
          /\ going' = [going EXCEPT ![c] = closing] /\ gen' \in {gen, gen + 1} /\ UNCHANGED <<mode, sem>>
      BY <1>2 DEF LeaveScope, lease
    <3> HIDE DEF closing
    <3>3. sem \in [Rollouts -> 0..gen'] /\ gen' \in Nat
      BY <3>2
    <3> QED
      BY <3>1, <3>2, <3>3
  <2>4. mode' = mode /\ leg' = leg /\ pc' = pc /\ sem' = sem /\ \A d \in Calls \ {c} : call'[d] = call[d]
    BY <1>2 DEF LeaveScope, lease
  <2>5. Ending'
    BY <2>4
  <2>6. Inside'
    BY <2>1, <2>2, <2>4
  <2> QED
    BY <2>3, <2>5, <2>6
<1>3. ASSUME NEW c \in Calls, Cancel(c) PROVE Inner'
  <2> DEFINE mine == {r \in Rollouts : CallOf[r] = c /\ ~Returned(r)}
  <2>1. PICK soft \in SUBSET {r \in mine : pc[r] \in {"held", "leaving"}} :
          mode' = [r \in Rollouts |-> IF r \notin mine THEN mode[r]
                                      ELSE IF r \notin soft THEN "dropped"
                                      ELSE IF mode[r] = "expired" THEN "doomed" ELSE "cancelled"]
    BY <1>3 DEF Cancel
  <2>2. /\ pc' = [r \in Rollouts |-> IF r \in mine /\ pc[r] = "idle" THEN "done" ELSE pc[r]]
        /\ UNCHANGED <<call, going, gen, addr, leg, sem>>
    BY <1>3 DEF Cancel, lease
  <2>3. \A r \in Rollouts : pc'[r] = pc[r] \/ pc'[r] = "done"
    BY <2>2
  <2>4. \A r \in mine : mode'[r] \in Cancelled \cup {"dropped"} /\ (mode'[r] \in Cancelled => pc[r] \in {"held", "leaving"})
    BY <2>1
  <2>5. \A r \in Rollouts \ mine : mode'[r] = mode[r] /\ pc'[r] = pc[r]
    BY <2>1, <2>2
  <2>6. ScopeTyped'
    BY <2>1, <2>2
  <2>8. Inside'
    BY <2>2, <2>4, <2>5
  <2>9. Ending'
    BY <2>2, <2>3, <2>4, <2>5
  <2> QED
    BY <2>6, <2>8, <2>9
<1>4. ASSUME NEW c \in Calls, NEW s \in Legs, ContextClosed(c, s) PROVE Inner'
  BY <1>4 DEF ContextClosed, lease
<1>5. ASSUME NEW k \in Keys, Expire(k) PROVE Inner'
  BY <1>5 DEF Expire, lease
<1>6. ASSUME NEW r \in Rollouts, Start(r) PROVE Inner'
  BY <1>6 DEF Start, Queue, End
<1>7. ASSUME NEW r \in Rollouts, TakeSlot(r) PROVE Inner'
  BY <1>7 DEF TakeSlot
<1>8. ASSUME NEW r \in Rollouts, TakeLock(r) PROVE Inner'
  BY <1>8 DEF TakeLock, LockFree, Retire, Create
<1>9. ASSUME NEW r \in Rollouts, ExpiredClosed(r) PROVE Inner'
  BY <1>9 DEF ExpiredClosed, Create
<1>10. ASSUME NEW r \in Rollouts, Created(r) PROVE Inner'
  BY <1>10 DEF Created
<1>11. ASSUME NEW r \in Rollouts, Booted(r) PROVE Inner'
  BY <1>11 DEF Booted
<1>12. ASSUME NEW r \in Rollouts, BootFails(r) PROVE Inner'
  BY <1>12 DEF BootFails, Abandon, End
<1>13. ASSUME NEW r \in Rollouts, Finish(r) \/ Release(r) PROVE Inner'
  BY <1>13 DEF Finish, Release, End
<1>14. ASSUME NEW r \in Rollouts, Verify(r) PROVE Inner'
  <2>1. /\ leg' = [leg EXCEPT ![r] = <<r, "verifier">>] /\ pc[r] = "held"
        /\ mode[r] \notin {"expired", "doomed", "killed", "dropped"}
        /\ UNCHANGED <<call, going, gen, mode>>
    BY <1>14, Verifies DEF Queue
  <2>2. \/ pc' = [pc EXCEPT ![r] = "slot"] /\ sem' = [sem EXCEPT ![r] = gen]
        \/ pc' = [pc EXCEPT ![r] = "done"] /\ sem' = [sem EXCEPT ![r] = 0]
    BY <1>14, Verifies DEF Queue, End
  <2>3. \A q \in Rollouts \ {r} : pc'[q] = pc[q] /\ leg'[q] = leg[q] /\ sem'[q] = sem[q]
    BY <2>1, <2>2
  <2>4. pc'[r] \in {"slot", "done"} /\ leg'[r] = <<r, "verifier">> /\ (pc'[r] = "slot" => sem'[r] = gen)
    BY <2>1, <2>2
  <2>5. ScopeTyped'
    BY <2>1, <2>2
  <2>6. Inside'
    BY <2>1, <2>3, <2>4
  <2>7. Ending'
    BY <2>1, <2>3, <2>4
  <2> QED
    BY <2>5, <2>6, <2>7
<1>15. ASSUME NEW r \in Rollouts, Interrupt(r) PROVE Inner'
  BY <1>15 DEF Interrupt, Abandon, End, CutTo
<1>16. ASSUME NEW r \in Rollouts, TimedOut(r) \/ GraceEnds(r) PROVE Inner'
  BY <1>16 DEF TimedOut, GraceEnds, lease
<1>17. CASE UNCHANGED vars
  BY <1>17 DEF vars, lease, scope
<1> QED
  BY <1>1, <1>2, <1>3, <1>4, <1>5, <1>6, <1>7, <1>8, <1>9, <1>10, <1>11, <1>12, <1>13, <1>14, <1>15, <1>16, <1>17
  DEF Next, Driver

\* Addresses that stay, or go, stay in the hands of an open scope or of late ones.
LEMMA EmptiedRests ==
  ASSUME Typed, Emptied, LateStays, \A k \in Keys : addr'[k] \in {None, addr[k]},
         (\A c \in Calls : call'[c] # "open") =>
           (\A c \in Calls : call[c] # "open") \/ \A k \in Keys : addr'[k] = None
  PROVE  Emptied'
<1> SUFFICES ASSUME \A c \in Calls : call'[c] # "open", NEW k \in Keys, addr'[k] # None
             PROVE  Late(addr[k])'
  BY DEF Emptied
<1>1. PICK s \in Legs : s = addr[k] /\ s = addr'[k] /\ Late(s)
  BY DEF Typed, Emptied
<1>2. Late(s)'
  BY <1>1 DEF LateStays
<1> QED
  BY <1>1, <1>2 DEF Late

\* What comes up without an open scope was booted by a late driver.
LEMMA EmptiedStep == IInv /\ Unbooted /\ ScopeInv /\ [Next]_vars => Emptied'
<1> SUFFICES ASSUME IInv, Unbooted, ScopeInv, [Next]_vars PROVE Emptied'
  OBVIOUS
<1>1. LateStays /\ Typed /\ Emptied /\ call \in [Calls -> {"new", "open", "closing", "closed"}]
  BY Lateness DEF ScopeInv, Inner, ScopeTyped, IInv
<1>2. ASSUME NEW c \in Calls, OpenScope(c) PROVE Emptied'
  BY <1>1, <1>2, EmptiedRests DEF OpenScope
<1>3. ASSUME NEW c \in Calls, LeaveScope(c) PROVE Emptied'
  <2>1. \/ addr' = addr /\ \E d \in Calls \ {c} : call'[d] = "open"
        \/ \A k \in Keys : addr'[k] = None
    BY <1>1, <1>3 DEF LeaveScope, LastOut
  <2> QED
    BY <1>1, <2>1, EmptiedRests
<1>4. ASSUME NEW c \in Calls, NEW s \in Legs, ContextClosed(c, s) PROVE Emptied'
  <2>1. addr' = addr /\ \A d \in Calls : call'[d] # "open" => call[d] # "open"
    BY <1>1, <1>4 DEF ContextClosed, ScopeInv, Inner, ScopeTyped
  <2> QED
    BY <1>1, <2>1, EmptiedRests
<1>5. ASSUME NEW r \in Rollouts, TakeLock(r) PROVE Emptied'
  <2>1. (\A k \in Keys : addr'[k] \in {None, addr[k]}) /\ call' = call
    BY <1>1, <1>5 DEF TakeLock, Retire, scope, Typed
  <2> QED
    BY <1>1, <2>1, EmptiedRests
<1>6. ASSUME NEW r \in Rollouts, Booted(r) PROVE Emptied'
  <2>1. /\ addr' = [addr EXCEPT ![Key(r)] = leg[r]] /\ mode' = mode /\ call' = call
        /\ leg[r] \in {<<r, "actor">>, <<r, "verifier">>}
    BY <1>6 DEF Booted, IInv, LockHeld, Booting, Unbooted, UnbootedBy, scope
  <2>2. call[CallOf[r]] = "open" \/ (leg[r] = <<r, "verifier">> /\ mode[r] = "cancelled")
    <3>1. pc[r] = "readying" /\ mode[r] \notin {"killed", "dropped"}
      BY <1>6 DEF Booted, Runs
    <3>2. mode[r] # "run" => leg[r] = <<r, "verifier">> /\ mode[r] = "cancelled"
      BY <3>1 DEF ScopeInv, Inner, ScopeTyped, Ending, Cancelled
    <3>3. mode[r] = "run" => call[CallOf[r]] = "open"
      BY <3>1 DEF ScopeInv, Inner, Inside
    <3> QED
      BY <3>2, <3>3
  <2>3. CASE call[CallOf[r]] = "open"
    BY <2>1, <2>3, LeaseAssumption DEF Emptied
  <2>4. CASE leg[r] = <<r, "verifier">> /\ mode[r] = "cancelled"
    <3>1. Late(leg[r])
      BY <2>4 DEF Late
    <3>2. \A k \in Keys : addr'[k] = addr[k] \/ addr'[k] = leg[r]
      BY <1>1, <2>1 DEF Typed
    <3>3. \A s \in Legs : Late(s) <=> Late(s)'
      BY <2>1 DEF Late
    <3>4. leg[r] \in Legs
      BY <1>1 DEF Typed
    <3> SUFFICES ASSUME \A c \in Calls : call[c] # "open", NEW k \in Keys, addr'[k] # None
                 PROVE  Late(addr[k])'
      BY <2>1 DEF Emptied
    <3>5. PICK s \in Legs : s = addr'[k] /\ Late(s)
      BY <1>1, <3>1, <3>2, <3>4 DEF Typed, Emptied
    <3> QED
      BY <2>1, <3>5 DEF Late
  <2> QED
    BY <2>2, <2>3, <2>4
<1>7. CASE addr' = addr /\ call' = call
  BY <1>1, <1>7, EmptiedRests
<1> QED
  BY <1>2, <1>3, <1>4, <1>5, <1>6, <1>7 DEF Next, Driver, vars, scope, lease, Cancel, Expire, Start, TakeSlot,
     ExpiredClosed, Created, BootFails, Finish, Release, Verify, Interrupt, TimedOut, GraceEnds

\* What is addressed is up, and nothing that is being closed comes back.
LEMMA AddressedStep == IInv /\ ScopeInv /\ Addressed /\ Unbooted /\ [Next]_vars => Addressed'
<1> SUFFICES ASSUME IInv, ScopeInv, Addressed, Unbooted, [Next]_vars PROVE Addressed'
  OBVIOUS
<1>0. \A r \in Rollouts : pc[r] \in {"lock", "expiring"} => state[leg[r]] = "none"
  BY DEF Unbooted, UnbootedBy, Early
<1> USE <1>0, LeaseAssumption
    DEF IInv, Typed, LockHeld, Booting, Key, ScopeInv, Inner, ScopeTyped, Waiting, Addressed, Past, scope
<1>1. ASSUME NEW c \in Calls, OpenScope(c) PROVE Addressed'
  BY <1>1 DEF OpenScope, lease
<1>2. ASSUME NEW c \in Calls, LeaveScope(c) PROVE Addressed'
  BY <1>2 DEF LeaveScope, LastOut, Gathered, lease
<1>3. ASSUME NEW c \in Calls, Cancel(c) PROVE Addressed'
  BY <1>3 DEF Cancel, Gathered
<1>4. ASSUME NEW c \in Calls, NEW s \in Legs, ContextClosed(c, s) PROVE Addressed'
  BY <1>4 DEF ContextClosed, lease
<1>5. ASSUME NEW k \in Keys, Expire(k) PROVE Addressed'
  BY <1>5 DEF Expire, lease
<1>6. ASSUME NEW r \in Rollouts, Start(r) PROVE Addressed'
  BY <1>6 DEF Start, Queue, End
<1>7. ASSUME NEW r \in Rollouts, TakeSlot(r) PROVE Addressed'
  BY <1>7 DEF TakeSlot
<1>8. ASSUME NEW r \in Rollouts, TakeLock(r) PROVE Addressed'
  <2>1. CASE addr[Key(r)] \in stale /\ Retire(r, addr[Key(r)]) /\ boot' = r
    BY <1>8, <2>1 DEF TakeLock, LockFree, Retire
  <2>2. CASE addr[Key(r)] = None /\ Create(r, state) /\ UNCHANGED addr
    BY <1>8, <2>2 DEF TakeLock, LockFree, Create
  <2>3. CASE UNCHANGED <<addr, state>> /\ pc' = [pc EXCEPT ![r] = "held"]
    <3>1. on' = [on EXCEPT ![r] = on'[r]] /\ UNCHANGED <<going, stale>>
      BY <1>8, <2>3 DEF TakeLock, Retire, Create
    <3> QED
      BY <2>3, <3>1
  <2> QED
    BY <1>8, <2>1, <2>2, <2>3 DEF TakeLock
<1>9. ASSUME NEW r \in Rollouts, ExpiredClosed(r) PROVE Addressed'
  BY <1>9 DEF ExpiredClosed, Create
<1>10. ASSUME NEW r \in Rollouts, Created(r) PROVE Addressed'
  BY <1>10 DEF Created
<1>11. ASSUME NEW r \in Rollouts, Booted(r) PROVE Addressed'
  BY <1>11 DEF Booted
<1>12. ASSUME NEW r \in Rollouts, BootFails(r) PROVE Addressed'
  BY <1>12 DEF BootFails, Abandon, End
<1>13. ASSUME NEW r \in Rollouts, Finish(r) \/ Release(r) PROVE Addressed'
  <2>1. CASE Finish(r)
    BY <2>1 DEF Finish
  <2>2. CASE Release(r)
    BY <2>2 DEF Release, End
  <2> QED
    BY <1>13, <2>1, <2>2
<1>14. ASSUME NEW r \in Rollouts, Verify(r) PROVE Addressed'
  <2>1. UNCHANGED <<addr, stale, going, state>>
    BY <1>14 DEF Verify
  <2>2. \A q \in Rollouts : pc'[q] \in {"expiring", "creating", "readying"} => pc'[q] = pc[q] /\ on'[q] = on[q]
    <3>1. CASE pc' = [pc EXCEPT ![r] = "slot"] /\ on' = [on EXCEPT ![r] = None]
      BY <3>1
    <3>2. CASE End(r)
      BY <3>2 DEF End
    <3> QED
      BY <1>14, <3>1, <3>2, Verifies DEF Queue
  <2> QED
    BY <2>1, <2>2
<1>15. ASSUME NEW r \in Rollouts, Interrupt(r) PROVE Addressed'
  <2>1. UNCHANGED <<addr, stale, going>>
    BY <1>15 DEF Interrupt
  <2>2. CASE state' = state /\ \A q \in Rollouts : pc'[q] \in {"expiring", "creating", "readying"} => pc'[q] = pc[q] /\ on'[q] = on[q]
    BY <2>1, <2>2
  <2>3. ASSUME boot = r, NEW x \in Past, state' = [state EXCEPT ![on[r]] = x], End(r)
        PROVE  Addressed'
    <3>1. on[r] \in Legs /\ state[on[r]] \in Past \cup {"creating", "readying"}
      BY <2>3
    <3>2. \A q \in Rollouts \ {r} : pc[q] \notin Booting
      BY <2>3
    <3>3. \A q \in Rollouts : pc'[q] \notin Booting
      BY <2>3, <3>2 DEF End
    <3>4. \A s \in Legs : state'[s] = state[s] \/ (s = on[r] /\ state'[s] \in Past)
      BY <2>3
    <3> QED
      BY <2>1, <3>1, <3>3, <3>4
  <2>4. CASE pc[r] \in Waiting /\ Abandon(r) /\ boot = r
    <3>1. PICK x \in CutTo(pc[r]) : state' = [state EXCEPT ![on[r]] = x]
      BY <1>15, <2>4 DEF Interrupt
    <3> QED
      BY <2>3, <2>4, <3>1 DEF Abandon, CutTo
  <2>5. CASE pc[r] \in Waiting /\ Abandon(r) /\ boot # r
    <3>1. state' = state
      BY <1>15, <2>5 DEF Interrupt
    <3> QED
      BY <2>2, <2>5, <3>1 DEF Abandon, End
  <2>6. CASE pc[r] = "held" /\ pc' = [pc EXCEPT ![r] = "leaving"] /\ UNCHANGED <<boot, state, sem, on>>
    BY <2>2, <2>6
  <2> QED
    BY <1>15, <2>4, <2>5, <2>6 DEF Interrupt
<1>16. ASSUME NEW r \in Rollouts, TimedOut(r) \/ GraceEnds(r) PROVE Addressed'
  BY <1>16 DEF TimedOut, GraceEnds, lease
<1>17. CASE UNCHANGED vars
  BY <1>17 DEF vars, lease, scope
<1> QED
  BY <1>1, <1>2, <1>3, <1>4, <1>5, <1>6, <1>7, <1>8, <1>9, <1>10, <1>11, <1>12, <1>13, <1>14, <1>15, <1>16, <1>17
  DEF Next, Driver

\* No driver changes its leg or begins anew, and only its own leg boots.
NothingBooted ==
  /\ leg' = leg
  /\ \A q \in Rollouts : pc'[q] \in Early => pc[q] \in Early
  /\ \A s \in Legs : state[s] = "none" /\ state'[s] # "none" =>
       \E r \in Rollouts : s = leg[r] /\ pc'[r] \notin Early

\* Legs are told apart by their rollout, so no other leg's substrate appears.
LEMMA LegsApart == Unbooted /\ NothingBooted => Unbooted'
<1> SUFFICES ASSUME Unbooted, NothingBooted, NEW q \in Rollouts
             PROVE  UnbootedBy(q)'
  BY DEF Unbooted, UnbootedBy
<1> USE DEF UnbootedBy
<1>1. <<q, "actor">> \in Legs /\ <<q, "verifier">> \in Legs /\ <<q, "actor">> # <<q, "verifier">>
  BY DEF Legs
<1>2. ASSUME NEW r \in Rollouts, leg[r] \in {<<q, "actor">>, <<q, "verifier">>} PROVE r = q
  <2>1. leg[r] = <<r, "actor">> \/ leg[r] = <<r, "verifier">>
    BY DEF Unbooted
  <2> QED
    BY <1>2, <2>1
<1>3. leg' = leg /\ leg[q] \in {<<q, "actor">>, <<q, "verifier">>}
  BY DEF Unbooted, NothingBooted
<1>4. pc'[q] \in Early => state'[leg[q]] = "none"
  BY <1>1, <1>2, <1>3 DEF Unbooted, NothingBooted
<1>5. leg[q] = <<q, "actor">> => state'[<<q, "verifier">>] = "none"
  BY <1>1, <1>2, <1>3 DEF Unbooted, NothingBooted
<1> QED
  BY <1>3, <1>4, <1>5

\* A leg is booted by the driver that is in it, once.
LEMMA UnbootedStep == IInv /\ ScopeInv /\ Addressed /\ Unbooted /\ [Next]_vars => Unbooted'
<1> SUFFICES ASSUME IInv, ScopeInv, Addressed, Unbooted, [Next]_vars PROVE Unbooted'
  OBVIOUS
<1>16. CASE UNCHANGED vars
  <2>1. leg' = leg /\ pc' = pc /\ state' = state
    BY <1>16 DEF vars, lease
  <2>2. Unbooted' <=> Unbooted
    BY <2>1 DEF Unbooted, UnbootedBy, Early
  <2> QED
    BY <2>2
<1> USE LeaseAssumption
    DEF IInv, Typed, LockHeld, Booting, Key, ScopeInv, Inner, ScopeTyped, Waiting, Addressed, Past, Early, scope
<1>1. ASSUME NEW c \in Calls, OpenScope(c) PROVE NothingBooted
  BY <1>1 DEF NothingBooted, OpenScope, lease
<1>2. ASSUME NEW c \in Calls, LeaveScope(c) PROVE NothingBooted
  BY <1>2 DEF NothingBooted, LeaveScope, LastOut, Gathered, lease
<1>3. ASSUME NEW c \in Calls, Cancel(c) PROVE NothingBooted
  BY <1>3 DEF NothingBooted, Cancel, Gathered
<1>4. ASSUME NEW c \in Calls, NEW s \in Legs, ContextClosed(c, s) PROVE NothingBooted
  BY <1>4 DEF NothingBooted, ContextClosed, lease
<1>5. ASSUME NEW k \in Keys, Expire(k) PROVE NothingBooted
  BY <1>5 DEF NothingBooted, Expire, lease
<1>6. ASSUME NEW r \in Rollouts, Start(r) PROVE NothingBooted
  BY <1>6 DEF NothingBooted, Start, Queue, End
<1>7. ASSUME NEW r \in Rollouts, TakeSlot(r) PROVE NothingBooted
  BY <1>7 DEF NothingBooted, TakeSlot
<1>8. ASSUME NEW r \in Rollouts, TakeLock(r) PROVE NothingBooted
  BY <1>8 DEF NothingBooted, TakeLock, LockFree, Retire, Create
<1>9. ASSUME NEW r \in Rollouts, ExpiredClosed(r) PROVE NothingBooted
  BY <1>9 DEF NothingBooted, ExpiredClosed, Create
<1>10. ASSUME NEW r \in Rollouts, Created(r) PROVE NothingBooted
  BY <1>10 DEF NothingBooted, Created
<1>11. ASSUME NEW r \in Rollouts, Booted(r) PROVE NothingBooted
  BY <1>11 DEF NothingBooted, Booted
<1>12. ASSUME NEW r \in Rollouts, BootFails(r) PROVE NothingBooted
  BY <1>12 DEF NothingBooted, BootFails, Abandon, End
<1>13. ASSUME NEW r \in Rollouts, Finish(r) \/ Release(r) PROVE NothingBooted
  BY <1>13 DEF NothingBooted, Finish, Release, End
<1>14. ASSUME NEW r \in Rollouts, Interrupt(r) PROVE NothingBooted
  BY <1>14 DEF NothingBooted, Interrupt, Abandon, End, CutTo
<1>15. ASSUME NEW r \in Rollouts, TimedOut(r) \/ GraceEnds(r) PROVE NothingBooted
  BY <1>15 DEF NothingBooted, TimedOut, GraceEnds, lease
<1>17. ASSUME NEW r \in Rollouts, Verify(r) PROVE Unbooted'
  <2>1. /\ leg[r] = <<r, "actor">> /\ leg' = [leg EXCEPT ![r] = <<r, "verifier">>]
        /\ state' = state /\ \A q \in Rollouts \ {r} : pc'[q] = pc[q]
    BY <1>17 DEF Verify, Queue, End
  <2>2. <<r, "verifier">> # <<r, "actor">> /\ state[<<r, "verifier">>] = "none" /\ leg'[r] = <<r, "verifier">>
    BY <2>1 DEF Unbooted, UnbootedBy
  <2>3. ASSUME NEW q \in Rollouts PROVE UnbootedBy(q)'
    <3>1. CASE q = r
      BY <2>1, <2>2, <3>1 DEF UnbootedBy
    <3>2. CASE q # r
      <4>1. leg'[q] = leg[q] /\ pc'[q] = pc[q] /\ state' = state
        BY <2>1, <3>2
      <4> QED
        BY <4>1 DEF Unbooted, UnbootedBy
    <3> QED
      BY <3>1, <3>2
  <2> QED
    BY <2>3 DEF Unbooted
<1> QED
  BY LegsApart, <1>1, <1>2, <1>3, <1>4, <1>5, <1>6, <1>7, <1>8, <1>9, <1>10, <1>11, <1>12, <1>13, <1>14, <1>15, <1>16, <1>17
  DEF Next, Driver

\* Nobody comes to hold a substrate, and no address outlives its semaphores.
Unled == {"none", "creating", "readying"}
HoldersKept ==
  /\ \A r \in Rollouts : pc'[r] \in {"held", "leaving"} =>
       pc[r] \in {"held", "leaving"} /\ on'[r] = on[r] /\ leg'[r] = leg[r] /\ sem'[r] = sem[r]
  /\ \A s \in Legs : state[s] \notin Unled => state'[s] \notin Unled
  /\ \A k \in Keys : addr'[k] = None \/ (addr'[k] = addr[k] /\ gen' = gen)

\* One driver more holds s, whose other holders are of the current generation or late.
NewHolder(r, s) ==
  /\ pc' = [pc EXCEPT ![r] = "held"] /\ on' = [on EXCEPT ![r] = s] /\ UNCHANGED <<leg, sem, gen, mode>>
  /\ sem[r] = gen \/ Late(leg[r])
  /\ KeyOf[s] = Key(r) /\ state'[s] \notin Unled
  /\ \A q \in Rollouts : Holds(q, s) => sem[q] = gen \/ Late(leg[q])
  /\ \A d \in Legs : state[d] \notin Unled => state'[d] \notin Unled
  /\ \A k \in Keys : addr'[k] = addr[k] \/ (addr'[k] = s /\ KeyOf[s] = k)

\* A step that makes nobody a holder leaves the holders their one semaphore.
LEMMA KeepsSemaphore == IInv /\ ScopeInv /\ OneSemaphore /\ LateStays /\ HoldersKept => OneSemaphore'
  BY LeaseAssumption DEF IInv, Typed, ScopeInv, Inner, ScopeTyped, OneSemaphore, HoldersKept, LateStays, Outlived, Holds, Key, Unled

\* A rollout that comes to hold the substrate of its address has the present semaphore.
LEMMA AddsToSemaphore ==
  ASSUME IInv, OneSemaphore, NEW r \in Rollouts, NEW s \in Legs, NewHolder(r, s)
  PROVE  OneSemaphore'
  BY LeaseAssumption DEF IInv, Typed, OneSemaphore, NewHolder, Outlived, Late, Holds, Key, Unled

\* A driver that still waits for a lease is of the current generation, or late.
LEMMA Current ==
  ASSUME ScopeInv, NEW r \in Rollouts, pc[r] \in Waiting, Runs(r)
  PROVE  sem[r] = gen \/ Late(leg[r])
  BY DEF ScopeInv, Inner, ScopeTyped, Ending, Inside, Cancelled, Runs, Waiting, Late

\* Leases of one substrate are never counted by two semaphores.
LEMMA OneSemaphoreStep == IInv /\ ScopeInv /\ HoldInv /\ [Next]_vars => OneSemaphore'
<1> SUFFICES ASSUME IInv, ScopeInv, HoldInv, [Next]_vars PROVE OneSemaphore'
  OBVIOUS
<1> LateStays
  BY Lateness DEF ScopeInv, Inner
<1>0. /\ OneSemaphore /\ \A r \in Rollouts : pc[r] \in {"lock", "expiring"} => state[leg[r]] = "none"
      /\ \A s \in Legs, r \in Rollouts : Holds(r, s) => state[s] \notin Unled
  BY DEF HoldInv, Unbooted, UnbootedBy, Early, OneSemaphore, Unled
<1>1. CASE UNCHANGED vars
  <2>1. leg' = leg /\ pc' = pc /\ state' = state /\ on' = on /\ sem' = sem /\ addr' = addr /\ gen' = gen
    BY <1>1 DEF vars, lease, scope
  <2> QED
    BY <1>0, <2>1, KeepsSemaphore DEF HoldersKept
<1>2. ASSUME NEW c \in Calls, LeaveScope(c) PROVE HoldersKept
  BY <1>2, LeaseAssumption DEF LeaveScope, HoldersKept, lease, Unled, IInv, Typed
<1>3. ASSUME NEW r \in Rollouts, TakeLock(r) PROVE HoldersKept \/ \E s \in Legs : NewHolder(r, s)
  <2> DEFINE s == addr[Key(r)]
  <2> USE LeaseAssumption DEF IInv, Typed, Key, Waiting
  <2>1. CASE s \in stale /\ Retire(r, s)
    BY <1>3, <2>1 DEF TakeLock, Retire, HoldersKept, Unled, scope
  <2>2. CASE Create(r, state) /\ UNCHANGED addr
    BY <1>0, <1>3, <2>2 DEF TakeLock, Create, HoldersKept, Unled, scope
  <2>3. CASE /\ s # None /\ pc' = [pc EXCEPT ![r] = "held"]
             /\ on' = [on EXCEPT ![r] = s] /\ UNCHANGED <<addr, stale, boot, state>>
    <3>1. (sem[r] = gen \/ Late(leg[r])) /\ UNCHANGED <<leg, sem, gen, mode>>
      BY <1>3, Current DEF TakeLock, scope
    <3>2. s \in Legs /\ KeyOf[s] = Key(r) /\ state'[s] \notin Unled
      BY <2>3 DEF HoldInv, Addressed, Unled
    <3>3. \A q \in Rollouts : Holds(q, s) => sem[q] = gen \/ Late(leg[q])
      BY <1>0, <3>2 DEF OneSemaphore
    <3>4. UNCHANGED <<addr, state>>
      BY <2>3
    <3> HIDE DEF IInv, Typed, Key, s, Waiting
    <3> QED
      BY <2>3, <3>1, <3>2, <3>3, <3>4 DEF NewHolder
  <2> QED
    BY <1>3, <2>1, <2>2, <2>3 DEF TakeLock
<1>4. ASSUME NEW r \in Rollouts, Booted(r) PROVE \E s \in Legs : NewHolder(r, s)
  <2> USE LeaseAssumption DEF IInv, Typed, LockHeld, Key, Waiting
  <2>1. on[r] = leg[r] /\ on[r] \in Legs /\ state[on[r]] = "readying"
    BY <1>4 DEF Booted, Booting, HoldInv, Addressed
  <2>2. (sem[r] = gen \/ Late(leg[r])) /\ UNCHANGED <<leg, sem, gen, on, mode>>
    BY <1>4, Current DEF Booted, scope
  <2>3. \A q \in Rollouts : ~Holds(q, on[r])
    BY <1>0, <2>1 DEF Unled
  <2>4. /\ pc' = [pc EXCEPT ![r] = "held"] /\ on' = [on EXCEPT ![r] = on[r]]
        /\ state' = [state EXCEPT ![on[r]] = "up"] /\ addr' = [addr EXCEPT ![Key(r)] = on[r]]
    BY <1>4, <2>2 DEF Booted
  <2>5. /\ \A d \in Legs : state'[d] = state[d] \/ state'[d] = "up"
        /\ \A k \in Keys : addr'[k] = addr[k] \/ (addr'[k] = on[r] /\ KeyOf[on[r]] = k)
    BY <2>1, <2>4
  <2>6. KeyOf[on[r]] = Key(r) /\ state'[on[r]] = "up"
    BY <2>1, <2>4
  <2> HIDE DEF IInv, Typed, LockHeld, Key, Waiting
  <2>7. NewHolder(r, on[r])
    BY <2>1, <2>2, <2>3, <2>4, <2>5, <2>6 DEF NewHolder, Unled
  <2> QED
    BY <2>1, <2>7
<1> USE <1>0, LeaseAssumption
    DEF IInv, Typed, LockHeld, Booting, Key, ScopeInv, Inner, ScopeTyped, Waiting, HoldersKept, Unled, scope
<1>5. ASSUME NEW c \in Calls, OpenScope(c) PROVE HoldersKept
  BY <1>5 DEF OpenScope, lease
<1>6. ASSUME NEW c \in Calls, Cancel(c) PROVE HoldersKept
  BY <1>6 DEF Cancel, Gathered
<1>7. ASSUME NEW c \in Calls, NEW s \in Legs, ContextClosed(c, s) PROVE HoldersKept
  BY <1>7 DEF ContextClosed, lease
<1>8. ASSUME NEW k \in Keys, Expire(k) PROVE HoldersKept
  BY <1>8 DEF Expire, lease
<1>9. ASSUME NEW r \in Rollouts, Start(r) PROVE HoldersKept
  BY <1>9 DEF Start, Queue, End
<1>10. ASSUME NEW r \in Rollouts, TakeSlot(r) PROVE HoldersKept
  BY <1>10 DEF TakeSlot
<1>11. ASSUME NEW r \in Rollouts, ExpiredClosed(r) PROVE HoldersKept
  BY <1>11 DEF ExpiredClosed, Create
<1>12. ASSUME NEW r \in Rollouts, Created(r) PROVE HoldersKept
  BY <1>12 DEF Created, HoldInv, Addressed
<1>13. ASSUME NEW r \in Rollouts, BootFails(r) PROVE HoldersKept
  BY <1>13 DEF BootFails, Abandon, End
<1>14. ASSUME NEW r \in Rollouts, Finish(r) \/ Release(r) PROVE HoldersKept
  BY <1>14 DEF Finish, Release, End
<1>15. ASSUME NEW r \in Rollouts, Verify(r) PROVE HoldersKept
  BY <1>15 DEF Verify, Queue, End
<1>16. ASSUME NEW r \in Rollouts, Interrupt(r) PROVE HoldersKept
  BY <1>16 DEF Interrupt, Abandon, End, CutTo
<1>17. ASSUME NEW r \in Rollouts, TimedOut(r) \/ GraceEnds(r) PROVE HoldersKept
  BY <1>17 DEF TimedOut, GraceEnds, lease
<1> QED
  BY KeepsSemaphore, AddsToSemaphore, <1>1, <1>2, <1>3, <1>4, <1>5, <1>6, <1>7, <1>8, <1>9, <1>10, <1>11, <1>12, <1>13, <1>14, <1>15, <1>16, <1>17
  DEF Next, Driver

\* Nobody takes a slot, and whoever keeps one keeps it with the same semaphore.
NoSlotTaken ==
  \A q \in Rollouts : pc'[q] \in InSlot => pc[q] \in InSlot /\ sem'[q] = sem[q] /\ leg'[q] = leg[q]

\* The slots of a semaphore are as many as before, or fewer.
LEMMA SlotsLeft == SlotsKept /\ NoSlotTaken => SlotsKept'
<1> SUFFICES ASSUME SlotsKept, NoSlotTaken, NEW g \in Nat, NEW k \in Keys
             PROVE  Cardinality(InSlots(g, k)') <= Width
  BY DEF SlotsKept
<1>1. InSlots(g, k)' \subseteq InSlots(g, k)
  BY DEF InSlots, NoSlotTaken, Key
<1>2. IsFiniteSet(InSlots(g, k))
  BY LeaseAssumption, FS_Subset DEF InSlots
<1>3. IsFiniteSet(InSlots(g, k)') /\ Cardinality(InSlots(g, k)') <= Cardinality(InSlots(g, k))
  BY <1>1, <1>2, FS_Subset
<1>4. Cardinality(InSlots(g, k)) \in Nat /\ Cardinality(InSlots(g, k)') \in Nat
  BY <1>2, <1>3, FS_CardinalityType
<1> QED
  BY <1>3, <1>4, LeaseAssumption DEF SlotsKept

\* A slot is only taken while the semaphore counts fewer than its width.
LEMMA SlotTaken == ASSUME IInv, SlotsKept, NEW r \in Rollouts, TakeSlot(r) PROVE SlotsKept'
<1> SUFFICES ASSUME NEW g \in Nat, NEW k \in Keys PROVE Cardinality(InSlots(g, k)') <= Width
  BY DEF SlotsKept
<1>1. /\ pc' = [pc EXCEPT ![r] = "lock"] /\ leg' = leg /\ sem' = sem /\ pc[r] = "slot"
      /\ Cardinality(InSlots(sem[r], Key(r))) < Width
  BY DEF TakeSlot, HasSlot, InSlots
<1>2. IsFiniteSet(InSlots(g, k))
  BY LeaseAssumption, FS_Subset DEF InSlots
<1>3. Cardinality(InSlots(g, k)) \in Nat
  BY <1>2, FS_CardinalityType
<1>4. CASE sem[r] = g /\ Key(r) = k
  <2>1. r \notin InSlots(g, k)
    BY <1>1 DEF InSlots, InSlot, Waiting
  <2>2. InSlots(g, k)' = InSlots(g, k) \cup {r}
    BY <1>1, <1>4 DEF InSlots, InSlot, Waiting, Key, IInv, Typed
  <2>3. Cardinality(InSlots(g, k)') = Cardinality(InSlots(g, k)) + 1
    BY <1>2, <2>1, <2>2, FS_AddElement
  <2> QED
    BY <1>1, <1>3, <1>4, <2>3, LeaseAssumption
<1>5. CASE ~(sem[r] = g /\ Key(r) = k)
  <2>1. InSlots(g, k)' = InSlots(g, k)
    BY <1>1, <1>5 DEF InSlots, InSlot, Waiting, Key, IInv, Typed
  <2> QED
    BY <2>1 DEF SlotsKept
<1> QED
  BY <1>4, <1>5

\* No semaphore is ever held by more rollouts than the width.
LEMMA SlotsStep == IInv /\ ScopeInv /\ SlotsKept /\ [Next]_vars => SlotsKept'
<1> SUFFICES ASSUME IInv, ScopeInv, SlotsKept, [Next]_vars PROVE SlotsKept'
  OBVIOUS
<1>1. CASE UNCHANGED vars
  <2>1. leg' = leg /\ pc' = pc /\ sem' = sem
    BY <1>1 DEF vars, lease
  <2> QED
    BY <2>1, SlotsLeft DEF NoSlotTaken
<1>0. sem \in [Rollouts -> Nat]
  BY DEF ScopeInv, Inner, ScopeTyped
<1> USE <1>0, LeaseAssumption DEF IInv, Typed, InSlot, Waiting, NoSlotTaken
<1>2. ASSUME NEW c \in Calls, OpenScope(c) PROVE NoSlotTaken
  BY <1>2 DEF OpenScope, lease
<1>3. ASSUME NEW c \in Calls, LeaveScope(c) PROVE NoSlotTaken
  BY <1>3 DEF LeaveScope, lease
<1>4. ASSUME NEW c \in Calls, Cancel(c) PROVE NoSlotTaken
  BY <1>4 DEF Cancel, Gathered
<1>5. ASSUME NEW c \in Calls, NEW s \in Legs, ContextClosed(c, s) PROVE NoSlotTaken
  BY <1>5 DEF ContextClosed, lease
<1>6. ASSUME NEW k \in Keys, Expire(k) PROVE NoSlotTaken
  BY <1>6 DEF Expire, lease
<1>7. ASSUME NEW r \in Rollouts, Start(r) PROVE NoSlotTaken
  BY <1>7 DEF Start, Queue, End
<1>8. ASSUME NEW r \in Rollouts, TakeLock(r) PROVE NoSlotTaken
  BY <1>8 DEF TakeLock, Retire, Create
<1>9. ASSUME NEW r \in Rollouts, ExpiredClosed(r) PROVE NoSlotTaken
  BY <1>9 DEF ExpiredClosed, Create
<1>10. ASSUME NEW r \in Rollouts, Created(r) PROVE NoSlotTaken
  BY <1>10 DEF Created
<1>11. ASSUME NEW r \in Rollouts, Booted(r) PROVE NoSlotTaken
  BY <1>11 DEF Booted
<1>12. ASSUME NEW r \in Rollouts, BootFails(r) PROVE NoSlotTaken
  BY <1>12 DEF BootFails, Abandon, End
<1>13. ASSUME NEW r \in Rollouts, Finish(r) \/ Release(r) PROVE NoSlotTaken
  BY <1>13 DEF Finish, Release, End
<1>14. ASSUME NEW r \in Rollouts, Verify(r) PROVE NoSlotTaken
  BY <1>14 DEF Verify, Queue, End
<1>15. ASSUME NEW r \in Rollouts, Interrupt(r) PROVE NoSlotTaken
  BY <1>15 DEF Interrupt, Abandon, End, CutTo
<1>16. ASSUME NEW r \in Rollouts, TimedOut(r) \/ GraceEnds(r) PROVE NoSlotTaken
  BY <1>16 DEF TimedOut, GraceEnds, lease
<1> QED
  BY SlotsLeft, SlotTaken, <1>1, <1>2, <1>3, <1>4, <1>5, <1>6, <1>7, <1>8, <1>9, <1>10, <1>11, <1>12, <1>13, <1>14, <1>15, <1>16
  DEF Next, Driver

ScopeAll == IInv /\ ScopeInv /\ HoldInv

\* Every step keeps the scope, the legs, the addresses and the semaphores in order.
LEMMA ScopeAlways == Spec => []ScopeAll
<1>1. Init => ScopeAll
  BY InitHolds, InitScope DEF ScopeAll
<1>2. ScopeAll /\ [Next]_vars => ScopeAll'
  BY StepHolds, InnerStep, EmptiedStep, AddressedStep, UnbootedStep, OneSemaphoreStep, SlotsStep
  DEF ScopeAll, ScopeInv, HoldInv
<1> QED
  BY <1>1, <1>2, PTL DEF Spec

\* What is up has an address, and the last call to leave takes every address: what
\* its scope leaves up, or comes up later, is a late lease's (core.py:222, core.py:270).
THEOREM ScopeReleasesAlways == Spec => []ScopeReleases
<1>1. ScopeAll => ScopeReleases
  <2> SUFFICES ASSUME ScopeAll, \A c \in Calls : call[c] \in {"new", "closed"}, NEW s \in Legs, state[s] = "up"
               PROVE  Late(s) /\ addr[KeyOf[s]] = s
    BY DEF ScopeReleases
  <2>1. addr[KeyOf[s]] = s /\ KeyOf[s] \in Keys
    BY LeaseAssumption DEF ScopeAll, IInv, Known
  <2>2. addr[KeyOf[s]] = None \/ Late(addr[KeyOf[s]])
    BY <2>1 DEF ScopeAll, ScopeInv, Emptied
  <2> QED
    BY <2>1, <2>2, LeaseAssumption
<1> QED
  BY <1>1, ScopeAlways, PTL

\* Whoever holds a substrate has a slot of the one semaphore that counts its leases
\* (core.py:251, the semaphore of the key), unless one of them outlived its scope.
THEOREM WidthRespectedAlways == Spec => []WidthRespected
<1>1. ScopeAll => WidthRespected
  <2> SUFFICES ASSUME ScopeAll, NEW s \in Legs, \A r \in Rollouts : Holds(r, s) => ~Outlived(r)
               PROVE  Cardinality({r \in Rollouts : Holds(r, s)}) <= Width
    BY DEF WidthRespected
  <2> DEFINE held == {r \in Rollouts : Holds(r, s)}
  <2>1. CASE held = {}
    BY <2>1, FS_EmptySet, LeaseAssumption
  <2>2. ASSUME NEW r \in held PROVE Cardinality(held) <= Width
    <3>1. held \subseteq InSlots(sem[r], KeyOf[s])
      BY DEF ScopeAll, HoldInv, OneSemaphore, InSlots, InSlot, Holds
    <3>2. IsFiniteSet(InSlots(sem[r], KeyOf[s]))
      BY LeaseAssumption, FS_Subset DEF InSlots
    <3>3. sem[r] \in Nat /\ KeyOf[s] \in Keys
      BY LeaseAssumption DEF ScopeAll, ScopeInv, Inner, ScopeTyped
    <3>4. Cardinality(InSlots(sem[r], KeyOf[s])) <= Width
      BY <3>3 DEF ScopeAll, HoldInv, SlotsKept
    <3>5. IsFiniteSet(held) /\ Cardinality(held) <= Cardinality(InSlots(sem[r], KeyOf[s]))
      BY <3>1, <3>2, FS_Subset
    <3>6. Cardinality(held) \in Nat /\ Cardinality(InSlots(sem[r], KeyOf[s])) \in Nat
      BY <3>2, <3>5, FS_CardinalityType
    <3> QED
      BY <3>4, <3>5, <3>6, LeaseAssumption
  <2> QED
    BY <2>1, <2>2
<1> QED
  BY <1>1, ScopeAlways, PTL

=============================================================================
