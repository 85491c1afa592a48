---------------------------- MODULE PlacementProofs ----------------------------
(* What the machines around a placement keep, for any number of acquisitions,  *)
(* traces and commands: the teardown of a process group, the batch on the      *)
(* platform, the providers, and the commands that keep a directory and the     *)
(* platform in step.                                                           *)
EXTENDS Substrates, ProcessGroup, HostedBatch, PlatformSync, FiniteSetTheorems, TLAPS

-----------------------------------------------------------------------------
(* The process group                                                         *)

\* Where the teardown is past its last signal, everyone left in the group has
\* got SIGKILL or cannot be signalled, unless a cancellation has met it.
GroupInv ==
  /\ step = "killed" => Members \subseteq killed \cup foreign
  /\ step \in {"drain", "done"} /\ ~cut => Members \subseteq killed \cup foreign
  /\ killed # {} => "term" \in over

\* It holds at first and every step keeps it: nobody joins the group.
LEMMA GroupStep == GroupInv /\ [NextGroup]_groupVars => GroupInv'
<1> SUFFICES ASSUME GroupInv, [NextGroup]_groupVars PROVE GroupInv'
  OBVIOUS
<1> USE DEF GroupInv, Members, Still, Go
<1>1. CASE Wait
  BY <1>1 DEF Wait
<1>2. CASE Term
  BY <1>2 DEF Term
<1>3. CASE LeaderGone
  BY <1>3 DEF LeaderGone
<1>4. CASE Group
  BY <1>4 DEF Group, GroupExited
<1>5. CASE Killed
  BY <1>5 DEF Killed
<1>6. CASE Drain
  BY <1>6 DEF Drain
<1>7. CASE Cancel
  BY <1>7 DEF Cancel
<1>8. ASSUME NEW p \in Procs, Exit(p) PROVE GroupInv'
  BY <1>8 DEF Exit
<1>9. ASSUME NEW d \in DOMAIN During, Passes(d) PROVE GroupInv'
  BY <1>9 DEF Passes
<1>10. CASE UNCHANGED groupVars
  BY <1>10 DEF groupVars
<1> QED
  BY <1>1, <1>2, <1>3, <1>4, <1>5, <1>6, <1>7, <1>8, <1>9, <1>10 DEF NextGroup, Teardown

\* No process that may be signalled outlives a teardown that was not itself
\* cancelled, and none is killed before its time after SIGTERM (process.py:150).
THEOREM GroupEndedAlways == InitGroup /\ [][NextGroup]_groupVars => []GroupEnded
<1>1. InitGroup => GroupInv
  BY DEF InitGroup, GroupInv, Members
<1>2. GroupInv => GroupEnded
  BY DEF GroupInv, GroupEnded
<1> QED
  BY <1>1, <1>2, GroupStep, PTL

-----------------------------------------------------------------------------
(* The batch on the platform                                                 *)

Outcomes == Terminal \cup {"none", "failed", "timeout", "cut"}

\* With FoldIsVerdict: only a terminal status is ever folded, and a terminal
\* status stays; who waits for a slot has sent nothing, and who has no outcome yet
\* has asked for no cancellation.
HostedInv ==
  /\ outcome \in [Traces -> Outcomes]
  /\ remote \in [Traces -> Terminal \cup {"none", "running"}]
  /\ cancel \in [Traces -> {"none", "scheduled", "asked", "dropped"}]
  /\ doing \in [Traces -> {"queued", "submit", "poll", "sleep", "done"}]
  /\ \A t \in Traces :
       /\ doing[t] = "queued" => ~Submitted(t)
       /\ doing[t] = "done" <=> outcome[t] # "none"
       /\ <<"cancel", t>> \in wire => cancel[t] # "none"
       /\ cancel[t] = "scheduled" => batch # "over"
       /\ batch = "over" => doing[t] = "done"
  /\ FoldIsVerdict

\* Every step keeps it.
LEMMA HostedStep == HostedInv /\ [NextHosted]_hostedVars => HostedInv'
<1> SUFFICES ASSUME HostedInv, [NextHosted]_hostedVars PROVE HostedInv'
  OBVIOUS
<1> USE DEF HostedInv, FoldIsVerdict, Outcomes, Terminal, Submitted
<1>1. ASSUME NEW t \in Traces, Start(t) PROVE HostedInv'
  BY <1>1 DEF Start
<1>2. ASSUME NEW t \in Traces, Post(t) PROVE HostedInv'
  BY <1>2 DEF Post
<1>3. ASSUME NEW t \in Traces, Answered(t) PROVE HostedInv'
  BY <1>3 DEF Answered
<1>4. ASSUME NEW t \in Traces, Fold(t) PROVE HostedInv'
  BY <1>4 DEF Fold, Folds, Ends
<1>5. ASSUME NEW t \in Traces, Wake(t) PROVE HostedInv'
  BY <1>5 DEF Wake
<1>6. ASSUME NEW t \in Traces, TimedOut(t) PROVE HostedInv'
  <2>1. /\ outcome' = [outcome EXCEPT ![t] = "timeout"] /\ doing' = [doing EXCEPT ![t] = "done"]
        /\ cancel' = [cancel EXCEPT ![t] = "scheduled"] /\ doing[t] \notin {"queued", "done"}
        /\ UNCHANGED <<wire, remote, batch, told>>
    BY <1>6 DEF TimedOut, InHand, Ends, CancelLater
  <2>2. batch # "over"
    BY <2>1
  <2>3. \A s \in Traces \ {t} : outcome'[s] = outcome[s] /\ doing'[s] = doing[s] /\ cancel'[s] = cancel[s]
    BY <2>1
  <2>4. outcome'[t] = "timeout" /\ doing'[t] = "done" /\ cancel'[t] = "scheduled"
    BY <2>1
  <2> QED
    BY <2>1, <2>2, <2>3, <2>4
<1>7. ASSUME NEW t \in Traces, Retry(t) PROVE HostedInv'
  BY <1>7 DEF Retry
<1>8. ASSUME NEW t \in Traces, Fail(t) PROVE HostedInv'
  BY <1>8 DEF Fail, Ends
<1>9. ASSUME NEW t \in Traces, RemoteEnds(t) PROVE HostedInv'
  BY <1>9 DEF RemoteEnds
<1>10. ASSUME NEW t \in Traces, SendCancel(t) PROVE HostedInv'
  BY <1>10 DEF SendCancel
<1>11. ASSUME NEW t \in Traces, NEW kind \in {"submit", "cancel"}, Arrives(kind, t)
       PROVE HostedInv'
  BY <1>11 DEF Arrives
<1>12. ASSUME NEW t \in Traces, NEW kind \in {"submit", "cancel"}, Lost(kind, t)
       PROVE HostedInv'
  BY <1>12 DEF Lost
<1>13. CASE Interrupt
  BY <1>13 DEF Interrupt, GivenUp, InHand
<1>14. CASE LoopCloses
  BY <1>14 DEF LoopCloses
<1>15. CASE UNCHANGED hostedVars
  BY <1>15 DEF hostedVars
<1> QED
  BY <1>1, <1>2, <1>3, <1>4, <1>5, <1>6, <1>7, <1>8, <1>9, <1>10, <1>11, <1>12, <1>13,
     <1>14, <1>15 DEF NextHosted, Local

\* A rollout reports what its trace ended with; whoever timed out, or was cut with a
\* trace that the platform has or may yet get, has a cancellation scheduled or sent,
\* or dropped with the loop; and no other trace is cancelled (hosted.py:89, 117-129).
THEOREM FoldIsVerdictAlways == InitHosted /\ [][NextHosted]_hostedVars => []FoldIsVerdict
<1>1. InitHosted => HostedInv
  BY DEF InitHosted, HostedInv, FoldIsVerdict, Outcomes, Terminal, Submitted
<1>2. HostedInv => FoldIsVerdict
  BY DEF HostedInv
<1> QED
  BY <1>1, <1>2, HostedStep, PTL

-----------------------------------------------------------------------------
(* The providers                                                             *)

\* Whoever has the lock is in the call that prepares, and the other way round;
\* what is resolved once has not been resolved while that call is under way.
LockInv ==
  /\ prepared \in Nat
  /\ at \in [Leases -> Nat]
  /\ phase \in [Leases -> {"idle", "lock", "up", "body", "down", "left"}]
  /\ \A l \in Leases : lock = l => phase[l] = "up" /\ at[l] = 1
  /\ \A l \in Leases : phase[l] = "lock" => at[l] = 1
  /\ \A l \in Leases : phase[l] # "idle" => at[l] >= 1
  /\ P.prepare = "once" /\ lock # None => prepared = 0
  /\ lock \in Leases \cup {None}
  /\ PreparedOnce

\* Every step keeps it, whatever the provider's calls are.
LEMMA LockStep == LockInv /\ [NextSubstrate]_vars => LockInv'
<1> SUFFICES ASSUME LockInv, [NextSubstrate]_vars PROVE LockInv'
  OBVIOUS
<1>11. CASE UNCHANGED vars
  BY <1>11 DEF vars, LockInv, PreparedOnce, P
<1> USE SubstratesAssumption
<1>1. ASSUME NEW l \in Leases, Begin(l) PROVE LockInv'
  BY <1>1 DEF Begin, LockInv, PreparedOnce, P
<1>2. ASSUME NEW l \in Leases, Prepare(l) PROVE LockInv'
  BY <1>2 DEF Prepare, Resolved, LockInv, PreparedOnce, P
<1>3. ASSUME NEW l \in Leases, Returns(l) PROVE LockInv'
  <2> DEFINE prepare == P.prepare
             calls == P.up
             Once == /\ prepare = "once" => prepared <= 1
                     /\ \A k \in Leases : phase[k] = "up" /\ at[k] = 1 /\ prepare # "no" => lock = k
             Locked == /\ \A k \in Leases : lock = k => phase[k] = "up" /\ at[k] = 1
                       /\ prepare = "once" /\ lock # None => prepared = 0
  <2>1. Once /\ Locked
    BY DEF LockInv, PreparedOnce
  <2>2. /\ prepare' = prepare /\ phase[l] = "up" /\ at' = [at EXCEPT ![l] = @ + 1]
        /\ phase' = [phase EXCEPT ![l] = IF at[l] + 1 = Len(calls) + 1 THEN "body" ELSE "up"]
        /\ prepared' = IF lock = l THEN prepared + 1 ELSE prepared
        /\ lock' = IF lock = l THEN None ELSE lock
    BY <1>3 DEF Returns, Unlocked, P, Ready
  <2> HIDE DEF prepare, calls
  <2>3. /\ prepared' \in Nat /\ at' \in [Leases -> Nat] /\ lock' \in Leases \cup {None}
        /\ phase' \in [Leases -> {"idle", "lock", "up", "body", "down", "left"}]
        /\ \A k \in Leases : phase'[k] = "lock" => at'[k] = 1
        /\ \A k \in Leases : phase'[k] # "idle" => at'[k] >= 1
    BY <2>2 DEF LockInv
  <2>4. Locked'
    BY <2>1, <2>2 DEF LockInv
  <2>5. Once'
    BY <2>1, <2>2 DEF LockInv
  <2> QED
    BY <2>3, <2>4, <2>5 DEF LockInv, PreparedOnce, prepare
<1>4. ASSUME NEW l \in Leases, Raises(l) PROVE LockInv'
  BY <1>4 DEF Raises, Down, Unwind, Unlocked, LockInv, PreparedOnce, P
<1>5. ASSUME NEW l \in Leases, TakeDown(l) PROVE LockInv'
  BY <1>5 DEF TakeDown, Unwind, LockInv, PreparedOnce, P
<1>6. ASSUME NEW l \in Leases, GiveUp(l) PROVE LockInv'
  BY <1>6 DEF GiveUp, Down, Unwind, Unlocked, LockInv, PreparedOnce, P
<1>7. ASSUME NEW l \in Leases, Leave(l) PROVE LockInv'
  BY <1>7 DEF Leave, Down, Unwind, Unlocked, LockInv, PreparedOnce, P
<1>8. ASSUME NEW l \in Leases, Expire(l) PROVE LockInv'
  BY <1>8 DEF Expire, LockInv, PreparedOnce, P
<1> QED
  BY <1>1, <1>2, <1>3, <1>4, <1>5, <1>6, <1>7, <1>8, <1>11 DEF NextSubstrate, Proceed

\* Concurrent acquisitions resolve a provider's image or snapshot once, one at a
\* time (modal.py:158, daytona.py:117).
THEOREM PreparedOnceAlways == Spec => []PreparedOnce
<1>1. Init => LockInv
  BY SubstratesAssumption DEF Init, LockInv, PreparedOnce
<1>2. LockInv => PreparedOnce
  BY DEF LockInv
<1> QED
  BY <1>1, <1>2, LockStep, PTL DEF Spec

\* What the awaits before the k-th bring up, and what the teardown calls from the
\* c-th of block b on take down.
Brought(p, k, x) == \E i \in DOMAIN p.up : i < k /\ x \in p.up[i].far \cup p.up[i].near
Undone(p, b, c, x) ==
  \E i \in DOMAIN p.down : \E j \in DOMAIN p.down[i].undoes :
    (i > b \/ (i = b /\ j >= c)) /\ x \in With(p.down[i].undoes[j])

\* Where its calls are numbered.
Numbered(p) ==
  /\ Len(p.up) \in Nat /\ Len(p.up) >= 2 /\ DOMAIN p.up = 1..Len(p.up)
  /\ Len(p.down) \in Nat /\ DOMAIN p.down = 1..Len(p.down)
  /\ \A b \in DOMAIN p.down :
       /\ Len(p.down[b].undoes) \in Nat /\ Len(p.down[b].undoes) >= 1
       /\ DOMAIN p.down[b].undoes = 1..Len(p.down[b].undoes)

\* The blocks that an await is inside of take down all that came before it.
Covers(p) ==
  \A k \in 1..(Len(p.up) + 1), i \in 1..(Len(p.down) + 1) :
    (\A j \in DOMAIN p.down : p.down[j].from <= k <=> i <= j)
      => \A x : Brought(p, k, x) => Undone(p, i, 1, x)

\* So it is in each of the providers' programs.
LEMMA NumberedAll == \A n \in DOMAIN Program : Numbered(Program[n])
<1> USE DEF Numbered, Step, Block, Ask
<1>1. Numbered(DockerImage)
  BY DEF DockerImage
<1>2. Numbered(DockerCompose)
  BY DEF DockerCompose
<1>3. Numbered(ModalImage)
  BY DEF ModalImage
<1>4. Numbered(ModalCompose)
  BY DEF ModalCompose
<1>5. Numbered(Daytona)
  BY DEF Daytona
<1>6. Numbered(HUDTunnel)
  BY DEF HUDTunnel
<1>7. Numbered(Subprocess)
  BY DEF Subprocess
<1> HIDE DEF Numbered, Step, Block, Ask
<1> QED
  BY <1>1, <1>2, <1>3, <1>4, <1>5, <1>6, <1>7 DEF Program

\* And each program's teardown covers what its awaits bring up.
LEMMA CoversAll == \A n \in DOMAIN Program : Covers(Program[n])
<1> USE DEF Covers, Brought, Undone, With, Step, Block, Ask
<1>1. Covers(DockerImage)
  BY DEF DockerImage
<1>2. Covers(DockerCompose)
  BY DEF DockerCompose
<1>3. Covers(ModalImage)
  BY DEF ModalImage
<1>4. Covers(ModalCompose)
  BY DEF ModalCompose
<1>5. Covers(Daytona)
  BY DEF Daytona
<1>6. Covers(HUDTunnel)
  BY DEF HUDTunnel
<1>7. Covers(Subprocess)
  BY DEF Subprocess
<1> HIDE DEF Covers, Brought, Undone, With, Step, Block, Ask
<1> QED
  BY <1>1, <1>2, <1>3, <1>4, <1>5, <1>6, <1>7 DEF Program

Maps(f) == f = [l \in Leases |-> f[l]]

\* What exists of an acquisition: nothing yet, what the calls behind it brought
\* up, or what the teardown calls ahead of it, with the ones made, account for.
Accounted(l) ==
  /\ phase[l] \in {"idle", "lock"} => world[l] = {}
  /\ phase[l] = "up" => at[l] \in 1..Len(P.up)
  /\ phase[l] = "body" => at[l] = Ready
  /\ phase[l] \in {"up", "body"} => \A x \in world[l] : Brought(P, at[l], x)
  /\ phase[l] = "down" =>
       /\ todo[l] = <<todo[l][1], todo[l][2]>>
       /\ todo[l][1] \in DOMAIN P.down /\ todo[l][2] \in DOMAIN P.down[todo[l][1]].undoes
       /\ \A x \in world[l] \ (asked[l] \cup unknown[l]) : Undone(P, todo[l][1], todo[l][2], x)
  /\ phase[l] = "left" => world[l] \subseteq asked[l] \cup unknown[l]

AccountInv ==
  /\ provider \in DOMAIN Program
  /\ Maps(world) /\ Maps(asked) /\ Maps(unknown) /\ Maps(todo)
  /\ \A l \in Leases : Accounted(l)

\* A teardown that begins covers what exists, but for what is unknown.
LEMMA UnwindCovers ==
  ASSUME LockInv, AccountInv, Numbered(P), Covers(P),
         NEW l \in Leases, phase[l] \in {"lock", "up", "body"}, Down(l),
         NEW done, P' = P, UNCHANGED <<at, asked>>,
         world' = [world EXCEPT ![l] = @ \cup done],
         unknown' = [unknown EXCEPT ![l] = @ \cup done]
  PROVE  Accounted(l)'
<1> DEFINE p == P
<1>1. PICK i \in 1..(Len(p.down) + 1) : Entered(l, i) /\ Unwind(l, <<i, 1>>)
  BY DEF Down
<1>2. at[l] \in 1..(Len(p.up) + 1)
  BY DEF LockInv, AccountInv, Accounted, Ready, Numbered
<1>3. \A x \in world[l] : Brought(p, at[l], x)
  BY DEF LockInv, AccountInv, Accounted
<1>4. \A x : Brought(p, at[l], x) => Undone(p, i, 1, x)
  BY <1>1, <1>2 DEF Covers, Entered
<1>5. /\ todo'[l] = <<i, 1>> /\ phase'[l] = (IF i > Len(p.down) THEN "left" ELSE "down")
      /\ world'[l] = world[l] \cup done /\ unknown'[l] = unknown[l] \cup done
      /\ asked'[l] = asked[l]
  BY <1>1 DEF Unwind, AccountInv, Maps, LockInv
<1> HIDE DEF p
<1>6. \A x \in world'[l] \ (asked'[l] \cup unknown'[l]) : Undone(p, i, 1, x)
  BY <1>3, <1>4, <1>5
<1>7. CASE i > Len(p.down)
  <2>1. \A x : ~Undone(p, i, 1, x)
    BY <1>7 DEF Undone, Numbered, p
  <2> QED
    BY <2>1, <1>5, <1>6, <1>7 DEF Accounted
<1>8. CASE i \in DOMAIN p.down
  <2>1. 1 \in DOMAIN p.down[i].undoes
    BY <1>8 DEF Numbered, p
  <2>2. phase'[l] = "down"
    BY <1>5, <1>8 DEF Numbered, p
  <2> QED
    BY <1>5, <1>6, <1>8, <2>1, <2>2 DEF Accounted, p
<1> QED
  BY <1>7, <1>8 DEF Numbered, p

\* A teardown call that is made, whatever comes of it, leaves the rest.
LEMMA TakeDownCovers ==
  ASSUME ~LateCuts, LockInv, AccountInv, Numbered(P), NEW l \in Leases, TakeDown(l), P' = P
  PROVE  Accounted(l)'
<1> DEFINE p == P
           block == todo[l][1]
           call == todo[l][2]
           next == IF call < Len(p.down[block].undoes) THEN <<block, call + 1>> ELSE <<block + 1, 1>>
<1>1. /\ phase[l] = "down" /\ block \in DOMAIN p.down /\ call \in DOMAIN p.down[block].undoes
      /\ \A x \in world[l] \ (asked[l] \cup unknown[l]) : Undone(p, block, call, x)
  BY DEF TakeDown, AccountInv, Accounted
<1>2. /\ asked'[l] = asked[l] \cup With(p.down[block].undoes[call]) /\ unknown' = unknown
      /\ world'[l] \subseteq world[l] /\ todo'[l] = next
      /\ phase'[l] = (IF next[1] > Len(p.down) THEN "left" ELSE "down")
  BY DEF TakeDown, Unwind, AccountInv, Maps, LockInv
<1>3. \A x : Undone(p, block, call, x)
            => x \in With(p.down[block].undoes[call]) \/ Undone(p, next[1], next[2], x)
  <2> SUFFICES ASSUME NEW x, Undone(p, block, call, x), x \notin With(p.down[block].undoes[call])
               PROVE  Undone(p, next[1], next[2], x)
    OBVIOUS
  <2>0. PICK i \in DOMAIN p.down : \E j \in DOMAIN p.down[i].undoes :
          (i > block \/ (i = block /\ j >= call)) /\ x \in With(p.down[i].undoes[j])
    BY DEF Undone
  <2>2. PICK j \in DOMAIN p.down[i].undoes :
          (i > block \/ (i = block /\ j >= call)) /\ x \in With(p.down[i].undoes[j])
    BY <2>0
  <2>3. ~(i = block /\ j = call)
    BY <2>2
  <2>1. i > next[1] \/ (i = next[1] /\ j >= next[2])
    <3>1. /\ i \in Nat /\ block \in Nat /\ j \in Nat /\ call \in Nat
          /\ i = block => j <= Len(p.down[block].undoes)
          /\ Len(p.down[block].undoes) \in Nat /\ j >= 1
      <4>1. Numbered(p)
        OBVIOUS
      <4> HIDE DEF p, block, call, next
      <4> QED
        BY <1>1, <4>1, <2>0, <2>2 DEF Numbered
    <3> HIDE DEF p, block, call
    <3>2. CASE call < Len(p.down[block].undoes)
      BY <3>1, <3>2, <2>2, <2>3
    <3>3. CASE ~(call < Len(p.down[block].undoes))
      BY <3>1, <3>3, <2>2, <2>3
    <3> QED
      BY <3>2, <3>3
  <2> QED
    BY <2>1, <2>2 DEF Undone
<1>4. \A x \in world'[l] \ (asked'[l] \cup unknown'[l]) : Undone(p, next[1], next[2], x)
  BY <1>1, <1>2, <1>3
<1>5. next = <<next[1], next[2]>> /\ next[1] \in 1..(Len(p.down) + 1)
  BY <1>1 DEF Numbered
<1>6. CASE next[1] > Len(p.down)
  <2>1. \A x : ~Undone(p, next[1], next[2], x)
    BY <1>1, <1>6 DEF Undone, Numbered
  <2> QED
    BY <2>1, <1>2, <1>4, <1>6 DEF Accounted
<1>7. CASE next[1] \in DOMAIN p.down
  <2>1. next[2] \in DOMAIN p.down[next[1]].undoes
    BY <1>1, <1>7 DEF Numbered
  <2>2. phase'[l] = "down"
    BY <1>2, <1>7 DEF Numbered
  <2> QED
    BY <1>2, <1>4, <1>5, <1>7, <2>1, <2>2 DEF Accounted
<1> QED
  BY <1>5, <1>6, <1>7 DEF Numbered

\* Every step leaves every acquisition accounted for, where a cancellation does
\* not meet the teardown.
LEMMA AccountStep ==
  ASSUME ~LateCuts, LockInv, AccountInv, [NextSubstrate]_vars
  PROVE  AccountInv'
<1>1. CASE UNCHANGED vars
  BY <1>1 DEF vars, AccountInv, Accounted, Maps, P, Ready
<1>2. ASSUME NEW l \in Leases, Begin(l) \/ Proceed(l) \/ GiveUp(l) \/ Leave(l) \/ Expire(l)
      PROVE  AccountInv'
  <2>1. provider' = provider /\ provider \in DOMAIN Program
    BY <1>2 DEF Begin, Proceed, Prepare, Returns, Raises, TakeDown, GiveUp, Leave, Expire, AccountInv
  <2>2. P' = P /\ Numbered(P) /\ Covers(P)
    BY <2>1, NumberedAll, CoversAll DEF P
  <2>3. Maps(world)' /\ Maps(asked)' /\ Maps(unknown)' /\ Maps(todo)'
    BY <1>2 DEF Begin, Proceed, Prepare, Returns, Raises, TakeDown, Down, Unwind, GiveUp, Leave,
                Expire, AccountInv, Maps
  <2>4. ASSUME NEW k \in Leases, k # l PROVE Accounted(k)'
    <3>1. /\ at'[k] = at[k] /\ phase'[k] = phase[k] /\ todo'[k] = todo[k]
          /\ world'[k] = world[k] /\ asked'[k] = asked[k] /\ unknown'[k] = unknown[k]
      BY <1>2, <2>4 DEF Begin, Proceed, Prepare, Returns, Raises, TakeDown, Down, Unwind, GiveUp,
                        Leave, Expire, AccountInv, Maps, LockInv
    <3> QED
      BY <2>2, <3>1 DEF AccountInv, Accounted, Ready
  <2>5. Accounted(l)'
    <3>1. CASE Begin(l)
      BY <2>2, <3>1 DEF Begin, AccountInv, Accounted, LockInv, Maps, Numbered
    <3>2. CASE Prepare(l)
      BY <2>2, <3>2 DEF Prepare, AccountInv, Accounted, LockInv, Maps, Numbered
    <3>3. CASE Returns(l)
      BY <2>2, <3>3 DEF Returns, AccountInv, Accounted, LockInv, Maps, Numbered, Ready, Brought
    <3>4. CASE Raises(l)
      <4>1. PICK done : /\ world' = [world EXCEPT ![l] = @ \cup done]
                        /\ unknown' = [unknown EXCEPT ![l] = @ \cup done]
        BY <3>4 DEF Raises
      <4> QED
        BY <2>2, <3>4, <4>1, UnwindCovers DEF Raises
    <3>5. CASE TakeDown(l)
      BY <2>2, <3>5, TakeDownCovers
    <3>6. CASE GiveUp(l) \/ Leave(l)
      <4>1. /\ phase[l] \in {"lock", "up", "body"} /\ Down(l) /\ UNCHANGED <<at, asked>>
            /\ world' = world /\ unknown' = unknown
        BY <3>6 DEF GiveUp, Leave
      <4>2. /\ world' = [world EXCEPT ![l] = @ \cup {}]
            /\ unknown' = [unknown EXCEPT ![l] = @ \cup {}]
        BY <4>1 DEF AccountInv, Maps
      <4> QED
        BY <2>2, <4>1, <4>2, UnwindCovers
    <3>7. CASE Expire(l)
      BY <2>2, <3>7 DEF Expire, AccountInv, Accounted, LockInv, Maps, Ready
    <3> QED
      BY <1>2, <3>1, <3>2, <3>3, <3>4, <3>5, <3>6, <3>7 DEF Proceed
  <2> QED
    BY <2>1, <2>3, <2>4, <2>5 DEF AccountInv
<1> QED
  BY <1>1, <1>2 DEF NextSubstrate

\* A provider that has been left has asked for the end of all that it brought
\* up, but for what a call made whose answer never came (docker.py:299); where
\* a second cancellation meets a finally block, the rest of the block is lost.
THEOREM NoneForgottenAlways == ASSUME ~LateCuts PROVE Spec => []NoneForgotten
<1>1. Init => LockInv
  BY SubstratesAssumption DEF Init, LockInv, PreparedOnce
<1>2. Init => AccountInv
  BY SubstratesAssumption DEF Init, AccountInv, Accounted, Maps
<1>3. AccountInv => NoneForgotten
  BY DEF AccountInv, Accounted, NoneForgotten
<1>4. ~LateCuts /\ LockInv /\ AccountInv /\ [NextSubstrate]_vars => AccountInv'
  BY AccountStep
<1> QED
  BY <1>1, <1>2, <1>3, <1>4, LockStep, PTL DEF Spec
-----------------------------------------------------------------------------
(* The commands that keep a directory and the platform in step                *)

Names == Teams \cup {NoId}
RowSet == [Slugs -> Rows \cup {NoRow}]
Links == [scope : Names, registry : Names, taskset : Names, project : Names]
SomeCommand == CHOOSE k \in Commands : TRUE
CliStates == {"idle", "load", "place", "resolve", "fetch", "put", "trigger", "poll", "upload",
              "update", "replace", "ended"}
Clients == [pc : CliStates, cmd : Commands \cup {SomeCommand}, team : Names, seen : Links, mine : RowSet,
            id : Names, writable : BOOLEAN, fresh : BOOLEAN, sent : SUBSET Slugs, lost : BOOLEAN,
            draft : Links,
            result : {NoId, "failed", "refused", "dry", "current", "synced", "deployed", "linked"}]
Tasksets == [exists : BOOLEAN, rows : RowSet]

SyncType ==
  /\ link \in Links /\ source \in [Slugs -> Rows] /\ registry \in SUBSET Teams
  /\ builds \in [CliRuns -> {"none", "IN_PROGRESS", "SUCCEEDED", "FAILED"}]
  /\ taskset \in [Teams -> Tasksets]
  /\ cli \in [CliRuns -> Clients]
  /\ \A c \in CliRuns : ~At(c, "idle") => cli[c].team \in Teams /\ cli[c].cmd \in Commands

\* The ids of a link are those of the team it is scoped to.
Owned(l) == {l.registry, l.taskset, l.project} \subseteq {NoId, l.scope}

\* The taskset has the content that r read, for these slugs.
Agrees(r, slugs, rows) == \A s \in slugs : r.mine[s] # NoRow => ~Differs(r.mine[s], rows[s])

\* With SyncHonest for one command, r being where it is, built what became of
\* its build, known whether its environment is registered and rows what its
\* taskset holds: what a compared command has not
\* sent is there already; no build without a registration; a draft is owned.
CommandInv(r, built, known, rows) ==
  /\ r.pc \in {"idle", "load"} => ~r.fresh
  /\ r.pc \in {"idle", "load", "place", "resolve", "fetch", "upload"} => r.result = NoId
  /\ r.fresh /\ r.pc = "upload" => Agrees(r, Slugs \ r.sent, rows)
  /\ r.fresh /\ r.result \in {"synced", "current"} => Agrees(r, Slugs, rows)
  /\ r.pc = "idle" => built = "none"
  /\ built # "none" => known
  /\ r.result = "deployed" => r.pc = "ended" /\ built = "SUCCEEDED"
  /\ r.pc = "replace" => Owned(r.draft)

SyncInv ==
  /\ SyncType /\ LinkOwned
  /\ \A c \in CliRuns : CommandInv(cli[c], builds[c], cli[c].team \in registry, taskset[cli[c].team].rows)

\* A command moves on by itself: the invariant holds if it holds of where the
\* command is now and the link is still owned.
LEMMA CommandMoves ==
  ASSUME SyncInv, NEW c \in CliRuns, NEW r \in Clients, Becomes(c, r),
         r.pc # "idle", r.team \in Teams, r.cmd \in Commands,
         UNCHANGED <<source, platform>>, link' \in Links, Owned(link'),
         CommandInv(r, builds[c], r.team \in registry, taskset[r.team].rows)
  PROVE SyncInv'
<1>1. /\ cli' \in [CliRuns -> Clients] /\ cli'[c] = r
      /\ \A d \in CliRuns \ {c} : cli'[d] = cli[d]
  BY DEF Becomes, SyncInv, SyncType
<1>2. registry' = registry /\ builds' = builds /\ taskset' = taskset /\ source' = source
  BY DEF platform
<1>3. SyncType'
  BY <1>1, <1>2 DEF SyncInv, SyncType, At
<1>4. LinkOwned'
  BY DEF Owned, LinkOwned
<1>5. ASSUME NEW d \in CliRuns
      PROVE CommandInv(cli[d], builds[d], cli[d].team \in registry, taskset[cli[d].team].rows)'
  <2>1. CASE d = c
    BY <1>1, <1>2, <2>1 DEF CommandInv, Agrees, Owned, Differs
  <2>2. CASE d # c
    BY <1>1, <1>2, <2>2 DEF SyncInv, CommandInv, Agrees, Owned, Differs
  <2> QED
    BY <2>1, <2>2
<1> QED
  BY <1>3, <1>4, <1>5 DEF SyncInv

\* A command that ends without having deployed or compared claims nothing.
LEMMA CommandStops ==
  ASSUME NEW x \in Clients, NEW built, NEW known, NEW rows, CommandInv(x, built, known, rows),
         x.pc # "idle", NEW result \in {"failed", "refused", "dry", "linked"}
  PROVE /\ Ended(x, result) \in Clients /\ Ended(x, result).pc = "ended"
        /\ Ended(x, result).team = x.team /\ Ended(x, result).cmd = x.cmd
        /\ CommandInv(Ended(x, result), built, known, rows)
BY DEF Ended, CommandInv, Clients, CliStates, Agrees

\* A command is issued, and may fail at any call.
LEMMA IssueKeeps == ASSUME SyncInv, NEW c \in CliRuns, Issue(c) \/ Fails(c) PROVE SyncInv'
<1>1. CASE Issue(c)
  <2>1. PICK k \in Commands, t \in Teams : Becomes(c, [Idle EXCEPT !.pc = "load", !.cmd = k, !.team = t])
    BY <1>1 DEF Issue
  <2> DEFINE r == [Idle EXCEPT !.pc = "load", !.cmd = k, !.team = t]
  <2>2. r \in Clients /\ r.pc = "load" /\ r.team = t /\ r.cmd = k /\ ~r.fresh /\ r.result = NoId
    BY DEF Idle, Clients, CliStates, Links, NoLink, Names, RowSet, Empty, NoId
  <2>3. builds[c] = "none"
    BY <1>1 DEF Issue, At, SyncInv, CommandInv
  <2>4. CommandInv(r, builds[c], r.team \in registry, taskset[r.team].rows)
    BY <2>2, <2>3 DEF CommandInv, NoId
  <2> HIDE DEF r
  <2> QED
    BY <2>1, <2>2, <2>4, <1>1, CommandMoves DEF Issue, SyncInv, SyncType, LinkOwned, Owned, r
<1>2. CASE Fails(c)
  <2>1. cli[c] \in Clients /\ cli[c].pc # "idle" /\ cli[c].team \in Teams /\ cli[c].cmd \in Commands
    BY <1>2 DEF Fails, Calling, SyncInv, SyncType, At
  <2>2. CommandInv(cli[c], builds[c], cli[c].team \in registry, taskset[cli[c].team].rows)
    BY DEF SyncInv
  <2> DEFINE r == Ended(cli[c], "failed")
  <2>3. /\ r \in Clients /\ r.pc = "ended" /\ r.team = cli[c].team /\ r.cmd = cli[c].cmd
        /\ CommandInv(r, builds[c], r.team \in registry, taskset[r.team].rows)
    BY <2>1, <2>2, CommandStops
  <2> HIDE DEF r
  <2> QED
    BY <2>1, <2>3, <1>2, CommandMoves DEF Fails, Finishes, SyncInv, SyncType, LinkOwned, Owned, r
<1> QED
  BY <1>1, <1>2

\* What every step of a command knows of it, once it was issued.
LEMMA CommandKnown ==
  ASSUME SyncInv, NEW c \in CliRuns, cli[c].pc # "idle"
  PROVE /\ cli[c] \in Clients /\ cli[c].team \in Teams /\ cli[c].cmd \in Commands
        /\ Kind(c) \in {"deploy", "tasks", "env", "project"}
        /\ CommandInv(cli[c], builds[c], cli[c].team \in registry, taskset[cli[c].team].rows)
        /\ taskset[cli[c].team] \in Tasksets
        /\ link \in Links /\ Owned(link)
BY SyncAssumption DEF SyncInv, SyncType, At, Kind, LinkOwned, Owned

\* The link is read, the project chosen, an upload begun, a build asked after,
\* a taskset looked up.
LEMMA LoadKeeps == ASSUME SyncInv, NEW c \in CliRuns, Load(c) PROVE SyncInv'
<1> DEFINE r == [cli[c] EXCEPT !.seen = link, !.mine = source]
           k == cli[c].cmd
<1>1. cli[c].pc = "load" /\ UNCHANGED <<source, platform>> /\ link' \in Links /\ Owned(link')
  BY CommandKnown DEF Load, At
<1>2. /\ r \in Clients /\ r.pc = "load" /\ r.team = cli[c].team /\ r.cmd = k /\ r.team \in Teams /\ k \in Commands
      /\ CommandInv(r, builds[c], r.team \in registry, taskset[r.team].rows)
  BY <1>1, CommandKnown DEF CommandInv, Clients, RowSet, SyncInv, SyncType
<1>3. r.fresh = FALSE /\ r.result # "deployed"
  BY <1>1, <1>2 DEF CommandInv, Clients
<1>4. ASSUME NEW p \in {"update", "place"}
      PROVE LET x == [r EXCEPT !.pc = p] IN
            /\ x \in Clients /\ x.pc = p /\ x.team = r.team /\ x.cmd = r.cmd
            /\ CommandInv(x, builds[c], x.team \in registry, taskset[x.team].rows)
  BY <1>2, <1>3 DEF CommandInv, Clients, CliStates
<1>5. \/ \E result \in {"refused", "dry"} : Becomes(c, Ended(r, result))
      \/ \E p \in {"update", "place"} : Becomes(c, [r EXCEPT !.pc = p])
  BY DEF Load
<1> HIDE DEF r, k
<1>6. CASE \E result \in {"refused", "dry"} : Becomes(c, Ended(r, result))
  <2>1. PICK result \in {"refused", "dry"} : Becomes(c, Ended(r, result))
    BY <1>6
  <2>2. /\ Ended(r, result) \in Clients /\ Ended(r, result).pc = "ended"
        /\ Ended(r, result).team = r.team /\ Ended(r, result).cmd = r.cmd
        /\ CommandInv(Ended(r, result), builds[c], r.team \in registry, taskset[r.team].rows)
    BY <1>2, CommandStops
  <2> QED
    BY <1>1, <1>2, <2>1, <2>2, CommandMoves
<1>7. CASE \E p \in {"update", "place"} : Becomes(c, [r EXCEPT !.pc = p])
  BY <1>1, <1>2, <1>4, <1>7, CommandMoves
<1> QED
  BY <1>5, <1>6, <1>7

\* A command may write to its project and goes on, is refused, or ends dry.
LEMMA PlaceKeeps == ASSUME SyncInv, NEW c \in CliRuns, Place(c) PROVE SyncInv'
<1> DEFINE known == cli[c].team \in registry
           rows == taskset[cli[c].team].rows
<1>1. cli[c].pc = "place" /\ UNCHANGED <<source, platform>> /\ link' \in Links /\ Owned(link')
  BY CommandKnown DEF Place, At
<1>2. PICK writable \in BOOLEAN :
        LET r == [cli[c] EXCEPT !.writable = writable] IN
          Becomes(c, CASE Kind(c) = "tasks" -> [r EXCEPT !.pc = "resolve"]
                       [] Kind(c) # "tasks" /\ ~writable -> Ended(r, "refused")
                       [] Kind(c) # "tasks" /\ writable /\ cli[c].cmd.dry -> Ended(r, "dry")
                       [] OTHER -> [r EXCEPT !.pc = IF Kind(c) = "deploy" THEN "put" ELSE "update"])
  BY DEF Place
<1> DEFINE r == [cli[c] EXCEPT !.writable = writable]
<1>3. /\ r \in Clients /\ r.pc = "place" /\ r.team = cli[c].team /\ r.cmd = cli[c].cmd
      /\ r.team \in Teams /\ r.cmd \in Commands /\ CommandInv(r, builds[c], known, rows)
  BY <1>1, CommandKnown DEF CommandInv, Clients, Agrees
<1>4. r.result # "deployed"
  BY <1>3 DEF CommandInv
<1>5. ASSUME NEW p \in {"resolve", "put", "update"}
      PROVE LET x == [r EXCEPT !.pc = p] IN
            /\ x \in Clients /\ x.pc = p /\ x.team = r.team /\ x.cmd = r.cmd
            /\ CommandInv(x, builds[c], known, rows)
  BY <1>3, <1>4 DEF CommandInv, Clients, CliStates, Agrees
<1>6. \/ \E result \in {"refused", "dry"} : Becomes(c, Ended(r, result))
      \/ \E p \in {"resolve", "put", "update"} : Becomes(c, [r EXCEPT !.pc = p])
  BY <1>2
<1> HIDE DEF r
<1>7. ASSUME NEW result \in {"refused", "dry"}, Becomes(c, Ended(r, result)) PROVE SyncInv'
  <2>1. /\ Ended(r, result) \in Clients /\ Ended(r, result).pc = "ended"
        /\ Ended(r, result).team = r.team /\ Ended(r, result).cmd = r.cmd
        /\ CommandInv(Ended(r, result), builds[c], known, rows)
    BY <1>3, CommandStops
  <2> QED
    BY <1>1, <1>3, <1>7, <2>1, CommandMoves
<1>8. CASE \E p \in {"resolve", "put", "update"} : Becomes(c, [r EXCEPT !.pc = p])
  BY <1>1, <1>3, <1>5, <1>8, CommandMoves
<1> QED
  BY <1>6, <1>7, <1>8

\* A command takes an answer of the platform and changes nothing there.
LEMMA AsksKeep == ASSUME SyncInv, NEW c \in CliRuns, Put(c) \/ Resolve(c) \/ Poll(c) PROVE SyncInv'
<1>1. /\ cli[c].pc \in {"put", "resolve", "poll"}
      /\ UNCHANGED <<source, platform>> /\ link' = link
  BY DEF Put, Resolve, Poll, At
<1>2. link' \in Links /\ Owned(link')
  BY <1>1, CommandKnown
<1>3. PICK r \in Clients :
        /\ Becomes(c, r) /\ r.pc # "idle" /\ r.team = cli[c].team /\ r.cmd = cli[c].cmd
        /\ CommandInv(r, builds[c], r.team \in registry, taskset[r.team].rows)
  <2>1. CASE Put(c)
    <3> DEFINE r == [cli[c] EXCEPT !.pc = "trigger"]
    <3>1. /\ r \in Clients /\ r.pc = "trigger" /\ r.team = cli[c].team /\ r.cmd = cli[c].cmd
          /\ CommandInv(r, builds[c], r.team \in registry, taskset[r.team].rows)
      BY <1>1, <2>1, CommandKnown DEF Put, At, CommandInv, Clients, CliStates, Agrees
    <3> QED
      BY <3>1, <2>1 DEF Put
  <2>2. CASE Resolve(c)
    <3>1. PICK n \in Names : Becomes(c, [cli[c] EXCEPT !.pc = "fetch", !.id = n])
      BY <1>1, <2>2, CommandKnown DEF Resolve, Clients, Links, Names
    <3> DEFINE r == [cli[c] EXCEPT !.pc = "fetch", !.id = n]
    <3>2. /\ r \in Clients /\ r.pc = "fetch" /\ r.team = cli[c].team /\ r.cmd = cli[c].cmd
          /\ CommandInv(r, builds[c], r.team \in registry, taskset[r.team].rows)
      BY <1>1, <2>2, CommandKnown DEF Resolve, At, CommandInv, Clients, CliStates, Agrees
    <3> QED
      BY <3>1, <3>2
  <2>3. CASE Poll(c)
    <3> DEFINE r == Ended(cli[c], Polled(c))
    <3>1. /\ r \in Clients /\ r.pc = "ended" /\ r.team = cli[c].team /\ r.cmd = cli[c].cmd
          /\ CommandInv(r, builds[c], r.team \in registry, taskset[r.team].rows)
      BY <1>1, <2>3, CommandKnown
         DEF Poll, Polled, Ended, At, CommandInv, Clients, CliStates, Agrees
    <3> QED
      BY <3>1, <2>3 DEF Poll, Finishes
  <2> QED
    BY <2>1, <2>2, <2>3
<1> QED
  BY <1>1, <1>2, <1>3, CommandKnown, CommandMoves

\* The plan of a sync: what it leaves out is on the platform as it was read.
LEMMA FetchKeeps == ASSUME SyncInv, NEW c \in CliRuns, Fetch(c) PROVE SyncInv'
<1> DEFINE t == cli[c].team
           k == cli[c].cmd
           gone == cli[c].id # NoId /\ ~taskset[t].exists
           theirs == IF k.force \/ cli[c].id = NoId \/ gone THEN Empty ELSE taskset[t].rows
           sent == ToApply(cli[c].mine, theirs)
           r == [cli[c] EXCEPT !.fresh = TRUE, !.sent = sent]
<1>1. cli[c].pc = "fetch" /\ UNCHANGED <<source, platform>> /\ link' \in Links /\ Owned(link')
  BY CommandKnown DEF Fetch, At
<1>2. /\ cli[c] \in Clients /\ t \in Teams /\ k \in Commands /\ taskset[t].rows \in RowSet
      /\ CommandInv(cli[c], builds[c], t \in registry, taskset[t].rows) /\ cli[c].result # "deployed"
  BY <1>1, CommandKnown DEF CommandInv, Tasksets
<1>3. Agrees(cli[c], Slugs \ sent, taskset[t].rows) /\ sent \in SUBSET Slugs
  BY <1>2, SyncAssumption DEF Agrees, ToApply, Differs, Empty, Clients, RowSet, NoRow
<1>4. Becomes(c, Ended(cli[c], "failed")) => SyncInv'
  BY <1>1, <1>2, CommandStops, CommandMoves
<1>5. /\ r \in Clients /\ r.pc = "fetch" /\ r.team = t /\ r.cmd = k
      /\ r.sent = sent /\ r.mine = cli[c].mine /\ r.result = cli[c].result
  BY <1>1, <1>2, <1>3 DEF Clients
<1>6. \/ Becomes(c, Ended(cli[c], "failed"))
      \/ sent = {} /\ Becomes(c, [r EXCEPT !.pc = "update", !.result = "current"])
      \/ sent = {} /\ Becomes(c, Ended(r, "current"))
      \/ \E result \in {"failed", "dry", "refused"} : Becomes(c, Ended(r, result))
      \/ Becomes(c, [r EXCEPT !.pc = "upload"])
  BY DEF Fetch, Finishes
<1> HIDE DEF sent, r, theirs, gone
<1>7. ASSUME sent = {}, NEW p \in {"update", "ended"}, Becomes(c, [r EXCEPT !.pc = p, !.result = "current"])
      PROVE SyncInv'
  <2> DEFINE x == [r EXCEPT !.pc = p, !.result = "current"]
  <2>1. /\ x \in Clients /\ x.pc = p /\ x.team = t /\ x.cmd = k /\ x.mine = cli[c].mine
        /\ x.result = "current"
    BY <1>5 DEF Clients, CliStates
  <2>2. Agrees(x, Slugs, taskset[t].rows)
    BY <1>3, <1>7, <2>1 DEF Agrees
  <2>3. CommandInv(x, builds[c], t \in registry, taskset[t].rows)
    BY <1>1, <1>2, <2>1, <2>2 DEF CommandInv
  <2> HIDE DEF x
  <2> QED
    BY <1>1, <1>2, <1>7, <2>1, <2>3, CommandMoves DEF x
<1>8. ASSUME NEW result \in {"failed", "dry", "refused"}, Becomes(c, Ended(r, result)) PROVE SyncInv'
  <2> DEFINE x == Ended(r, result)
  <2>1. x \in Clients /\ x.pc = "ended" /\ x.team = t /\ x.cmd = k /\ x.result = result
    BY <1>5 DEF Clients, CliStates, Ended
  <2>2. CommandInv(x, builds[c], t \in registry, taskset[t].rows)
    BY <1>1, <1>2, <2>1 DEF CommandInv
  <2> HIDE DEF x
  <2> QED
    BY <1>1, <1>2, <1>8, <2>1, <2>2, CommandMoves DEF x
<1>9. ASSUME Becomes(c, [r EXCEPT !.pc = "upload"]) PROVE SyncInv'
  <2> DEFINE x == [r EXCEPT !.pc = "upload"]
  <2>1. /\ x \in Clients /\ x.pc = "upload" /\ x.team = t /\ x.cmd = k /\ x.mine = cli[c].mine
        /\ x.sent = sent /\ x.result = cli[c].result
    BY <1>5 DEF Clients, CliStates
  <2>2. Agrees(x, Slugs \ x.sent, taskset[t].rows)
    BY <1>3, <2>1 DEF Agrees
  <2>3. x.result \notin {"synced", "current"}
    BY <1>1, <1>2, <2>1 DEF CommandInv, NoId
  <2>4. CommandInv(x, builds[c], t \in registry, taskset[t].rows)
    BY <1>1, <1>2, <2>1, <2>2, <2>3 DEF CommandInv
  <2> HIDE DEF x
  <2> QED
    BY <1>1, <1>2, <1>9, <2>1, <2>4, CommandMoves DEF x
<1> QED
  BY <1>4, <1>6, <1>7, <1>8, <1>9 DEF Ended

\* A build is triggered, perhaps twice, and ends.
LEMMA TriggerKeeps == ASSUME SyncInv, NEW c \in CliRuns, Trigger(c) PROVE SyncInv'
<1>1. /\ cli[c].pc = "trigger" /\ registry' = registry \cup {cli[c].team}
      /\ builds' = [builds EXCEPT ![c] = "IN_PROGRESS"] /\ UNCHANGED <<link, source, taskset>>
  BY DEF Trigger, At
<1>2. /\ cli[c] \in Clients /\ cli[c].team \in Teams /\ cli[c].cmd \in Commands
      /\ CommandInv(cli[c], builds[c], cli[c].team \in registry, taskset[cli[c].team].rows)
  BY <1>1, CommandKnown
<1>3. PICK r \in Clients :
        /\ Becomes(c, r) /\ r.pc \in {"poll", "update", "trigger"} /\ r.team = cli[c].team
        /\ r.cmd = cli[c].cmd /\ r.fresh = cli[c].fresh /\ r.result = cli[c].result /\ r.mine = cli[c].mine
  <2>1. \/ \E p \in {"poll", "update"} : Becomes(c, [cli[c] EXCEPT !.pc = p])
        \/ Becomes(c, [cli[c] EXCEPT !.lost = TRUE])
    BY DEF Trigger
  <2>2. ASSUME NEW p \in {"poll", "update"}
        PROVE LET r == [cli[c] EXCEPT !.pc = p] IN
              /\ r \in Clients /\ r.pc = p /\ r.team = cli[c].team /\ r.cmd = cli[c].cmd
              /\ r.fresh = cli[c].fresh /\ r.result = cli[c].result /\ r.mine = cli[c].mine
    BY <1>2 DEF Clients, CliStates
  <2>3. LET r == [cli[c] EXCEPT !.lost = TRUE] IN
          /\ r \in Clients /\ r.pc = "trigger" /\ r.team = cli[c].team /\ r.cmd = cli[c].cmd
          /\ r.fresh = cli[c].fresh /\ r.result = cli[c].result /\ r.mine = cli[c].mine
    BY <1>1, <1>2 DEF Clients
  <2> QED
    BY <2>1, <2>2, <2>3
<1>4. /\ cli' \in [CliRuns -> Clients] /\ cli'[c] = r
      /\ \A d \in CliRuns \ {c} : cli'[d] = cli[d]
  BY <1>3 DEF Becomes, SyncInv, SyncType
<1>5. SyncType'
  BY <1>1, <1>2, <1>3, <1>4 DEF SyncInv, SyncType, At
<1>6. LinkOwned'
  BY <1>1 DEF SyncInv, LinkOwned
<1>7. ASSUME NEW d \in CliRuns
      PROVE CommandInv(cli[d], builds[d], cli[d].team \in registry, taskset[cli[d].team].rows)'
  <2>1. CASE d = c
    <3>1. builds'[d] = "IN_PROGRESS" /\ cli'[d].team \in registry' /\ cli'[d] = r
      BY <1>1, <1>3, <1>4, <2>1 DEF SyncInv, SyncType
    <3> QED
      BY <1>1, <1>2, <1>3, <2>1, <3>1 DEF CommandInv, Agrees, Differs
  <2>2. CASE d # c
    <3>1. builds'[d] = builds[d] /\ (cli[d].team \in registry => cli'[d].team \in registry') /\ cli'[d] = cli[d]
      BY <1>1, <1>4, <2>2 DEF SyncInv, SyncType
    <3> QED
      BY <1>1, <2>2, <3>1 DEF SyncInv, CommandInv, Agrees, Differs, Owned
  <2> QED
    BY <2>1, <2>2
<1> QED
  BY <1>5, <1>6, <1>7 DEF SyncInv

\* The platform's build ends, which only the command that polls for it sees.
LEMMA BuildEndsKeeps == ASSUME SyncInv, NEW c \in CliRuns, BuildEnds(c) PROVE SyncInv'
<1>1. PICK status \in {"SUCCEEDED", "FAILED"} : builds' = [builds EXCEPT ![c] = status]
  BY DEF BuildEnds
<1>2. builds[c] = "IN_PROGRESS" /\ UNCHANGED <<link, source, registry, taskset, cli>>
  BY DEF BuildEnds
<1>3. SyncType' /\ LinkOwned'
  BY <1>1, <1>2 DEF SyncInv, SyncType, At, LinkOwned
<1>4. ASSUME NEW d \in CliRuns
      PROVE CommandInv(cli[d], builds[d], cli[d].team \in registry, taskset[cli[d].team].rows)'
  <2>1. builds'[d] = IF d = c THEN status ELSE builds[d]
    BY <1>1 DEF SyncInv, SyncType
  <2> QED
    BY <1>2, <2>1 DEF SyncInv, CommandInv, Agrees, Differs, Owned
<1> QED
  BY <1>3, <1>4 DEF SyncInv

\* Rows are uploaded, perhaps twice: whoever compared with what was there before
\* has nothing to say of it any more.
LEMMA UploadKeeps == ASSUME SyncInv, NEW c \in CliRuns, Upload(c) PROVE SyncInv'
<1> DEFINE t == cli[c].team
           new == [s \in Slugs |-> IF s \in cli[c].sent THEN cli[c].mine[s] ELSE taskset[t].rows[s]]
<1>1. cli[c].pc = "upload" /\ UNCHANGED <<link, source, registry, builds>>
  BY DEF Upload, At
<1>2. /\ cli[c] \in Clients /\ t \in Teams /\ cli[c].cmd \in Commands /\ taskset[t] \in Tasksets
      /\ CommandInv(cli[c], builds[c], t \in registry, taskset[t].rows)
  BY <1>1, CommandKnown
<1>3. new \in RowSet
  BY <1>2 DEF Clients, RowSet, Tasksets
<1>4. taskset' = [taskset EXCEPT ![t] = [exists |-> TRUE, rows |-> new]]
  BY DEF Upload
<1>5. /\ taskset' \in [Teams -> Tasksets] /\ taskset'[t].rows = new
      /\ \A u \in Teams \ {t} : taskset'[u] = taskset[u]
  <2> HIDE DEF new
  <2> QED
    BY <1>2, <1>3, <1>4 DEF Tasksets, SyncInv, SyncType
<1>6. cli[c].fresh => Agrees(cli[c], Slugs, new)
  BY <1>1, <1>2 DEF CommandInv, Agrees, Differs
<1>7. PICK r \in Clients :
        /\ cli' = [Stale(t, c) EXCEPT ![c] = r] /\ r.pc \in {"update", "ended", "upload"} /\ r.team = t
        /\ r.cmd = cli[c].cmd /\ r.fresh = cli[c].fresh /\ r.mine = cli[c].mine
        /\ IF r.pc = "upload" THEN r.result = cli[c].result ELSE r.result = "synced"
  <2>1. \/ \E p \in {"update", "ended"} : cli' = [Stale(t, c) EXCEPT ![c] = [cli[c] EXCEPT !.result = "synced", !.pc = p]]
        \/ cli' = [Stale(t, c) EXCEPT ![c].lost = TRUE]
    BY DEF Upload
  <2>2. Stale(t, c)[c] = cli[c]
    BY DEF Stale
  <2>3. ASSUME NEW p \in {"update", "ended"}
        PROVE LET r == [cli[c] EXCEPT !.result = "synced", !.pc = p] IN
              /\ r \in Clients /\ r.pc = p /\ r.team = t /\ r.cmd = cli[c].cmd
              /\ r.fresh = cli[c].fresh /\ r.result = "synced" /\ r.mine = cli[c].mine
    BY <1>2 DEF Clients, CliStates
  <2>4. LET r == [cli[c] EXCEPT !.lost = TRUE] IN
          /\ r \in Clients /\ r.pc = "upload" /\ r.team = t /\ r.cmd = cli[c].cmd
          /\ r.fresh = cli[c].fresh /\ r.result = cli[c].result /\ r.mine = cli[c].mine
    BY <1>1, <1>2 DEF Clients
  <2>5. CASE cli' = [Stale(t, c) EXCEPT ![c].lost = TRUE]
    <3>1. cli' = [Stale(t, c) EXCEPT ![c] = [cli[c] EXCEPT !.lost = TRUE]]
      BY <2>2, <2>5
    <3> QED
      BY <2>4, <3>1
  <2>6. CASE \E p \in {"update", "ended"} : cli' = [Stale(t, c) EXCEPT ![c] = [cli[c] EXCEPT !.result = "synced", !.pc = p]]
    <3>1. PICK p \in {"update", "ended"} : cli' = [Stale(t, c) EXCEPT ![c] = [cli[c] EXCEPT !.result = "synced", !.pc = p]]
      BY <2>6
    <3> DEFINE r == [cli[c] EXCEPT !.result = "synced", !.pc = p]
    <3>2. /\ r \in Clients /\ r.pc = p /\ r.team = t /\ r.cmd = cli[c].cmd
          /\ r.fresh = cli[c].fresh /\ r.result = "synced" /\ r.mine = cli[c].mine
      BY <2>3
    <3>3. cli' = [Stale(t, c) EXCEPT ![c] = r]
      BY <3>1
    <3> HIDE DEF r
    <3> QED
      BY <3>2, <3>3
  <2> QED
    BY <2>1, <2>5, <2>6
<1>8. /\ cli' \in [CliRuns -> Clients] /\ cli'[c] = r
      /\ \A d \in CliRuns \ {c} :
           cli'[d] = IF cli[d].team = t THEN [cli[d] EXCEPT !.fresh = FALSE] ELSE cli[d]
  <2>1. \A d \in CliRuns : [cli[d] EXCEPT !.fresh = FALSE] \in Clients
    BY DEF SyncInv, SyncType, Clients
  <2>2. /\ Stale(t, c) \in [CliRuns -> Clients]
        /\ \A d \in CliRuns \ {c} :
             Stale(t, c)[d] = IF cli[d].team = t THEN [cli[d] EXCEPT !.fresh = FALSE] ELSE cli[d]
    BY <2>1 DEF Stale, SyncInv, SyncType
  <2> QED
    BY <1>7, <2>2
<1>9. \A d \in CliRuns \ {c} :
        /\ cli'[d].pc = cli[d].pc /\ cli'[d].team = cli[d].team /\ cli'[d].cmd = cli[d].cmd
        /\ cli'[d].mine = cli[d].mine /\ cli'[d].sent = cli[d].sent /\ cli'[d].result = cli[d].result
        /\ cli'[d].draft = cli[d].draft
        /\ cli'[d].fresh => cli[d].fresh /\ cli[d].team # t
  BY <1>8 DEF SyncInv, SyncType, Clients
<1>10. SyncType'
  BY <1>1, <1>2, <1>5, <1>7, <1>8, <1>9 DEF SyncInv, SyncType, At
<1>11. LinkOwned'
  BY <1>1 DEF SyncInv, LinkOwned
<1>12. ASSUME NEW d \in CliRuns
       PROVE CommandInv(cli[d], builds[d], cli[d].team \in registry, taskset[cli[d].team].rows)'
  <2>1. CASE d = c
    <3>1. r.fresh => Agrees(r, Slugs, new)
      BY <1>6, <1>7 DEF Agrees
    <3>2. CommandInv(r, builds[c], t \in registry, new)
      BY <1>1, <1>2, <1>7, <3>1 DEF CommandInv, Agrees
    <3>3. /\ cli'[d] = r /\ builds'[d] = builds[c] /\ cli'[d].team = t
          /\ registry' = registry /\ taskset'[t].rows = new
      BY <1>1, <1>5, <1>7, <1>8, <2>1
    <3> QED
      BY <3>2, <3>3
  <2>2. CASE d # c
    <3>1. CommandInv(cli[d], builds[d], cli[d].team \in registry, taskset[cli[d].team].rows)
      BY DEF SyncInv
    <3>2. cli'[d].fresh => taskset'[cli'[d].team].rows = taskset[cli[d].team].rows
      <4>1. cli[d].fresh => cli[d].team \in Teams
        BY <3>1 DEF CommandInv, SyncInv, SyncType, At
      <4> QED
        BY <1>5, <1>9, <2>2, <4>1
    <3> QED
      BY <1>1, <1>9, <2>2, <3>1, <3>2 DEF CommandInv, Agrees, Differs, Owned
  <2> QED
    BY <2>1, <2>2
<1> QED
  BY <1>10, <1>11, <1>12 DEF SyncInv

\* A command whose link is up to date goes on or ends with what it has found.
LEMMA DoneKeeps ==
  ASSUME SyncInv, NEW c \in CliRuns, cli[c].pc \in {"update", "replace"}
  PROVE /\ Done(c) \in Clients /\ Done(c).pc \in {"poll", "ended"}
        /\ Done(c).team = cli[c].team /\ Done(c).cmd = cli[c].cmd
        /\ CommandInv(Done(c), builds[c], cli[c].team \in registry, taskset[cli[c].team].rows)
<1>1. cli[c] \in Clients /\ CommandInv(cli[c], builds[c], cli[c].team \in registry, taskset[cli[c].team].rows)
  BY CommandKnown
<1>2. CASE Done(c) = [cli[c] EXCEPT !.pc = "poll"]
  BY <1>1, <1>2 DEF CommandInv, Clients, CliStates, Agrees
<1>3. ASSUME NEW result \in {"linked", cli[c].result}, Done(c) = Ended(cli[c], result)
      PROVE /\ Done(c) \in Clients /\ Done(c).pc = "ended"
            /\ Done(c).team = cli[c].team /\ Done(c).cmd = cli[c].cmd
            /\ CommandInv(Done(c), builds[c], cli[c].team \in registry, taskset[cli[c].team].rows)
  BY <1>1, <1>3 DEF CommandInv, Clients, CliStates, Ended, Agrees
<1> QED
  BY <1>2, <1>3 DEF Done

\* The draft of a link is owned: whoever it belonged to, it is the team's now.
LEMMA UpdateKeeps == ASSUME SyncInv, NEW c \in CliRuns, Update(c) PROVE SyncInv'
<1> DEFINE draft == [Linked(c) EXCEPT !.scope = cli[c].team]
<1>1. cli[c].pc = "update" /\ UNCHANGED <<source, platform>> /\ link' \in Links /\ Owned(link')
  BY CommandKnown DEF Update, At
<1>2. /\ cli[c] \in Clients /\ cli[c].team \in Teams /\ cli[c].cmd \in Commands
      /\ Kind(c) \in {"deploy", "tasks", "env", "project"} /\ link \in Links /\ Owned(link)
      /\ CommandInv(cli[c], builds[c], cli[c].team \in registry, taskset[cli[c].team].rows)
  BY <1>1, CommandKnown
<1>3. CASE Becomes(c, Ended(cli[c], "failed"))
  BY <1>1, <1>2, <1>3, CommandStops, CommandMoves
<1>4. CASE Becomes(c, Done(c))
  BY <1>1, <1>2, <1>4, DoneKeeps, CommandMoves
<1>5. CASE Mine(cli[c].team) /\ Becomes(c, [cli[c] EXCEPT !.pc = "replace", !.draft = draft])
  <2>1. /\ Linked(c) \in Links /\ Linked(c).scope = link.scope
        /\ {Linked(c).registry, Linked(c).taskset, Linked(c).project} \subseteq {NoId, cli[c].team}
    BY <1>2, <1>5 DEF Linked, Links, Names, Mine, Owned
  <2>2. draft \in Links /\ Owned(draft)
    BY <1>2, <2>1 DEF Links, Names, Owned
  <2> HIDE DEF draft
  <2> DEFINE r == [cli[c] EXCEPT !.pc = "replace", !.draft = draft]
  <2>3. /\ r \in Clients /\ r.pc = "replace" /\ r.team = cli[c].team /\ r.cmd = cli[c].cmd /\ r.draft = draft
        /\ r.fresh = cli[c].fresh /\ r.result = cli[c].result /\ r.mine = cli[c].mine
    BY <1>2, <2>2 DEF Clients, CliStates
  <2> HIDE DEF r
  <2>4. CommandInv(r, builds[c], r.team \in registry, taskset[r.team].rows)
    BY <1>1, <1>2, <2>2, <2>3 DEF CommandInv, Agrees
  <2> QED
    BY <1>1, <1>2, <1>5, <2>3, <2>4, CommandMoves DEF r
<1> QED
  BY <1>3, <1>4, <1>5 DEF Update

\* The link of the directory is replaced by the draft a command wrote.
LEMMA ReplaceKeeps == ASSUME SyncInv, NEW c \in CliRuns, Replace(c) PROVE SyncInv'
<1>1. /\ cli[c].pc = "replace" /\ UNCHANGED <<source, platform>> /\ link' = cli[c].draft
      /\ Becomes(c, Done(c))
  BY DEF Replace, At
<1>2. /\ cli[c] \in Clients /\ cli[c].team \in Teams /\ cli[c].cmd \in Commands
      /\ CommandInv(cli[c], builds[c], cli[c].team \in registry, taskset[cli[c].team].rows)
  BY <1>1, CommandKnown
<1>3. link' \in Links /\ Owned(link')
  BY <1>1, <1>2 DEF CommandInv, Clients
<1> QED
  BY <1>1, <1>2, <1>3, DoneKeeps, CommandMoves

\* Somebody else changes the source, the file or a taskset.
LEMMA OtherKeeps == SyncInv /\ Other => SyncInv'
<1> SUFFICES ASSUME SyncInv, Other PROVE SyncInv'
  OBVIOUS
<1>1. CASE source' \in [Slugs -> Rows] /\ UNCHANGED <<link, platform, cli>>
  BY <1>1 DEF platform, SyncInv, SyncType, At, LinkOwned, CommandInv, Agrees, Differs, Owned
<1>2. CASE link' = NoLink /\ UNCHANGED <<source, platform, cli>>
  <2>1. link' \in Links /\ LinkOwned'
    BY <1>2 DEF NoLink, Links, Names, LinkOwned
  <2> QED
    BY <1>2, <2>1 DEF platform, SyncInv, SyncType, At, CommandInv, Agrees, Differs, Owned
<1>3. ASSUME NEW t \in Teams,
             \/ \E rows \in [Slugs -> Rows \cup {NoRow}] : taskset' = [taskset EXCEPT ![t].rows = rows]
             \/ taskset' = [taskset EXCEPT ![t] = [exists |-> FALSE, rows |-> Empty]],
             cli' = [c \in CliRuns |-> IF cli[c].team = t THEN [cli[c] EXCEPT !.fresh = FALSE] ELSE cli[c]],
             UNCHANGED <<link, source, registry, builds>>
      PROVE SyncInv'
  <2>1. taskset' \in [Teams -> Tasksets] /\ \A u \in Teams \ {t} : taskset'[u] = taskset[u]
    <3>1. PICK new \in Tasksets : taskset' = [taskset EXCEPT ![t] = new]
      <4>1. [exists |-> FALSE, rows |-> Empty] \in Tasksets
        BY DEF Tasksets, RowSet, Empty
      <4>2. ASSUME NEW rows \in RowSet PROVE [taskset[t] EXCEPT !.rows = rows] \in Tasksets
        BY DEF SyncInv, SyncType, Tasksets
      <4>3. ASSUME NEW rows, taskset' = [taskset EXCEPT ![t].rows = rows]
            PROVE taskset' = [taskset EXCEPT ![t] = [taskset[t] EXCEPT !.rows = rows]]
        BY <4>3
      <4> QED
        BY <1>3, <4>1, <4>2, <4>3 DEF RowSet
    <3> QED
      BY <3>1 DEF SyncInv, SyncType
  <2>2. /\ cli' \in [CliRuns -> Clients]
        /\ \A d \in CliRuns :
             /\ cli'[d].pc = cli[d].pc /\ cli'[d].team = cli[d].team /\ cli'[d].cmd = cli[d].cmd
             /\ cli'[d].mine = cli[d].mine /\ cli'[d].sent = cli[d].sent /\ cli'[d].result = cli[d].result
             /\ cli'[d].draft = cli[d].draft
             /\ cli'[d].fresh => cli[d].fresh /\ cli[d].team # t
    <3>1. \A d \in CliRuns :
            LET r == [cli[d] EXCEPT !.fresh = FALSE] IN
            /\ r \in Clients /\ ~r.fresh
            /\ r.pc = cli[d].pc /\ r.team = cli[d].team /\ r.cmd = cli[d].cmd
            /\ r.mine = cli[d].mine /\ r.sent = cli[d].sent /\ r.result = cli[d].result
            /\ r.draft = cli[d].draft
      BY DEF SyncInv, SyncType, Clients
    <3> QED
      BY <1>3, <3>1 DEF SyncInv, SyncType
  <2>3. SyncType' /\ LinkOwned'
    BY <1>3, <2>1, <2>2 DEF SyncInv, SyncType, At, LinkOwned
  <2>4. ASSUME NEW d \in CliRuns
        PROVE CommandInv(cli[d], builds[d], cli[d].team \in registry, taskset[cli[d].team].rows)'
    <3>1. CommandInv(cli[d], builds[d], cli[d].team \in registry, taskset[cli[d].team].rows)
      BY DEF SyncInv
    <3>2. cli'[d].fresh => taskset'[cli'[d].team].rows = taskset[cli[d].team].rows
      <4>1. cli[d].fresh => cli[d].team \in Teams
        BY <3>1 DEF CommandInv, SyncInv, SyncType, At
      <4> QED
        BY <2>1, <2>2, <4>1
    <3> QED
      BY <1>3, <2>2, <3>1, <3>2 DEF CommandInv, Agrees, Differs, Owned
  <2> QED
    BY <2>3, <2>4 DEF SyncInv
<1> QED
  BY <1>1, <1>2, <1>3 DEF Other

\* No step of a command, of the platform or of somebody else breaks it.
LEMMA SyncStep == SyncInv /\ [NextSync]_syncVars => SyncInv'
<1> SUFFICES ASSUME SyncInv, [NextSync]_syncVars PROVE SyncInv'
  OBVIOUS
<1>1. CASE UNCHANGED syncVars
  BY <1>1 DEF syncVars, platform, SyncInv, SyncType, At, LinkOwned, CommandInv, Agrees, Differs, Owned
<1>2. CASE NextSync
  BY <1>2, IssueKeeps, LoadKeeps, PlaceKeeps, AsksKeep, FetchKeeps, TriggerKeeps, BuildEndsKeeps,
     UploadKeeps, UpdateKeeps, ReplaceKeeps, OtherKeeps DEF NextSync
<1> QED
  BY <1>1, <1>2

\* Commands start with nothing claimed.
LEMMA SyncInit == InitSync => SyncInv
<1> SUFFICES ASSUME InitSync PROVE SyncInv
  OBVIOUS
<1>1. Idle \in Clients /\ Idle.pc = "idle" /\ ~Idle.fresh /\ Idle.result = NoId /\ NoLink \in Links
  BY DEF Idle, Clients, CliStates, Links, NoLink, Names, RowSet, Empty, NoId, SomeCommand
<1>2. SyncType /\ LinkOwned
  BY <1>1 DEF InitSync, SyncType, Tasksets, RowSet, Empty, At, LinkOwned, NoLink
<1>3. ASSUME NEW c \in CliRuns
      PROVE CommandInv(cli[c], builds[c], cli[c].team \in registry, taskset[cli[c].team].rows)
  BY <1>1 DEF InitSync, CommandInv, NoId
<1> QED
  BY <1>2, <1>3 DEF SyncInv

\* The directory's link never mixes the ids of two teams, a sync that reports
\* success leaves the taskset with the content it read, and a deploy that does
\* has built what it registered (hud/cli/sync.py, deploy.py, project.py).
THEOREM SyncHonestAlways == InitSync /\ [][NextSync]_syncVars => []SyncHonest
<1>1. SyncInv => SyncHonest
  <2> SUFFICES ASSUME SyncInv PROVE SyncHonest
    OBVIOUS
  <2>1. \A c \in CliRuns : CommandInv(cli[c], builds[c], cli[c].team \in registry, taskset[cli[c].team].rows)
    BY DEF SyncInv
  <2>2. SyncedContent
    BY <2>1 DEF SyncedContent, Compared, CommandInv, Agrees
  <2>3. DeployedBuilt
    BY <2>1 DEF DeployedBuilt, CommandInv
  <2> QED
    BY <2>2, <2>3 DEF SyncInv, SyncHonest
<1> QED
  BY <1>1, SyncInit, SyncStep, PTL

-----------------------------------------------------------------------------
(* What the commands decide before they start anything, each for every input.  *)
Cli == INSTANCE CliRules

\* The instance's cardinality is the one the library speaks of.
LEMMA SameCardinality == ASSUME NEW S PROVE Cli!Cardinality(S) = Cardinality(S)
  BY Zenon DEF Cli!Cardinality, Cardinality

\* Of any finite registry, a reference finds the one environment of its id, or
\* the only one of its name, or nothing (sync.py:47).
THEOREM ReferenceFindsOne ==
  ASSUME NEW ref, ref.byId \in BOOLEAN, NEW items, IsFiniteSet(items)
  PROVE  Cli!ResolvedExactly(ref, items)
<1> DEFINE found == IF ref.byId THEN {i \in items : i.id = ref.id} ELSE Cli!Named(ref, items)
           r == Cli!Registered(ref, items)
<1>1. r = IF Cardinality(found) = 1 THEN found ELSE {}
  BY SameCardinality DEF Cli!Registered
<1>2. IsFiniteSet(found)
  BY FS_Subset DEF Cli!Named
<1>3. r # {} => r = found /\ \E x : found = {x}
  BY <1>1, <1>2, FS_Singleton
<1>4. ASSUME NEW i \in r
      PROVE  r = {i} /\ IF ref.byId THEN i.id = ref.id ELSE i.name = ref.name /\ \A j \in items \ {i} : j.name # ref.name
  BY <1>3 DEF Cli!Named
<1> QED
  BY <1>4, Zenon DEF Cli!ResolvedExactly

\* Any run that is let through to start locally without a source on disk starts
\* every one of its rows, and every verifier, from an image (eval.py:427).
THEOREM LocalRunStarts ==
  ASSUME NEW tasks, NEW runtime, NEW onDisk \in BOOLEAN, \A i \in 1..Len(tasks) : tasks[i].container \in BOOLEAN
  PROVE  Cli!Startable(tasks, runtime, onDisk)
<1> DEFINE run == Cli!RuntimeOf(runtime, onDisk)
<1> SUFFICES ASSUME Cli!Runnable(run, tasks, onDisk), run = "local", ~onDisk, NEW i \in 1..Len(tasks)
             PROVE  Cli!Spawned(tasks[i], tasks[i].bound) = "docker" /\ tasks[i].verifier # "source"
  BY DEF Cli!Startable
<1>1. \A row \in Cli!RowsToStart(tasks) : row.container
  BY DEF Cli!Runnable
<1>2. [container |-> tasks[i].container] \in Cli!RowsToStart(tasks)
  BY DEF Cli!RowsToStart
<1>3. tasks[i].verifier \in {"source", "container"} => [container |-> tasks[i].verifier = "container"] \in Cli!RowsToStart(tasks)
  BY DEF Cli!RowsToStart
<1>4. tasks[i].container
  BY <1>1, <1>2
<1>5. tasks[i].verifier = "source" => tasks[i].verifier = "container"
  BY <1>1, <1>3
<1> QED
  BY <1>4, <1>5 DEF Cli!Spawned

\* An environment is deployed under a name its source declares and into a
\* registry of that name, whatever is declared, flagged and registered
\* (deploy.py:204).
THEOREM DeployedUnderName ==
  ASSUME NEW declared, NEW flag, NEW registered
  PROVE  Cli!NameDeclared(declared, flag, registered)
  BY DEF Cli!NameDeclared, Cli!DeployName, Cli!Refused

\* A build secret that is sent has an id and the value of the variable or of the
\* file it names, whatever is set and stored (deploy.py:329).
THEOREM SecretsFound ==
  ASSUME NEW spec, NEW shell, NEW files
  PROVE  Cli!SecretKnown(spec, shell, files)
<1> DEFINE s == Cli!Secret(spec, shell, files)
<1>1. CASE "id" \notin DOMAIN spec
  <2>1. s = Cli!Refused
    BY <1>1 DEF Cli!Secret
  <2> QED
    BY <2>1 DEF Cli!SecretKnown
<1>2. CASE "id" \in DOMAIN spec /\ "env" \in DOMAIN spec
  <2>1. s = IF spec.env \in DOMAIN shell THEN shell[spec.env] ELSE Cli!Refused
    BY <1>2 DEF Cli!Secret
  <2> QED
    BY <1>2, <2>1 DEF Cli!SecretKnown
<1>3. CASE "id" \in DOMAIN spec /\ "env" \notin DOMAIN spec
  <2>1. s = IF "src" \in DOMAIN spec /\ spec.src \in DOMAIN files THEN files[spec.src] ELSE Cli!Refused
    BY <1>3 DEF Cli!Secret
  <2> QED
    BY <1>3, <2>1 DEF Cli!SecretKnown
<1> QED
  BY <1>1, <1>2, <1>3
=============================================================================
