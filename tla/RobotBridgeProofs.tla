--------------------------- MODULE RobotBridgeProofs ---------------------------
(***************************************************************************)
(* A slot's connection is the one of its episode, and a pending action      *)
(* answers the simulator's present state: for any slots, connections and    *)
(* control links.                                                           *)
(***************************************************************************)
EXTENDS RobotBridge, SequenceTheorems, FiniteSetTheorems, WellFoundedInduction, TLAPS

\* The types the argument needs.
Token == Nat \X Slot
Requester == Conn \cup Link \cup {Tick}
SlotRec == [claimed : BOOLEAN, used : BOOLEAN, ws : Conn \cup {None},
            action : BOOLEAN, idle : BOOLEAN]
ConnRec == [at : {"new", "joining", "greeting", "last", "open", "closed"}, claim : Token \cup {NoClaim},
            turn : {"none", "act", "obs", "over"}, seen : Nat,
            again : BOOLEAN, failed : BOOLEAN, gone : BOOLEAN]
Typed ==
  /\ slot \in [Slot -> SlotRec] /\ conn \in [Conn -> ConnRec]
  /\ batch \in Nat /\ issued \subseteq Token /\ dialed \subseteq issued
  /\ link \in [Link -> [at : {"idle", "resetting", "scoring"}, claim : Token \cup {NoClaim}]]
  /\ tick \in {"wait", "gather", "stepping", "reading", "fan", "sending", "ending",
              "tell", "telling", "fail", "failing"}
  /\ acting \subseteq Slot /\ stepOf \in Nat /\ event \in BOOLEAN
  /\ simq \in Seq(Requester) /\ shot \in [Conn \cup {Tick} -> Nat] /\ steps \in Nat

\* A slot is claimed once between two resets, by the one token handed out for it.
Tokens ==
  /\ \A k \in issued : k[1] <= batch /\ (k[1] = batch => slot[k[2]].used)
  /\ \A s \in Slot : slot[s].claimed => slot[s].used

\* A slot has a connection exactly as long as one that claimed it is there.
InUse(c) == conn[c].at \in {"joining", "greeting", "last", "open"}
Owned ==
  /\ \A c \in Conn : InUse(c) => conn[c].claim \in dialed
  /\ \A c \in Conn, s \in Slot :
       slot[s].ws = c <=> InUse(c) /\ conn[c].claim = <<batch, s>> /\ slot[s].claimed

\* Who waits for the simulation thread.
Queued ==
  /\ Tick \in ToSet(simq) => tick \in {"stepping", "reading"}
  /\ \A c \in Conn : c \in ToSet(simq) => conn[c].at = "joining"
  /\ \A l \in Link : link[l].at = "scoring" => link[l].claim \in issued

\* The slots of a round were all dialed when it began, those told of a failed step
\* need not have been.
Rounds ==
  /\ stepOf <= batch
  /\ tick \notin {"fail", "failing"} /\ stepOf = batch => \A s \in acting : <<batch, s>> \in dialed
  /\ tick \in {"sending", "ending"} /\ stepOf = batch => <<batch, to.slot>> \in dialed

OwnInv == Typed /\ Tokens /\ Owned /\ Queued /\ Rounds

\* A step of the simulator is queued, and x is served before y.
Stepping == tick = "stepping" /\ Tick \in ToSet(simq)
Before(q, x, y) == \A i, j \in 1..Len(q) : q[i] = x /\ q[j] = y => i < j

\* The connections the property is about: none has failed or dialed again.
Fresh(s, c) == slot[s].ws = c /\ ~conn[c].failed /\ ~conn[c].again
InRound(s) == s \in acting /\ stepOf = batch
                /\ tick \in {"stepping", "reading", "fan", "sending", "ending"}
\* One that is being told of a failure has dropped out, and is closed once it is told.
BeingTold(s, c) == tick \in {"telling", "failing"} /\ to.slot = s /\ to.conn = c /\ stepOf = batch

\* An agent whose turn it is, or whose action is pending, has seen the present state.
Acted(s, c) == slot[s].action =>
  conn[c].at = "open" /\ conn[c].turn = "obs" /\ conn[c].seen = steps /\ ~Stepping
Shown(s, c) == conn[c].at \in {"greeting", "open"} /\ conn[c].turn = "act" /\ ~conn[c].gone =>
  conn[c].seen = steps /\ ~Stepping /\ (~slot[s].idle \/ BeingTold(s, c))
\* One that joins holds the barrier, and reads behind a step that is under way.
Joining(s, c) == conn[c].at = "joining" /\ ~conn[c].gone =>
  /\ ~slot[s].idle \/ BeingTold(s, c)
  /\ Stepping => Before(simq, Tick, c)
  /\ c \in ToSet(simq) \/ (shot[c] = steps /\ ~Stepping)
\* One whose action was taken waits for what the tick loop reads.
Stepped(s, c) == InRound(s) =>
  /\ conn[c].at = "open" /\ conn[c].turn = "obs" /\ ~slot[s].action /\ ~slot[s].idle
  /\ tick # "stepping" /\ Tick \notin ToSet(simq) => shot[Tick] = steps
EndingAt(s) == tick = "ending" /\ to.slot = s /\ stepOf = batch
\* One whose episode has ended drops out once it has read its last observation.
Over(s, c) ==
  /\ conn[c].at = "last" => conn[c].turn = "over"
  /\ EndingAt(s) => conn[c].at = "open" /\ conn[c].turn = "over"

TimelyAt(s, c) == Fresh(s, c) =>
  Acted(s, c) /\ Shown(s, c) /\ Joining(s, c) /\ Stepped(s, c) /\ Over(s, c)
Timely == \A s \in Slot, c \in Conn : TimelyAt(s, c)

\* While a reset waits for the simulation thread, whoever is there has read nothing yet.
ResetFirst == \A l \in Link : link[l].at = "resetting" /\ l \in ToSet(simq) =>
  \A s \in Slot, c \in Conn : slot[s].ws = c =>
    conn[c].at = "joining" /\ c \in ToSet(simq) /\ Before(simq, l, c)

BridgeInv == OwnInv /\ Timely /\ ResetFirst

-----------------------------------------------------------------------------
(* The simulation thread's queue                                            *)

\* Who is appended comes after all the others.
LEMMA Queues ==
  ASSUME NEW S, NEW q \in Seq(S), NEW e \in S
  PROVE  /\ Append(q, e) \in Seq(S) /\ ToSet(Append(q, e)) = ToSet(q) \cup {e}
         /\ \A x, y : x # e /\ Before(q, x, y) => Before(Append(q, e), x, y)
         /\ \A x : x # e /\ e \notin ToSet(q) => Before(Append(q, e), x, e)
<1> DEFINE r == Append(q, e)
<1>1. r \in Seq(S) /\ Len(r) = Len(q) + 1 /\ Len(q) \in Nat /\ r[Len(r)] = e
      /\ \A i \in 1..Len(q) : r[i] = q[i]
  BY AppendProperties
<1>2. ToSet(r) = {r[i] : i \in 1..Len(r)} /\ ToSet(q) = {q[i] : i \in 1..Len(q)}
  BY <1>1, LenProperties DEF ToSet
<1> HIDE DEF r
<1>3. ToSet(r) = ToSet(q) \cup {e}
  BY <1>1, <1>2
<1>4. ASSUME NEW x, NEW y, x # e, Before(q, x, y) \/ (y = e /\ e \notin ToSet(q)) PROVE Before(r, x, y)
  BY <1>1, <1>2, <1>4 DEF Before
<1> QED
  BY <1>1, <1>3, <1>4 DEF r

\* Whoever is served was behind nobody, and the others keep their places.
LEMMA Served ==
  ASSUME NEW S, NEW q \in Seq(S), q # <<>>
  PROVE  /\ Tail(q) \in Seq(S) /\ Head(q) \in S /\ ToSet(q) = ToSet(Tail(q)) \cup {Head(q)}
         /\ \A x, y : Before(q, x, y) => Before(Tail(q), x, y)
         /\ \A x : Before(q, x, Head(q)) => x \notin ToSet(q)
<1> DEFINE r == Tail(q)
<1>1. /\ r \in Seq(S) /\ Len(q) \in Nat \ {0} /\ Len(r) = Len(q) - 1
      /\ Head(q) = q[1] /\ q[1] \in S
      /\ \A i \in 1..Len(r) : r[i] = q[i + 1]
  BY HeadTailProperties, EmptySeq, LenProperties, ElementOfSeq
<1>2. ToSet(r) = {r[i] : i \in 1..Len(r)} /\ ToSet(q) = {q[i] : i \in 1..Len(q)}
  BY <1>1, LenProperties DEF ToSet
<1> HIDE DEF r
<1>3. ToSet(q) = ToSet(r) \cup {q[1]}
  <2>1. ASSUME NEW i \in 1..Len(q) PROVE q[i] = q[1] \/ q[i] \in ToSet(r)
    <3>1. i = 1 \/ (i - 1 \in 1..Len(r) /\ r[i - 1] = q[i])
      BY <1>1
    <3> QED
      BY <1>2, <3>1
  <2>2. 1 \in 1..Len(q) /\ \A i \in 1..Len(r) : i + 1 \in 1..Len(q)
    BY <1>1
  <2> QED
    BY <1>1, <1>2, <2>1, <2>2
<1>4. ASSUME NEW x, NEW y, Before(q, x, y) PROVE Before(r, x, y)
  <2> SUFFICES ASSUME NEW i \in 1..Len(r), NEW j \in 1..Len(r), r[i] = x, r[j] = y PROVE i < j
    BY DEF Before
  <2>1. i + 1 \in 1..Len(q) /\ j + 1 \in 1..Len(q) /\ q[i + 1] = x /\ q[j + 1] = y
    BY <1>1
  <2>2. i + 1 < j + 1
    BY <1>4, <2>1 DEF Before
  <2> QED
    BY <2>2, <1>1
<1>5. ASSUME NEW x, Before(q, x, q[1]), x \in ToSet(q) PROVE FALSE
  BY <1>1, <1>2, <1>5 DEF Before
<1> QED
  BY <1>1, <1>3, <1>4, <1>5 DEF r

\* The first free slot is a slot.
LEMMA FirstFree == Reclaimable # {} => Min(Reclaimable) \in Reclaimable
<1> SUFFICES ASSUME Reclaimable # {} PROVE \E x \in Reclaimable : \A y \in Reclaimable : x =< y
  BY DEF Min
<1> DEFINE R == {ss \in Nat \X Nat : ss[1] < ss[2]}
<1>1. IsWellFoundedOn(R, Nat)
  BY NatLessThanWellFounded, Zenon DEF OpToRel
<1>2. Reclaimable \subseteq Nat
  BY NumEnvsAssumption DEF Reclaimable, Slot
<1>3. PICK x \in Reclaimable : \A y \in Reclaimable : ~(<<y, x>> \in R)
  BY <1>1, <1>2, WFMin, Zenon
<1>4. ASSUME NEW y \in Reclaimable PROVE x =< y
  <2>1. x \in Nat /\ y \in Nat /\ <<y, x>> \notin R
    BY <1>2, <1>3
  <2>2. y < x => <<y, x>> \in R
    BY <2>1
  <2> QED
    BY <2>1, <2>2
<1> QED
  BY <1>4

-----------------------------------------------------------------------------
(* Slots, tokens and connections                                            *)

\* Before the first reset there is no token, no connection and no request.
LEMMA InitOwn == Init => BridgeInv
<1> SUFFICES ASSUME Init PROVE BridgeInv
  OBVIOUS
<1> USE NumEnvsAssumption, NamesAssumption DEF Init
<1>1. ToSet(simq) = {} /\ simq \in Seq(Requester)
  BY EmptySeq DEF ToSet
<1>2. Typed
  BY <1>1 DEF Typed, SlotRec, ConnRec, Free, New, Tick
<1>3. Tokens /\ Owned /\ Queued /\ Rounds
  BY <1>1 DEF Tokens, Owned, Queued, Rounds, Free, New, InUse
<1>4. Timely /\ ResetFirst
  BY DEF Timely, TimelyAt, ResetFirst, Fresh, Free
<1> QED
  BY <1>2, <1>3, <1>4 DEF BridgeInv, OwnInv

\* The records that a connection, its join and its end leave are records.
LEMMA Records ==
  /\ \A r \in ConnRec, k \in Token, b \in BOOLEAN :
       [r EXCEPT !.at = "joining", !.claim = k, !.again = b] \in ConnRec
  /\ \A r \in ConnRec : [r EXCEPT !.failed = TRUE] \in ConnRec
  /\ \A r \in ConnRec, n \in Nat, o \in {"act", "over"} : [r EXCEPT !.seen = n, !.turn = o] \in ConnRec
  /\ \A r \in ConnRec, a \in {"greeting", "last", "open"} : [r EXCEPT !.at = a] \in ConnRec
  /\ \A r \in SlotRec : [r EXCEPT !.idle = TRUE, !.action = FALSE] \in SlotRec
  /\ \A r \in SlotRec : [r EXCEPT !.idle = TRUE] \in SlotRec
  /\ \A r \in SlotRec : [r EXCEPT !.ws = None, !.action = FALSE, !.idle = TRUE] \in SlotRec
  /\ \A r \in SlotRec, c \in Conn : [r EXCEPT !.ws = c, !.action = FALSE, !.idle = FALSE] \in SlotRec
<1>1. ASSUME NEW r \in ConnRec, NEW k \in Token, NEW b \in BOOLEAN
      PROVE  [r EXCEPT !.at = "joining", !.claim = k, !.again = b] \in ConnRec
  BY DEF ConnRec
<1>2. ASSUME NEW r \in ConnRec PROVE [r EXCEPT !.failed = TRUE] \in ConnRec
  BY DEF ConnRec
<1>3. ASSUME NEW r \in ConnRec, NEW n \in Nat, NEW o \in {"act", "over"}
      PROVE  [r EXCEPT !.seen = n, !.turn = o] \in ConnRec
  BY DEF ConnRec
<1>4. ASSUME NEW r \in SlotRec PROVE [r EXCEPT !.ws = None, !.action = FALSE, !.idle = TRUE] \in SlotRec
  BY DEF SlotRec
<1>5. ASSUME NEW r \in SlotRec, NEW c \in Conn
      PROVE  [r EXCEPT !.ws = c, !.action = FALSE, !.idle = FALSE] \in SlotRec
  BY DEF SlotRec
<1>6. ASSUME NEW r \in ConnRec, NEW a \in {"greeting", "last", "open"} PROVE [r EXCEPT !.at = a] \in ConnRec
  BY DEF ConnRec
<1>7. ASSUME NEW r \in SlotRec
      PROVE  [r EXCEPT !.idle = TRUE, !.action = FALSE] \in SlotRec /\ [r EXCEPT !.idle = TRUE] \in SlotRec
  BY DEF SlotRec
<1> QED
  BY <1>1, <1>2, <1>3, <1>4, <1>5, <1>6, <1>7

\* Who owns what is not touched.
KeepsSlots == \A s \in Slot :
  /\ slot'[s].claimed = slot[s].claimed /\ slot'[s].used = slot[s].used
  /\ slot'[s].ws = slot[s].ws
SameConn(r, q) == r.at = q.at /\ r.claim = q.claim /\ r.again = q.again /\ r.failed = q.failed /\ r.gone = q.gone
KeepsConns == \A c \in Conn : SameConn(conn'[c], conn[c])

\* An observation reaches the slot's connection and nobody else.
LEMMA Showing ==
  ASSUME Typed, NEW s \in Slot, NEW c \in Conn, slot[s].ws = c, NEW n \in Nat, NEW over \in BOOLEAN,
         NEW cs, cs = Show(s, n, over)
  PROVE  /\ cs \in [Conn -> ConnRec] /\ \A d \in Conn \ {c} : cs[d] = conn[d]
         /\ SameConn(cs[c], conn[c])
         /\ cs[c].seen = n /\ cs[c].turn = IF over THEN "over" ELSE "act"
<1>1. cs = [conn EXCEPT ![c].seen = n, ![c].turn = IF over THEN "over" ELSE "act"]
  BY DEF Show
<1>2. [conn[c] EXCEPT !.seen = n, !.turn = IF over THEN "over" ELSE "act"] \in ConnRec
  BY Records DEF Typed
<1>3. cs \in [Conn -> ConnRec] /\ \A d \in Conn \ {c} : cs[d] = conn[d]
  BY <1>1, <1>2 DEF Typed
<1>4. /\ SameConn(cs[c], conn[c])
      /\ cs[c].seen = n /\ cs[c].turn = IF over THEN "over" ELSE "act"
  BY <1>1 DEF Typed, ConnRec, SameConn
<1> QED
  BY <1>3, <1>4

\* A slot whose episode is over drops out of the barrier, and no other.
LEMMA DroppingOut ==
  ASSUME Typed, NEW x \in Slot, NEW done \in BOOLEAN, NEW here \in BOOLEAN, DropOut(x, done, here)
  PROVE  /\ slot' \in [Slot -> SlotRec] /\ event' \in BOOLEAN /\ KeepsSlots
         /\ \A u \in Slot : u # x \/ ~done \/ ~here => slot'[u] = slot[u]
         /\ done /\ here => slot'[x].idle /\ ~slot'[x].action
<1>1. event' \in BOOLEAN
  BY DEF DropOut, Signal, Typed
<1>2. \/ ~(done /\ here) /\ slot' = slot
      \/ done /\ here /\ slot' = [slot EXCEPT ![x].idle = TRUE, ![x].action = FALSE]
  BY DEF DropOut
<1>3. CASE ~(done /\ here) /\ slot' = slot
  BY <1>1, <1>3 DEF Typed, KeepsSlots
<1>4. CASE done /\ here /\ slot' = [slot EXCEPT ![x].idle = TRUE, ![x].action = FALSE]
  <2>1. \A u \in Slot : slot[u] \in SlotRec
    BY DEF Typed
  <2>2. \A u \in Slot : slot'[u] = IF u = x THEN [slot[u] EXCEPT !.idle = TRUE, !.action = FALSE] ELSE slot[u]
    BY <1>4 DEF Typed
  <2>3. slot' \in [Slot -> SlotRec]
    <3>1. \A u \in Slot : slot'[u] \in SlotRec
      BY <2>1, <2>2, Records
    <3> QED
      BY <1>4, <3>1 DEF Typed
  <2>4. KeepsSlots
    BY <2>1, <2>2 DEF KeepsSlots, SlotRec
  <2>5. x \in Slot => slot'[x].idle /\ ~slot'[x].action
    BY <2>1, <2>2 DEF SlotRec
  <2> QED
    BY <1>1, <1>4, <2>2, <2>3, <2>4, <2>5
<1> QED
  BY <1>2, <1>3, <1>4

\* Telling a slot of a failure makes it drop out, and closes its connection unless the
\* peer has yet to read.
LEMMA TellTaken ==
  ASSUME Typed, Tell
  PROVE  /\ slot' \in [Slot -> SlotRec] /\ conn' \in [Conn -> ConnRec] /\ KeepsSlots
         /\ UNCHANGED <<batch, issued, dialed, link, stepOf, event, sim>>
         /\ tick \in {"tell", "gather", "fail"} /\ acting' \subseteq acting
         /\ tick' \in IF tick = "fail" THEN {"fail", "failing"} ELSE {"tell", "telling"}
         /\ \A c \in Conn : /\ conn'[c].at = conn[c].at /\ conn'[c].claim = conn[c].claim
                            /\ conn'[c].again = conn[c].again /\ conn'[c].turn = conn[c].turn
                            /\ conn'[c].seen = conn[c].seen /\ conn'[c].gone = conn[c].gone
                            /\ conn[c].failed => conn'[c].failed
         /\ \E s \in Slot :
              /\ stepOf = batch /\ slot'[s].action = slot[s].action
              /\ \A u \in Slot \ {s} : slot'[u] = slot[u]
              /\ \A c \in Conn : slot[s].ws = c => conn'[c].failed \/ BeingTold(s, c)'
<1>1. PICK s \in Failing, waits \in BOOLEAN :
        /\ Turn(s, Failing)
        /\ slot' = [slot EXCEPT ![s].idle = TRUE]
        /\ \/ /\ tick' = IF tick = "fail" THEN "failing" ELSE "telling"
              /\ to' = [slot |-> s, conn |-> slot[s].ws] /\ conn' = conn
           \/ /\ tick' = IF tick = "fail" THEN "fail" ELSE "tell"
              /\ conn' = [conn EXCEPT ![slot[s].ws].failed = TRUE]
  BY DEF Tell
<1>2. UNCHANGED <<batch, issued, dialed, link, stepOf, event, sim>> /\ tick \in {"tell", "gather", "fail"}
  BY DEF Tell, TimedOut
<1>3. s \in acting /\ s \in Slot /\ stepOf = batch /\ slot[s].ws # None
  BY <1>1 DEF Failing, Connected, Silent, Typed
<1>4. slot[s].ws \in Conn /\ acting' \subseteq acting
  <2>1. slot[s] \in SlotRec
    BY <1>3 DEF Typed
  <2> QED
    BY <1>1, <1>3, <2>1 DEF Turn, SlotRec, Failing, Connected, Silent
<1>5. slot' \in [Slot -> SlotRec] /\ KeepsSlots
  BY <1>1, <1>3 DEF Typed, SlotRec, KeepsSlots
<1>6. slot'[s].action = slot[s].action /\ \A u \in Slot \ {s} : slot'[u] = slot[u]
  BY <1>1, <1>3 DEF Typed, SlotRec
<1>7. conn' \in [Conn -> ConnRec]
  <2>1. [conn[slot[s].ws] EXCEPT !.failed = TRUE] \in ConnRec
    BY <1>4, Records DEF Typed
  <2> QED
    BY <1>1, <1>4, <2>1 DEF Typed
<1>8. ASSUME NEW c \in Conn
      PROVE  /\ conn'[c].at = conn[c].at /\ conn'[c].claim = conn[c].claim
             /\ conn'[c].again = conn[c].again /\ conn'[c].turn = conn[c].turn
             /\ conn'[c].seen = conn[c].seen /\ conn'[c].gone = conn[c].gone
             /\ conn[c].failed => conn'[c].failed
  <2>1. conn[c] \in ConnRec /\ (conn'[c] = conn[c] \/ conn'[c] = [conn[c] EXCEPT !.failed = TRUE])
    BY <1>1 DEF Typed
  <2> QED
    BY <2>1 DEF ConnRec
<1>9. ASSUME NEW c \in Conn, slot[s].ws = c PROVE conn'[c].failed \/ BeingTold(s, c)'
  <2>1. CASE conn' = [conn EXCEPT ![slot[s].ws].failed = TRUE]
    BY <1>9, <2>1 DEF Typed, ConnRec
  <2>2. CASE tick' = (IF tick = "fail" THEN "failing" ELSE "telling") /\ to' = [slot |-> s, conn |-> slot[s].ws]
    BY <1>2, <1>3, <1>9, <2>2 DEF BeingTold
  <2> QED
    BY <1>1, <2>1, <2>2
<1>10. tick' \in IF tick = "fail" THEN {"fail", "failing"} ELSE {"tell", "telling"}
  BY <1>1
<1> QED
  BY <1>2, <1>3, <1>4, <1>5, <1>6, <1>7, <1>8, <1>9, <1>10

\* Whoever has been told is closed, unless it is gone or no longer the slot's.
LEMMA ToldTaken ==
  ASSUME Typed, Told
  PROVE  /\ conn' \in [Conn -> ConnRec]
         /\ UNCHANGED <<slots, dialed, link, acting, stepOf, event, sim>>
         /\ \/ tick = "telling" /\ tick' = "tell"
            \/ tick = "failing" /\ tick' = "fail"
         /\ \A c \in Conn : /\ conn'[c].at = conn[c].at /\ conn'[c].claim = conn[c].claim
                            /\ conn'[c].again = conn[c].again /\ conn'[c].turn = conn[c].turn
                            /\ conn'[c].seen = conn[c].seen /\ conn'[c].gone = conn[c].gone
                            /\ conn[c].failed => conn'[c].failed
         /\ \A s \in Slot, c \in Conn : BeingTold(s, c) /\ slot[s].ws = c => conn'[c].failed \/ conn[c].gone
<1>1. /\ UNCHANGED <<slots, dialed, link, acting, stepOf, event, sim>>
      /\ \/ tick = "telling" /\ tick' = "tell"
         \/ tick = "failing" /\ tick' = "fail"
  BY DEF Told
<1>2. conn' = IF stepOf = batch /\ slot[to.slot].ws = to.conn /\ ~conn[to.conn].gone
                THEN [conn EXCEPT ![to.conn].failed = TRUE] ELSE conn
  BY DEF Told
<1>3. \A c \in Conn : conn'[c] = conn[c] \/ conn'[c] = [conn[c] EXCEPT !.failed = TRUE]
  BY <1>2 DEF Typed
<1>4. conn' \in [Conn -> ConnRec]
  <2>1. ASSUME NEW c \in Conn PROVE conn'[c] \in ConnRec
    <3>1. conn[c] \in ConnRec
      BY DEF Typed
    <3>2. [conn[c] EXCEPT !.failed = TRUE] \in ConnRec
      BY <3>1, Records
    <3> QED
      BY <1>3, <3>1, <3>2
  <2>2. DOMAIN conn' = Conn /\ conn' = [c \in Conn |-> conn'[c]]
    BY <1>2 DEF Typed
  <2> QED
    BY <2>1, <2>2
<1>5. ASSUME NEW c \in Conn
      PROVE  /\ conn'[c].at = conn[c].at /\ conn'[c].claim = conn[c].claim
             /\ conn'[c].again = conn[c].again /\ conn'[c].turn = conn[c].turn
             /\ conn'[c].seen = conn[c].seen /\ conn'[c].gone = conn[c].gone
             /\ conn[c].failed => conn'[c].failed
  <2>1. conn[c] \in ConnRec
    BY DEF Typed
  <2> QED
    BY <1>3, <2>1 DEF ConnRec
<1>6. ASSUME NEW s \in Slot, NEW c \in Conn, BeingTold(s, c), slot[s].ws = c, ~conn[c].gone PROVE conn'[c].failed
  BY <1>2, <1>6 DEF BeingTold, Typed, ConnRec
<1> QED
  BY <1>1, <1>4, <1>5, <1>6

\* A round takes the pending actions, or leaves the slots alone.
LEMMA RoundTaken ==
  ASSUME Typed, Round
  PROVE  /\ slot' \in [Slot -> SlotRec] /\ KeepsSlots /\ acting' \subseteq Slot /\ stepOf' \in Nat
         /\ \A s \in Slot : slot'[s].idle = slot[s].idle
         /\ \/ tick' \in {"wait", "gather"} /\ slot' = slot /\ simq' = simq
            \/ /\ tick' = "stepping" /\ simq' = Append(simq, Tick)
               /\ \A s \in Slot : ~slot'[s].action
               /\ \A s \in Slot : slot[s].claimed /\ ~slot[s].idle => slot[s].action /\ s \in acting'
         /\ (acting' = {} /\ stepOf' = 0) \/ (stepOf' = batch /\ ~Dialing)
         /\ \A s \in acting' : slot[s].claimed /\ ~slot[s].idle
<1> DEFINE taken == [s \in Slot |-> [slot[s] EXCEPT !.action = FALSE]]
<1>1. taken \in [Slot -> SlotRec] /\ slot \in [Slot -> SlotRec]
  BY DEF Typed, SlotRec
<1>2. \A s \in Slot : /\ taken[s].claimed = slot[s].claimed /\ taken[s].used = slot[s].used
                      /\ taken[s].ws = slot[s].ws /\ taken[s].idle = slot[s].idle /\ ~taken[s].action
  BY DEF Typed, SlotRec
<1>3. Live \subseteq Slot /\ batch \in Nat /\ \A s \in Live : slot[s].claimed /\ ~slot[s].idle
  BY DEF Live, Typed
<1> HIDE DEF taken
<1>4. \/ tick' = "wait" /\ acting' = {} /\ stepOf' = 0 /\ slot' = slot /\ simq' = simq
      \/ /\ ~Dialing /\ tick' = "stepping" /\ acting' = Live /\ Live # {} /\ stepOf' = batch /\ slot' = taken
         /\ simq' = Append(simq, Tick) /\ \A s \in Live : slot[s].action
      \/ /\ ~Dialing /\ tick' = "gather" /\ acting' = Live /\ Live # {} /\ stepOf' = batch
         /\ slot' = slot /\ simq' = simq
  BY DEF Round, Rest, Ready, OnSim, taken
<1>5. slot' \in [Slot -> SlotRec] /\ KeepsSlots /\ \A s \in Slot : slot'[s].idle = slot[s].idle
  BY <1>1, <1>2, <1>4 DEF KeepsSlots
<1>6. acting' \subseteq Slot /\ stepOf' \in Nat /\ \A s \in acting' : slot[s].claimed /\ ~slot[s].idle
  BY <1>3, <1>4
<1>7. \A s \in Slot : slot[s].claimed /\ ~slot[s].idle => s \in Live
  BY DEF Live
<1> QED
  BY <1>2, <1>4, <1>5, <1>6, <1>7

-----------------------------------------------------------------------------
(* What the handlers do to one slot and one connection                      *)

\* A connection that has joined shows its own slot's observation to its own agent.
LEMMA Observed ==
  ASSUME OwnInv, NEW c \in Conn, FirstObservation(c)
  PROVE  /\ conn[c].at = "joining" /\ c \notin ToSet(simq) /\ conn'[c].at \in {"greeting", "last", "open"}
         /\ UNCHANGED <<batch, issued, dialed, link, loop, simq, steps>>
         /\ \A d \in (Conn \cup {Tick}) \ {c} : shot'[d] = shot[d]
         /\ shot' \in [Conn \cup {Tick} -> Nat]
         /\ KeepsSlots /\ slot' \in [Slot -> SlotRec] /\ conn' \in [Conn -> ConnRec] /\ event' \in BOOLEAN
         /\ conn'[c].claim = conn[c].claim /\ conn'[c].again = conn[c].again /\ conn'[c].failed = conn[c].failed
         /\ conn'[c].gone = conn[c].gone
         /\ \A d \in Conn \ {c} : conn'[d] = conn[d]
         /\ \A s \in Slot :
              /\ slot[s].ws # c => slot'[s] = slot[s]
              /\ slot[s].ws = c =>
                   /\ conn'[c].seen = shot[c]
                   /\ \/ conn'[c].turn = "act" /\ slot'[s] = slot[s] /\ conn'[c].at # "last"
                      \/ conn'[c].turn = "over" /\ slot'[s] = slot[s] /\ conn'[c].at = "last"
                      \/ conn'[c].turn = "over" /\ slot'[s].idle /\ ~slot'[s].action
<1>1. Typed /\ Owned
  BY DEF OwnInv
<1>4. /\ conn[c].at = "joining" /\ Done(c) /\ shot' = [shot EXCEPT ![c] = 0]
      /\ UNCHANGED <<batch, issued, dialed, link, loop, simq, steps>>
  BY DEF FirstObservation
<1>5. Own(c) \in Slot /\ shot[c] \in Nat /\ conn[c].claim \in Token
  BY <1>1, <1>4 DEF Own, Typed, Owned, InUse, Token
<1>6. \A s \in Slot : slot[s].ws = c <=> s = Own(c) /\ Current(c) /\ slot[s].claimed
  <2>1. conn[c].claim = <<conn[c].claim[1], conn[c].claim[2]>>
    BY <1>5 DEF Token
  <2> QED
    BY <1>1, <1>4, <2>1 DEF Owned, InUse, Own, Current
<1>7. \A s \in Slot : slot[s].ws # None => slot[s].claimed
  BY <1>1 DEF Typed, Owned, SlotRec
<1>8. shot' \in [Conn \cup {Tick} -> Nat] /\ \A d \in (Conn \cup {Tick}) \ {c} : shot'[d] = shot[d]
  BY <1>1, <1>4 DEF Typed
\* The connection's own record changes its place and nothing else but what is shown.
<1>p. ASSUME NEW cs \in [Conn -> ConnRec], SameConn(cs[c], conn[c]), \A d \in Conn \ {c} : cs[d] = conn[d],
             NEW a \in {"greeting", "last", "open"}, conn' = [cs EXCEPT ![c].at = a]
      PROVE  /\ conn' \in [Conn -> ConnRec] /\ conn'[c].at = a /\ \A d \in Conn \ {c} : conn'[d] = conn[d]
             /\ conn'[c].claim = conn[c].claim /\ conn'[c].again = conn[c].again
             /\ conn'[c].failed = conn[c].failed /\ conn'[c].gone = conn[c].gone
             /\ conn'[c].seen = cs[c].seen /\ conn'[c].turn = cs[c].turn
  <2>1. conn'[c] = [cs[c] EXCEPT !.at = a] /\ cs[c] \in ConnRec /\ \A d \in Conn \ {c} : conn'[d] = cs[d]
    BY <1>p
  <2>2. [cs[c] EXCEPT !.at = a] \in ConnRec
    BY <2>1, Records
  <2>3. conn' \in [Conn -> ConnRec]
    BY <1>p, <2>2
  <2>4. /\ conn'[c].at = a /\ conn'[c].claim = cs[c].claim /\ conn'[c].again = cs[c].again
        /\ conn'[c].failed = cs[c].failed /\ conn'[c].gone = cs[c].gone
        /\ conn'[c].seen = cs[c].seen /\ conn'[c].turn = cs[c].turn
    BY <2>1 DEF ConnRec
  <2> QED
    BY <1>p, <2>1, <2>3, <2>4 DEF SameConn
<1>9. CASE Current(c) /\ slot[Own(c)].ws # None
  <2>1. slot[Own(c)].ws = c
    BY <1>5, <1>6, <1>7, <1>9
  <2>2. PICK over \in BOOLEAN :
          \/ /\ conn' = [Show(Own(c), shot[c], over) EXCEPT ![c].at = IF over THEN "last" ELSE "greeting"]
             /\ UNCHANGED <<slot, event>>
          \/ /\ conn' = [Show(Own(c), shot[c], over) EXCEPT ![c].at = "open"]
             /\ DropOut(Own(c), over, TRUE)
    BY <1>9 DEF FirstObservation
  <2> DEFINE cs == Show(Own(c), shot[c], over)
  <2>3. /\ cs \in [Conn -> ConnRec] /\ \A d \in Conn \ {c} : cs[d] = conn[d]
        /\ SameConn(cs[c], conn[c])
        /\ cs[c].seen = shot[c] /\ cs[c].turn = IF over THEN "over" ELSE "act"
    BY <1>1, <1>5, <2>1, Showing
  <2> HIDE DEF cs
  <2>4. CASE conn' = [cs EXCEPT ![c].at = IF over THEN "last" ELSE "greeting"] /\ UNCHANGED <<slot, event>>
    <3> DEFINE a == IF over THEN "last" ELSE "greeting"
    <3>1. a \in {"greeting", "last", "open"} /\ conn' = [cs EXCEPT ![c].at = a]
      BY <2>4
    <3> HIDE DEF a
    <3>2. /\ conn' \in [Conn -> ConnRec] /\ conn'[c].at = a /\ \A d \in Conn \ {c} : conn'[d] = conn[d]
          /\ conn'[c].claim = conn[c].claim /\ conn'[c].again = conn[c].again
          /\ conn'[c].failed = conn[c].failed /\ conn'[c].gone = conn[c].gone
          /\ conn'[c].seen = cs[c].seen /\ conn'[c].turn = cs[c].turn
      BY <1>p, <2>3, <3>1
    <3>3. KeepsSlots /\ slot' \in [Slot -> SlotRec] /\ event' \in BOOLEAN /\ slot' = slot
      BY <1>1, <2>4 DEF KeepsSlots, Typed
    <3>4. IF over THEN conn'[c].at = "last" /\ conn'[c].turn = "over" ELSE conn'[c].at = "greeting" /\ conn'[c].turn = "act"
      BY <2>3, <3>2 DEF a
    <3> QED
      BY <1>4, <1>8, <2>3, <3>1, <3>2, <3>3, <3>4 DEF Done
  <2>5. CASE conn' = [cs EXCEPT ![c].at = "open"] /\ DropOut(Own(c), over, TRUE)
    <3>2. /\ conn' \in [Conn -> ConnRec] /\ conn'[c].at = "open" /\ \A d \in Conn \ {c} : conn'[d] = conn[d]
          /\ conn'[c].claim = conn[c].claim /\ conn'[c].again = conn[c].again
          /\ conn'[c].failed = conn[c].failed /\ conn'[c].gone = conn[c].gone
          /\ conn'[c].seen = cs[c].seen /\ conn'[c].turn = cs[c].turn
      BY <1>p, <2>3, <2>5
    <3>3. /\ slot' \in [Slot -> SlotRec] /\ event' \in BOOLEAN /\ KeepsSlots
          /\ \A u \in Slot : u # Own(c) \/ ~over => slot'[u] = slot[u]
          /\ over => slot'[Own(c)].idle /\ ~slot'[Own(c)].action
      <4>1. PICK present \in BOOLEAN : present /\ DropOut(Own(c), over, present)
        BY <2>5
      <4> QED
        BY <1>1, <1>5, <4>1, DroppingOut
    <3>4. \A s \in Slot : slot[s].ws = c => s = Own(c)
      BY <1>6
    <3> QED
      BY <1>4, <1>8, <2>1, <2>3, <3>2, <3>3, <3>4 DEF Done
  <2> QED
    BY <2>2, <2>4, <2>5 DEF cs
<1>10. CASE ~(Current(c) /\ slot[Own(c)].ws # None)
  <2>1. conn' = [conn EXCEPT ![c].at = "open"] /\ UNCHANGED <<slot, event>> /\ \A s \in Slot : slot[s].ws # c
    BY <1>6, <1>10, NamesAssumption DEF FirstObservation
  <2>2. SameConn(conn[c], conn[c]) /\ conn \in [Conn -> ConnRec]
    BY <1>1 DEF SameConn, Typed
  <2>3. /\ conn' \in [Conn -> ConnRec] /\ conn'[c].at = "open" /\ \A d \in Conn \ {c} : conn'[d] = conn[d]
        /\ conn'[c].claim = conn[c].claim /\ conn'[c].again = conn[c].again
        /\ conn'[c].failed = conn[c].failed /\ conn'[c].gone = conn[c].gone
    BY <1>p, <2>1, <2>2
  <2> QED
    BY <1>1, <1>4, <1>8, <2>1, <2>3 DEF KeepsSlots, Done, Typed
<1> QED
  BY <1>9, <1>10

\* The peer has read: whose episode is over drops out.
LEMMA Welcomed ==
  ASSUME OwnInv, NEW c \in Conn, Greeted(c)
  PROVE  /\ conn[c].at \in {"greeting", "last"} /\ conn'[c].at = "open"
         /\ UNCHANGED <<batch, issued, dialed, link, loop, sim>>
         /\ KeepsSlots /\ slot' \in [Slot -> SlotRec] /\ conn' \in [Conn -> ConnRec] /\ event' \in BOOLEAN
         /\ conn'[c].claim = conn[c].claim /\ conn'[c].again = conn[c].again /\ conn'[c].failed = conn[c].failed
         /\ conn'[c].gone = conn[c].gone /\ conn'[c].turn = conn[c].turn /\ conn'[c].seen = conn[c].seen
         /\ \A d \in Conn \ {c} : conn'[d] = conn[d]
         /\ \A s \in Slot :
              /\ slot[s].ws \in Conn \ {c} \/ conn[c].at = "greeting" => slot'[s] = slot[s]
              /\ slot'[s] = slot[s] \/ (slot'[s].idle /\ ~slot'[s].action)
<1>1. Typed /\ Owned
  BY DEF OwnInv
<1>2. /\ conn[c].at \in {"greeting", "last"} /\ conn' = [conn EXCEPT ![c].at = "open"]
      /\ UNCHANGED <<batch, issued, dialed, link, loop, sim>>
      /\ DropOut(Own(c), conn[c].at = "last", Current(c))
  BY DEF Greeted
<1>3. [conn[c] EXCEPT !.at = "open"] \in ConnRec
  BY <1>1, Records DEF Typed
<1>4. conn' \in [Conn -> ConnRec] /\ \A d \in Conn \ {c} : conn'[d] = conn[d]
  BY <1>1, <1>2, <1>3 DEF Typed
<1>5. /\ conn'[c].at = "open" /\ conn'[c].claim = conn[c].claim /\ conn'[c].again = conn[c].again
      /\ conn'[c].failed = conn[c].failed /\ conn'[c].gone = conn[c].gone
      /\ conn'[c].turn = conn[c].turn /\ conn'[c].seen = conn[c].seen
  BY <1>1, <1>2 DEF Typed, ConnRec
<1>6. Own(c) \in Slot /\ conn[c].claim \in Token
  BY <1>1, <1>2 DEF Own, Typed, Owned, InUse, Token
<1>7. /\ slot' \in [Slot -> SlotRec] /\ event' \in BOOLEAN /\ KeepsSlots
      /\ \A u \in Slot : u # Own(c) \/ ~(conn[c].at = "last") \/ ~Current(c) => slot'[u] = slot[u]
      /\ conn[c].at = "last" /\ Current(c) => slot'[Own(c)].idle /\ ~slot'[Own(c)].action
  <2>1. (conn[c].at = "last") \in BOOLEAN /\ Current(c) \in BOOLEAN
    BY DEF Current
  <2> QED
    BY <1>1, <1>2, <1>6, <2>1, DroppingOut
<1>8. ASSUME NEW s \in Slot, slot[s].ws \in Conn \ {c} PROVE s # Own(c) \/ ~Current(c)
  <2>1. conn[c].claim = <<conn[c].claim[1], conn[c].claim[2]>>
    BY <1>6 DEF Token
  <2>2. slot[s].claimed
    BY <1>1, <1>8 DEF Owned
  <2> QED
    BY <1>1, <1>2, <1>8, <2>1, <2>2 DEF Owned, InUse, Own, Current
<1>9. \A s \in Slot :
        /\ slot[s].ws \in Conn \ {c} \/ conn[c].at = "greeting" => slot'[s] = slot[s]
        /\ slot'[s] = slot[s] \/ (slot'[s].idle /\ ~slot'[s].action)
  BY <1>7, <1>8
<1> QED
  BY <1>2, <1>4, <1>5, <1>7, <1>9

\* The agent's answer is kept in the slot it claimed.
LEMMA Answered ==
  ASSUME OwnInv, NEW c \in Conn, Act(c)
  PROVE  /\ conn[c].at = "open" /\ conn[c].turn = "act" /\ conn'[c].turn = "obs"
         /\ UNCHANGED <<batch, issued, dialed, link, loop, sim>>
         /\ KeepsSlots /\ KeepsConns /\ conn'[c].seen = conn[c].seen /\ ~conn[c].gone
         /\ ~(tick = "ending" /\ to.conn = c)
         /\ \A d \in Conn \ {c} : conn'[d] = conn[d]
         /\ \A s \in Slot : slot'[s] = slot[s] \/ (s = Own(c) /\ Current(c) /\ ~slot'[s].idle)
<1>1. Typed /\ Owned
  BY DEF OwnInv
<1>2. /\ conn[c].at = "open" /\ conn[c].turn = "act" /\ ~conn[c].gone
      /\ ~(tick = "ending" /\ to.conn = c)
      /\ conn' = [conn EXCEPT ![c].turn = "obs"]
      /\ UNCHANGED <<batch, issued, dialed, link, loop, sim>>
      /\ slot' = slot \/ (Current(c) /\ slot' = [slot EXCEPT ![Own(c)].action = TRUE, ![Own(c)].idle = FALSE])
  BY DEF Act
<1>3. Own(c) \in Slot
  BY <1>1, <1>2 DEF Own, Typed, Owned, InUse, Token
<1>4. KeepsConns /\ \A d \in Conn \ {c} : conn'[d] = conn[d]
  BY <1>1, <1>2 DEF Typed, KeepsConns, SameConn
<1>5. conn'[c].turn = "obs" /\ conn'[c].seen = conn[c].seen
  BY <1>1, <1>2 DEF Typed, ConnRec
<1>6. KeepsSlots
  <2>1. ASSUME NEW s \in Slot
        PROVE  slot'[s] = slot[s] \/ slot'[s] = [slot[s] EXCEPT !.action = TRUE, !.idle = FALSE]
    BY <1>1, <1>2, <1>3 DEF Typed
  <2>2. \A s \in Slot : slot[s] \in SlotRec
    BY <1>1 DEF Typed
  <2> QED
    BY <2>1, <2>2 DEF KeepsSlots, SlotRec
<1>7. \A s \in Slot : slot'[s] = slot[s] \/ (s = Own(c) /\ Current(c) /\ ~slot'[s].idle)
  BY <1>1, <1>2, <1>3 DEF Typed, SlotRec
<1> QED
  BY <1>2, <1>4, <1>5, <1>6, <1>7

\* What the tick loop has read goes to one slot of the round at a time.
LEMMA Fanned ==
  ASSUME OwnInv, FanOut
  PROVE  /\ tick \in {"reading", "fan"} /\ Tick \notin ToSet(simq)
         /\ UNCHANGED <<batch, issued, dialed, link, stepOf, sim>>
         /\ KeepsSlots /\ KeepsConns
         /\ slot' \in [Slot -> SlotRec] /\ conn' \in [Conn -> ConnRec] /\ event' \in BOOLEAN
         /\ tick' \in {"fan", "sending", "ending"} /\ stepOf = batch
         /\ \E s \in acting, c \in Conn :
              /\ acting' \subseteq acting \ {s} /\ slot[s].ws = c
              /\ \A u \in Slot \ {s} : slot'[u] = slot[u]
              /\ \A d \in Conn \ {c} : conn'[d] = conn[d]
              /\ conn'[c].seen = shot[Tick]
              /\ tick' # "fan" => to'.slot = s
              /\ \/ conn'[c].turn = "act" /\ slot'[s] = slot[s] /\ tick' # "ending"
                 \/ conn'[c].turn = "over" /\ slot'[s] = slot[s] /\ tick' = "ending"
                 \/ conn'[c].turn = "over" /\ slot'[s].idle /\ ~slot'[s].action /\ tick' = "fan"
<1>1. Typed /\ Queued
  BY DEF OwnInv
<1>2. PICK s \in Connected, over \in BOOLEAN :
        /\ Turn(s, Connected)
        /\ conn' = Show(s, shot[Tick], over)
        /\ \/ /\ tick' = IF over THEN "ending" ELSE "sending"
              /\ to' = [slot |-> s, conn |-> slot[s].ws] /\ UNCHANGED <<slot, event>>
           \/ tick' = "fan" /\ DropOut(s, over, TRUE)
  BY DEF FanOut
<1>3. /\ tick \in {"reading", "fan"} /\ Tick \notin ToSet(simq)
      /\ UNCHANGED <<batch, issued, dialed, link, stepOf, sim>>
  BY <1>1 DEF FanOut, Read, Done, Queued
<1>4. s \in acting /\ s \in Slot /\ stepOf = batch /\ slot[s].ws # None
  BY <1>1, <1>2 DEF Connected, Typed
<1>5. acting' \subseteq acting \ {s}
  <2>1. acting' = {u \in acting : s < u} /\ s \in Nat
    BY <1>2, <1>4, NumEnvsAssumption DEF Turn, Slot
  <2> QED
    BY <2>1
<1>6. slot[s].ws \in Conn
  <2>1. slot[s] \in SlotRec
    BY <1>1, <1>4 DEF Typed
  <2> QED
    BY <1>4, <2>1 DEF SlotRec
<1> DEFINE c == slot[s].ws
<1>7. /\ conn' \in [Conn -> ConnRec] /\ \A d \in Conn \ {c} : conn'[d] = conn[d]
      /\ SameConn(conn'[c], conn[c])
      /\ conn'[c].seen = shot[Tick] /\ conn'[c].turn = IF over THEN "over" ELSE "act"
  <2>1. shot[Tick] \in Nat
    BY <1>1 DEF Typed
  <2> QED
    BY <1>1, <1>2, <1>4, <1>6, <2>1, Showing
<1> HIDE DEF c
<1>8. KeepsConns
  BY <1>7 DEF KeepsConns, SameConn
<1>9. CASE tick' = (IF over THEN "ending" ELSE "sending") /\ to' = [slot |-> s, conn |-> c] /\ UNCHANGED <<slot, event>>
  <2>1. KeepsSlots /\ slot' \in [Slot -> SlotRec] /\ event' \in BOOLEAN /\ slot' = slot
    BY <1>1, <1>9 DEF KeepsSlots, Typed
  <2>2. to'.slot = s /\ IF over THEN tick' = "ending" ELSE tick' = "sending"
    BY <1>9
  <2> QED
    BY <1>3, <1>4, <1>5, <1>6, <1>7, <1>8, <2>1, <2>2 DEF c
<1>10. CASE tick' = "fan" /\ DropOut(s, over, TRUE)
  <2>1. /\ slot' \in [Slot -> SlotRec] /\ event' \in BOOLEAN /\ KeepsSlots
        /\ \A u \in Slot : u # s \/ ~over => slot'[u] = slot[u]
        /\ over => slot'[s].idle /\ ~slot'[s].action
    <3>1. PICK present \in BOOLEAN : present /\ DropOut(s, over, present)
      BY <1>10
    <3> QED
      <4>1. s \in Slot /\ over \in BOOLEAN /\ present \in BOOLEAN /\ Typed /\ DropOut(s, over, present) /\ present
        BY <1>1, <1>4, <3>1
      <4>2. /\ slot' \in [Slot -> SlotRec] /\ event' \in BOOLEAN /\ KeepsSlots
            /\ \A u \in Slot : u # s \/ ~over \/ ~present => slot'[u] = slot[u]
            /\ over /\ present => slot'[s].idle /\ ~slot'[s].action
        BY <4>1, DroppingOut
      <4> QED
        BY <4>1, <4>2
  <2> QED
    BY <1>3, <1>4, <1>5, <1>6, <1>7, <1>8, <1>10, <2>1 DEF c
<1> QED
  BY <1>2, <1>9, <1>10 DEF c

\* The peer of the tick loop has read: whose episode is over drops out.
LEMMA FanRead ==
  ASSUME OwnInv, FanSent
  PROVE  /\ tick \in {"sending", "ending"} /\ tick' = "fan"
         /\ UNCHANGED <<batch, issued, dialed, conn, link, acting, stepOf, sim>>
         /\ KeepsSlots /\ slot' \in [Slot -> SlotRec] /\ event' \in BOOLEAN
         /\ \A s \in Slot : \/ slot'[s] = slot[s]
                            \/ /\ tick = "ending" /\ s = to.slot /\ stepOf = batch
                               /\ slot'[s].idle /\ ~slot'[s].action
<1>1. /\ tick \in {"sending", "ending"} /\ tick' = "fan"
      /\ UNCHANGED <<batch, issued, dialed, conn, link, acting, stepOf, sim>>
      /\ DropOut(to.slot, tick = "ending", stepOf = batch)
  BY DEF FanSent
<1>2. Typed /\ (tick = "ending") \in BOOLEAN /\ (stepOf = batch) \in BOOLEAN
  BY DEF OwnInv
<1>3. CASE stepOf = batch
  <2>1. to.slot \in Slot
    BY <1>1, <1>2, <1>3 DEF OwnInv, Rounds, Typed, Token
  <2>2. /\ slot' \in [Slot -> SlotRec] /\ event' \in BOOLEAN /\ KeepsSlots
        /\ \A u \in Slot : u # to.slot \/ ~(tick = "ending") \/ ~(stepOf = batch) => slot'[u] = slot[u]
        /\ tick = "ending" /\ stepOf = batch => slot'[to.slot].idle /\ ~slot'[to.slot].action
    BY <1>1, <1>2, <2>1, DroppingOut
  <2> QED
    BY <1>1, <1>3, <2>2
<1>4. CASE stepOf # batch
  <2>1. slot' = slot /\ event' \in BOOLEAN
    BY <1>1, <1>2, <1>4 DEF DropOut, Signal, Typed
  <2> QED
    BY <1>1, <1>2, <2>1 DEF KeepsSlots, Typed
<1> QED
  BY <1>3, <1>4

\* A connection joins the slot of a token, or is refused.
LEMMA Joined ==
  ASSUME OwnInv, NEW c \in Conn, Join(c)
  PROVE  /\ conn[c].at = "new" /\ UNCHANGED <<batch, issued, link, loop, shot, steps>>
         /\ \A d \in Conn \ {c} : conn'[d] = conn[d]
         /\ \E k \in issued :
              /\ dialed' = dialed \cup {k}
              /\ \/ conn'[c].at = "closed" /\ UNCHANGED <<slot, simq>>
                 \/ /\ k = <<batch, k[2]>> /\ k[2] \in Slot
                    /\ slot[k[2]].claimed /\ slot[k[2]].ws = None
                    /\ conn'[c].at = "joining" /\ conn'[c].claim = k /\ conn'[c].again = (k \in dialed)
                    /\ simq' = Append(simq, c)
                    /\ slot'[k[2]].claimed /\ slot'[k[2]].used = slot[k[2]].used /\ slot'[k[2]].ws = c
                    /\ ~slot'[k[2]].action /\ ~slot'[k[2]].idle
                    /\ \A s \in Slot \ {k[2]} : slot'[s] = slot[s]
<1>1. Typed
  BY DEF OwnInv
<1>2. PICK k \in issued :
        /\ dialed' = dialed \cup {k}
        /\ IF Joinable(k)
             THEN /\ slot' = [slot EXCEPT ![k[2]].ws = c, ![k[2]].action = FALSE, ![k[2]].idle = FALSE]
                  /\ conn' = [conn EXCEPT ![c].at = "joining", ![c].claim = k, ![c].again = k \in dialed]
                  /\ simq' = Append(simq, c)
             ELSE conn' = [conn EXCEPT ![c] = Shut] /\ UNCHANGED <<slot, simq>>
  BY DEF Join, OnSim
<1>3. conn[c].at = "new" /\ UNCHANGED <<batch, issued, link, loop, shot, steps>>
  BY DEF Join
<1>4. k \in Token /\ k[2] \in Slot /\ k = <<k[1], k[2]>>
  BY <1>1 DEF Typed, Token
<1>5. CASE Joinable(k)
  <2>1. k = <<batch, k[2]>> /\ slot[k[2]].claimed /\ slot[k[2]].ws = None
    BY <1>4, <1>5 DEF Joinable, Valid
  <2>2. conn'[c] = [conn[c] EXCEPT !.at = "joining", !.claim = k, !.again = k \in dialed]
        /\ conn[c] \in ConnRec /\ \A d \in Conn \ {c} : conn'[d] = conn[d]
    BY <1>1, <1>2, <1>5 DEF Typed
  <2>3. conn'[c].at = "joining" /\ conn'[c].claim = k /\ conn'[c].again = (k \in dialed)
    BY <2>2 DEF ConnRec
  <2>4. slot'[k[2]] = [slot[k[2]] EXCEPT !.ws = c, !.action = FALSE, !.idle = FALSE]
        /\ slot[k[2]] \in SlotRec /\ \A s \in Slot \ {k[2]} : slot'[s] = slot[s]
    BY <1>1, <1>2, <1>4, <1>5 DEF Typed
  <2>5. /\ slot'[k[2]].claimed /\ slot'[k[2]].used = slot[k[2]].used /\ slot'[k[2]].ws = c
        /\ ~slot'[k[2]].action /\ ~slot'[k[2]].idle
    BY <2>1, <2>4 DEF SlotRec
  <2> QED
    BY <1>2, <1>3, <1>4, <1>5, <2>1, <2>2, <2>3, <2>4, <2>5
<1>6. CASE ~Joinable(k)
  <2>1. conn'[c].at = "closed" /\ UNCHANGED <<slot, simq>> /\ \A d \in Conn \ {c} : conn'[d] = conn[d]
    BY <1>1, <1>2, <1>6 DEF Typed, Shut, New
  <2> QED
    BY <1>2, <1>3, <2>1
<1> QED
  BY <1>5, <1>6

\* Every variable keeps its type.
LEMMA TypedStep == OwnInv /\ [Next]_vars => Typed'
<1> SUFFICES ASSUME OwnInv, [Next]_vars PROVE Typed'
  OBVIOUS
<1>0. Typed /\ Queued /\ Owned
  BY DEF OwnInv
<1>q. \A r \in Requester : Append(simq, r) \in Seq(Requester)
  BY <1>0, Queues DEF Typed
<1>n. Conn \subseteq Requester /\ Link \subseteq Requester /\ Tick \in Requester
  BY DEF Requester
<1> USE <1>0, <1>q, <1>n, NamesAssumption, NumEnvsAssumption DEF slots, loop, sim
<1>1. CASE SimRuns
  <2>1. simq # <<>> /\ simq' = Tail(simq) /\ UNCHANGED <<slots, dialed, conn, link, loop, event>>
    BY <1>1 DEF SimRuns
  <2>2. simq' \in Seq(Requester)
    BY <2>1, Served DEF Typed
  <2>3. steps' \in Nat /\ shot' \in [Conn \cup {Tick} -> Nat]
    BY <1>1 DEF SimRuns, Typed
  <2> QED
    BY <2>1, <2>2, <2>3 DEF Typed
<1>2. ASSUME NEW l \in Link, GlobalReset(l) PROVE Typed'
  BY <1>2 DEF GlobalReset, OnSim, Typed
<1>3. ASSUME NEW l \in Link, ResetDone(l) PROVE Typed'
  <2>1. Free \in SlotRec /\ Claimed \in SlotRec
    BY DEF Free, Claimed, SlotRec
  <2>2. /\ slot' = [s \in Slot |-> IF s = 1 THEN Claimed ELSE Free] /\ batch' = batch + 1
        /\ issued' = issued \cup {<<batch', 1>>} /\ link' = [link EXCEPT ![l].at = "idle"]
        /\ UNCHANGED <<dialed, conn, loop, event, simq, shot, steps>>
    BY <1>3 DEF ResetDone
  <2>3. slot' \in [Slot -> SlotRec]
    BY <2>1, <2>2
  <2>4. batch' \in Nat /\ <<batch', 1>> \in Token
    BY <2>2 DEF Typed, Token, Slot
  <2> QED
    BY <2>2, <2>3, <2>4 DEF Typed
<1>4. ASSUME NEW l \in Link, ClaimSlot(l) PROVE Typed'
  <2>1. Min(Reclaimable) \in Slot
    BY <1>4, FirstFree DEF ClaimSlot, Reclaimable
  <2>2. Claimed \in SlotRec
    BY DEF Free, Claimed, SlotRec
  <2>3. /\ slot' = [slot EXCEPT ![Min(Reclaimable)] = Claimed]
        /\ issued' = issued \cup {<<batch, Min(Reclaimable)>>}
        /\ UNCHANGED <<batch, dialed, conn, link, loop, event, sim>>
    BY <1>4 DEF ClaimSlot
  <2>4. <<batch, Min(Reclaimable)>> \in Token
    BY <2>1 DEF Typed, Token
  <2> QED
    BY <2>1, <2>2, <2>3, <2>4 DEF Typed
<1>5. ASSUME NEW l \in Link, NEW k \in issued, Result(l, k) PROVE Typed'
  BY <1>5 DEF Result, OnSim, Typed
<1>6. ASSUME NEW l \in Link, ResultDone(l) PROVE Typed'
  <2>1. link' \in [Link -> [at : {"idle", "resetting", "scoring"}, claim : Token \cup {NoClaim}]]
    BY <1>6 DEF ResultDone, Typed
  <2>2. slot' \in [Slot -> SlotRec]
    <3>1. [Free EXCEPT !.used = TRUE] \in SlotRec
      BY DEF Free, SlotRec
    <3> QED
      BY <1>6, <3>1 DEF ResultDone, Release, Typed
  <2> QED
    BY <1>6, <2>1, <2>2 DEF ResultDone, Signal, Typed
<1>7. ASSUME NEW l \in Link, ControlFails(l) PROVE Typed'
  BY <1>7 DEF ControlFails, Typed
<1>8. ASSUME NEW c \in Conn, Join(c) PROVE Typed'
  <2>1. PICK k \in issued :
          /\ dialed' = dialed \cup {k}
          /\ \/ /\ slot' = [slot EXCEPT ![k[2]].ws = c, ![k[2]].action = FALSE, ![k[2]].idle = FALSE]
                /\ conn' = [conn EXCEPT ![c].at = "joining", ![c].claim = k, ![c].again = k \in dialed]
                /\ simq' = Append(simq, c) /\ event' \in BOOLEAN
             \/ conn' = [conn EXCEPT ![c] = Shut] /\ UNCHANGED <<slot, event, simq>>
    BY <1>8 DEF Join, Signal, OnSim
  <2>2. UNCHANGED <<batch, issued, link, loop, shot, steps>>
    BY <1>8 DEF Join
  <2>3. k[2] \in Slot /\ k \in Token
    BY DEF Typed, Token
  <2> DEFINE sl == [slot EXCEPT ![k[2]].ws = c, ![k[2]].action = FALSE, ![k[2]].idle = FALSE]
             cn == [conn EXCEPT ![c].at = "joining", ![c].claim = k, ![c].again = k \in dialed]
  <2>4. sl \in [Slot -> SlotRec]
    <3>1. [slot[k[2]] EXCEPT !.ws = c, !.action = FALSE, !.idle = FALSE] \in SlotRec
      BY <2>3, Records DEF Typed
    <3> QED
      BY <3>1 DEF Typed
  <2>5. cn \in [Conn -> ConnRec]
    <3>1. [conn[c] EXCEPT !.at = "joining", !.claim = k, !.again = k \in dialed] \in ConnRec
      <4>1. (k \in dialed) \in BOOLEAN
        OBVIOUS
      <4> QED
        BY <2>3, <4>1, Records DEF Typed
    <3> QED
      BY <3>1 DEF Typed
  <2> HIDE DEF sl, cn
  <2>6. Shut \in ConnRec
    BY DEF Shut, New, ConnRec
  <2>7. slot' \in [Slot -> SlotRec]
    BY <2>1, <2>4 DEF Typed, sl
  <2>8. conn' \in [Conn -> ConnRec]
    BY <2>1, <2>5, <2>6 DEF Typed, cn
  <2>9. simq' \in Seq(Requester) /\ event' \in BOOLEAN /\ dialed' \subseteq issued
    <3>1. simq' \in Seq(Requester)
      <4>1. simq' = simq \/ simq' = Append(simq, c)
        BY <2>1
      <4> QED
        BY <4>1 DEF Typed
    <3>3. dialed' \subseteq issued
      BY <2>1 DEF Typed
    <3>2. event' \in BOOLEAN
      BY <2>1 DEF Typed
    <3> QED
      BY <3>1, <3>2, <3>3
  <2> QED
    BY <2>2, <2>7, <2>8, <2>9 DEF Typed
<1>9. ASSUME NEW c \in Conn, FirstObservation(c) PROVE Typed'
  <2>1. /\ UNCHANGED <<batch, issued, dialed, link, loop, simq, steps>> /\ shot' \in [Conn \cup {Tick} -> Nat]
        /\ slot' \in [Slot -> SlotRec] /\ conn' \in [Conn -> ConnRec] /\ event' \in BOOLEAN
    BY <1>9, Observed
  <2> QED
    BY <2>1 DEF Typed
<1>21. ASSUME NEW c \in Conn, Greeted(c) PROVE Typed'
  <2>1. /\ UNCHANGED <<batch, issued, dialed, link, loop, sim>>
        /\ slot' \in [Slot -> SlotRec] /\ conn' \in [Conn -> ConnRec] /\ event' \in BOOLEAN
    BY <1>21, Welcomed
  <2> QED
    BY <2>1 DEF Typed
<1>10. ASSUME NEW c \in Conn, Act(c) PROVE Typed'
  <2>0. [conn EXCEPT ![c].turn = "obs"] \in [Conn -> ConnRec]
    BY DEF Typed, ConnRec
  <2>1. conn' \in [Conn -> ConnRec]
    BY <1>10, <2>0 DEF Act
  <2>2. Own(c) \in Slot
    BY <1>10 DEF Act, Own, Typed, Owned, InUse, Token
  <2>3. slot' \in [Slot -> SlotRec]
    BY <1>10, <2>2 DEF Act, Typed, SlotRec
  <2> QED
    BY <1>10, <2>1, <2>3 DEF Act, Signal, Typed
<1>11. ASSUME NEW c \in Conn, HangUp(c) PROVE Typed'
  <2>1. [conn EXCEPT ![c].gone = TRUE] \in [Conn -> ConnRec]
    BY DEF Typed, ConnRec
  <2> QED
    BY <1>11, <2>1 DEF HangUp, Typed
<1>12. ASSUME NEW c \in Conn, HandlerEnds(c) PROVE Typed'
  <2>1. conn' \in [Conn -> ConnRec]
    BY <1>12 DEF HandlerEnds, Typed, ConnRec, Shut, New
  <2>2. Own(c) \in Slot
    BY <1>12 DEF HandlerEnds, Own, Typed, Owned, InUse, Token
  <2>4. Dropped(Own(c)) \in SlotRec
    BY <2>2, Records DEF Dropped, Typed
  <2>3. slot' \in [Slot -> SlotRec]
    BY <1>12, <2>2, <2>4 DEF HandlerEnds, Typed
  <2> QED
    BY <1>12, <2>1, <2>3 DEF HandlerEnds, Signal, Typed
<1>13. CASE Wake
  <2>1. UNCHANGED <<batch, issued, dialed, conn, link, shot, steps>> /\ event' = FALSE
    BY <1>13 DEF Wake
  <2>2. Round
    BY <1>13 DEF Wake
  <2> QED
    BY <2>1, <2>2, RoundTaken DEF Typed
<1>14. CASE Tell
  <2>1. /\ slot' \in [Slot -> SlotRec] /\ conn' \in [Conn -> ConnRec] /\ acting' \subseteq acting
        /\ UNCHANGED <<batch, issued, dialed, link, stepOf, event, sim>>
        /\ tick' \in {"fail", "failing", "tell", "telling"}
    BY <1>14, TellTaken
  <2> QED
    BY <2>1 DEF Typed
<1>15. CASE AllTold
  <2>1. UNCHANGED <<batch, issued, dialed, conn, link, event, shot, steps>> /\ Round
    BY <1>15 DEF AllTold
  <2> QED
    BY <2>1, RoundTaken DEF Typed
<1>16. CASE StepDone
  BY <1>16 DEF StepDone, OnSim, Done, Typed
<1>17. CASE AllFailed \/ AllSent
  BY <1>17 DEF AllFailed, AllSent, Rest, Typed
<1>18. CASE SimRaises
  BY <1>18 DEF SimRaises, Typed
<1>19. CASE FanOut
  <2>1. /\ UNCHANGED <<batch, issued, dialed, link, stepOf, sim>>
        /\ slot' \in [Slot -> SlotRec] /\ conn' \in [Conn -> ConnRec] /\ event' \in BOOLEAN
        /\ tick' \in {"fan", "sending", "ending"} /\ acting' \subseteq acting
    BY <1>19, Fanned
  <2> QED
    BY <2>1 DEF Typed
<1>22. CASE Told
  <2>1. /\ conn' \in [Conn -> ConnRec] /\ tick' \in {"tell", "fail"}
        /\ UNCHANGED <<slots, dialed, link, acting, stepOf, event, sim>>
    BY <1>22, ToldTaken
  <2> QED
    BY <2>1 DEF Typed
<1>23. CASE FanSent
  <2>1. /\ tick' = "fan" /\ UNCHANGED <<batch, issued, dialed, conn, link, acting, stepOf, sim>>
        /\ slot' \in [Slot -> SlotRec] /\ event' \in BOOLEAN
    BY <1>23, FanRead
  <2> QED
    BY <2>1 DEF Typed
<1>20. CASE UNCHANGED vars
  BY <1>20 DEF vars, Typed
<1> QED
  BY <1>1, <1>2, <1>3, <1>4, <1>5, <1>6, <1>7, <1>8, <1>9, <1>10, <1>11, <1>12, <1>13, <1>14, <1>15, <1>16, <1>17,
     <1>18, <1>19, <1>20, <1>21, <1>22, <1>23
  DEF Next, TickLoop, Sent, Control, Agent

-----------------------------------------------------------------------------
(* A slot and its connection                                                *)

\* Slots and connections that are not touched keep their episode.
LEMMA SameOwners ==
  ASSUME Typed, Tokens, Owned, KeepsSlots, UNCHANGED <<batch, issued, dialed>>,
         \A c \in Conn : (InUse(c)' <=> InUse(c)) /\ conn'[c].claim = conn[c].claim
  PROVE  Tokens' /\ Owned'
<1>1. Tokens'
  <2>1. \A s \in Slot : slot'[s].used = slot[s].used /\ slot'[s].claimed = slot[s].claimed
    BY DEF KeepsSlots
  <2> QED
    BY <2>1 DEF Tokens, Typed, Token
<1>2. Owned'
  BY DEF Owned, KeepsSlots
<1> QED
  BY <1>1, <1>2

\* No connection outlives its episode, whatever the interleaving of resets, claims,
\* results, joins, failures and disconnections.
LEMMA OwnedStep == OwnInv /\ [Next]_vars => Tokens' /\ Owned'
<1> SUFFICES ASSUME OwnInv, [Next]_vars PROVE Tokens' /\ Owned'
  OBVIOUS
<1>0. Typed /\ Tokens /\ Owned /\ Queued /\ Rounds
  BY DEF OwnInv
<1> USE <1>0
<1>1. CASE UNCHANGED <<slot, conn, batch, issued, dialed>>
  BY <1>1, SameOwners DEF KeepsSlots, InUse
<1>2. ASSUME NEW l \in Link, ResetDone(l) PROVE Tokens' /\ Owned'
  <2>1. /\ slot' = [s \in Slot |-> IF s = 1 THEN Claimed ELSE Free] /\ batch' = batch + 1
        /\ issued' = issued \cup {<<batch', 1>>} /\ UNCHANGED <<dialed, conn>> /\ batch \in Nat
    BY <1>2 DEF ResetDone, Typed
  <2>2. Claimed.used /\ ~Free.claimed /\ \A s \in Slot : slot'[s].ws = None
    BY <2>1 DEF Claimed, Free
  <2>3. ASSUME NEW k \in issued' PROVE k[1] <= batch' /\ (k[1] = batch' => slot'[k[2]].used)
    <3>1. CASE k = <<batch', 1>>
      BY <2>1, <2>2, <3>1, NumEnvsAssumption DEF Slot
    <3>2. CASE k \in issued
      BY <2>1, <3>2 DEF Tokens, Typed, Token
    <3> QED
      BY <2>1, <3>1, <3>2
  <2>4. Tokens'
    BY <2>1, <2>2, <2>3 DEF Tokens
  <2>5. \A c \in Conn : InUse(c) => conn[c].claim[1] # batch'
    <3>1. \A c \in Conn : InUse(c) => conn[c].claim \in issued /\ conn[c].claim[1] <= batch
      BY DEF Owned, Typed, Tokens
    <3> QED
      BY <2>1, <3>1 DEF Typed, Token
  <2>6. Owned'
    BY <2>1, <2>2, <2>5, NamesAssumption DEF Owned, InUse
  <2> QED
    BY <2>4, <2>6
<1>3. ASSUME NEW l \in Link, ClaimSlot(l) PROVE Tokens' /\ Owned'
  <2> DEFINE m == Min(Reclaimable)
  <2>1. m \in Slot /\ ~slot[m].claimed /\ ~slot[m].used
    BY <1>3, FirstFree DEF ClaimSlot, Reclaimable
  <2>2. /\ slot' = [slot EXCEPT ![m] = Claimed] /\ issued' = issued \cup {<<batch, m>>}
        /\ UNCHANGED <<batch, dialed, conn>>
    BY <1>3 DEF ClaimSlot
  <2> HIDE DEF m
  <2>3. /\ slot'[m].claimed /\ slot'[m].used /\ slot'[m].ws = None
        /\ \A s \in Slot \ {m} : slot'[s] = slot[s]
    BY <2>1, <2>2 DEF Typed, Claimed, Free
  <2>4. ASSUME NEW k \in issued' PROVE k[1] <= batch /\ (k[1] = batch => slot'[k[2]].used)
    <3>1. CASE k = <<batch, m>>
      BY <2>3, <3>1 DEF Typed
    <3>2. CASE k \in issued
      BY <2>3, <3>2 DEF Tokens, Typed, Token
    <3> QED
      BY <2>2, <3>1, <3>2
  <2>5. Tokens'
    BY <2>2, <2>3, <2>4 DEF Tokens
  <2>6. \A c \in Conn : InUse(c) => conn[c].claim # <<batch, m>>
    BY <2>1 DEF Owned, Tokens, Typed
  <2>7. Owned'
    BY <2>1, <2>2, <2>3, <2>6, NamesAssumption DEF Owned, InUse
  <2> QED
    BY <2>5, <2>7
<1>4. ASSUME NEW l \in Link, ResultDone(l) PROVE Tokens' /\ Owned'
  <2>1. UNCHANGED <<batch, issued, dialed, conn>>
    BY <1>4 DEF ResultDone
  <2> DEFINE k == link[l].claim
  <2>2. CASE slot' = slot
    BY <2>1, <2>2, SameOwners DEF KeepsSlots, InUse
  <2>3. CASE slot' # slot
    <3>1. slot' = [slot EXCEPT ![k[2]] = [Free EXCEPT !.used = TRUE]] /\ k \in issued
      BY <1>4, <2>3 DEF ResultDone, Release, Queued
    <3>2. k[2] \in Slot
      BY <3>1 DEF Typed, Token
    <3>3. /\ slot'[k[2]].used /\ ~slot'[k[2]].claimed /\ slot'[k[2]].ws = None
          /\ \A s \in Slot \ {k[2]} : slot'[s] = slot[s]
      BY <3>1, <3>2 DEF Typed, Free
    <3>4. Tokens'
      BY <2>1, <3>2, <3>3 DEF Tokens, Typed, Token
    <3>5. Owned'
      BY <2>1, <3>2, <3>3, NamesAssumption DEF Owned, InUse
    <3> QED
      BY <3>4, <3>5
  <2> QED
    BY <2>2, <2>3
<1>5. ASSUME NEW c \in Conn, Join(c) PROVE Tokens' /\ Owned'
  <2>1. /\ conn[c].at = "new" /\ UNCHANGED <<batch, issued>> /\ \A d \in Conn \ {c} : conn'[d] = conn[d]
    BY <1>5, Joined DEF OwnInv
  <2>2. PICK k \in issued :
          /\ dialed' = dialed \cup {k}
          /\ \/ conn'[c].at = "closed" /\ UNCHANGED <<slot, simq>>
             \/ /\ k = <<batch, k[2]>> /\ k[2] \in Slot
                /\ slot[k[2]].claimed /\ slot[k[2]].ws = None
                /\ conn'[c].at = "joining" /\ conn'[c].claim = k
                /\ slot'[k[2]].claimed /\ slot'[k[2]].used = slot[k[2]].used /\ slot'[k[2]].ws = c
                /\ \A s \in Slot \ {k[2]} : slot'[s] = slot[s]
    BY <1>5, Joined DEF OwnInv
  <2>3. Tokens'
    BY <2>1, <2>2 DEF Tokens, Typed, Token
  <2>4. \A s \in Slot : slot[s].ws # c
    BY <2>1 DEF Owned, InUse
  <2>5. CASE conn'[c].at = "closed" /\ slot' = slot
    <3>1. \A d \in Conn : (InUse(d)' <=> d # c /\ InUse(d)) /\ (d # c => conn'[d].claim = conn[d].claim)
      BY <2>1, <2>5 DEF InUse
    <3>2. dialed \subseteq dialed' /\ slot' = slot /\ batch' = batch
      BY <2>1, <2>2, <2>5
    <3> QED
      BY <2>3, <2>4, <3>1, <3>2 DEF Owned
  <2>6. CASE ~(conn'[c].at = "closed" /\ slot' = slot)
    <3> DEFINE s == k[2]
    <3>1. /\ k = <<batch, s>> /\ s \in Slot /\ slot[s].claimed /\ slot[s].ws = None
          /\ conn'[c].at = "joining" /\ conn'[c].claim = <<batch, s>>
          /\ slot'[s].claimed /\ slot'[s].ws = c
          /\ \A u \in Slot \ {s} : slot'[u] = slot[u]
      BY <2>2, <2>6
    <3> HIDE DEF s
    <3>2. \A d \in Conn : ~(InUse(d) /\ conn[d].claim = <<batch, s>>)
      BY <3>1, NamesAssumption DEF Owned
    <3>3. \A d \in Conn : InUse(d)' => conn'[d].claim \in dialed'
      BY <2>1, <2>2, <3>1 DEF Owned, InUse
    <3>4. ASSUME NEW d \in Conn, NEW u \in Slot
          PROVE  slot'[u].ws = d <=> InUse(d)' /\ conn'[d].claim = <<batch', u>> /\ slot'[u].claimed
      <4>1. CASE d = c
        BY <2>1, <2>4, <3>1, <4>1 DEF InUse
      <4>2. CASE d # c
        BY <2>1, <3>1, <3>2, <4>2 DEF InUse, Owned
      <4> QED
        BY <4>1, <4>2
    <3> QED
      BY <2>3, <3>3, <3>4 DEF Owned
  <2> QED
    BY <2>3, <2>5, <2>6
<1>6. ASSUME NEW c \in Conn, FirstObservation(c) \/ Greeted(c) PROVE Tokens' /\ Owned'
  <2>1. /\ KeepsSlots /\ UNCHANGED <<batch, issued, dialed>>
        /\ InUse(c) /\ InUse(c)' /\ conn'[c].claim = conn[c].claim
        /\ \A d \in Conn \ {c} : conn'[d] = conn[d]
    <3>1. CASE FirstObservation(c)
      BY <3>1, Observed DEF InUse
    <3>2. CASE Greeted(c)
      BY <3>2, Welcomed DEF InUse
    <3> QED
      BY <1>6, <3>1, <3>2
  <2> QED
    BY <2>1, SameOwners DEF InUse
<1>7. ASSUME NEW c \in Conn, Act(c) PROVE Tokens' /\ Owned'
  <2>1. KeepsSlots /\ KeepsConns /\ UNCHANGED <<batch, issued, dialed>>
    BY <1>7, Answered
  <2> QED
    BY <2>1, SameOwners DEF InUse, KeepsConns, SameConn
<1>8. ASSUME NEW c \in Conn, HangUp(c) PROVE Tokens' /\ Owned'
  <2>1. /\ UNCHANGED <<slot, batch, issued, dialed>>
        /\ \A d \in Conn : conn'[d].at = conn[d].at /\ conn'[d].claim = conn[d].claim
    BY <1>8 DEF HangUp, slots, Typed
  <2> QED
    BY <2>1, SameOwners DEF InUse, KeepsSlots
<1>9. ASSUME NEW c \in Conn, HandlerEnds(c) PROVE Tokens' /\ Owned'
  <2>1. /\ conn[c].at = "open" /\ conn'[c].at = "closed" /\ UNCHANGED <<batch, issued, dialed>>
        /\ \A d \in Conn \ {c} : conn'[d] = conn[d]
    BY <1>9 DEF HandlerEnds, Shut, New, Typed
  <2>2. \/ slot' = slot /\ ~(Current(c) /\ slot[Own(c)].ws = c)
        \/ slot' = [slot EXCEPT ![Own(c)] = Dropped(Own(c))] /\ slot[Own(c)].ws = c
    BY <1>9 DEF HandlerEnds
  <2>3. Own(c) \in Slot /\ conn[c].claim = <<conn[c].claim[1], Own(c)>>
    BY <2>1 DEF Own, Typed, Owned, InUse, Token
  <2>4. ASSUME NEW s \in Slot
        PROVE  /\ slot'[s].claimed = slot[s].claimed /\ slot'[s].used = slot[s].used
               /\ slot'[s].ws = IF slot[s].ws = c THEN None ELSE slot[s].ws
    <3>1. slot[s].ws = c => s = Own(c) /\ Current(c)
      BY <2>3 DEF Owned, Current
    <3>2. CASE slot'[s] = slot[s] /\ slot[s].ws # c
      BY <3>2
    <3>3. CASE slot'[s] = Dropped(s) /\ slot[s].ws = c
      BY <3>3 DEF Dropped, Typed, SlotRec
    <3> QED
      BY <2>2, <2>3, <3>1, <3>2, <3>3 DEF Typed
  <2>5. Tokens'
    BY <2>1, <2>4 DEF Tokens, Typed, Token
  <2>6. Owned'
    BY <2>1, <2>4, NamesAssumption DEF Owned, InUse
  <2> QED
    BY <2>5, <2>6
<1>10. CASE Wake \/ AllTold
  <2>1. Round /\ UNCHANGED <<batch, issued, dialed, conn>>
    BY <1>10 DEF Wake, AllTold
  <2> QED
    BY <2>1, RoundTaken, SameOwners DEF InUse
<1>11. CASE Tell
  <2>1. /\ KeepsSlots /\ UNCHANGED <<batch, issued, dialed>>
        /\ \A c \in Conn : conn'[c].at = conn[c].at /\ conn'[c].claim = conn[c].claim
    BY <1>11, TellTaken
  <2> QED
    BY <2>1, SameOwners DEF InUse
<1>12. CASE Told
  <2>1. /\ UNCHANGED <<slot, batch, issued, dialed>>
        /\ \A c \in Conn : conn'[c].at = conn[c].at /\ conn'[c].claim = conn[c].claim
    BY <1>12, ToldTaken DEF slots
  <2> QED
    BY <2>1, SameOwners DEF InUse, KeepsSlots
<1>13. CASE FanOut \/ FanSent
  <2>1. KeepsSlots /\ UNCHANGED <<batch, issued, dialed>> /\ (KeepsConns \/ conn' = conn)
    BY <1>13, Fanned, FanRead
  <2> QED
    BY <2>1, SameOwners DEF InUse, KeepsConns, SameConn
<1>14. CASE SimRuns \/ StepDone \/ SimRaises \/ AllFailed \/ AllSent
  BY <1>1, <1>14 DEF SimRuns, StepDone, SimRaises, AllFailed, AllSent, slots
<1>15. ASSUME NEW l \in Link, GlobalReset(l) \/ ControlFails(l) PROVE Tokens' /\ Owned'
  BY <1>1, <1>15 DEF GlobalReset, ControlFails, slots
<1>16. ASSUME NEW l \in Link, NEW k \in issued, Result(l, k) PROVE Tokens' /\ Owned'
  BY <1>1, <1>16 DEF Result, slots
<1>17. CASE UNCHANGED vars
  BY <1>1, <1>17 DEF vars, slots
<1> QED
  BY <1>2, <1>3, <1>4, <1>5, <1>6, <1>7, <1>8, <1>9, <1>10, <1>11, <1>12, <1>13, <1>14, <1>15, <1>16, <1>17
  DEF Next, TickLoop, Sent, Control, Agent

\* Who waits for the simulation thread is in the phase that waits, and the slots of
\* a round keep their tokens.
LEMMA QueuedStep == OwnInv /\ [Next]_vars => Queued' /\ Rounds'
<1> SUFFICES ASSUME OwnInv, [Next]_vars PROVE Queued' /\ Rounds'
  OBVIOUS
<1>0. Typed /\ Tokens /\ Owned /\ Queued /\ Rounds
  BY DEF OwnInv
<1>q. \A r \in Requester : ToSet(Append(simq, r)) = ToSet(simq) \cup {r}
  BY <1>0, Queues DEF Typed
<1>n. Conn \subseteq Requester /\ Link \subseteq Requester /\ Tick \in Requester
  BY DEF Requester
<1> USE <1>0
\* Nothing but the tick loop touches its round, and a batch never comes back.
<1>r. ASSUME UNCHANGED loop, dialed \subseteq dialed', batch' \in Nat, batch' >= batch PROVE Rounds'
  BY <1>r DEF Rounds, Typed, loop
<1>1. CASE UNCHANGED <<conn, link, loop, issued, batch, dialed>> /\ ToSet(simq') \subseteq ToSet(simq)
  BY <1>1, <1>r DEF Queued, loop, Typed
<1>2. CASE SimRuns
  <2>1. simq # <<>> /\ simq' = Tail(simq)
    BY <1>2 DEF SimRuns
  <2>2. ToSet(simq') \subseteq ToSet(simq)
    BY <2>1, Served DEF Typed
  <2> QED
    BY <1>1, <1>2, <2>2 DEF SimRuns, slots
<1>3. ASSUME NEW l \in Link, GlobalReset(l) \/ (\E k \in issued : Result(l, k)) PROVE Queued' /\ Rounds'
  <2>1. /\ simq' = Append(simq, l) /\ l \in Requester /\ l \notin Conn /\ l # Tick
        /\ UNCHANGED <<conn, loop, issued, batch, dialed>>
    BY <1>3, <1>n, NamesAssumption DEF GlobalReset, Result, OnSim, slots
  <2>2. \A m \in Link : link'[m].at = "scoring" => link'[m].claim \in issued
    <3>1. \/ link' = [link EXCEPT ![l].at = "resetting"]
          \/ \E k \in issued : link' = [link EXCEPT ![l] = [at |-> "scoring", claim |-> k]]
      BY <1>3 DEF GlobalReset, Result
    <3> QED
      BY <3>1 DEF Queued, Typed
  <2> QED
    BY <1>q, <1>r, <2>1, <2>2 DEF Queued, loop, Typed
<1>4. ASSUME NEW l \in Link, ResetDone(l) \/ ClaimSlot(l) \/ ResultDone(l) \/ ControlFails(l) PROVE Queued' /\ Rounds'
  <2>1. /\ UNCHANGED <<conn, loop, simq, dialed>> /\ issued \subseteq issued'
        /\ batch' \in Nat /\ batch' >= batch
    BY <1>4 DEF ResetDone, ClaimSlot, ResultDone, ControlFails, slots, sim, Typed
  <2>2. \A m \in Link : link'[m] = link[m] \/ link'[m].at = "idle"
    BY <1>4 DEF ResetDone, ClaimSlot, ResultDone, ControlFails, Typed
  <2>3. Queued'
    BY <2>1, <2>2 DEF Queued, loop
  <2> QED
    BY <1>r, <2>1, <2>3
<1>5. ASSUME NEW c \in Conn, Join(c) PROVE Queued' /\ Rounds'
  <2>1. /\ UNCHANGED <<batch, issued, link, loop>> /\ dialed \subseteq dialed'
        /\ conn[c].at = "new" /\ \A d \in Conn \ {c} : conn'[d] = conn[d]
        /\ simq' = simq \/ (simq' = Append(simq, c) /\ conn'[c].at = "joining")
    BY <1>5, Joined
  <2>2. c \in Requester /\ c # Tick
    BY <1>n, NamesAssumption
  <2>3. Queued'
    BY <1>q, <2>1, <2>2 DEF Queued, loop
  <2> QED
    BY <1>r, <2>1, <2>3 DEF Typed
<1>6. ASSUME NEW c \in Conn, FirstObservation(c) \/ Greeted(c) PROVE Queued' /\ Rounds'
  <2>1. /\ UNCHANGED <<batch, issued, dialed, link, loop, simq>> /\ c \notin ToSet(simq)
        /\ \A d \in Conn \ {c} : conn'[d] = conn[d]
    <3>1. CASE FirstObservation(c)
      BY <3>1, Observed
    <3>2. CASE Greeted(c)
      BY <3>2, Welcomed DEF Queued, sim
    <3> QED
      BY <1>6, <3>1, <3>2
  <2>2. Queued'
    BY <2>1 DEF Queued, loop
  <2> QED
    BY <1>r, <2>1, <2>2 DEF Typed
<1>7. ASSUME NEW c \in Conn, Act(c) \/ HangUp(c) \/ HandlerEnds(c) PROVE Queued' /\ Rounds'
  <2>1. /\ UNCHANGED <<batch, issued, dialed, link, loop, sim>>
        /\ conn[c].at = "joining" => conn'[c].at = "joining"
        /\ \A d \in Conn \ {c} : conn'[d] = conn[d]
    <3>1. /\ UNCHANGED <<batch, issued, dialed, link, loop, sim>>
          /\ conn[c].at = "open" \/ conn' = [conn EXCEPT ![c].gone = TRUE]
          /\ \A d \in Conn \ {c} : conn'[d] = conn[d]
      BY <1>7 DEF Act, HangUp, HandlerEnds, slots, Typed
    <3> QED
      BY <3>1 DEF Typed, ConnRec
  <2>2. Queued'
    BY <2>1 DEF Queued, loop, sim
  <2> QED
    BY <1>r, <2>1, <2>2 DEF Typed
<1>8. CASE Wake \/ AllTold
  <2>1. Round /\ UNCHANGED <<batch, issued, dialed, conn, link>> /\ tick \in {"wait", "gather", "tell"}
    BY <1>8 DEF Wake, AllTold, TimedOut
  <2>2. /\ \/ tick' \in {"wait", "gather"} /\ simq' = simq
           \/ tick' = "stepping" /\ simq' = Append(simq, Tick)
        /\ (acting' = {} /\ stepOf' = 0) \/ (stepOf' = batch /\ ~Dialing)
        /\ acting' \subseteq Slot /\ \A s \in acting' : slot[s].claimed /\ ~slot[s].idle
    BY <2>1, RoundTaken
  <2>3. Queued'
    BY <1>q, <1>n, <2>1, <2>2, NamesAssumption DEF Queued
  <2>4. ASSUME NEW s \in acting' PROVE <<batch, s>> \in dialed
    <3>1. s \in Slot /\ slot[s].ws # None
      BY <2>2, <2>4 DEF Dialing
    <3>2. slot[s].ws \in Conn
      BY <3>1 DEF Typed, SlotRec
    <3> QED
      BY <3>1, <3>2 DEF Owned
  <2>5. Rounds'
    BY <2>1, <2>2, <2>4 DEF Rounds, Typed
  <2> QED
    BY <2>3, <2>5
<1>9. CASE Tell
  <2>1. /\ UNCHANGED <<batch, issued, dialed, link, stepOf, sim>> /\ tick \in {"tell", "gather", "fail"}
        /\ tick' \in IF tick = "fail" THEN {"fail", "failing"} ELSE {"tell", "telling"}
        /\ acting' \subseteq acting /\ \A c \in Conn : conn'[c].at = conn[c].at
    BY <1>9, TellTaken
  <2>2. Queued'
    BY <2>1 DEF Queued, sim
  <2>3. Rounds'
    BY <2>1 DEF Rounds
  <2> QED
    BY <2>2, <2>3
<1>10. CASE StepDone \/ SimRaises
  <2>1. /\ UNCHANGED <<batch, issued, dialed, conn, link>> /\ Tick \notin ToSet(simq)
        /\ \/ /\ tick = "stepping" /\ tick' = "reading" /\ simq' = Append(simq, Tick)
              /\ UNCHANGED <<acting, stepOf, to>>
           \/ tick' = "fail" /\ simq' = simq /\ stepOf' = batch
    BY <1>10 DEF StepDone, SimRaises, OnSim, Done, slots, sim
  <2>2. Queued'
    BY <1>q, <1>n, <2>1, NamesAssumption DEF Queued
  <2>3. Rounds'
    BY <2>1 DEF Rounds, Typed
  <2> QED
    BY <2>2, <2>3
<1>11. CASE FanOut
  <2>1. /\ tick \in {"reading", "fan"} /\ Tick \notin ToSet(simq)
        /\ UNCHANGED <<batch, issued, dialed, link, stepOf, sim>>
        /\ KeepsConns /\ tick' \in {"fan", "sending", "ending"} /\ stepOf = batch
    BY <1>11, Fanned
  <2>2. PICK s \in acting : acting' \subseteq acting \ {s} /\ (tick' # "fan" => to'.slot = s)
    BY <1>11, Fanned
  <2>3. Queued'
    BY <2>1 DEF Queued, KeepsConns, SameConn, sim
  <2>4. Rounds'
    BY <2>1, <2>2 DEF Rounds
  <2> QED
    BY <2>3, <2>4
<1>13. CASE Told \/ FanSent
  <2>1. /\ UNCHANGED <<batch, issued, dialed, link, acting, stepOf, sim>>
        /\ \A c \in Conn : conn'[c].at = conn[c].at
        /\ \/ tick = "telling" /\ tick' = "tell"
           \/ tick = "failing" /\ tick' = "fail"
           \/ tick \in {"sending", "ending"} /\ tick' = "fan"
    BY <1>13, ToldTaken, FanRead DEF slots
  <2>2. Queued'
    BY <2>1 DEF Queued, sim
  <2>3. Rounds'
    BY <2>1 DEF Rounds
  <2> QED
    BY <2>2, <2>3
<1>14. CASE AllFailed \/ AllSent
  <2>1. /\ UNCHANGED <<batch, issued, dialed, conn, link, sim>> /\ Rest /\ Tick \notin ToSet(simq)
    BY <1>14 DEF AllFailed, AllSent, Read, Done, slots, Queued
  <2>2. Queued' /\ Rounds'
    BY <2>1 DEF Queued, Rounds, Rest, sim, Typed
  <2> QED
    BY <2>2
<1>12. CASE UNCHANGED vars
  BY <1>1, <1>12 DEF vars, slots, sim
<1> QED
  BY <1>2, <1>3, <1>4, <1>5, <1>6, <1>7, <1>8, <1>9, <1>10, <1>11, <1>12, <1>13, <1>14
  DEF Next, TickLoop, Sent, Control, Agent

\* Every step keeps the tokens, the slots and who waits for the simulator.
LEMMA OwnStep == OwnInv /\ [Next]_vars => OwnInv'
  BY TypedStep, OwnedStep, QueuedStep DEF OwnInv

-----------------------------------------------------------------------------
(* Who has seen what                                                        *)

\* A slot and connection that no step touches stay timely, if the simulator stands
\* still, the queue only grows and no round begins.
LEMMA Untouched ==
  ASSUME NEW s \in Slot, NEW c \in Conn, TimelyAt(s, c),
         slot'[s] = slot[s], conn'[c] = conn[c], steps' = steps,
         shot'[c] = shot[c], shot'[Tick] = shot[Tick],
         Stepping' => Stepping, InRound(s)' => InRound(s), EndingAt(s)' => EndingAt(s),
         BeingTold(s, c) => BeingTold(s, c)',
         c \in ToSet(simq) => c \in ToSet(simq'),
         Before(simq, Tick, c) => Before(simq', Tick, c),
         tick' # "stepping" /\ Tick \notin ToSet(simq') => tick # "stepping" /\ Tick \notin ToSet(simq)
  PROVE  TimelyAt(s, c)'
  BY DEF TimelyAt, Fresh, Acted, Shown, Joining, Stepped, Over

\* The same when the whole loop and simulator stand still.
LEMMA Still ==
  ASSUME NEW s \in Slot, NEW c \in Conn, TimelyAt(s, c), slot'[s] = slot[s], conn'[c] = conn[c],
         UNCHANGED <<batch, loop, simq, shot, steps>>
  PROVE  TimelyAt(s, c)'
  BY Untouched DEF Stepping, InRound, EndingAt, BeingTold, loop

\* The simulation thread serves whoever waits first.
LEMMA TimelyServed ==
  ASSUME BridgeInv, SimRuns, NEW s \in Slot, NEW c \in Conn PROVE TimelyAt(s, c)'
<1>1. Typed /\ TimelyAt(s, c) /\ ResetFirst
  BY DEF BridgeInv, OwnInv, Timely
<1> DEFINE r == Head(simq)
<1>2. /\ simq # <<>> /\ simq' = Tail(simq) /\ UNCHANGED <<slot, batch, conn, link, tick, acting, stepOf, to>>
  BY DEF SimRuns, slots, loop
<1>3. \/ r = Tick /\ tick = "stepping" /\ shot' = shot
      \/ /\ r \in Conn \/ (r = Tick /\ tick = "reading")
         /\ shot' = [shot EXCEPT ![r] = steps] /\ steps' = steps
      \/ r \in Link /\ link[r].at = "resetting" /\ shot' = shot
      \/ r \in Link /\ link[r].at = "scoring" /\ UNCHANGED <<shot, steps>>
  BY DEF SimRuns
<1>4. /\ r \in Requester /\ ToSet(simq) = ToSet(simq') \cup {r}
      /\ \A x, y : Before(simq, x, y) => Before(simq', x, y)
      /\ \A x : Before(simq, x, r) => x \notin ToSet(simq)
  BY <1>1, <1>2, Served DEF Typed
<1>5. InRound(s)' = InRound(s) /\ (Stepping' => Stepping) /\ c # Tick /\ Fresh(s, c)' = Fresh(s, c)
      /\ BeingTold(s, c)' = BeingTold(s, c) /\ (Over(s, c) => Over(s, c)')
  BY <1>2, <1>4, NamesAssumption DEF InRound, Stepping, Fresh, BeingTold, EndingAt, Over
<1> HIDE DEF r
<1> USE <1>1, <1>2, <1>4, <1>5, NamesAssumption DEF TimelyAt
<1>6. CASE r = Tick /\ tick = "stepping" /\ shot' = shot
  BY <1>6 DEF Stepping, Fresh, Acted, Shown, Joining, Stepped
<1>7. CASE r \in Conn /\ shot' = [shot EXCEPT ![r] = steps] /\ steps' = steps
  <2>1. shot'[Tick] = shot[Tick] /\ shot'[r] = steps /\ (c # r => shot'[c] = shot[c])
    BY <1>7 DEF Typed
  <2>2. c = r => ~(Before(simq, Tick, c) /\ Stepping)
    BY DEF Stepping
  <2>3. Acted(s, c) => Acted(s, c)'
    BY <1>7 DEF Acted
  <2>4. Shown(s, c) => Shown(s, c)'
    BY <1>7 DEF Shown
  <2>5. Joining(s, c) => Joining(s, c)'
    BY <1>7, <2>1, <2>2 DEF Joining
  <2>6. Stepped(s, c) => Stepped(s, c)'
    BY <1>7, <2>1 DEF Stepped
  <2> QED
    BY <2>3, <2>4, <2>5, <2>6
<1>8. CASE r = Tick /\ tick = "reading" /\ shot' = [shot EXCEPT ![r] = steps] /\ steps' = steps
  <2>1. shot'[Tick] = steps /\ shot'[c] = shot[c]
    BY <1>8 DEF Typed
  <2> QED
    BY <1>8, <2>1 DEF Stepping, Acted, Shown, Joining, Stepped
<1>9. CASE r \in Link /\ link[r].at = "resetting" /\ shot' = shot
  <2>1. Fresh(s, c) => conn[c].at = "joining" /\ c \in ToSet(simq')
    BY <1>9 DEF ResetFirst, Fresh
  <2> QED
    BY <2>1 DEF Acted, Shown, Joining, Stepped
<1>10. CASE r \in Link /\ UNCHANGED <<shot, steps>>
  BY <1>10 DEF Acted, Shown, Joining, Stepped
<1> QED
  BY <1>3, <1>6, <1>7, <1>8, <1>9, <1>10

\* A round steps only what every live agent has answered.
LEMMA TimelyRound ==
  ASSUME BridgeInv, Round, tick \in {"wait", "gather", "tell"},
         UNCHANGED <<batch, conn, shot, steps>>, NEW s \in Slot, NEW c \in Conn
  PROVE  TimelyAt(s, c)'
<1>1. Typed /\ TimelyAt(s, c) /\ Owned
  BY DEF BridgeInv, OwnInv, Timely
<1>2. /\ KeepsSlots /\ slot'[s].idle = slot[s].idle
      /\ \/ tick' \in {"wait", "gather"} /\ slot' = slot /\ simq' = simq
         \/ /\ tick' = "stepping" /\ simq' = Append(simq, Tick) /\ ~slot'[s].action
            /\ slot[s].claimed /\ ~slot[s].idle => slot[s].action
      /\ s \in acting' => slot[s].claimed /\ ~slot[s].idle
  BY <1>1, RoundTaken
<1>3. Fresh(s, c)' = Fresh(s, c) /\ (Fresh(s, c) => slot[s].claimed)
  BY <1>1, <1>2 DEF Fresh, KeepsSlots, Owned
<1>t. ~BeingTold(s, c) /\ ~EndingAt(s)'
  <2>1. tick' # "ending"
    BY <1>2
  <2> QED
    BY <2>1 DEF BeingTold, EndingAt
<1>4. CASE tick' \in {"wait", "gather"} /\ slot' = slot /\ simq' = simq
  <2>1. ~InRound(s)' /\ ~Stepping'
    BY <1>4 DEF InRound, Stepping
  <2> QED
    BY <1>1, <1>t, <1>3, <1>4, <2>1 DEF TimelyAt, Acted, Shown, Joining, Stepped, Over
<1>5. CASE tick' = "stepping" /\ ~slot'[s].action /\ (slot[s].claimed /\ ~slot[s].idle => slot[s].action)
  <2>1. Fresh(s, c) => \/ conn[c].gone
                       \/ /\ ~(conn[c].at \in {"greeting", "open"} /\ conn[c].turn = "act")
                          /\ conn[c].at # "joining"
    BY <1>1, <1>t, <1>3, <1>5 DEF TimelyAt, Acted, Shown, Joining
  <2>2. Fresh(s, c) /\ s \in acting' => conn[c].at = "open" /\ conn[c].turn = "obs" /\ ~slot[s].idle
    BY <1>1, <1>2, <1>3, <1>5 DEF TimelyAt, Acted
  <2> QED
    BY <1>1, <1>t, <1>2, <1>3, <1>5, <2>1, <2>2 DEF TimelyAt, Acted, Shown, Joining, Stepped, Over, InRound
<1> QED
  BY <1>2, <1>4, <1>5

\* The tick loop shows each slot of its round what it has read after the step.
LEMMA TimelyFan == ASSUME BridgeInv, FanOut, NEW s \in Slot, NEW c \in Conn PROVE TimelyAt(s, c)'
<1>1. Typed /\ TimelyAt(s, c) /\ Owned /\ OwnInv
  BY DEF BridgeInv, OwnInv, Timely
<1>2. /\ tick \in {"reading", "fan"} /\ Tick \notin ToSet(simq)
      /\ UNCHANGED <<batch, issued, dialed, link, stepOf, sim>> /\ KeepsSlots /\ KeepsConns
      /\ tick' \in {"fan", "sending", "ending"} /\ stepOf = batch
  BY <1>1, Fanned
<1>3. PICK u \in acting, d \in Conn :
              /\ acting' \subseteq acting \ {u} /\ slot[u].ws = d
              /\ \A v \in Slot \ {u} : slot'[v] = slot[v]
              /\ \A x \in Conn \ {d} : conn'[x] = conn[x]
              /\ conn'[d].seen = shot[Tick]
              /\ tick' # "fan" => to'.slot = u
              /\ \/ conn'[d].turn = "act" /\ slot'[u] = slot[u] /\ tick' # "ending"
                 \/ conn'[d].turn = "over" /\ slot'[u] = slot[u] /\ tick' = "ending"
                 \/ conn'[d].turn = "over" /\ slot'[u].idle /\ ~slot'[u].action /\ tick' = "fan"
  BY <1>1, Fanned
<1>4. u \in Slot /\ UNCHANGED <<simq, shot, steps, stepOf, batch>>
  BY <1>1, <1>2 DEF Typed, sim
<1>5. ~Stepping /\ ~Stepping' /\ ~BeingTold(s, c) /\ ~BeingTold(s, c)' /\ ~EndingAt(s)
  BY <1>2 DEF Stepping, BeingTold, EndingAt
<1>6. InRound(s)' => InRound(s) /\ s # u
  BY <1>2, <1>3, <1>4 DEF InRound
<1>7. Fresh(s, c)' => Fresh(s, c) /\ (s # u => d # c) /\ (s = u => d = c)
  BY <1>1, <1>2, <1>3, <1>4 DEF Fresh, KeepsSlots, KeepsConns, SameConn, Owned
<1>8. CASE s # u /\ c # d
  <2>1. slot'[s] = slot[s] /\ conn'[c] = conn[c]
    BY <1>3, <1>8
  <2>2. ~EndingAt(s)' /\ tick' # "stepping" /\ tick # "stepping"
    BY <1>2, <1>3, <1>8 DEF EndingAt
  <2> QED
    BY <1>1, <1>4, <1>5, <1>6, <2>1, <2>2, Untouched
<1>9. CASE s = u /\ c = d /\ Fresh(s, c)
  <2>1. InRound(s)
    BY <1>2, <1>3, <1>9 DEF InRound
  <2>2. /\ conn'[c].at = "open" /\ ~slot[s].action /\ ~slot[s].idle /\ shot[Tick] = steps /\ ~InRound(s)'
        /\ conn'[c].gone = conn[c].gone
    BY <1>1, <1>2, <1>4, <1>6, <1>9, <2>1 DEF TimelyAt, Stepped, KeepsConns, SameConn
  <2>3. /\ conn'[c].seen = steps'
        /\ \/ conn'[c].turn = "act" /\ slot'[s] = slot[s] /\ tick' # "ending"
           \/ conn'[c].turn = "over" /\ slot'[s] = slot[s]
           \/ conn'[c].turn = "over" /\ slot'[s].idle /\ ~slot'[s].action
    BY <1>3, <1>4, <1>9, <2>2
  <2>4. Over(s, c)'
    <3>1. tick' = "ending" => conn'[c].turn = "over"
      BY <1>3, <1>9
    <3> QED
      BY <2>2, <3>1 DEF Over, EndingAt
  <2>5. Acted(s, c)' /\ Shown(s, c)' /\ Joining(s, c)' /\ Stepped(s, c)'
    BY <1>5, <2>2, <2>3 DEF Acted, Shown, Joining, Stepped
  <2> QED
    BY <2>4, <2>5 DEF TimelyAt
<1>10. CASE ~Fresh(s, c)'
  BY <1>10 DEF TimelyAt
<1> QED
  BY <1>7, <1>8, <1>9, <1>10

\* Telling some slots of a failure leaves the others as they were.
LEMMA TimelyTell == ASSUME BridgeInv, Tell, NEW s \in Slot, NEW c \in Conn PROVE TimelyAt(s, c)'
<1>1. Typed /\ TimelyAt(s, c)
  BY DEF BridgeInv, OwnInv, Timely
<1>2. /\ KeepsSlots /\ UNCHANGED <<batch, stepOf, sim>> /\ tick \in {"tell", "gather", "fail"}
      /\ tick' \in {"fail", "failing", "tell", "telling"}
      /\ conn'[c].at = conn[c].at /\ conn'[c].again = conn[c].again /\ conn'[c].turn = conn[c].turn
      /\ conn'[c].seen = conn[c].seen /\ conn'[c].gone = conn[c].gone
      /\ conn[c].failed => conn'[c].failed
  BY <1>1, TellTaken
<1>3. PICK u \in Slot :
        /\ slot'[u].action = slot[u].action
        /\ \A v \in Slot \ {u} : slot'[v] = slot[v]
        /\ \A d \in Conn : slot[u].ws = d => conn'[d].failed \/ BeingTold(u, d)'
  BY <1>1, TellTaken
<1>4. Fresh(s, c)' => Fresh(s, c) /\ (slot'[s].idle = slot[s].idle \/ BeingTold(s, c)')
  BY <1>2, <1>3 DEF Fresh, KeepsSlots
<1>5. ~Stepping' /\ ~Stepping /\ ~InRound(s)' /\ ~BeingTold(s, c) /\ ~EndingAt(s)' /\ slot'[s].action = slot[s].action
      /\ UNCHANGED <<simq, shot, steps>>
  BY <1>2, <1>3 DEF Stepping, InRound, BeingTold, EndingAt, sim
<1> QED
  BY <1>1, <1>2, <1>4, <1>5 DEF TimelyAt, Acted, Shown, Joining, Stepped, Over

\* Who was told is closed, or gone.
LEMMA TimelyTold == ASSUME BridgeInv, Told, NEW s \in Slot, NEW c \in Conn PROVE TimelyAt(s, c)'
<1>1. Typed /\ TimelyAt(s, c)
  BY DEF BridgeInv, OwnInv, Timely
<1>2. /\ UNCHANGED <<slot, batch, stepOf, simq, shot, steps>> /\ tick \in {"telling", "failing"}
      /\ tick' \in {"fail", "tell"}
      /\ conn'[c].at = conn[c].at /\ conn'[c].again = conn[c].again /\ conn'[c].turn = conn[c].turn
      /\ conn'[c].seen = conn[c].seen /\ conn'[c].gone = conn[c].gone
      /\ conn[c].failed => conn'[c].failed
      /\ BeingTold(s, c) /\ slot[s].ws = c => conn'[c].failed \/ conn[c].gone
  BY <1>1, ToldTaken DEF slots, sim
<1>3. Fresh(s, c)' => Fresh(s, c) /\ (BeingTold(s, c) => conn'[c].gone)
  BY <1>1, <1>2 DEF Fresh, Typed, ConnRec
<1>4. ~Stepping' /\ ~Stepping /\ ~InRound(s)' /\ ~EndingAt(s)'
  BY <1>2 DEF Stepping, InRound, EndingAt
<1> QED
  BY <1>1, <1>2, <1>3, <1>4 DEF TimelyAt, Acted, Shown, Joining, Stepped, Over

\* Who has read the last observation drops out.
LEMMA TimelySent == ASSUME BridgeInv, FanSent, NEW s \in Slot, NEW c \in Conn PROVE TimelyAt(s, c)'
<1>1. Typed /\ TimelyAt(s, c) /\ OwnInv /\ Queued
  BY DEF BridgeInv, OwnInv, Timely
<1>2. /\ UNCHANGED <<batch, conn, acting, stepOf, sim>> /\ tick \in {"sending", "ending"} /\ tick' = "fan" /\ KeepsSlots
      /\ slot'[s] = slot[s] \/ (EndingAt(s) /\ slot'[s].idle /\ ~slot'[s].action)
  BY <1>1, FanRead DEF EndingAt
<1>3. /\ ~Stepping' /\ ~Stepping /\ ~BeingTold(s, c) /\ ~EndingAt(s)' /\ Fresh(s, c)' = Fresh(s, c)
      /\ UNCHANGED <<simq, shot, steps>> /\ (InRound(s)' => InRound(s)) /\ Tick \notin ToSet(simq)
  BY <1>1, <1>2 DEF Stepping, BeingTold, EndingAt, Fresh, KeepsSlots, InRound, sim, Queued
<1>4. CASE slot'[s] = slot[s]
  <2>1. tick # "stepping" /\ tick' # "stepping" /\ conn'[c] = conn[c]
    BY <1>2
  <2> QED
    BY <1>1, <1>3, <1>4, <2>1, Untouched
<1>5. CASE EndingAt(s) /\ slot'[s].idle /\ ~slot'[s].action
  BY <1>1, <1>2, <1>3, <1>5 DEF TimelyAt, Acted, Shown, Joining, Stepped, Over
<1> QED
  BY <1>2, <1>4, <1>5

\* What an agent's handler does leaves the other agents' slots alone.
LEMMA TimelyAgent ==
  ASSUME BridgeInv, OwnInv', NEW d \in Conn, Agent(d), NEW s \in Slot, NEW c \in Conn
  PROVE  TimelyAt(s, c)'
<1>1. Typed /\ TimelyAt(s, c) /\ Owned /\ Queued /\ Rounds /\ OwnInv
  BY DEF BridgeInv, OwnInv, Timely
<1>2. CASE Join(d)
  <2>1. /\ conn[d].at = "new" /\ UNCHANGED <<batch, issued, link, loop, shot, steps>>
        /\ \A x \in Conn \ {d} : conn'[x] = conn[x]
    BY <1>1, <1>2, Joined
  <2>2. PICK k \in issued :
              /\ dialed' = dialed \cup {k}
              /\ \/ conn'[d].at = "closed" /\ UNCHANGED <<slot, simq>>
                 \/ /\ k = <<batch, k[2]>> /\ k[2] \in Slot
                    /\ slot[k[2]].claimed /\ slot[k[2]].ws = None
                    /\ conn'[d].at = "joining" /\ conn'[d].claim = k /\ conn'[d].again = (k \in dialed)
                    /\ simq' = Append(simq, d)
                    /\ slot'[k[2]].claimed /\ slot'[k[2]].used = slot[k[2]].used /\ slot'[k[2]].ws = d
                    /\ ~slot'[k[2]].action /\ ~slot'[k[2]].idle
                    /\ \A x \in Slot \ {k[2]} : slot'[x] = slot[x]
    BY <1>1, <1>2, Joined
  <2>3. \A x \in Slot : slot[x].ws # d
    BY <1>1, <2>1 DEF Owned, InUse
  <2>6. BeingTold(s, c)' = BeingTold(s, c) /\ EndingAt(s)' = EndingAt(s)
    BY <2>1 DEF BeingTold, EndingAt, loop
  <2>4. CASE conn'[d].at = "closed" /\ UNCHANGED <<slot, simq>>
    <3>1. CASE c = d
      BY <2>3, <2>4, <3>1 DEF TimelyAt, Fresh
    <3>2. CASE c # d
      BY <1>1, <2>1, <2>4, <3>2, Still DEF loop
    <3> QED
      BY <3>1, <3>2
  <2>5. CASE ~(conn'[d].at = "closed" /\ UNCHANGED <<slot, simq>>)
    <3> DEFINE u == k[2]
    <3>1. /\ k = <<batch, u>> /\ conn'[d].at = "joining" /\ conn'[d].again = (k \in dialed)
          /\ simq' = Append(simq, d) /\ slot'[u].ws = d /\ ~slot'[u].action /\ ~slot'[u].idle
          /\ \A x \in Slot \ {u} : slot'[x] = slot[x]
      BY <2>2, <2>5
    <3> HIDE DEF u
    <3>2. /\ ToSet(simq') = ToSet(simq) \cup {d} /\ d # Tick /\ d \notin ToSet(simq)
          /\ \A x, y : x # d /\ Before(simq, x, y) => Before(simq', x, y)
          /\ Before(simq', Tick, d)
      <4>1. d \in Requester /\ d # Tick /\ simq \in Seq(Requester) /\ d \notin ToSet(simq)
        BY <1>1, <2>1, NamesAssumption DEF Typed, Requester, Queued
      <4> QED
        BY <3>1, <4>1, Queues
    <3>3. Stepping' = Stepping /\ InRound(s)' = InRound(s)
      BY <2>1, <3>2 DEF Stepping, InRound, loop
    <3>4. CASE s # u
      <4>1. Fresh(s, c)' => c # d
        BY <2>3, <3>1, <3>4 DEF Fresh
      <4>2. CASE c # d
        BY <1>1, <2>1, <2>6, <3>1, <3>2, <3>3, <3>4, <4>2, Untouched DEF loop
      <4> QED
        BY <4>1, <4>2 DEF TimelyAt
    <3>5. CASE s = u
      <4>1. Fresh(s, c)' => c = d /\ ~InRound(s) /\ ~EndingAt(s)
        BY <1>1, <3>1, <3>5 DEF Fresh, Rounds, InRound, EndingAt
      <4> QED
        BY <2>6, <3>1, <3>2, <3>3, <3>5, <4>1 DEF TimelyAt, Acted, Shown, Joining, Stepped, Over
    <3> QED
      BY <3>4, <3>5
  <2> QED
    BY <2>4, <2>5
<1>3. CASE FirstObservation(d)
  <2>1. /\ conn[d].at = "joining" /\ d \notin ToSet(simq) /\ conn'[d].at \in {"greeting", "last", "open"}
        /\ UNCHANGED <<batch, issued, dialed, link, loop, simq, steps>>
        /\ \A x \in (Conn \cup {Tick}) \ {d} : shot'[x] = shot[x]
        /\ slot'[s].ws = slot[s].ws
        /\ conn'[d].again = conn[d].again /\ conn'[d].failed = conn[d].failed /\ conn'[d].gone = conn[d].gone
        /\ \A x \in Conn \ {d} : conn'[x] = conn[x]
        /\ slot[s].ws # d => slot'[s] = slot[s]
        /\ slot[s].ws = d =>
             /\ conn'[d].seen = shot[d]
             /\ \/ conn'[d].turn = "act" /\ slot'[s] = slot[s] /\ conn'[d].at # "last"
                \/ conn'[d].turn = "over" /\ slot'[s] = slot[s] /\ conn'[d].at = "last"
                \/ conn'[d].turn = "over" /\ slot'[s].idle /\ ~slot'[s].action
    BY <1>1, <1>3, Observed DEF KeepsSlots
  <2>2. Stepping' = Stepping /\ InRound(s)' = InRound(s) /\ shot'[Tick] = shot[Tick]
        /\ BeingTold(s, c)' = BeingTold(s, c) /\ EndingAt(s)' = EndingAt(s)
    BY <2>1, NamesAssumption DEF Stepping, InRound, BeingTold, EndingAt, loop
  <2>3. CASE slot[s].ws # c
    BY <2>1, <2>3 DEF TimelyAt, Fresh
  <2>4. CASE c # d /\ slot[s].ws = c
    BY <1>1, <2>1, <2>2, <2>4, Untouched DEF loop
  <2>5. CASE c = d /\ slot[s].ws = c
    <3>1. Fresh(s, c)' => /\ conn[c].gone \/ (shot[c] = steps /\ ~Stepping /\ (~slot[s].idle \/ BeingTold(s, c)))
                          /\ ~slot[s].action /\ ~InRound(s) /\ ~EndingAt(s)
      BY <1>1, <2>1, <2>5 DEF TimelyAt, Fresh, Joining, Acted, Stepped, Over
    <3>2. Fresh(s, c)' => Acted(s, c)' /\ Stepped(s, c)' /\ Over(s, c)' /\ Joining(s, c)'
      BY <2>1, <2>2, <2>5, <3>1 DEF Acted, Joining, Stepped, Over
    <3>3. Fresh(s, c)' => Shown(s, c)'
      BY <2>1, <2>2, <2>5, <3>1 DEF Shown
    <3> QED
      BY <3>2, <3>3 DEF TimelyAt
  <2> QED
    BY <2>3, <2>4, <2>5
<1>4. CASE Act(d)
  <2>1. /\ conn[d].at = "open" /\ conn[d].turn = "act" /\ conn'[d].turn = "obs"
        /\ UNCHANGED <<batch, issued, dialed, link, loop, sim>>
        /\ slot'[s].ws = slot[s].ws /\ conn'[d].seen = conn[d].seen /\ conn'[d].at = conn[d].at
        /\ conn'[d].again = conn[d].again /\ conn'[d].failed = conn[d].failed /\ ~conn[d].gone
        /\ \A x \in Conn \ {d} : conn'[x] = conn[x]
        /\ slot'[s] = slot[s] \/ (s = Own(d) /\ Current(d) /\ ~slot'[s].idle)
    BY <1>1, <1>4, Answered DEF KeepsSlots, KeepsConns, SameConn
  <2>2. Stepping' = Stepping /\ InRound(s)' = InRound(s) /\ EndingAt(s)' = EndingAt(s)
    BY <2>1 DEF Stepping, InRound, EndingAt, loop, sim
  <2>3. CASE slot[s].ws # c
    BY <2>1, <2>3 DEF TimelyAt, Fresh
  <2>4. CASE c # d /\ slot[s].ws = c
    <3>1. slot'[s] = slot[s]
      <4>1. conn[d].claim = <<conn[d].claim[1], conn[d].claim[2]>> /\ slot[s].claimed
        BY <1>1, <2>1, <2>4 DEF Typed, Owned, InUse, Token
      <4> QED
        BY <1>1, <2>1, <2>4, <4>1 DEF Owned, InUse, Own, Current
    <3> QED
      BY <1>1, <2>1, <2>4, <3>1, Still DEF sim
  <2>5. CASE c = d /\ slot[s].ws = c
    <3>1. Fresh(s, c)' => conn[c].seen = steps /\ ~Stepping /\ ~InRound(s) /\ ~EndingAt(s)
      BY <1>1, <2>1, <2>5 DEF TimelyAt, Fresh, Shown, Stepped, Over
    <3> QED
      BY <2>1, <2>2, <2>5, <3>1 DEF TimelyAt, Acted, Shown, Joining, Stepped, Over, sim
  <2> QED
    BY <2>3, <2>4, <2>5
<1>5. CASE HangUp(d)
  <2>1. /\ UNCHANGED <<slot, batch, loop, simq, shot, steps>>
        /\ conn' = [conn EXCEPT ![d].gone = TRUE]
    BY <1>5 DEF HangUp, slots, sim
  <2>2. /\ conn'[c].at = conn[c].at /\ conn'[c].again = conn[c].again /\ conn'[c].turn = conn[c].turn
        /\ conn'[c].seen = conn[c].seen /\ conn'[c].failed = conn[c].failed
        /\ conn[c].gone => conn'[c].gone
    BY <1>1, <2>1 DEF Typed, ConnRec
  <2> QED
    BY <1>1, <2>1, <2>2
    DEF TimelyAt, Fresh, Acted, Shown, Joining, Stepped, Over, Stepping, InRound, BeingTold, EndingAt, loop
<1>7. CASE Greeted(d)
  <2>1. /\ conn[d].at \in {"greeting", "last"} /\ conn'[d].at = "open"
        /\ UNCHANGED <<batch, loop, sim>> /\ slot'[s].ws = slot[s].ws
        /\ conn'[d].again = conn[d].again /\ conn'[d].failed = conn[d].failed
        /\ conn'[d].gone = conn[d].gone /\ conn'[d].turn = conn[d].turn /\ conn'[d].seen = conn[d].seen
        /\ \A x \in Conn \ {d} : conn'[x] = conn[x]
        /\ slot[s].ws \in Conn \ {d} \/ conn[d].at = "greeting" => slot'[s] = slot[s]
        /\ slot'[s] = slot[s] \/ (slot'[s].idle /\ ~slot'[s].action)
    BY <1>1, <1>7, Welcomed DEF KeepsSlots
  <2>2. Stepping' = Stepping /\ InRound(s)' = InRound(s)
        /\ BeingTold(s, c)' = BeingTold(s, c) /\ EndingAt(s)' = EndingAt(s)
    BY <2>1 DEF Stepping, InRound, BeingTold, EndingAt, loop, sim
  <2>3. CASE slot[s].ws # c
    BY <2>1, <2>3 DEF TimelyAt, Fresh
  <2>4. CASE c # d /\ slot[s].ws = c
    BY <1>1, <2>1, <2>4, Still DEF sim
  <2>5. CASE c = d /\ slot[s].ws = c
    <3>1. Fresh(s, c)' => /\ ~slot[s].action /\ ~InRound(s) /\ ~EndingAt(s) /\ Shown(s, c)
                          /\ conn[c].at = "last" => conn[c].turn = "over"
      BY <1>1, <2>1, <2>5 DEF TimelyAt, Fresh, Acted, Stepped, Over
    <3> QED
      BY <2>1, <2>2, <2>5, <3>1 DEF TimelyAt, Acted, Shown, Joining, Stepped, Over, sim
  <2> QED
    BY <2>3, <2>4, <2>5
<1>6. CASE HandlerEnds(d)
  <2>1. /\ UNCHANGED <<batch, loop, simq, shot, steps>> /\ conn'[d].at = "closed"
        /\ \A x \in Conn \ {d} : conn'[x] = conn[x]
    BY <1>1, <1>6 DEF HandlerEnds, slots, sim, Shut, New, Typed
  <2>2. Fresh(s, c)' => c # d
    BY <2>1 DEF Fresh, OwnInv, Owned, InUse
  <2>3. slot'[s] = slot[s] \/ slot'[s].ws = None
    BY <1>1, <1>6 DEF HandlerEnds, Dropped, Typed, SlotRec
  <2>4. CASE c # d /\ slot'[s] = slot[s]
    BY <1>1, <2>1, <2>4, Still
  <2> QED
    BY <2>2, <2>3, <2>4, NamesAssumption DEF TimelyAt, Fresh
<1> QED
  BY <1>2, <1>3, <1>4, <1>5, <1>6, <1>7 DEF Agent

\* No agent acts on anything but the simulator's present state, and the tick loop
\* shows it that after every step.
LEMMA TimelyStep == BridgeInv /\ OwnInv' /\ [Next]_vars => Timely'
<1> SUFFICES ASSUME BridgeInv, OwnInv', [Next]_vars, NEW s \in Slot, NEW c \in Conn PROVE TimelyAt(s, c)'
  BY DEF Timely
<1>0. Typed /\ TimelyAt(s, c) /\ Owned /\ Queued /\ OwnInv
  BY DEF BridgeInv, OwnInv, Timely
<1>1. CASE SimRuns
  BY <1>1, TimelyServed
<1>2. ASSUME NEW d \in Conn, Agent(d) PROVE TimelyAt(s, c)'
  BY <1>2, TimelyAgent
<1>3. ASSUME NEW l \in Link, GlobalReset(l) \/ (\E k \in issued : Result(l, k)) PROVE TimelyAt(s, c)'
  <2>1. /\ simq' = Append(simq, l) /\ l \in Requester /\ l # Tick /\ l # c
        /\ UNCHANGED <<slot, conn, batch, loop, shot, steps>>
    BY <1>3, NamesAssumption DEF GlobalReset, Result, OnSim, slots, Requester
  <2>2. /\ ToSet(simq') = ToSet(simq) \cup {l}
        /\ \A x, y : x # l /\ Before(simq, x, y) => Before(simq', x, y)
    BY <1>0, <2>1, Queues DEF Typed
  <2>3. Stepping' = Stepping /\ InRound(s)' = InRound(s)
        /\ BeingTold(s, c)' = BeingTold(s, c) /\ EndingAt(s)' = EndingAt(s) /\ tick' = tick
    BY <2>1, <2>2 DEF Stepping, InRound, BeingTold, EndingAt, loop
  <2> QED
    BY <1>0, <2>1, <2>2, <2>3, Untouched
<1>4. ASSUME NEW l \in Link, ResetDone(l) PROVE TimelyAt(s, c)'
  <2>1. slot'[s].ws = None
    BY <1>4 DEF ResetDone, Free, Claimed
  <2> QED
    BY <2>1, NamesAssumption DEF TimelyAt, Fresh
<1>5. ASSUME NEW l \in Link, ClaimSlot(l) \/ ResultDone(l) \/ ControlFails(l) PROVE TimelyAt(s, c)'
  <2>1. UNCHANGED <<conn, batch, loop, simq, shot, steps>>
    BY <1>5 DEF ClaimSlot, ResultDone, ControlFails, sim, slots
  <2>2. slot'[s] = slot[s] \/ slot'[s].ws = None
    <3>1. \/ slot' = slot
          \/ slot' = [slot EXCEPT ![Min(Reclaimable)] = Claimed]
          \/ slot' = [slot EXCEPT ![link[l].claim[2]] = [Free EXCEPT !.used = TRUE]]
      BY <1>5 DEF ClaimSlot, ResultDone, ControlFails, Release, slots
    <3>2. slot'[s] \in {slot[s], Claimed, [Free EXCEPT !.used = TRUE]}
      BY <1>0, <3>1 DEF Typed
    <3> QED
      BY <3>2 DEF Claimed, Free
  <2> QED
    BY <1>0, <2>1, <2>2, Still, NamesAssumption DEF TimelyAt, Fresh
<1>6. CASE Wake \/ AllTold
  BY <1>6, TimelyRound DEF Wake, AllTold, TimedOut
<1>7. CASE Tell \/ Told \/ FanSent
  BY <1>7, TimelyTell, TimelyTold, TimelySent
<1>8. CASE StepDone
  <2>1. /\ UNCHANGED <<slot, conn, batch, acting, stepOf, shot, steps>> /\ Tick \notin ToSet(simq)
        /\ tick = "stepping" /\ tick' = "reading" /\ simq' = Append(simq, Tick)
    BY <1>8 DEF StepDone, OnSim, Done, slots, sim
  <2>2. Tick \in Requester /\ simq \in Seq(Requester)
    BY <1>0 DEF Requester, Typed
  <2>3. ToSet(simq') = ToSet(simq) \cup {Tick}
    BY <2>1, <2>2, Queues
  <2>4. ~Stepping' /\ ~Stepping /\ InRound(s)' = InRound(s) /\ Fresh(s, c)' = Fresh(s, c)
        /\ ~BeingTold(s, c) /\ ~EndingAt(s)'
    BY <2>1 DEF Stepping, InRound, Fresh, BeingTold, EndingAt
  <2> QED
    BY <1>0, <2>1, <2>3, <2>4 DEF TimelyAt, Acted, Shown, Joining, Stepped, Over
<1>11. CASE SimRaises \/ AllFailed \/ AllSent
  <2>1. /\ UNCHANGED <<slot, conn, batch, simq, shot, steps>> /\ tick' \in {"fail", "wait"}
        /\ tick \in {"stepping", "reading", "fan", "fail"} /\ Tick \notin ToSet(simq)
    BY <1>0, <1>11 DEF SimRaises, AllFailed, AllSent, Read, Rest, Done, slots, sim, Queued
  <2>2. ~Stepping' /\ ~Stepping /\ ~InRound(s)' /\ Fresh(s, c)' = Fresh(s, c)
        /\ ~BeingTold(s, c) /\ ~EndingAt(s)'
    BY <2>1 DEF Stepping, InRound, Fresh, BeingTold, EndingAt
  <2> QED
    BY <1>0, <2>1, <2>2 DEF TimelyAt, Acted, Shown, Joining, Stepped, Over
<1>9. CASE FanOut
  BY <1>9, TimelyFan
<1>10. CASE UNCHANGED vars
  BY <1>0, <1>10, Still DEF vars, slots, sim
<1> QED
  BY <1>1, <1>2, <1>3, <1>4, <1>5, <1>6, <1>7, <1>8, <1>9, <1>10, <1>11 DEF Next, TickLoop, Sent, Control

\* Whoever joins after a reset was asked for is served after it.
LEMMA ResetStep == BridgeInv /\ OwnInv' /\ [Next]_vars => ResetFirst'
<1> SUFFICES ASSUME BridgeInv, OwnInv', [Next]_vars,
                    NEW l \in Link, link'[l].at = "resetting", l \in ToSet(simq'),
                    NEW s \in Slot, NEW c \in Conn, slot'[s].ws = c
             PROVE  conn'[c].at = "joining" /\ c \in ToSet(simq') /\ Before(simq', l, c)
  BY DEF ResetFirst
<1>0. Typed /\ Owned /\ Queued /\ OwnInv /\ ResetFirst
  BY DEF BridgeInv, OwnInv
<1>n. l # c /\ l # Tick /\ c # Tick /\ c # None
  BY NamesAssumption
<1>q. ASSUME NEW r \in Requester, r # l, simq' = Append(simq, r)
      PROVE  /\ l \in ToSet(simq) /\ ToSet(simq') = ToSet(simq) \cup {r}
             /\ \A y : Before(simq, l, y) => Before(simq', l, y)
             /\ r \notin ToSet(simq) => Before(simq', l, r)
  <2>1. simq \in Seq(Requester)
    BY <1>0 DEF Typed
  <2> QED
    BY <1>q, <2>1, Queues
\* Nothing comes between a queued reset and those who join behind it.
<1>k. ASSUME link[l].at = "resetting", l \in ToSet(simq), slot[s].ws = c, conn'[c].at = conn[c].at,
             c \in ToSet(simq) => c \in ToSet(simq'), Before(simq, l, c) => Before(simq', l, c)
      PROVE  conn'[c].at = "joining" /\ c \in ToSet(simq') /\ Before(simq', l, c)
  BY <1>0, <1>k DEF ResetFirst
<1>1. CASE SimRuns
  <2>1. simq # <<>> /\ simq' = Tail(simq) /\ UNCHANGED <<slot, conn, link>>
    BY <1>1 DEF SimRuns, slots
  <2>2. /\ ToSet(simq) = ToSet(simq') \cup {Head(simq)}
        /\ \A x, y : Before(simq, x, y) => Before(simq', x, y)
        /\ \A x : Before(simq, x, Head(simq)) => x \notin ToSet(simq)
    BY <1>0, <2>1, Served DEF Typed
  <2>3. link[l].at = "resetting" /\ l \in ToSet(simq) /\ slot[s].ws = c
    BY <2>1, <2>2
  <2>4. conn[c].at = "joining" /\ c \in ToSet(simq) /\ Before(simq, l, c)
    BY <1>0, <2>3 DEF ResetFirst
  <2>5. c # Head(simq)
    BY <2>2, <2>3, <2>4
  <2> QED
    BY <2>1, <2>2, <2>4, <2>5
<1>2. ASSUME NEW m \in Link, GlobalReset(m) PROVE FALSE
  <2>1. slot' = slot /\ ~slot[s].claimed
    BY <1>2 DEF GlobalReset, AllFree, slots
  <2> QED
    BY <1>0, <2>1 DEF Owned
<1>3. ASSUME NEW m \in Link, NEW k \in issued, Result(m, k)
      PROVE  conn'[c].at = "joining" /\ c \in ToSet(simq') /\ Before(simq', l, c)
  <2>1. /\ link' = [link EXCEPT ![m] = [at |-> "scoring", claim |-> k]] /\ simq' = Append(simq, m)
        /\ UNCHANGED <<slot, conn>> /\ m \in Requester
    BY <1>3 DEF Result, OnSim, slots, Requester
  <2>2. l # m /\ link[l].at = "resetting"
    BY <1>0, <2>1 DEF Typed
  <2> QED
    BY <1>k, <1>q, <2>1, <2>2
<1>4. ASSUME NEW m \in Link, ResetDone(m) PROVE FALSE
  <2>1. slot'[s].ws = None
    BY <1>4 DEF ResetDone, Free, Claimed
  <2> QED
    BY <1>n, <2>1
<1>5. ASSUME NEW m \in Link, ClaimSlot(m) \/ ResultDone(m) \/ ControlFails(m)
      PROVE  conn'[c].at = "joining" /\ c \in ToSet(simq') /\ Before(simq', l, c)
  <2>1. UNCHANGED <<conn, simq>> /\ (link'[l] = link[l] \/ link'[l].at = "idle")
    BY <1>0, <1>5 DEF ClaimSlot, ResultDone, ControlFails, sim, Typed
  <2>2. slot'[s] = slot[s] \/ slot'[s].ws = None
    <3>1. \/ slot' = slot
          \/ slot' = [slot EXCEPT ![Min(Reclaimable)] = Claimed]
          \/ slot' = [slot EXCEPT ![link[m].claim[2]] = [Free EXCEPT !.used = TRUE]]
      BY <1>5 DEF ClaimSlot, ResultDone, ControlFails, Release, slots
    <3>2. slot'[s] \in {slot[s], Claimed, [Free EXCEPT !.used = TRUE]}
      BY <1>0, <3>1 DEF Typed
    <3> QED
      BY <3>2 DEF Claimed, Free
  <2> QED
    BY <1>k, <1>n, <2>1, <2>2
<1>6. ASSUME NEW d \in Conn, Join(d)
      PROVE  conn'[c].at = "joining" /\ c \in ToSet(simq') /\ Before(simq', l, c)
  <2>1. /\ conn[d].at = "new" /\ UNCHANGED link /\ \A x \in Conn \ {d} : conn'[x] = conn[x]
        /\ \/ conn'[d].at = "closed" /\ UNCHANGED <<slot, simq>>
           \/ /\ conn'[d].at = "joining" /\ simq' = Append(simq, d)
              /\ slot'[s] = slot[s] \/ slot'[s].ws = d
    BY <1>0, <1>6, Joined
  <2>2. d \in Requester /\ d # l /\ slot[s].ws # d /\ d \notin ToSet(simq)
    BY <1>0, <2>1, NamesAssumption DEF Requester, Owned, InUse, Queued
  <2>3. CASE c = d
    BY <1>q, <2>1, <2>2, <2>3
  <2>4. CASE c # d
    BY <1>k, <1>q, <2>1, <2>2, <2>4
  <2> QED
    BY <2>3, <2>4
<1>7. ASSUME NEW d \in Conn, FirstObservation(d)
      PROVE  conn'[c].at = "joining" /\ c \in ToSet(simq') /\ Before(simq', l, c)
  <2>1. /\ d \notin ToSet(simq) /\ UNCHANGED <<link, simq>> /\ KeepsSlots
        /\ \A x \in Conn \ {d} : conn'[x] = conn[x]
    BY <1>0, <1>7, Observed
  <2>2. slot[s].ws = c /\ link[l].at = "resetting" /\ l \in ToSet(simq)
    BY <2>1 DEF KeepsSlots
  <2>3. c \in ToSet(simq)
    BY <1>0, <2>2 DEF ResetFirst
  <2> QED
    BY <1>k, <2>1, <2>2, <2>3
<1>15. ASSUME NEW d \in Conn, Greeted(d)
      PROVE  conn'[c].at = "joining" /\ c \in ToSet(simq') /\ Before(simq', l, c)
  <2>1. /\ conn[d].at \in {"greeting", "last"} /\ UNCHANGED <<link, simq>> /\ KeepsSlots
        /\ \A x \in Conn \ {d} : conn'[x] = conn[x]
    BY <1>0, <1>15, Welcomed DEF sim
  <2>2. slot[s].ws = c /\ link[l].at = "resetting" /\ l \in ToSet(simq)
    BY <2>1 DEF KeepsSlots
  <2>3. c # d
    BY <1>0, <2>1, <2>2 DEF ResetFirst
  <2> QED
    BY <1>k, <2>1, <2>2, <2>3
<1>8. ASSUME NEW d \in Conn, Act(d) \/ HangUp(d)
      PROVE  conn'[c].at = "joining" /\ c \in ToSet(simq') /\ Before(simq', l, c)
  <2>1. UNCHANGED <<link, simq>> /\ slot'[s].ws = slot[s].ws /\ conn'[c].at = conn[c].at
    <3>1. CASE Act(d)
      BY <1>0, <3>1, Answered DEF KeepsSlots, KeepsConns, SameConn, sim
    <3>2. CASE HangUp(d)
      BY <1>0, <3>2 DEF HangUp, slots, sim, Typed, ConnRec
    <3> QED
      BY <1>8, <3>1, <3>2
  <2> QED
    BY <1>k, <2>1
<1>9. ASSUME NEW d \in Conn, HandlerEnds(d)
      PROVE  conn'[c].at = "joining" /\ c \in ToSet(simq') /\ Before(simq', l, c)
  <2>1. /\ UNCHANGED <<link, simq>> /\ conn'[d].at = "closed" /\ \A x \in Conn \ {d} : conn'[x] = conn[x]
        /\ slot'[s] = slot[s] \/ slot'[s].ws = None
    BY <1>0, <1>9 DEF HandlerEnds, Dropped, Shut, New, sim, Typed, SlotRec
  <2>2. c # d
    BY <2>1 DEF OwnInv, Owned, InUse
  <2> QED
    BY <1>k, <1>n, <2>1, <2>2
<1>10. CASE Wake \/ AllTold
  <2>1. UNCHANGED <<conn, link>> /\ Round
    BY <1>10 DEF Wake, AllTold
  <2>2. KeepsSlots /\ (simq' = simq \/ simq' = Append(simq, Tick)) /\ Tick \in Requester
    BY <1>0, <2>1, RoundTaken DEF Requester
  <2> QED
    BY <1>k, <1>n, <1>q, <2>1, <2>2 DEF KeepsSlots
<1>11. CASE Tell \/ Told
  <2>1. KeepsSlots /\ conn'[c].at = conn[c].at /\ UNCHANGED <<link, simq>>
    BY <1>0, <1>11, TellTaken, ToldTaken DEF KeepsSlots, slots, sim
  <2> QED
    BY <1>k, <2>1 DEF KeepsSlots
<1>12. CASE StepDone \/ SimRaises \/ AllFailed \/ AllSent
  <2>1. UNCHANGED <<slot, conn, link>> /\ (simq' = simq \/ simq' = Append(simq, Tick)) /\ Tick \in Requester
    BY <1>12 DEF StepDone, SimRaises, AllFailed, AllSent, OnSim, slots, sim, Requester
  <2> QED
    BY <1>k, <1>n, <1>q, <2>1
<1>13. CASE FanOut \/ FanSent
  <2>1. KeepsSlots /\ conn'[c].at = conn[c].at /\ UNCHANGED <<link, simq>>
    BY <1>0, <1>13, Fanned, FanRead DEF KeepsConns, SameConn, sim
  <2> QED
    BY <1>k, <2>1 DEF KeepsSlots
<1>14. CASE UNCHANGED vars
  BY <1>k, <1>14 DEF vars, slots, sim
<1> QED
  BY <1>1, <1>2, <1>3, <1>4, <1>5, <1>6, <1>7, <1>8, <1>9, <1>10, <1>11, <1>12, <1>13, <1>14, <1>15
  DEF Next, TickLoop, Sent, Control, Agent

-----------------------------------------------------------------------------
\* Every run of the bridge keeps slots, connections and observations together.
LEMMA BridgeAlways == Spec => []BridgeInv
<1>1. BridgeInv /\ [Next]_vars => BridgeInv'
  BY OwnStep, TimelyStep, ResetStep DEF BridgeInv
<1> QED
  BY <1>1, InitOwn, PTL DEF Spec

\* The connection a slot has claimed it with the token of the slot's present episode
\* (bridge.py:352, _handle_client), for any slots, connections and control links.
THEOREM OwnEpisodeAlways == Spec => []OwnEpisode
<1>1. BridgeInv => OwnEpisode
  BY DEF BridgeInv, OwnInv, Typed, Owned, OwnEpisode, SlotRec
<1> QED
  BY <1>1, BridgeAlways, PTL

\* An action that waits at the barrier answers the present state of the simulator
\* (bridge.py:393, _tick_loop): no step and no reset came between.
THEOREM ActsOnWhatItSawAlways == Spec => []ActsOnWhatItSaw
<1>1. BridgeInv => ActsOnWhatItSaw
  <2> SUFFICES ASSUME BridgeInv, NEW s \in Slot, slot[s].ws # None, slot[s].action
               PROVE  LET c == slot[s].ws IN conn[c].failed \/ conn[c].again \/ conn[c].seen = steps
    BY DEF ActsOnWhatItSaw
  <2>1. slot[s].ws \in Conn
    BY DEF BridgeInv, OwnInv, Typed, SlotRec
  <2> QED
    BY <2>1 DEF BridgeInv, Timely, TimelyAt, Fresh, Acted
<1> QED
  BY <1>1, BridgeAlways, PTL

-----------------------------------------------------------------------------
(* The slot ledger.  The endpoint makes one call at a time on its one control *)
(* link (endpoint.py:139); two links could both find every slot free and reset *)
(* the whole batch, one after the other, the second over the first's claim.    *)

OneLink == \A l, m \in Link : l = m

\* Whoever resets the whole batch still finds it free when the simulator is done.
Batches ==
  /\ batch <= MaxBatch
  /\ \A l \in Link : link[l].at = "resetting" => AllFree /\ batch < MaxBatch

\* Only the control link claims slots and frees them.
LEMMA SlotsKept ==
  ASSUME OwnInv, SimRuns \/ TickLoop \/ Sent \/ (\E c \in Conn : Agent(c)) \/ UNCHANGED vars
  PROVE  /\ UNCHANGED <<batch, issued, link>>
         /\ \A s \in Slot : slot'[s].claimed = slot[s].claimed /\ slot'[s].used = slot[s].used
<1>0. Typed /\ Owned
  BY DEF OwnInv
<1> USE <1>0 DEF slots
<1>1. CASE SimRuns \/ StepDone \/ SimRaises \/ AllFailed \/ AllSent \/ UNCHANGED vars
  BY <1>1 DEF SimRuns, StepDone, SimRaises, AllFailed, AllSent, vars
<1>2. ASSUME NEW c \in Conn, Join(c)
      PROVE  /\ UNCHANGED <<batch, issued, link>>
             /\ \A s \in Slot : slot'[s].claimed = slot[s].claimed /\ slot'[s].used = slot[s].used
  <2>1. UNCHANGED <<batch, issued, link>>
    BY <1>2 DEF Join
  <2>2. \/ slot' = slot
        \/ \E t \in Slot : /\ slot[t].claimed /\ slot'[t].claimed /\ slot'[t].used = slot[t].used
                           /\ \A s \in Slot \ {t} : slot'[s] = slot[s]
    BY <1>2, Joined
  <2>3. CASE slot' = slot
    BY <2>1, <2>3
  <2>4. ASSUME NEW t \in Slot, slot[t].claimed, slot'[t].claimed, slot'[t].used = slot[t].used,
               \A s \in Slot \ {t} : slot'[s] = slot[s]
        PROVE  \A s \in Slot : slot'[s].claimed = slot[s].claimed /\ slot'[s].used = slot[s].used
    <3>1. slot[t].claimed \in BOOLEAN
      BY DEF Typed, SlotRec
    <3>2. slot'[t].claimed \in BOOLEAN
      <4>1. Typed'
        BY <1>2, TypedStep DEF Next, Agent
      <4> QED
        BY <4>1 DEF Typed, SlotRec
    <3> QED
      BY <2>4, <3>1, <3>2
  <2> QED
    BY <2>1, <2>2, <2>3, <2>4
<1>3. ASSUME NEW c \in Conn, FirstObservation(c) \/ Greeted(c) \/ Act(c)
      PROVE  KeepsSlots /\ UNCHANGED <<batch, issued, link>>
  BY <1>3, Observed, Welcomed, Answered
<1>4. ASSUME NEW c \in Conn, HangUp(c) PROVE slot' = slot /\ UNCHANGED <<batch, issued, link>>
  BY <1>4 DEF HangUp
<1>5. ASSUME NEW c \in Conn, HandlerEnds(c)
      PROVE  /\ UNCHANGED <<batch, issued, link>>
             /\ \A s \in Slot : slot'[s].claimed = slot[s].claimed /\ slot'[s].used = slot[s].used
  <2>1. /\ UNCHANGED <<batch, issued, link>>
        /\ slot' = slot \/ slot' = [slot EXCEPT ![Own(c)] = Dropped(Own(c))]
    BY <1>5 DEF HandlerEnds
  <2>2. ASSUME NEW s \in Slot
        PROVE  slot'[s].claimed = slot[s].claimed /\ slot'[s].used = slot[s].used
    <3>1. slot'[s] = slot[s] \/ slot'[s] = Dropped(s)
      BY <2>1 DEF Typed
    <3>2. slot[s] \in SlotRec
      BY DEF Typed
    <3>3. Dropped(s).claimed = slot[s].claimed /\ Dropped(s).used = slot[s].used
      BY <3>2 DEF Dropped, SlotRec
    <3> QED
      BY <3>1, <3>3
  <2> QED
    BY <2>1, <2>2
<1>6. CASE Wake \/ AllTold
  <2>1. Round /\ UNCHANGED <<batch, issued, link>>
    BY <1>6 DEF Wake, AllTold
  <2> QED
    BY <2>1, RoundTaken DEF KeepsSlots
<1>7. CASE Tell \/ Told
  BY <1>7, TellTaken, ToldTaken DEF KeepsSlots
<1>8. CASE FanOut \/ FanSent
  BY <1>8, Fanned, FanRead DEF KeepsSlots
<1> QED
  BY <1>1, <1>2, <1>3, <1>4, <1>5, <1>6, <1>7, <1>8 DEF TickLoop, Sent, Agent, KeepsSlots

\* The slots are finitely many, and a free one leaves the batch unfilled.
LEMMA SlotsCounted ==
  /\ IsFiniteSet(UsedUp) /\ Cardinality(UsedUp) \in Nat
  /\ \A s \in Slot : s \notin UsedUp =>
       Cardinality(UsedUp) < NumEnvs /\ Cardinality(UsedUp \cup {s}) = Cardinality(UsedUp) + 1
<1>1. IsFiniteSet(Slot) /\ Cardinality(Slot) = NumEnvs
  BY NumEnvsAssumption, FS_Interval DEF Slot
<1>2. UsedUp \in SUBSET Slot
  BY DEF UsedUp
<1>3. IsFiniteSet(UsedUp) /\ Cardinality(UsedUp) \in Nat
  BY <1>1, <1>2, FS_Subset, FS_CardinalityType
<1>4. ASSUME NEW s \in Slot, s \notin UsedUp
      PROVE  Cardinality(UsedUp) < NumEnvs /\ Cardinality(UsedUp \cup {s}) = Cardinality(UsedUp) + 1
  <2>1. Cardinality(UsedUp \cup {s}) = Cardinality(UsedUp) + 1
    BY <1>3, <1>4, FS_AddElement
  <2>2. UsedUp \cup {s} \in SUBSET Slot
    BY <1>2
  <2>3. Cardinality(UsedUp \cup {s}) <= NumEnvs
    BY <1>1, <2>2, FS_Subset
  <2> QED
    BY <1>3, <2>1, <2>3, NumEnvsAssumption
<1> QED
  BY <1>3, <1>4

\* Nobody claims a slot or frees one while the whole batch is being reset.
LEMMA BatchesStep ==
  ASSUME OneLink, OwnInv, Batches, [Next]_vars
  PROVE  Batches'
<1>0. Typed /\ batch \in Nat /\ MaxBatch \in Nat
  BY BoundsAssumption DEF OwnInv, Typed
<1> USE <1>0
<1>1. CASE SimRuns \/ TickLoop \/ Sent \/ (\E c \in Conn : Agent(c)) \/ UNCHANGED vars
  BY <1>1, SlotsKept DEF Batches, AllFree
<1>2. ASSUME NEW l \in Link, GlobalReset(l) PROVE Batches'
  <2>1. link[l].at = "idle" /\ AllFree /\ batch + Cardinality(Resetting) < MaxBatch
        /\ UNCHANGED <<slot, batch>>
    BY <1>2 DEF GlobalReset, slots
  <2>2. Resetting = {}
    BY <2>1 DEF Resetting, OneLink
  <2>3. batch < MaxBatch
    BY <2>1, <2>2, FS_EmptySet
  <2> QED
    BY <2>1, <2>3 DEF Batches, AllFree
<1>3. ASSUME NEW l \in Link, ResetDone(l) PROVE Batches'
  <2>1. batch' = batch + 1 /\ batch < MaxBatch /\ link' = [link EXCEPT ![l].at = "idle"]
    BY <1>3 DEF ResetDone, Batches
  <2>2. \A m \in Link : link'[m].at = "idle"
    BY <2>1 DEF OneLink, Typed
  <2> QED
    BY <2>1, <2>2 DEF Batches
<1>4. ASSUME NEW l \in Link, ClaimSlot(l) PROVE Batches'
  <2>1. \A m \in Link : link'[m].at = "idle"
    BY <1>4 DEF ClaimSlot, OneLink
  <2> QED
    BY <1>4, <2>1 DEF ClaimSlot, Batches
<1>5. ASSUME NEW l \in Link, ResultDone(l) \/ ControlFails(l) \/ \E k \in issued : Result(l, k)
      PROVE  Batches'
  <2>1. batch' = batch /\ link'[l].at \in {"idle", "scoring"}
    BY <1>5 DEF ResultDone, ControlFails, Result, slots, Typed
  <2>2. \A m \in Link : link'[m].at # "resetting"
    BY <2>1 DEF OneLink
  <2> QED
    BY <2>1, <2>2 DEF Batches
<1> QED
  BY <1>1, <1>2, <1>3, <1>4, <1>5 DEF Next, Control

\* Every step of the bridge begins a batch, joins it, frees a slot or does none of these.
LEMMA BookStep ==
  ASSUME OneLink, OwnInv, Batches, [Next]_vars
  PROVE  [SlotBook!Next]_SlotBook!vars
<1>0. Typed /\ Tokens /\ Queued /\ batch \in Nat /\ MaxBatch \in Nat /\ NumEnvs \in Nat
  BY BoundsAssumption, NumEnvsAssumption DEF OwnInv, Typed
<1> USE <1>0
<1>s. 1 \in Slot /\ Slot \subseteq 0..NumEnvs
  BY NumEnvsAssumption DEF Slot
<1>c. \A s \in Slot : <<batch, s>> \in Claims
  <2>1. batch \in 0..MaxBatch
    BY DEF Batches
  <2> QED
    BY <1>s, <2>1 DEF Claims
<1>1. ASSUME UNCHANGED issued, Ongoing' = Ongoing, UsedUp' = UsedUp
      PROVE  UNCHANGED SlotBook!vars
  BY <1>1 DEF SlotBook!vars
<1>2. CASE SimRuns \/ TickLoop \/ Sent \/ (\E c \in Conn : Agent(c)) \/ UNCHANGED vars
  <2>1. Ongoing' = Ongoing /\ UsedUp' = UsedUp /\ UNCHANGED issued
    BY <1>2, SlotsKept DEF Ongoing, UsedUp
  <2> QED
    BY <1>1, <2>1
<1>3. ASSUME NEW l \in Link, ResetDone(l) PROVE SlotBook!Next
  <2> DEFINE t == <<batch + 1, 1>>
  <2>1. /\ slot' = [s \in Slot |-> IF s = 1 THEN Claimed ELSE Free] /\ batch' = batch + 1
        /\ issued' = issued \cup {t} /\ AllFree /\ batch < MaxBatch
    BY <1>3 DEF ResetDone, Batches
  <2>2. Ongoing = {} /\ t \notin issued
    BY <2>1 DEF AllFree, Ongoing, Tokens
  <2>3. t \in Claims
    BY <1>s, <2>1 DEF Claims
  <2>4. Ongoing' = {t}
    BY <1>s, <2>1 DEF Ongoing, Claimed, Free
  <2>5. UsedUp' = {1}
    BY <1>s, <2>1 DEF UsedUp, Claimed, Free
  <2>6. Cardinality(UsedUp)' = 1
    BY <2>5, FS_Singleton
  <2> HIDE DEF t
  <2>7. SlotBook!Begin(t)
    BY <2>1, <2>2, <2>4, <2>6 DEF SlotBook!Begin
  <2> QED
    BY <2>3, <2>7 DEF SlotBook!Next
<1>4. ASSUME NEW l \in Link, ClaimSlot(l) PROVE SlotBook!Next
  <2> DEFINE m == Min(Reclaimable)
             t == <<batch, m>>
  <2>1. m \in Slot /\ ~slot[m].claimed /\ ~slot[m].used
    BY <1>4, FirstFree DEF ClaimSlot, Reclaimable
  <2>2. /\ ~AllFree /\ slot' = [slot EXCEPT ![m] = Claimed] /\ issued' = issued \cup {t}
        /\ batch' = batch
    BY <1>4 DEF ClaimSlot
  <2> HIDE DEF m
  <2>3. /\ slot'[m].claimed /\ slot'[m].used
        /\ \A s \in Slot \ {m} : slot'[s] = slot[s]
    BY <2>1, <2>2 DEF Typed, Claimed, Free
  <2>4. Ongoing # {} /\ Ongoing' = Ongoing \cup {t}
    BY <2>1, <2>2, <2>3 DEF Ongoing, AllFree
  <2>5. t \notin issued
    BY <2>1 DEF Tokens
  <2>6. UsedUp' = UsedUp \cup {m} /\ m \notin UsedUp
    BY <2>1, <2>3 DEF UsedUp
  <2>7. Cardinality(UsedUp) < NumEnvs /\ Cardinality(UsedUp)' = Cardinality(UsedUp) + 1
    BY <2>1, <2>6, SlotsCounted
  <2>8. t \in Claims
    BY <1>c, <2>1
  <2> HIDE DEF t
  <2>9. SlotBook!Join(t)
    BY <2>2, <2>4, <2>5, <2>7 DEF SlotBook!Join
  <2> QED
    BY <2>8, <2>9 DEF SlotBook!Next
<1>5. ASSUME NEW l \in Link, ResultDone(l) PROVE [SlotBook!Next]_SlotBook!vars
  <2> DEFINE k == link[l].claim
  <2>1. UNCHANGED <<batch, issued>>
    BY <1>5 DEF ResultDone
  <2>2. CASE slot' = slot
    BY <1>1, <2>1, <2>2 DEF Ongoing, UsedUp
  <2>3. CASE slot' # slot
    <3>1. slot' = [slot EXCEPT ![k[2]] = [Free EXCEPT !.used = TRUE]] /\ k \in issued /\ k[1] = batch
      BY <1>5, <2>3 DEF ResultDone, Release, Queued
    <3>2. k[2] \in Slot /\ k = <<batch, k[2]>> /\ slot[k[2]].used
      BY <3>1 DEF Typed, Token, Tokens
    <3>3. /\ slot'[k[2]].used /\ ~slot'[k[2]].claimed
          /\ \A s \in Slot \ {k[2]} : slot'[s] = slot[s]
      BY <3>1, <3>2 DEF Typed, Free
    <3>4. UsedUp' = UsedUp
      BY <3>2, <3>3 DEF UsedUp
    <3>5. Ongoing' = Ongoing \ {k}
      BY <2>1, <3>2, <3>3 DEF Ongoing
    <3>6. k \in Claims
      BY <1>c, <3>2
    <3> HIDE DEF k
    <3>7. CASE k \in Ongoing
      <4>1. SlotBook!Free(k)
        BY <2>1, <3>4, <3>5, <3>7 DEF SlotBook!Free
      <4> QED
        BY <3>6, <4>1 DEF SlotBook!Next
    <3>8. CASE k \notin Ongoing
      BY <1>1, <2>1, <3>4, <3>5, <3>8
    <3> QED
      BY <3>7, <3>8
  <2> QED
    BY <2>2, <2>3
<1>6. ASSUME NEW l \in Link, GlobalReset(l) \/ ControlFails(l) \/ \E k \in issued : Result(l, k)
      PROVE  UNCHANGED SlotBook!vars
  <2>1. UNCHANGED <<slot, batch, issued>>
    BY <1>6 DEF GlobalReset, ControlFails, Result, slots
  <2> QED
    BY <1>1, <2>1 DEF Ongoing, UsedUp
<1> QED
  BY <1>2, <1>3, <1>4, <1>5, <1>6 DEF Next, Control

\* The registry keeps the ledger of slots (bridge.py:77, bridge.py:182): for any number of
\* slots, agents and resets on one control link, tokens are given and freed once, and
\* a freed slot waits for the rest of its batch.
THEOREM ImplementsSlotBookAlways == ASSUME OneLink PROVE Spec => ImplementsSlotBook
<1>1. Init => Batches
  BY BoundsAssumption DEF Init, Batches
<1>2. OwnInv /\ Batches /\ [Next]_vars => Batches'
  BY BatchesStep
<1>3. BridgeInv => OwnInv
  BY DEF BridgeInv
<1>4. Spec => []Batches
  BY <1>1, <1>2, <1>3, BridgeAlways, PTL DEF Spec
<1>5. Init => SlotBook!Init
  <2> SUFFICES ASSUME Init PROVE SlotBook!Init
    OBVIOUS
  <2>1. Ongoing = {} /\ UsedUp = {} /\ issued = {}
    BY DEF Init, Ongoing, UsedUp, Free
  <2> QED
    BY <2>1, FS_EmptySet DEF SlotBook!Init
<1>6. OwnInv /\ Batches /\ [Next]_vars => [SlotBook!Next]_SlotBook!vars
  BY BookStep
<1> QED
  BY <1>3, <1>4, <1>5, <1>6, BridgeAlways, PTL DEF Spec, ImplementsSlotBook, SlotBook!Spec

=============================================================================
